------------------------------ MODULE GemmSoc ------------------------------
(* The accelerated product in place: the driver on the CPU, the IO bus       *)
(* register stage, the accelerator, the crossbar and the block RAM, with     *)
(* other bus masters reading and writing the memory meanwhile.               *)
EXTENDS GemmCfs, GemmDriver, BusReg, MemoryCrossbar, WideBram

CONSTANTS
  Jobs,       \* calls of gemmrv_mult: A, B, C and the memory image before
  Disturbed,  \* calls during which other masters use the memory and resets happen
  OtherReqs,  \* requests other masters issue on the crossbar's CPU port
  MaxResets   \* bound on the number of system resets

ASSUME OtherAssumption == OtherReqs \subseteq {r \in CpuReq : r.stb = 1}
ASSUME ResetsAssumption == MaxResets \in Nat

\* The bounds register has a byte for the extent of a tile.
ASSUME TileAssumption == LANES < 256
ASSUME JobsAssumption ==
  LET Matrix == [data : Nat, rows : Nat, cols : Nat, stride : Nat]
  IN Jobs \subseteq [A : Matrix, B : Matrix, C : Matrix, image : [MemIndex -> Row]]

VARIABLES
  cpu_req,    \* the crossbar's CPU port
  resets      \* system resets so far

vars == <<cfsVars, driverVars, busRegVars, xbarVars, bramVars, cpu_req, resets>>

MemPort == mem_req(cpu_req, dma_req)
DmaRsp  == dma_rsp(mem_ack, mem_rdata)

\* Strobes of the other masters: single-shot, never in two cycles in a row.
OtherTick ==
  \/ cpu_req' = [cpu_req EXCEPT !.stb = 0]
  \/ job \in Disturbed /\ cpu_req.stb = 0 /\ cpu_req' \in OtherReqs

Init ==
  /\ CfsInit /\ DriverInit(Jobs) /\ BusRegInit /\ XbarInit
  /\ mem = job.image /\ mem_rdata = ZeroRow /\ mem_ack = 0
  /\ cpu_req = CpuReqIdle
  /\ resets = 0

Tick ==
  /\ DriverTick(dev_rsp)
  /\ BusRegTick(io_req, cfs_rsp)
  /\ CfsTick(dev_req, DmaRsp)
  /\ XbarTick(cpu_req, dma_req)
  /\ BramTick(MemPort)
  /\ OtherTick
  /\ UNCHANGED resets

\* A system reset at any moment; the program starts over and calls gemmrv_mult
\* again.  The memory keeps what was stored so far.
Reset ==
  /\ job \in Disturbed /\ resets < MaxResets /\ resets' = resets + 1
  /\ CfsReset
  /\ DriverRestart
  /\ dev_req' = [adr |-> 0, data |-> 0, rw |-> 0, stb |-> 0]
  /\ dev_rsp' = [ack |-> 0, data |-> 0]
  /\ arb_state' = "ARB_IDLE" /\ cpu_word_sel' = 0
  /\ mem_ack' = 0 /\ UNCHANGED <<mem, mem_rdata>>
  /\ cpu_req' = CpuReqIdle

Next == Tick \/ Reset
Spec == Init /\ [][Next]_vars

\* The clock runs and the program is executed.
Fairness == WF_vars(Tick) /\ WF_vars(Tick /\ DriverAccess)
FairSpec == Spec /\ Fairness

-----------------------------------------------------------------------------
(* Properties. *)

ByteOf(image, a) == ByteAt(image[a \div RowBytes], a % RowBytes)
WordAt(image, a) == SumOf([b \in ByteSel |-> ByteOf(image, a + b) * Weight[b]], WORD_BYTES)

\* What the call multiplies: its operands in the memory before the call.
OperandA(r, x) == Signed(ByteOf(job.image, job.A.data + r * job.A.stride + x))
OperandB(x, c) == Signed(ByteOf(job.image, job.B.data + x * job.B.stride + c))

\* Row r of A times column c of B over the first lim columns of A, in 32 bits:
\* the triple loop the demos compare with.
Terms(r, c) == [x \in 0..DimK - 1 |-> OperandA(r, x) * OperandB(x, c)]
Product(r, c, lim) == SumOf(Terms(r, c), lim) % WordMod

ElemC(r, c) == job.C.data + (r * job.C.stride + c) * WORD_BYTES

\* gemmrv_mult computes C = A * B: when it returns, every element of C holds
\* the 32-bit product, for sizes that are no multiple of the tile (rows beyond
\* tile_M and tile_K masked, columns beyond K and N garbage), accumulated over
\* the tiles of K in the engine's buf_C.
ResultCorrect ==
  finished => \A r \in 0..DimM - 1, c \in 0..DimN - 1 :
                WordAt(mem, ElemC(r, c)) = Product(r, c, DimK)

\* The bytes a call may change: the array of C, its rows up to the tile's width.
TiledN    == ((DimN + TILE - 1) \div TILE) * TILE
ArrayOf(call) == call.C.data..call.C.data + call.A.rows * call.C.stride * WORD_BYTES - 1
ArrayC    == ArrayOf(job)
Footprint ==
  ArrayC \cap
  {ElemC(r, c) + b : r \in 0..DimM - 1, c \in 0..TiledN - 1, b \in ByteSel}
WrittenDuring(call) ==
  IF call \in Disturbed
  THEN UNION {r.row * RowBytes .. r.row * RowBytes + RowBytes - 1 : r \in {q \in OtherReqs : q.rw = 1}}
  ELSE {}
OtherBytes == WrittenDuring(job)

\* What the header asks of C: whole words, a stride of whole tiles wide enough
\* for the columns; and an array in the memory that the stride's register can
\* step over.
WellFormed(call) ==
  /\ call.C.data % WORD_BYTES = 0
  /\ call.C.stride % TILE = 0 /\ call.B.cols <= call.C.stride
  /\ call.C.stride < STRIDE_MOD
  /\ call.C.data + call.A.rows * call.C.stride * WORD_BYTES <= AddrMod

\* And where a product needs its matrices: in the memory, A and B clear of what
\* is written meanwhile, C of what others write; and nothing of a matrix row
\* that belongs to one tile beyond the end of a row of the memory, for the
\* engine makes one access of it.
Tiles(total)     == {t \in 0..total - 1 : t % TILE = 0}
OneRow(a, bytes) == (a % RowBytes) + bytes <= RowBytes
Clear(call, a)   == a < NUM_WORDS * RowBytes /\ a \notin ArrayOf(call) \cup WrittenDuring(call)

Placed(call) ==
  LET rows  == 0..call.A.rows - 1
      inner == 0..call.A.cols - 1
      cols  == 0..call.B.cols - 1
  IN /\ rows # {} /\ inner # {} /\ cols # {}
     /\ call.A.stride < STRIDE_MOD /\ call.B.stride < STRIDE_MOD
     /\ \A r \in rows, x \in inner : Clear(call, call.A.data + r * call.A.stride + x)
     /\ \A x \in inner, c \in cols : Clear(call, call.B.data + x * call.B.stride + c)
     /\ \A r \in rows, t \in Tiles(call.A.cols) :
          OneRow(call.A.data + r * call.A.stride + t, TileExtent(call.A.cols, t))
     /\ \A x \in inner, t \in Tiles(call.B.cols) :
          OneRow(call.B.data + x * call.B.stride + t, TileExtent(call.B.cols, t))
     /\ \A r \in rows, t \in Tiles(call.B.cols) :
          OneRow(call.C.data + (r * call.C.stride + t) * WORD_BYTES,
                 TileExtent(call.B.cols, t) * WORD_BYTES)
     /\ ArrayOf(call) \subseteq (0..NUM_WORDS * RowBytes - 1) \ WrittenDuring(call)

\* Nothing outside the array of C changes, at any time: masked rows are not
\* stored, a write executed twice by the held strobe does no harm.
FrameIntact ==
  \A a \in (0..NUM_WORDS * RowBytes - 1) \ (Footprint \cup OtherBytes) :
    ByteOf(mem, a) = ByteOf(job.image, a)

\* When the engine reports done, its accumulators hold the sum over the tiles
\* of K so far: cleared on the first, kept between the others although the
\* engine went idle and the registers were rewritten in between.
AccumulatorsPartial ==
  state = "S_DONE" =>
    \A r \in 0..TileExtent(DimM, m) - 1, c \in 0..TileExtent(DimN, n) - 1 :
      buf_C[r][c] = Product(m + r, n + c, k + TileExtent(DimK, k))

\* The registers are not shadowed: the engine reads them for every row, so
\* nothing but a system reset may change them while it runs.
RegsStableWhileBusy ==
  [][resets' = resets /\ state \notin {"S_IDLE", "S_DONE"} => UNCHANGED <<reg, cmd>>]_vars

\* The two-way handshake over the pipelined IO bus: the engine starts only for
\* the driver's start write, the driver leaves the first poll only when the
\* engine is done with this tile, and the second only when it is idle again,
\* so the next start write finds it ready.
Handshake ==
  [][resets' = resets =>
     /\ (state = "S_IDLE" /\ state' # "S_IDLE" => pc \in {8, 9})
     /\ (pc = 9 /\ pc' = 10 => state = "S_DONE")
     /\ (pc = 11 /\ pc' # 11 => state = "S_IDLE")]_vars

\* The accelerator obeys the protocol the memory subsystem relies on: the
\* request is held unchanged until it is acknowledged, then the strobe is low
\* for at least one clock, the one in which the stale acknowledge arrives.
DmaPortProtocol ==
  [][resets' = resets /\ dma_req.stb = 1 =>
       IF DmaRsp.ack = 0 THEN UNCHANGED dma_req ELSE dma_req'.stb = 0]_vars

\* gemmrv_mult returns.
Terminates == <>finished
=============================================================================
