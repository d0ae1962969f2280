------------------------------ MODULE GemmCfs ------------------------------
(* neorv32_cfs: the GEMM accelerator.  A register file written over the IO   *)
(* bus (first process of the code) and an engine (second process) that       *)
(* fetches a tile of A and of B row by row over the 256-bit DMA port,        *)
(* multiplies, accumulates into buf_C and stores buf_C.  Both processes act  *)
(* on every rising clock edge.                                               *)
(*                                                                           *)
(* The tile is LANES x LANES (8 x 8).  Integers keep their width: a byte is  *)
(* 0..BYTE_MOD-1 (256), an accumulator 0..WordMod-1 (2^32), both in two's    *)
(* complement; addresses are kept modulo the span of the memory's index,     *)
(* which is all the memory looks at.                                         *)
EXTENDS DmemTypes, Sums

CONSTANTS
  BYTE_MOD,    \* number of byte values (256)
  PerfValue    \* what reading a performance counter can return

ASSUME ByteModAssumption ==
  /\ BYTE_MOD \in Nat /\ BYTE_MOD >= 2 /\ BYTE_MOD % 2 = 0
  /\ Byte = 0..BYTE_MOD - 1
  /\ PerfValue \subseteq Nat

VARIABLES
  reg,          \* reg_base_a..c, reg_stride_a..c, reg_bounds
  cmd,          \* cmd_start, cmd_clear, cmd_store
  cfs_rsp,      \* rsp_ack_o, rsp_data_o
  status_done,
  state,
  row_cnt,
  k_cnt,
  buf_A, buf_B, \* fetched tiles, signed bytes
  buf_C,        \* accumulators
  sum_reg,      \* running dot products of one row
  dma_req       \* dma_req_* registers; the address is kept as its row

regVars    == <<reg, cmd, cfs_rsp>>
engineVars == <<status_done, state, row_cnt, k_cnt, buf_A, buf_B, buf_C, sum_reg, dma_req>>
cfsVars    == <<regVars, engineVars>>

Idx       == 0..LANES - 1                   \* row, column and k counters
RowBytes  == LANES * WORD_BYTES
AddrMod   == INDEX_ROWS * RowBytes
Weight    == Power(BYTE_MOD)                 \* Weight[b] is what a one in byte b is worth
WordMod   == Weight[WORD_BYTES]
SByte     == -(BYTE_MOD \div 2)..(BYTE_MOD \div 2) - 1
Accu      == 0..WordMod - 1
STRIDE_MOD == 65536

state_t == {"S_IDLE", "S_FETCH_A", "S_FETCH_A_WAIT", "S_FETCH_B", "S_FETCH_B_WAIT",
            "S_COMP_INIT", "S_COMP_ROW_INIT", "S_COMP_MAC", "S_COMP_ACCUM",
            "S_STORE_C", "S_STORE_C_WAIT", "S_DONE"}

RegFile == [base_a : 0..AddrMod - 1, base_b : 0..AddrMod - 1, base_c : 0..AddrMod - 1,
            stride_a : 0..STRIDE_MOD - 1, stride_b : 0..STRIDE_MOD - 1,
            stride_c : 0..STRIDE_MOD - 1, bounds : Nat]

ZeroTile == [r \in Idx |-> [c \in Idx |-> 0]]

CfsTypeOK ==
  /\ reg \in RegFile
  /\ cmd \in [start : Bit, clear : Bit, store : Bit]
  /\ cfs_rsp \in [ack : Bit, data : Nat]
  /\ status_done \in Bit
  /\ state \in state_t
  /\ row_cnt \in Idx /\ k_cnt \in Idx
  /\ buf_A \in [Idx -> [Idx -> SByte]] /\ buf_B \in [Idx -> [Idx -> SByte]]
  /\ buf_C \in [Idx -> [Idx -> Accu]]
  /\ sum_reg \in [Idx -> Accu]
  /\ dma_req \in MemReq

CfsInit ==
  /\ reg = [base_a |-> 0, base_b |-> 0, base_c |-> 0,
            stride_a |-> 0, stride_b |-> 0, stride_c |-> 0, bounds |-> 0]
  /\ cmd = [start |-> 0, clear |-> 0, store |-> 0]
  /\ cfs_rsp = [ack |-> 0, data |-> 0]
  /\ status_done = 0
  /\ state = "S_IDLE"
  /\ row_cnt = 0 /\ k_cnt = 0
  /\ buf_A = ZeroTile /\ buf_B = ZeroTile /\ buf_C = ZeroTile
  /\ sum_reg = [j \in Idx |-> 0]
  /\ dma_req = MemReqIdle

\* rstn_i: the registers, the control signals and buf_C are reset; the
\* counters, the fetched tiles, the dot products and the rest of the DMA
\* request keep what they held.
CfsReset ==
  /\ reg' = [base_a |-> 0, base_b |-> 0, base_c |-> 0,
             stride_a |-> 0, stride_b |-> 0, stride_c |-> 0, bounds |-> 0]
  /\ cmd' = [start |-> 0, clear |-> 0, store |-> 0]
  /\ cfs_rsp' = [ack |-> 0, data |-> 0]
  /\ status_done' = 0
  /\ state' = "S_IDLE"
  /\ buf_C' = ZeroTile
  /\ dma_req' = [dma_req EXCEPT !.stb = 0]
  /\ UNCHANGED <<row_cnt, k_cnt, buf_A, buf_B, sum_reg>>

-----------------------------------------------------------------------------
(* First process: the register file.  req is the IO bus request: stb, rw,    *)
(* the word address adr (bits 4..2) and data.                                *)

DataBit(data, weight) == (data \div weight) % 2

WriteReg(req) ==
  /\ req.stb = 1 /\ req.rw = 1
  /\ reg' = CASE req.adr = 0 -> [reg EXCEPT !.base_a = req.data % AddrMod]
              [] req.adr = 1 -> [reg EXCEPT !.base_b = req.data % AddrMod]
              [] req.adr = 2 -> [reg EXCEPT !.base_c = req.data % AddrMod]
              [] req.adr = 3 -> [reg EXCEPT !.stride_a = req.data % STRIDE_MOD]
              [] req.adr = 4 -> [reg EXCEPT !.stride_b = req.data % STRIDE_MOD]
              [] req.adr = 5 -> [reg EXCEPT !.stride_c = req.data % STRIDE_MOD]
              [] req.adr = 7 -> [reg EXCEPT !.bounds = req.data]
              [] OTHER       -> reg
  /\ cmd' = IF req.adr # 6 THEN cmd
            ELSE [start |-> DataBit(req.data, 1),
                  clear |-> DataBit(req.data, 2),
                  store |-> DataBit(req.data, 4)]
  /\ cfs_rsp' = [ack |-> 1, data |-> 0]

\* The performance counters are driven by both processes: a read returns a
\* value nothing in the code determines.
ReadReg(req) ==
  /\ req.stb = 1 /\ req.rw = 0
  /\ \E perf \in PerfValue :
       cfs_rsp' = [ack |-> 1, data |-> CASE req.adr = 6    -> 4 * status_done
                                         [] req.adr \in 0..3 -> perf
                                         [] OTHER          -> 0]
  /\ UNCHANGED <<reg, cmd>>

NoAccess(req) ==
  /\ req.stb = 0
  /\ cfs_rsp' = [ack |-> 0, data |-> 0]
  /\ UNCHANGED <<reg, cmd>>

RegTick(req) == WriteReg(req) \/ ReadReg(req) \/ NoAccess(req)

-----------------------------------------------------------------------------
(* Second process: the engine.  rsp is the DMA port's response.  The bounds  *)
(* register holds tile_M, tile_K and tile_N in its low three bytes; the      *)
(* engine never looks at tile_N.                                             *)

tile_M == (reg.bounds \div 65536) % 256
tile_K == (reg.bounds \div 256) % 256

\* The byte address of a row of a tile, the row and the offset in it.
AddrA == (reg.base_a + row_cnt * reg.stride_a) % AddrMod
AddrB == (reg.base_b + row_cnt * reg.stride_b) % AddrMod
AddrC == (reg.base_c + row_cnt * reg.stride_c * WORD_BYTES) % AddrMod

RowOf(addr)    == addr \div RowBytes
OffsetOf(addr) == addr % RowBytes

Signed(b)  == IF b < BYTE_MOD \div 2 THEN b ELSE b - BYTE_MOD
WordOf(v)  == [b \in ByteSel |-> (v \div Weight[b]) % BYTE_MOD]
ByteAt(rdata, i) == rdata[i \div WORD_BYTES][i % WORD_BYTES]

\* LANES bytes of the row from the offset on; bytes beyond the row are zero.
Extract(rdata, offset) ==
  [c \in Idx |-> IF offset + c < RowBytes THEN Signed(ByteAt(rdata, offset + c)) ELSE 0]
ZeroBytes == [c \in Idx |-> 0]

\* A row of buf_C, shifted to the lane of its address; lanes beyond the row
\* are dropped.
StoreData(row, lane) ==
  [l \in Lane |-> IF l >= lane THEN WordOf(buf_C[row][l - lane]) ELSE ZeroWord]
StoreBE(lane) == [l \in Lane |-> IF l >= lane THEN ByteSel ELSE {}]

ReadRequest(addr) ==
  [row |-> RowOf(addr), wdata |-> dma_req.wdata, be |-> [l \in Lane |-> ByteSel],
   rw |-> 0, stb |-> 1]

\* dma_req_stb is low after every edge that does not raise or hold it.
DropStrobe == dma_req' = [dma_req EXCEPT !.stb = 0]
\* Mutants: the strobe is not held; the last row is one too late.
HoldNothing == dma_req' = [dma_req EXCEPT !.stb = 0]
LastRowLate == row_cnt = LANES
HoldStrobe == dma_req' = [dma_req EXCEPT !.stb = 1]
LastRow    == row_cnt = LANES - 1

\* Next row of the current phase, or the first row of the next phase.
NextRow(this, next) ==
  IF LastRow THEN row_cnt' = 0 /\ state' = next
  ELSE row_cnt' = row_cnt + 1 /\ state' = this

\* Mutant: a start always clears the accumulators.
IdleAlwaysClear ==
  /\ state = "S_IDLE" /\ DropStrobe
  /\ IF cmd.start = 1
     THEN buf_C' = ZeroTile /\ row_cnt' = 0 /\ state' = "S_FETCH_A" /\ status_done' = 0
     ELSE UNCHANGED <<buf_C, row_cnt, state, status_done>>
  /\ UNCHANGED <<k_cnt, buf_A, buf_B, sum_reg>>

Idle ==
  /\ state = "S_IDLE" /\ DropStrobe
  /\ IF cmd.start = 1
     THEN /\ buf_C' = IF cmd.clear = 1 THEN ZeroTile ELSE buf_C
          /\ row_cnt' = 0
          /\ state' = "S_FETCH_A"
          /\ status_done' = 0
     ELSE UNCHANGED <<buf_C, row_cnt, state, status_done>>
  /\ UNCHANGED <<k_cnt, buf_A, buf_B, sum_reg>>

FetchA ==
  /\ state = "S_FETCH_A"
  /\ IF row_cnt < tile_M
     THEN /\ dma_req' = ReadRequest(AddrA)
          /\ state' = "S_FETCH_A_WAIT"
          /\ UNCHANGED <<row_cnt, buf_A>>
     ELSE /\ buf_A' = [buf_A EXCEPT ![row_cnt] = ZeroBytes]
          /\ NextRow("S_FETCH_A", "S_FETCH_B")
          /\ DropStrobe
  /\ UNCHANGED <<status_done, k_cnt, buf_B, buf_C, sum_reg>>

FetchAWait(rsp) ==
  /\ state = "S_FETCH_A_WAIT"
  /\ IF rsp.ack = 1
     THEN /\ buf_A' = [buf_A EXCEPT ![row_cnt] = Extract(rsp.rdata, OffsetOf(AddrA))]
          /\ NextRow("S_FETCH_A", "S_FETCH_B")
          /\ DropStrobe
     ELSE HoldStrobe /\ UNCHANGED <<buf_A, row_cnt, state>>
  /\ UNCHANGED <<status_done, k_cnt, buf_B, buf_C, sum_reg>>

FetchB ==
  /\ state = "S_FETCH_B"
  /\ IF row_cnt < tile_K
     THEN /\ dma_req' = ReadRequest(AddrB)
          /\ state' = "S_FETCH_B_WAIT"
          /\ UNCHANGED <<row_cnt, buf_B>>
     ELSE /\ buf_B' = [buf_B EXCEPT ![row_cnt] = ZeroBytes]
          /\ NextRow("S_FETCH_B", "S_COMP_INIT")
          /\ DropStrobe
  /\ UNCHANGED <<status_done, k_cnt, buf_A, buf_C, sum_reg>>

FetchBWait(rsp) ==
  /\ state = "S_FETCH_B_WAIT"
  /\ IF rsp.ack = 1
     THEN /\ buf_B' = [buf_B EXCEPT ![row_cnt] = Extract(rsp.rdata, OffsetOf(AddrB))]
          /\ NextRow("S_FETCH_B", "S_COMP_INIT")
          /\ DropStrobe
     ELSE HoldStrobe /\ UNCHANGED <<buf_B, row_cnt, state>>
  /\ UNCHANGED <<status_done, k_cnt, buf_A, buf_C, sum_reg>>

CompInit ==
  /\ state = "S_COMP_INIT" /\ DropStrobe
  /\ row_cnt' = 0
  /\ state' = "S_COMP_ROW_INIT"
  /\ UNCHANGED <<status_done, k_cnt, buf_A, buf_B, buf_C, sum_reg>>

\* Mutant: the dot products are not restarted for a new row.
CompRowInitNoClear ==
  /\ state = "S_COMP_ROW_INIT" /\ DropStrobe
  /\ k_cnt' = 0
  /\ state' = "S_COMP_MAC"
  /\ UNCHANGED <<status_done, row_cnt, buf_A, buf_B, buf_C, sum_reg>>

CompRowInit ==
  /\ state = "S_COMP_ROW_INIT" /\ DropStrobe
  /\ sum_reg' = [j \in Idx |-> 0]
  /\ k_cnt' = 0
  /\ state' = "S_COMP_MAC"
  /\ UNCHANGED <<status_done, row_cnt, buf_A, buf_B, buf_C>>

CompMac ==
  /\ state = "S_COMP_MAC" /\ DropStrobe
  /\ sum_reg' = [j \in Idx |-> (sum_reg[j] + buf_A[row_cnt][k_cnt] * buf_B[k_cnt][j]) % WordMod]
  /\ IF k_cnt = LANES - 1
     THEN state' = "S_COMP_ACCUM" /\ UNCHANGED k_cnt
     ELSE k_cnt' = k_cnt + 1 /\ UNCHANGED state
  /\ UNCHANGED <<status_done, row_cnt, buf_A, buf_B, buf_C>>

CompAccum ==
  /\ state = "S_COMP_ACCUM" /\ DropStrobe
  /\ buf_C' = [buf_C EXCEPT ![row_cnt] = [j \in Idx |-> (@[j] + sum_reg[j]) % WordMod]]
  /\ IF ~LastRow
     THEN row_cnt' = row_cnt + 1 /\ state' = "S_COMP_ROW_INIT"
     ELSE IF cmd.store = 1
     THEN row_cnt' = 0 /\ state' = "S_STORE_C"
     ELSE state' = "S_DONE" /\ UNCHANGED row_cnt
  /\ UNCHANGED <<status_done, k_cnt, buf_A, buf_B, sum_reg>>

\* Mutant: rows beyond tile_M are stored too.
StoreCUnmasked ==
  /\ state = "S_STORE_C"
  /\ dma_req' = [row |-> RowOf(AddrC), wdata |-> StoreData(row_cnt, 0), be |-> StoreBE(0),
                 rw |-> 1, stb |-> 1]
  /\ state' = "S_STORE_C_WAIT"
  /\ UNCHANGED <<status_done, row_cnt, k_cnt, buf_A, buf_B, buf_C, sum_reg>>

StoreC ==
  /\ state = "S_STORE_C"
  /\ IF row_cnt < tile_M
     THEN LET lane == OffsetOf(AddrC) \div WORD_BYTES IN
          /\ dma_req' = [row |-> RowOf(AddrC), wdata |-> StoreData(row_cnt, lane),
                         be |-> StoreBE(lane), rw |-> 1, stb |-> 1]
          /\ state' = "S_STORE_C_WAIT"
          /\ UNCHANGED row_cnt
     ELSE NextRow("S_STORE_C", "S_DONE") /\ DropStrobe
  /\ UNCHANGED <<status_done, k_cnt, buf_A, buf_B, buf_C, sum_reg>>

StoreCWait(rsp) ==
  /\ state = "S_STORE_C_WAIT"
  /\ IF rsp.ack = 1
     THEN NextRow("S_STORE_C", "S_DONE") /\ DropStrobe
     ELSE HoldStrobe /\ UNCHANGED <<row_cnt, state>>
  /\ UNCHANGED <<status_done, k_cnt, buf_A, buf_B, buf_C, sum_reg>>

\* Mutants: done does not wait for start to be withdrawn; is not reported.
DoneAtOnce ==
  /\ state = "S_DONE" /\ DropStrobe
  /\ status_done' = 1 /\ state' = "S_IDLE"
  /\ UNCHANGED <<row_cnt, k_cnt, buf_A, buf_B, buf_C, sum_reg>>

DoneSilent ==
  /\ state = "S_DONE" /\ DropStrobe
  /\ status_done' = 0
  /\ state' = IF cmd.start = 0 THEN "S_IDLE" ELSE "S_DONE"
  /\ UNCHANGED <<row_cnt, k_cnt, buf_A, buf_B, buf_C, sum_reg>>

Done ==
  /\ state = "S_DONE" /\ DropStrobe
  /\ IF cmd.start = 0
     THEN status_done' = 0 /\ state' = "S_IDLE"
     ELSE status_done' = 1 /\ UNCHANGED state
  /\ UNCHANGED <<row_cnt, k_cnt, buf_A, buf_B, buf_C, sum_reg>>

EngineTick(rsp) ==
  \/ Idle
  \/ FetchA   \/ FetchAWait(rsp)
  \/ FetchB   \/ FetchBWait(rsp)
  \/ CompInit \/ CompRowInit \/ CompMac \/ CompAccum
  \/ StoreC   \/ StoreCWait(rsp)
  \/ Done

\* One rising clock edge.
CfsTick(req, rsp) == RegTick(req) /\ EngineTick(rsp)
=============================================================================
