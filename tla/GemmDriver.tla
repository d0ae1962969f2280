----------------------------- MODULE GemmDriver -----------------------------
(* gemmrv_hw.c: gemmrv_mult cuts C = A * B into tiles and hw_gemm_tile runs  *)
(* each one on the accelerator: eight register writes, the last of which     *)
(* starts it, a poll for done, the write that clears start and a poll for    *)
(* not done.  Registers are volatile and in IO space, so every access is one *)
(* bus access, in program order; the CPU may pause before each.              *)
EXTENDS DmemTypes, Sequences

VARIABLES
  job,        \* the arguments of gemmrv_mult: A, B, C
  m, n, k,    \* its loop variables
  pc,         \* position in the script of hw_gemm_tile; 0 when finished
  io_req,     \* the CPU's request on the IO bus
  io_busy     \* an access is outstanding

driverVars == <<job, m, n, k, pc, io_req, io_busy>>

\* The tile size 8 of the loops.
TILE == LANES
TileExtent(total, at) == IF total - at < TILE THEN total - at ELSE TILE

DimM == job.A.rows
DimK == job.A.cols
DimN == job.B.cols

Access(adr, data, rw) == [adr |-> adr, data |-> data, rw |-> rw, stb |-> 1]

\* hw_gemm_tile as the register accesses it makes.  For a read (of REG[6]),
\* data is the value of the done bit the loop waits for.
TileScript ==
  LET tile_M == TileExtent(DimM, m)
      tile_N == TileExtent(DimN, n)
      tile_K == TileExtent(DimK, k)
      clear  == IF k = 0 THEN 2 ELSE 0
      store  == IF k + TILE >= DimK THEN 4 ELSE 0
  IN << Access(0, job.A.data + m * job.A.stride + k, 1),
        Access(1, job.B.data + k * job.B.stride + n, 1),
        Access(2, job.C.data + (m * job.C.stride + n) * WORD_BYTES, 1),
        Access(3, job.A.stride, 1),
        Access(4, job.B.stride, 1),
        Access(5, job.C.stride, 1),
        Access(7, (tile_M % 256) * 65536 + (tile_K % 256) * 256 + (tile_N % 256), 1),
        Access(6, 1 + clear + store, 1),
        Access(6, 1, 0),
        Access(6, 0, 1),
        Access(6, 0, 0) >>

NoRequest == [adr |-> 0, data |-> 0, rw |-> 0, stb |-> 0]

DriverInit(jobs) ==
  /\ job \in jobs
  /\ m = 0 /\ n = 0 /\ k = 0
  /\ pc = IF DimM > 0 /\ DimN > 0 /\ DimK > 0 THEN 1 ELSE 0
  /\ io_req = NoRequest
  /\ io_busy = FALSE

\* After a system reset the same call is made again.
DriverRestart ==
  /\ UNCHANGED job
  /\ m' = 0 /\ n' = 0 /\ k' = 0
  /\ pc' = IF DimM > 0 /\ DimN > 0 /\ DimK > 0 THEN 1 ELSE 0
  /\ io_req' = NoRequest
  /\ io_busy' = FALSE

finished == pc = 0

-----------------------------------------------------------------------------
DriverAccess ==
  /\ ~finished /\ ~io_busy
  /\ io_req' = TileScript[pc]
  /\ io_busy' = TRUE
  /\ UNCHANGED <<job, m, n, k, pc>>

DriverPause ==
  /\ ~io_busy
  /\ UNCHANGED driverVars

DriverWait(rsp) ==
  /\ io_busy /\ rsp.ack = 0
  /\ io_req' = [io_req EXCEPT !.stb = 0]
  /\ UNCHANGED <<job, m, n, k, pc, io_busy>>

\* A polling loop goes round again.
DriverPollAgain(rsp) ==
  /\ io_busy /\ rsp.ack = 1
  /\ TileScript[pc].rw = 0 /\ (rsp.data \div 4) % 2 # TileScript[pc].data
  /\ io_req' = [io_req EXCEPT !.stb = 0]
  /\ io_busy' = FALSE
  /\ UNCHANGED <<job, m, n, k, pc>>

\* The three nested loops: k innermost, then n, then m.
NextTile ==
  IF k + TILE < DimK
  THEN k' = k + TILE /\ pc' = 1 /\ UNCHANGED <<m, n>>
  ELSE /\ k' = 0
       /\ IF n + TILE < DimN
          THEN n' = n + TILE /\ pc' = 1 /\ UNCHANGED m
          ELSE /\ n' = 0
               /\ m' = m + TILE
               /\ pc' = IF m + TILE < DimM THEN 1 ELSE 0

\* Mutant: the driver does not wait for the done bit it polls.
DriverAdvanceNoPoll(rsp) ==
  /\ io_busy /\ rsp.ack = 1
  /\ IF pc < Len(TileScript) THEN pc' = pc + 1 /\ UNCHANGED <<m, n, k>> ELSE NextTile
  /\ io_req' = [io_req EXCEPT !.stb = 0]
  /\ io_busy' = FALSE
  /\ UNCHANGED job

DriverAdvance(rsp) ==
  /\ io_busy /\ rsp.ack = 1
  /\ TileScript[pc].rw = 0 => (rsp.data \div 4) % 2 = TileScript[pc].data
  /\ IF pc < Len(TileScript)
     THEN pc' = pc + 1 /\ UNCHANGED <<m, n, k>>
     ELSE NextTile
  /\ io_req' = [io_req EXCEPT !.stb = 0]
  /\ io_busy' = FALSE
  /\ UNCHANGED job

\* One clock; rsp is the response on the IO bus.
DriverTick(rsp) ==
  \/ DriverAccess \/ DriverPause
  \/ DriverWait(rsp) \/ DriverPollAgain(rsp) \/ DriverAdvance(rsp)
=============================================================================
