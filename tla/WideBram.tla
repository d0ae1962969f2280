------------------------------ MODULE WideBram ------------------------------
(* neorv32_wide_bram: a single-port block RAM of 256-bit rows.  One clock    *)
(* after a strobe it raises rsp_ack for one cycle.  It has no notion of a    *)
(* transfer: a strobe held for two cycles is two accesses.                   *)
EXTENDS DmemTypes

VARIABLES
  mem,          \* the memory array
  mem_rdata,    \* rsp_rdata register
  mem_ack       \* rsp_ack register

bramVars == <<mem, mem_rdata, mem_ack>>

MemIndex == 0..NUM_WORDS - 1

BramTypeOK ==
  /\ mem \in [MemIndex -> Row]
  /\ mem_rdata \in Row
  /\ mem_ack \in Bit

\* The array and the data register have no initial value: any content.
BramInit ==
  /\ mem \in [MemIndex -> Row]
  /\ mem_rdata = ZeroRow
  /\ mem_ack = 0

\* Mutant: the byte enables are ignored.
BramWriteNoBE(req) ==
  /\ req.stb = 1 /\ req.row < NUM_WORDS /\ req.rw = 1
  /\ mem' = [mem EXCEPT ![req.row] = req.wdata]
  /\ mem_ack' = 1
  /\ UNCHANGED mem_rdata

BramWrite(req) ==
  /\ req.stb = 1 /\ req.row < NUM_WORDS /\ req.rw = 1
  /\ mem' = [mem EXCEPT ![req.row] = MergeRow(@, req.wdata, req.be)]
  /\ mem_ack' = 1
  /\ UNCHANGED mem_rdata

BramRead(req) ==
  /\ req.stb = 1 /\ req.row < NUM_WORDS /\ req.rw = 0
  /\ mem_rdata' = mem[req.row]
  /\ mem_ack' = 1
  /\ UNCHANGED mem

\* Out of bounds: acknowledge anyway, to keep the bus from locking up.
BramOutOfBounds(req) ==
  /\ req.stb = 1 /\ req.row >= NUM_WORDS
  /\ mem_rdata' = ZeroRow
  /\ mem_ack' = 1
  /\ UNCHANGED mem

BramQuiet(req) ==
  /\ req.stb = 0
  /\ mem_ack' = 0
  /\ UNCHANGED <<mem, mem_rdata>>

\* One rising clock edge with req on the slave port.
BramTick(req) ==
  BramWrite(req) \/ BramRead(req) \/ BramOutOfBounds(req) \/ BramQuiet(req)
=============================================================================
