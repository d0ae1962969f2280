------------------------------- MODULE AmoRmw -------------------------------
(* neorv32_bus_amo_rmw: turns an atomic read-modify-write request into a     *)
(* read, an operation and a write on the bus behind it.  One action per      *)
(* state.  Every other request passes through.                               *)
EXTENDS BusSwitch

CONSTANT WORD_MOD   \* values a word can take (2^32 in the hardware)

VARIABLE rmw        \* the arbiter's registers and the registered ALU result

rmw_state_t == {"S_IDLE", "S_READ_WAIT", "S_READ_ERROR", "S_EXECUTE", "S_WRITE", "S_WRITE_WAIT"}
Value       == 0..WORD_MOD - 1

RmwTypeOK ==
  rmw \in [state : rmw_state_t, cmd : Op, rdata : Value, wdata : Value, alu_res : Value]

RmwInit ==
  rmw = [state |-> "S_IDLE", cmd |-> "none", rdata |-> 0, wdata |-> 0, alu_res |-> 0]

IsRmw(core) == core.stb = 1 /\ core.op \notin {"none", "LR", "SC"}

\* Two of the operations; the logical and the ordering ones differ in data only.
alu == IF rmw.cmd = "ADD" THEN (rmw.rdata + rmw.wdata) % WORD_MOD ELSE rmw.wdata

\* Signals towards the system and back to the core in the current cycle.
rmw_req(core) ==
  IF rmw.state \in {"S_WRITE", "S_WRITE_WAIT"}
  THEN [core EXCEPT !.data = rmw.alu_res, !.rw = 1,
                    !.stb = IF rmw.state = "S_WRITE" THEN 1 ELSE @]
  ELSE core

\* Mutant: the core is answered when the read is.
rmw_rspEarly(sys) ==
  [ack  |-> IF rmw.state \in {"S_IDLE", "S_READ_WAIT"} THEN sys.ack ELSE 0,
   err  |-> IF rmw.state \in {"S_IDLE", "S_READ_WAIT"} THEN sys.err ELSE 0,
   data |-> sys.data]

rmw_rsp(sys) ==
  [ack  |-> CASE rmw.state \in {"S_IDLE", "S_WRITE_WAIT"} -> sys.ack
              [] rmw.state = "S_READ_ERROR" -> 1 [] OTHER -> 0,
   err  |-> CASE rmw.state \in {"S_IDLE", "S_WRITE_WAIT"} -> sys.err
              [] rmw.state = "S_READ_ERROR" -> 1 [] OTHER -> 0,
   data |-> IF rmw.state = "S_IDLE" THEN sys.data ELSE rmw.rdata]

Go(state) == [rmw EXCEPT !.state = state, !.alu_res = alu]

RmwIdle(core) ==
  /\ rmw.state = "S_IDLE"
  /\ rmw' = IF IsRmw(core)
            THEN [Go("S_READ_WAIT") EXCEPT !.cmd = core.op, !.wdata = core.data]
            ELSE Go("S_IDLE")

\* Mutant: an error of the read is ignored.
RmwReadWaitIgnores(sys) ==
  /\ rmw.state = "S_READ_WAIT"
  /\ rmw' = [Go(IF sys.ack = 0 THEN "S_READ_WAIT" ELSE "S_EXECUTE") EXCEPT !.rdata = sys.data]

RmwReadWait(sys) ==
  /\ rmw.state = "S_READ_WAIT"
  /\ rmw' = [Go(IF sys.ack = 0 THEN "S_READ_WAIT"
                ELSE IF sys.err = 1 THEN "S_READ_ERROR" ELSE "S_EXECUTE") EXCEPT !.rdata = sys.data]

RmwReadError == rmw.state = "S_READ_ERROR" /\ rmw' = Go("S_IDLE")
RmwExecute   == rmw.state = "S_EXECUTE"    /\ rmw' = Go("S_WRITE")
RmwWrite     == rmw.state = "S_WRITE"      /\ rmw' = Go("S_WRITE_WAIT")

RmwWriteWait(sys) ==
  /\ rmw.state = "S_WRITE_WAIT"
  /\ rmw' = Go(IF sys.ack = 1 THEN "S_IDLE" ELSE "S_WRITE_WAIT")

RmwTick(core, sys) ==
  \/ RmwIdle(core) \/ RmwReadWait(sys) \/ RmwReadError
  \/ RmwExecute \/ RmwWrite \/ RmwWriteWait(sys)
=============================================================================
