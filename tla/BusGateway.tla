----------------------------- MODULE BusGateway -----------------------------
(* neorv32_bus_gateway: routes a host access to the device port whose        *)
(* address section it hits and watches it with the bus monitor ("keeper"),   *)
(* which ends an access that gets no answer with a bus error.                *)
EXTENDS Integers

CONSTANTS
  Ports,     \* the enabled device ports
  PortTmo,   \* port -> timeout in cycles, a power of two; 0 = disabled
  MaxTmo,    \* the longest of the timeouts; it sets the counter's width
  NoPort     \* the decode result of an address no enabled port claims

ASSUME PortsAssumption == NoPort \notin Ports /\ PortTmo \in [Ports -> Nat]
ASSUME MaxTmoAssumption ==
  /\ MaxTmo \in {PortTmo[p] : p \in Ports} \cup {1}
  /\ MaxTmo \in Nat \ {0}
  /\ \A p \in Ports : PortTmo[p] <= MaxTmo

VARIABLES
  keeper_state,  \* keeper.state
  keeper_lock,   \* keeper.lock: the access in progress is locked / a burst
  keeper_sel,    \* keeper.sel, one-hot in the code: the selected port
  keeper_cnt     \* keeper.cnt: cycles without an answer

keeperVars == <<keeper_state, keeper_lock, keeper_sel, keeper_cnt>>

\* The counter has one bit more than the highest timeout bit.
CntModulus == 2 * MaxTmo

KeeperTypeOK ==
  /\ keeper_state \in {"S_IDLE", "S_BUSY", "S_ERROR"}
  /\ keeper_lock \in {0, 1}
  /\ keeper_sel \in Ports \cup {NoPort}
  /\ keeper_cnt \in 0..CntModulus - 1

KeeperInit ==
  /\ keeper_state = "S_IDLE"
  /\ keeper_lock = 0
  /\ keeper_sel = NoPort
  /\ keeper_cnt = 0

\* Mutants: a locked transfer has no timeout; an access no port claims is not
\* watched.
tmo_fire_unlocked ==
  keeper_lock = 0 /\ (keeper_sel # NoPort =>
    /\ PortTmo[keeper_sel] > 0
    /\ (keeper_cnt \div PortTmo[keeper_sel]) % 2 = 1)

tmo_fire_selected ==
  /\ keeper_sel # NoPort
  /\ PortTmo[keeper_sel] > 0
  /\ (keeper_cnt \div PortTmo[keeper_sel]) % 2 = 1

\* The selected port's bit of the counter is set, or no port is selected.
tmo_fire ==
  keeper_sel # NoPort =>
    /\ PortTmo[keeper_sel] > 0
    /\ (keeper_cnt \div PortTmo[keeper_sel]) % 2 = 1

\* What the host sees when the ports' (or-ed) response is int_rsp.
bus_err == IF keeper_state = "S_ERROR" THEN 1 ELSE 0
host_rsp(int_ack, int_err) ==
  IF keeper_state = "S_IDLE" THEN [ack |-> 0, err |-> 0]
  ELSE [ack |-> IF int_ack = 1 THEN 1 ELSE bus_err,
        err |-> IF int_err = 1 THEN 1 ELSE bus_err]

-----------------------------------------------------------------------------
(* The bus monitor on a rising clock edge: stb, lock and port of the host's  *)
(* request, int_ack of the ports' response.                                  *)

\* Mutant: the counter is not restarted for a new access.
KeeperIdleNoRestart(stb, lock, port) ==
  /\ keeper_state = "S_IDLE"
  /\ keeper_state' = IF stb = 1 THEN "S_BUSY" ELSE "S_IDLE"
  /\ keeper_lock' = lock
  /\ keeper_sel' = port
  /\ UNCHANGED keeper_cnt

KeeperIdle(stb, lock, port) ==
  /\ keeper_state = "S_IDLE"
  /\ keeper_state' = IF stb = 1 THEN "S_BUSY" ELSE "S_IDLE"
  /\ keeper_lock' = lock
  /\ keeper_sel' = port
  /\ keeper_cnt' = 0

\* An answer restarts the counter, whatever the state does.
CountAnswer(int_ack) ==
  keeper_cnt' = IF int_ack = 1 THEN 0 ELSE (keeper_cnt + 1) % CntModulus

KeeperTimeout(int_ack) ==
  /\ keeper_state = "S_BUSY" /\ tmo_fire
  /\ keeper_state' = "S_ERROR"
  /\ CountAnswer(int_ack)
  /\ UNCHANGED <<keeper_lock, keeper_sel>>

\* Mutant: a locked transfer ends with an acknowledge.
KeeperBusyNoRelease(lock, int_ack) ==
  /\ keeper_state = "S_BUSY" /\ ~tmo_fire
  /\ keeper_state' = IF lock = 0 /\ int_ack = 1 THEN "S_IDLE" ELSE "S_BUSY"
  /\ CountAnswer(int_ack)
  /\ UNCHANGED <<keeper_lock, keeper_sel>>

KeeperBusy(lock, int_ack) ==
  /\ keeper_state = "S_BUSY" /\ ~tmo_fire
  /\ keeper_state' = IF \/ keeper_lock = 1 /\ lock = 0
                        \/ keeper_lock = 0 /\ int_ack = 1
                     THEN "S_IDLE" ELSE "S_BUSY"
  /\ CountAnswer(int_ack)
  /\ UNCHANGED <<keeper_lock, keeper_sel>>

\* Mutant: only a locked transfer leaves the error state.
KeeperErrorStuck(lock) ==
  /\ keeper_state = "S_ERROR"
  /\ keeper_state' = IF keeper_lock = 1 /\ lock = 0 THEN "S_IDLE" ELSE "S_ERROR"
  /\ UNCHANGED <<keeper_lock, keeper_sel, keeper_cnt>>

\* An error response in every cycle until the (locked) transfer ends.
KeeperError(lock) ==
  /\ keeper_state = "S_ERROR"
  /\ keeper_state' = IF keeper_lock = 0 \/ lock = 0 THEN "S_IDLE" ELSE "S_ERROR"
  /\ UNCHANGED <<keeper_lock, keeper_sel, keeper_cnt>>

KeeperTick(stb, lock, port, int_ack) ==
  \/ KeeperIdle(stb, lock, port)
  \/ KeeperTimeout(int_ack)
  \/ KeeperBusy(lock, int_ack)
  \/ KeeperError(lock)
=============================================================================
