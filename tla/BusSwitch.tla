------------------------------ MODULE BusSwitch ------------------------------
(* neorv32_bus_switch: two hosts, A and B, share one device port.  The       *)
(* module is used several times on the way from the cores to the memory, so  *)
(* its registers are a record that is passed in.                             *)
EXTENDS Naturals

\* Bus request and response signals that arbitration depends on or that the
\* stations behind it look at; op is amo together with amoop.
Op      == {"none", "LR", "SC", "SWAP", "ADD"}
Bit     == {0, 1}
BitOf(p) == IF p THEN 1 ELSE 0

Port     == {"A", "B"}
Other(p) == IF p = "A" THEN "B" ELSE "A"
Busy     == [p \in Port |-> IF p = "A" THEN "S_BUSY_A" ELSE "S_BUSY_B"]

switch_t == [state : {"S_IDLE", "S_BUSY_A", "S_BUSY_B"}, sel_q : Port,
             lock : [Port -> Bit], req : [Port -> Bit]]

SwitchInit == [state |-> "S_IDLE", sel_q |-> "A",
               lock |-> [p \in Port |-> 0], req |-> [p \in Port |-> 0]]

\* Hosts with a strobe now or one that is remembered.
Requesting(sw, host) == {p \in Port : host[p].stb = 1 \/ sw.req[p] = 1}

\* Mutant: port A always goes first.
PreferredFixed(sw, round_robin) == "A"

\* Round robin: the port that was not selected in the last cycle goes first.
Preferred(sw, round_robin) ==
  IF round_robin /\ sw.sel_q = "A" THEN "B" ELSE "A"

\* The port that is connected in the current cycle.
sel(sw, round_robin, host) ==
  LET first == Preferred(sw, round_robin) IN
  CASE sw.state = "S_BUSY_A" -> "A"
    [] sw.state = "S_BUSY_B" -> "B"
    [] OTHER -> IF Requesting(sw, host) = {} THEN "A"
                ELSE IF first \in Requesting(sw, host) THEN first ELSE Other(first)

\* The request to the device.
x_req(sw, round_robin, host) ==
  LET p == sel(sw, round_robin, host) IN
  [host[p] EXCEPT !.stb = IF sw.state = "S_IDLE" THEN BitOf(Requesting(sw, host) # {}) ELSE @]

\* The response to host p: everybody sees the data, the selected one the rest.
port_rsp(sw, rsp, p) ==
  [rsp EXCEPT !.ack = IF sw.sel_q = p THEN @ ELSE 0,
              !.err = IF sw.sel_q = p THEN @ ELSE 0]

\* The connection ends with the answer, a locked one with the lock.
Ends(sw, host, rsp, p) ==
  IF sw.lock[p] = 1 THEN host[p].lock = 0 ELSE rsp.ack = 1

\* Mutants: a strobe is not remembered while the other host is served, or not
\* forgotten when its own host is.
SwitchTickForgets(sw, round_robin, host, rsp) ==
  LET p == sel(sw, round_robin, host) IN
  [state |-> IF sw.state = "S_IDLE"
             THEN IF Requesting(sw, host) = {} THEN "S_IDLE" ELSE Busy[p]
             ELSE IF Ends(sw, host, rsp, p) THEN "S_IDLE" ELSE sw.state,
   sel_q |-> p,
   lock  |-> IF sw.state = "S_IDLE" THEN [q \in Port |-> host[q].lock] ELSE sw.lock,
   req   |-> [q \in Port |-> IF sw.state = "S_IDLE" THEN host[q].stb ELSE 0]]

SwitchTickRepeats(sw, round_robin, host, rsp) ==
  LET p == sel(sw, round_robin, host) IN
  [state |-> IF sw.state = "S_IDLE"
             THEN IF Requesting(sw, host) = {} THEN "S_IDLE" ELSE Busy[p]
             ELSE IF Ends(sw, host, rsp, p) THEN "S_IDLE" ELSE sw.state,
   sel_q |-> p,
   lock  |-> IF sw.state = "S_IDLE" THEN [q \in Port |-> host[q].lock] ELSE sw.lock,
   req   |-> [q \in Port |-> IF host[q].stb = 1 THEN 1 ELSE sw.req[q]]]

\* The registers after a clock edge.
SwitchTick(sw, round_robin, host, rsp) ==
  LET p == sel(sw, round_robin, host) IN
  [state |-> IF sw.state = "S_IDLE"
             THEN IF Requesting(sw, host) = {} THEN "S_IDLE" ELSE Busy[p]
             ELSE IF Ends(sw, host, rsp, p) THEN "S_IDLE" ELSE sw.state,
   sel_q |-> p,
   lock  |-> IF sw.state = "S_IDLE" THEN [q \in Port |-> host[q].lock] ELSE sw.lock,
   req   |-> [q \in Port |-> IF sw.state = Busy[q] THEN 0
                             ELSE IF host[q].stb = 1 THEN 1 ELSE sw.req[q]]]
=============================================================================
