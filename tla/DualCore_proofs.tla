--------------------------- MODULE DualCore_proofs ---------------------------
(* What the bus switches guarantee, for any addresses, latency, bus errors   *)
(* and DMA accesses; what an access of a core does to the memory, wherever   *)
(* its strobe waits and however late its answer is: it takes effect at one   *)
(* clock edge, and the core goes where the memory of that instant sends it;  *)
(* and what the programs of the two cores rely on, from the atomic accesses: *)
(* their spin locks, the counter and the launch of core 1.                   *)
EXTENDS DualCore, TLAPS

Rival(c) == 1 - c

-----------------------------------------------------------------------------
(* Round robin: a core that was passed over is next. *)

\* A core that was overtaken once waits behind the other one's access, and is
\* preferred when the switch is idle again.
OvertakenInv ==
  \A c \in Core :
    /\ overtaken[c] \in {0, 1}
    /\ overtaken[c] = 1 =>
         /\ core_sw.sel_q = CorePort[Rival(c)]
         /\ core_sw.state \in {"S_IDLE", Busy[CorePort[Rival(c)]]}

LEMMA InitOvertaken == Init => OvertakenInv
  BY DEF Init, OvertakenInv, Core

\* The ports of the cores, spelled out.
LEMMA Ports ==
  ASSUME NEW c \in Core
  PROVE  /\ Rival(c) \in Core
         /\ CorePort[c] \in Port /\ CorePort[Rival(c)] \in Port
         /\ Other(CorePort[Rival(c)]) = CorePort[c]
         /\ CorePort[c] # CorePort[Rival(c)]
  BY DEF Rival, Core, CorePort, Port, Other

\* A core asks exactly if its port is among the requesting ones.
LEMMA AsksPort ==
  ASSUME NEW c \in Core
  PROVE  Asks(c) <=> CorePort[c] \in Requesting(core_sw, CoreHosts)
  BY DEF Asks, Requesting, CoreHosts, CoreReq, CorePort, Port, Core, BitOf

\* The idle switch grants the core it did not serve last, if that asks.
LEMMA PassedOverIsNext ==
  ASSUME NEW c \in Core, Asks(c), core_sw.state = "S_IDLE",
         core_sw.sel_q = CorePort[Rival(c)]
  PROVE  Granted(c) /\ ~Granted(Rival(c))
<1>1. Preferred(core_sw, TRUE) = CorePort[c]
  BY DEF Preferred, CorePort, Rival, Core
<1>2. CorePort[c] \in Requesting(core_sw, CoreHosts)
  BY AsksPort
<1>3. sel(core_sw, TRUE, CoreHosts) = CorePort[c]
  BY <1>1, <1>2 DEF sel
<1> QED BY <1>3, Ports DEF Granted

\* While one port is served, it stays selected.
LEMMA SelectionStays ==
  ASSUME NEW host, NEW rsp, NEW p \in Port, core_sw.state = Busy[p],
         core_sw' = SwitchTick(core_sw, TRUE, host, rsp)
  PROVE  core_sw'.sel_q = p /\ core_sw'.state \in {"S_IDLE", Busy[p]}
<1>1. sel(core_sw, TRUE, host) = p
  BY DEF sel, Busy, Port
<1> QED BY <1>1 DEF SwitchTick, Busy, Port

\* A grant selects its port.
LEMMA GrantSelects ==
  ASSUME NEW rsp, NEW c \in Core, Granted(c),
         core_sw' = SwitchTick(core_sw, TRUE, CoreHosts, rsp)
  PROVE  core_sw'.sel_q = CorePort[c] /\ core_sw'.state = Busy[CorePort[c]]
<1>1. Requesting(core_sw, CoreHosts) # {}
  BY AsksPort DEF Granted
<1> QED BY <1>1 DEF Granted, SwitchTick

LEMMA TickOvertaken ==
  ASSUME OvertakenInv, Tick
  PROVE  OvertakenInv'
<1>1. core_sw' = SwitchTick(core_sw, TRUE, CoreHosts, sys1_rsp) /\ overtaken' = OvertakenNext
  BY DEF Tick, TickWith
<1> SUFFICES ASSUME NEW c \in Core
             PROVE  /\ overtaken'[c] \in {0, 1}
                    /\ overtaken'[c] = 1 =>
                         /\ core_sw'.sel_q = CorePort[Rival(c)]
                         /\ core_sw'.state \in {"S_IDLE", Busy[CorePort[Rival(c)]]}
  BY DEF OvertakenInv
<1>2. overtaken'[c] = IF ~Asks(c) \/ Granted(c) THEN 0
                      ELSE IF Granted(Rival(c)) THEN overtaken[c] + 1 ELSE overtaken[c]
  BY <1>1 DEF OvertakenNext, Rival
<1>3. overtaken[c] \in {0, 1}
  BY DEF OvertakenInv
<1>4. CASE ~Asks(c) \/ Granted(c)
  BY <1>2, <1>4
<1>5. CASE Asks(c) /\ ~Granted(c) /\ Granted(Rival(c))
  <2>1. overtaken[c] = 0
    <3>1. SUFFICES ASSUME overtaken[c] = 1 PROVE FALSE
      BY <1>3
    <3>2. core_sw.sel_q = CorePort[Rival(c)] /\ core_sw.state = "S_IDLE"
      BY <1>5, <3>1 DEF OvertakenInv, Granted
    <3> QED BY <1>5, <3>2, PassedOverIsNext
  <2>2. core_sw'.sel_q = CorePort[Rival(c)] /\ core_sw'.state = Busy[CorePort[Rival(c)]]
    BY <1>1, <1>5, Ports, GrantSelects
  <2> QED BY <1>2, <1>5, <2>1, <2>2
<1>6. CASE Asks(c) /\ ~Granted(c) /\ ~Granted(Rival(c))
  <2>1. overtaken'[c] = overtaken[c]
    BY <1>2, <1>6
  <2>2. SUFFICES ASSUME overtaken[c] = 1
                 PROVE  /\ core_sw'.sel_q = CorePort[Rival(c)]
                        /\ core_sw'.state \in {"S_IDLE", Busy[CorePort[Rival(c)]]}
    BY <1>3, <2>1
  <2>3. core_sw.state = Busy[CorePort[Rival(c)]]
    BY <1>6, <2>2, PassedOverIsNext DEF OvertakenInv
  <2> QED BY <1>1, <2>3, Ports, SelectionStays
<1> QED BY <1>4, <1>5, <1>6

\* In every reachable state a core that asks for the bus was passed over at
\* most once (neorv32_bus.vhd:103-122).
THEOREM RoundRobin == Spec => []NotOvertaken
<1>1. OvertakenInv /\ [Next]_vars => OvertakenInv'
  <2> SUFFICES ASSUME OvertakenInv, [Next]_vars PROVE OvertakenInv'
    OBVIOUS
  <2>1. CASE Tick
    BY <2>1, TickOvertaken
  <2>2. CASE LaunchTimeout \/ UNCHANGED vars
    BY <2>2 DEF LaunchTimeout, vars, busVars, OvertakenInv
  <2> QED BY <2>1, <2>2 DEF Next
<1>2. OvertakenInv => NotOvertaken
  BY DEF OvertakenInv, NotOvertaken
<1> QED BY <1>1, <1>2, InitOvertaken, PTL DEF Spec

-----------------------------------------------------------------------------
(* One access at a time.  First the switch by itself: what it does in each   *)
(* of its states, for hosts with a strobe and a lock.                        *)

Hosts(host) == \A p \in Port : {"stb", "lock"} \subseteq DOMAIN host[p]

\* What the request register of port q becomes.
Remembered(sw, host, q) == IF sw.state = Busy[q] THEN 0 ELSE IF host[q].stb = 1 THEN 1 ELSE sw.req[q]

\* The request out and the next registers new of a switch: it serves port p,
\* nobody asks, or somebody is granted.
Serves(sw, host, rsp, p, out, new) ==
  /\ out.stb = host[p].stb /\ out.lock = host[p].lock
  /\ {"stb", "lock"} \subseteq DOMAIN out
  /\ new.state = IF Ends(sw, host, rsp, p) THEN "S_IDLE" ELSE Busy[p]
  /\ new.sel_q = p /\ new.lock = sw.lock
  /\ \A q \in Port : new.req[q] = Remembered(sw, host, q)

Sleeps(sw, host, out, new) ==
  /\ out.stb = 0
  /\ {"stb", "lock"} \subseteq DOMAIN out
  /\ new.state = "S_IDLE"
  /\ \A q \in Port : new.req[q] = Remembered(sw, host, q)

Grants(sw, host, p, out, new) ==
  /\ out.stb = 1 /\ out.lock = host[p].lock
  /\ {"stb", "lock"} \subseteq DOMAIN out
  /\ new.state = Busy[p] /\ new.sel_q = p
  /\ \A q \in Port : new.lock[q] = host[q].lock
  /\ \A q \in Port : new.req[q] = Remembered(sw, host, q)

LEMMA SwitchServes ==
  ASSUME NEW sw, NEW rr, NEW host, NEW rsp, NEW p \in Port, sw.state = Busy[p], Hosts(host)
  PROVE  Serves(sw, host, rsp, p, x_req(sw, rr, host), SwitchTick(sw, rr, host, rsp))
<1>1. sel(sw, rr, host) = p
  BY DEF sel, Busy, Port
<1>2. sw.state # "S_IDLE"
  BY DEF Busy, Port
<1>3. x_req(sw, rr, host) = [host[p] EXCEPT !.stb = @]
  BY <1>1, <1>2 DEF x_req
<1>4. {"stb", "lock"} \subseteq DOMAIN host[p]
  BY DEF Hosts
<1> QED BY <1>1, <1>2, <1>3, <1>4 DEF SwitchTick, Remembered, Serves

LEMMA SwitchSleeps ==
  ASSUME NEW sw, NEW rr, NEW host, NEW rsp, sw.state = "S_IDLE", Hosts(host),
         Requesting(sw, host) = {}
  PROVE  Sleeps(sw, host, x_req(sw, rr, host), SwitchTick(sw, rr, host, rsp))
<1>1. sel(sw, rr, host) = "A"
  BY DEF sel
<1>2. x_req(sw, rr, host) = [host["A"] EXCEPT !.stb = 0]
  BY <1>1 DEF x_req, BitOf
<1>3. {"stb", "lock"} \subseteq DOMAIN host["A"]
  BY DEF Hosts, Port
<1> QED BY <1>1, <1>2, <1>3 DEF SwitchTick, Remembered, Port, Sleeps

LEMMA SwitchGrants ==
  ASSUME NEW sw, NEW rr, NEW host, NEW rsp, sw.state = "S_IDLE", Hosts(host),
         Requesting(sw, host) # {}
  PROVE  \E p \in Requesting(sw, host) :
           Grants(sw, host, p, x_req(sw, rr, host), SwitchTick(sw, rr, host, rsp))
<1> DEFINE p == sel(sw, rr, host)
<1>1. p \in Requesting(sw, host)
  <2>1. Preferred(sw, rr) \in Port
    BY DEF Preferred, Port
  <2>2. Requesting(sw, host) \subseteq Port
    BY DEF Requesting
  <2>3. p = IF Preferred(sw, rr) \in Requesting(sw, host) THEN Preferred(sw, rr)
            ELSE Other(Preferred(sw, rr))
    BY DEF sel
  <2> QED BY <2>1, <2>2, <2>3 DEF Port, Other
<1>2. p \in Port
  BY <1>1 DEF Requesting
<1>3. x_req(sw, rr, host) = [host[p] EXCEPT !.stb = 1]
  BY DEF x_req, BitOf
<1>4. {"stb", "lock"} \subseteq DOMAIN host[p]
  BY <1>2 DEF Hosts
<1>5. SwitchTick(sw, rr, host, rsp) =
        [state |-> Busy[p], sel_q |-> p, lock |-> [q \in Port |-> host[q].lock],
         req |-> [q \in Port |-> Remembered(sw, host, q)]]
  BY DEF SwitchTick, Remembered
<1> HIDE DEF p
<1>6. Grants(sw, host, p, x_req(sw, rr, host), SwitchTick(sw, rr, host, rsp))
  BY <1>3, <1>4, <1>5 DEF Grants
<1> QED BY <1>1, <1>6

-----------------------------------------------------------------------------
(* The invariant: the fields of the registers, then one part per station.    *)

\* The registers have the fields that the signals are made of.
Shape ==
  /\ DOMAIN core = Core
  /\ \A c \in Core : /\ {"phase", "pc"} \subseteq DOMAIN core[c]
                     /\ core[c].phase \in {"exec", "strobe", "wait", "trap"}
  /\ {"phase", "req"} \subseteq DOMAIN dma /\ dma.phase \in {"idle", "strobe", "wait"}
  /\ "state" \in DOMAIN rmw /\ rmw.state \in rmw_state_t
  /\ {"ack", "err", "data"} \subseteq DOMAIN sys_rsp /\ sys_rsp.ack \in Bit
  /\ {"ack", "err", "data"} \subseteq DOMAIN sys_pend
  /\ sys_pend # NoRsp => sys_pend.ack = 1 /\ sys_rsp.ack = 0

Connected(c) == core_sw.state = Busy[CorePort[c]]
Serving(c)   == Connected(c) /\ core[c].phase = "wait"
CoreAct      == \E c \in Core : Serving(c)
Active       == (dma_sw.state = "S_BUSY_A" /\ CoreAct) \/ dma_sw.state = "S_BUSY_B"
MemBusy      == sys_pend # NoRsp \/ sys_rsp.ack = 1

LockOf(k)    == BitOf(k.phase \in {"strobe", "wait"} /\ Instr(k.pc).op \in {"SWAP", "ADD"})

\* A waiting core is connected or its strobe is remembered, and a
\* connection outlives the access only under its lock.
CoreSide ==
  /\ core_sw.state \in {"S_IDLE"} \cup {Busy[p] : p \in Port}
  /\ \A c \in Core :
       /\ core[c].phase = "wait" => core_sw.req[CorePort[c]] = 1 \/ Connected(c)
       /\ core_sw.req[CorePort[c]] = 1 => core[c].phase = "wait"
       /\ Connected(c) =>
            /\ core_sw.sel_q = CorePort[c] /\ core[c].phase # "strobe"
            /\ core_sw.lock[CorePort[c]] =
                 IF core[c].phase = "wait" THEN LockOf(core[c]) ELSE 1

\* The second switch sees the first one as a host of the same kind.
DmaSide ==
  /\ dma_sw.state \in {"S_IDLE"} \cup {Busy[p] : p \in Port}
  /\ dma_sw.req["A"] = 1 => CoreAct
  /\ CoreAct => dma_sw.req["A"] = 1 \/ dma_sw.state = "S_BUSY_A"
  /\ dma_sw.state = "S_BUSY_A" =>
       /\ dma_sw.sel_q = "A"
       /\ \E c \in Core : Connected(c) /\ dma_sw.lock["A"] = core_sw.lock[CorePort[c]]
  /\ dma.phase = "wait" => dma_sw.req["B"] = 1 \/ dma_sw.state = "S_BUSY_B"
  /\ dma_sw.req["B"] = 1 => dma.phase = "wait"
  /\ dma_sw.state = "S_BUSY_B" =>
       dma_sw.sel_q = "B" /\ dma.phase = "wait" /\ dma_sw.lock["B"] = 0

\* The memory is busy exactly while a served access waits for it.
MemSide ==
  /\ Active => (rmw.state \in {"S_IDLE", "S_READ_WAIT", "S_WRITE_WAIT"} <=> MemBusy)
  /\ ~Active => rmw.state = "S_IDLE" /\ ~MemBusy

AccessInv == Shape /\ CoreSide /\ DmaSide /\ MemSide

-----------------------------------------------------------------------------
(* The first switch. *)

LEMMA CoreSignals ==
  ASSUME NEW c \in Core
  PROVE  /\ CoreReq(c).stb = 1 <=> core[c].phase = "strobe"
         /\ CoreReq(c).stb \in Bit
         /\ CoreReq(c).lock = LockOf(core[c])
         /\ CoreHosts[CorePort[c]] = CoreReq(c)
         /\ CoreHosts[CorePort[c]].stb = 1 <=> core[c].phase = "strobe"
         /\ CoreHosts[CorePort[c]].lock = LockOf(core[c])
         /\ CorePort[c] \in Port
         /\ core[c].phase \notin {"strobe", "wait"} => LockOf(core[c]) = 0
         /\ LockOf(core[c]) \in Bit
  BY DEF CoreReq, CoreHosts, CorePort, Core, BitOf, Bit, Port, LockOf

LEMMA CoreHostsFields == Hosts(CoreHosts)
  BY DEF Hosts, CoreHosts, CoreReq, Port

LEMMA LockStays ==
  ASSUME NEW k, {"phase", "pc"} \subseteq DOMAIN k, k.phase = "strobe"
  PROVE  LockOf([k EXCEPT !.phase = "wait"]) = LockOf(k)
  BY DEF LockOf

\* What a clock edge does to a core, as far as the bus can see.
LEMMA CoreMoves ==
  ASSUME NEW c \in Core, NEW goes \in BOOLEAN, Shape, CoreRsp(c).ack \in Bit
  PROVE  LET k == core[c]
             n == CoreNext(c, goes)
         IN /\ {"phase", "pc"} \subseteq DOMAIN n
            /\ n.phase \in {"exec", "strobe", "wait", "trap"}
            /\ k.phase \in {"exec", "trap"} => n.phase \in {"exec", "strobe", "trap"}
            /\ k.phase = "strobe" => n.phase = "wait" /\ LockOf(n) = LockOf(k)
            /\ k.phase = "wait" => IF CoreRsp(c).ack = 0 THEN n = k
                                   ELSE n.phase \in {"exec", "trap"}
<1>1. {"phase", "pc"} \subseteq DOMAIN core[c] /\ core[c].phase \in {"exec", "strobe", "wait", "trap"}
  BY DEF Shape
<1>2. CASE core[c].phase = "exec"
  BY <1>1, <1>2 DEF CoreNext, Resting
<1>3. CASE core[c].phase = "strobe"
  <2>1. CoreNext(c, goes) = [core[c] EXCEPT !.phase = "wait"]
    BY <1>3 DEF CoreNext
  <2> QED BY <1>1, <1>3, <2>1, LockStays
<1>4. CASE core[c].phase = "wait"
  BY <1>1, <1>4 DEF CoreNext, Bit
<1>5. CASE core[c].phase = "trap"
  BY <1>1, <1>5 DEF CoreNext
<1> QED BY <1>1, <1>2, <1>3, <1>4, <1>5

\* Only the core that is served sees an answer.
LEMMA AckRoute ==
  ASSUME CoreSide, {"ack", "err"} \subseteq DOMAIN sys1_rsp, sys1_rsp.ack \in Bit,
         sys1_rsp.ack = 1 => CoreAct, NEW c \in Core
  PROVE  /\ CoreRsp(c).ack \in Bit
         /\ CoreRsp(c).ack = 1 <=> Serving(c) /\ sys1_rsp.ack = 1
<1>1. CoreRsp(c).ack = IF core_sw.sel_q = CorePort[c] THEN sys1_rsp.ack ELSE 0
  BY DEF CoreRsp, port_rsp
<1>2. \A d \in Core : Serving(d) => core_sw.sel_q = CorePort[d]
  BY DEF CoreSide, Serving
<1>3. \A d \in Core : CorePort[d] = CorePort[c] => d = c
  BY DEF CorePort, Core
<1> QED BY <1>1, <1>2, <1>3 DEF CoreAct, Bit

\* The first switch and the cores are at rest, begin an access, wait for its
\* answer, are answered, or release the lock that outlived the answer.
CoreRests ==
  /\ sys1_req.stb = 0
  /\ \A c \in Core : ~Connected(c) /\ ~Connected(c)'

CoreBegins ==
  /\ sys1_req.stb = 1
  /\ \A c \in Core : ~Connected(c)
  /\ \E c \in Core : Serving(c)' /\ core_sw'.lock[CorePort[c]] = sys1_req.lock

CoreWaits(c) ==
  /\ sys1_req.stb = 0 /\ sys1_rsp.ack = 0
  /\ sys1_req.lock = core_sw.lock[CorePort[c]]
  /\ Serving(c) /\ Serving(c)' /\ core_sw'.lock = core_sw.lock

CoreAnswered(c) ==
  /\ sys1_req.stb = 0 /\ sys1_rsp.ack = 1
  /\ sys1_req.lock = core_sw.lock[CorePort[c]]
  /\ Serving(c) /\ ~CoreAct'
  /\ core_sw.lock[CorePort[c]] = 1 => Connected(c)' /\ core_sw'.lock = core_sw.lock

CoreReleases(c) ==
  /\ sys1_req.stb = 0 /\ sys1_req.lock = 0
  /\ core_sw.lock[CorePort[c]] = 1
  /\ Connected(c) /\ ~CoreAct /\ ~CoreAct'

CoreStep == CoreRests \/ CoreBegins
            \/ \E c \in Core : CoreWaits(c) \/ CoreAnswered(c) \/ CoreReleases(c)

\* Exactly one core is behind each port, and the states name the ports.
LEMMA PortCore ==
  /\ \A p \in Port : \E c \in Core : CorePort[c] = p
  /\ \A c, d \in Core : CorePort[c] = CorePort[d] => c = d
  /\ \A p, q \in Port : Busy[p] = Busy[q] => p = q
  /\ \A p \in Port : Busy[p] # "S_IDLE"
  BY DEF Port, Core, CorePort, Busy

\* What the cores do, given who is answered.
Moved(c) ==
  /\ core[c].phase \in {"exec", "trap"} => core'[c].phase \in {"exec", "strobe", "trap"}
  /\ core[c].phase = "strobe" => core'[c].phase = "wait" /\ LockOf(core'[c]) = LockOf(core[c])
  /\ core[c].phase = "wait" => IF Serving(c) /\ sys1_rsp.ack = 1
                               THEN core'[c].phase \in {"exec", "trap"} ELSE core'[c] = core[c]

LEMMA CoresMove ==
  ASSUME Shape, CoreSide, {"ack", "err"} \subseteq DOMAIN sys1_rsp, sys1_rsp.ack \in Bit,
         sys1_rsp.ack = 1 => CoreAct,
         NEW c \in Core, NEW goes \in BOOLEAN, core'[c] = CoreNext(c, goes)
  PROVE  /\ Moved(c)
         /\ {"phase", "pc"} \subseteq DOMAIN core'[c]
         /\ core'[c].phase \in {"exec", "strobe", "wait", "trap"}
<1>1. CoreRsp(c).ack \in Bit /\ (CoreRsp(c).ack = 1 <=> Serving(c) /\ sys1_rsp.ack = 1)
  BY AckRoute
<1> QED BY <1>1, CoreMoves DEF Bit, Moved

LEMMA CoreSideStep ==
  ASSUME Shape, CoreSide, sys1_rsp.ack \in Bit, sys1_rsp.ack = 1 => CoreAct,
         core_sw' = SwitchTick(core_sw, TRUE, CoreHosts, sys1_rsp),
         \A c \in Core : Moved(c)
  PROVE  CoreSide' /\ CoreStep
<1>2. \A c \in Core : core[c].phase \in {"exec", "strobe", "wait", "trap"}
  BY DEF Shape
<1>3. CASE core_sw.state = "S_IDLE" /\ Requesting(core_sw, CoreHosts) = {}
  <2>1. /\ sys1_req.stb = 0 /\ core_sw'.state = "S_IDLE"
        /\ \A q \in Port : core_sw'.req[q] = Remembered(core_sw, CoreHosts, q)
    <3>1. Sleeps(core_sw, CoreHosts, sys1_req, core_sw')
      BY <1>3, SwitchSleeps, CoreHostsFields, Zenon DEF sys1_req
    <3> QED BY <3>1 DEF Sleeps
  <2>2. \A c \in Core : core[c].phase \in {"exec", "trap"} /\ core_sw.req[CorePort[c]] # 1
    BY <1>2, <1>3, CoreSignals, PortCore DEF Requesting, CoreSide, Connected
  <2>3. \A c \in Core : core_sw'.req[CorePort[c]] # 1 /\ core'[c].phase # "wait"
    <3> TAKE c \in Core
    <3>1. core'[c].phase # "wait"
      BY <2>2 DEF Moved
    <3>2. CorePort[c] \in Port /\ CoreHosts[CorePort[c]].stb # 1 /\ core_sw.state # Busy[CorePort[c]]
      BY <1>3, <2>2, CoreSignals, PortCore
    <3> QED BY <2>1, <2>2, <3>1, <3>2 DEF Remembered
  <2>4. \A c \in Core : ~Connected(c) /\ ~Connected(c)'
    BY <1>3, <2>1, CoreSignals, PortCore DEF Connected
  <2>5. CoreSide'
    BY <2>1, <2>3, <2>4 DEF CoreSide
  <2> QED BY <2>1, <2>4, <2>5 DEF CoreStep, CoreRests
<1>4. CASE core_sw.state = "S_IDLE" /\ Requesting(core_sw, CoreHosts) # {}
  <2>1. PICK p \in Requesting(core_sw, CoreHosts) :
          /\ sys1_req.stb = 1 /\ sys1_req.lock = CoreHosts[p].lock
          /\ core_sw'.state = Busy[p] /\ core_sw'.sel_q = p
          /\ \A q \in Port : core_sw'.lock[q] = CoreHosts[q].lock
          /\ \A q \in Port : core_sw'.req[q] = Remembered(core_sw, CoreHosts, q)
    <3>1. \E p \in Requesting(core_sw, CoreHosts) :
            Grants(core_sw, CoreHosts, p, sys1_req, core_sw')
      BY <1>4, SwitchGrants, CoreHostsFields, Zenon DEF sys1_req
    <3> QED BY <3>1 DEF Grants
  <2>2. p \in Port
    BY <2>1 DEF Requesting
  <2>3. PICK d \in Core : CorePort[d] = p
    BY <2>2, PortCore
  <2>4. \A c \in Core : ~Connected(c) /\ ~Serving(c)
    BY <1>4, CoreSignals, PortCore DEF Connected, Serving
  <2>5. \A c \in Core : core_sw'.req[CorePort[c]] = 1 <=> core[c].phase \in {"strobe", "wait"}
    <3> TAKE c \in Core
    <3>1. CorePort[c] \in Port /\ core_sw.state # Busy[CorePort[c]]
      BY <2>4, CoreSignals DEF Connected
    <3>2. core_sw'.req[CorePort[c]] = IF core[c].phase = "strobe" THEN 1 ELSE core_sw.req[CorePort[c]]
      BY <2>1, <3>1, CoreSignals DEF Remembered
    <3>3. core_sw.req[CorePort[c]] = 1 <=> core[c].phase = "wait"
      BY <2>4 DEF CoreSide
    <3> QED BY <3>2, <3>3
  <2>6. \A c \in Core : core'[c].phase = "wait" <=> core[c].phase \in {"strobe", "wait"}
    BY <1>2, <2>4 DEF Moved
  <2>7. core[d].phase \in {"strobe", "wait"}
    BY <2>1, <2>3, CoreSignals DEF Requesting, CoreSide
  <2>8. LockOf(core'[d]) = LockOf(core[d])
    BY <2>4, <2>7 DEF Moved
  <2>9. core_sw'.lock[p] = LockOf(core'[d]) /\ sys1_req.lock = LockOf(core[d])
    BY <2>1, <2>2, <2>3, <2>8, CoreSignals
  <2>10. \A c \in Core : Connected(c)' <=> c = d
    <3> TAKE c \in Core
    <3>1. Connected(c)' <=> Busy[p] = Busy[CorePort[c]]
      BY <2>1 DEF Connected
    <3>2. CorePort[c] \in Port
      BY CoreSignals
    <3> QED BY <2>2, <2>3, <3>1, <3>2, PortCore
  <2>11. CoreSide'
    BY <2>1, <2>2, <2>3, <2>5, <2>6, <2>7, <2>9, <2>10 DEF CoreSide
  <2>12. CoreBegins
    BY <2>1, <2>3, <2>4, <2>6, <2>7, <2>8, <2>9, <2>10 DEF CoreBegins, Serving
  <2> QED BY <2>11, <2>12 DEF CoreStep
<1>5. CASE \E p \in Port : core_sw.state = Busy[p]
  <2>1. PICK p \in Port : core_sw.state = Busy[p]
    BY <1>5
  <2>2. PICK d \in Core : CorePort[d] = p
    BY PortCore
  <2>3. /\ sys1_req.stb = CoreHosts[p].stb /\ sys1_req.lock = CoreHosts[p].lock
        /\ core_sw'.state = IF Ends(core_sw, CoreHosts, sys1_rsp, p) THEN "S_IDLE" ELSE Busy[p]
        /\ core_sw'.sel_q = p /\ core_sw'.lock = core_sw.lock
        /\ \A q \in Port : core_sw'.req[q] = Remembered(core_sw, CoreHosts, q)
    <3>1. Serves(core_sw, CoreHosts, sys1_rsp, p, sys1_req, core_sw')
      BY <2>1, SwitchServes, CoreHostsFields, Zenon DEF sys1_req
    <3> QED BY <3>1 DEF Serves
  <2>4. \A c \in Core : Connected(c) <=> c = d
    BY <2>1, <2>2, CoreSignals, PortCore DEF Connected
  <2>5. /\ core[d].phase # "strobe"
        /\ core_sw.lock[p] = IF core[d].phase = "wait" THEN LockOf(core[d]) ELSE 1
    BY <2>2, <2>4 DEF CoreSide
  <2>6. sys1_req.stb = 0 /\ sys1_req.lock = LockOf(core[d]) /\ LockOf(core[d]) \in Bit
    BY <2>2, <2>3, <2>5, CoreSignals DEF Bit
  <2>7. \A c \in Core \ {d} :
          /\ core[c].phase = "wait" <=> core_sw.req[CorePort[c]] = 1
          /\ core'[c].phase = "wait" <=> core[c].phase \in {"strobe", "wait"}
    <3> TAKE c \in Core \ {d}
    <3>1. ~Connected(c) /\ ~Serving(c) /\ Moved(c)
      BY <2>4 DEF Serving
    <3>2. core[c].phase = "wait" <=> core_sw.req[CorePort[c]] = 1
      BY <3>1 DEF CoreSide
    <3>3. core'[c].phase = "wait" <=> core[c].phase \in {"strobe", "wait"}
      BY <1>2, <3>1 DEF Moved
    <3> QED BY <3>2, <3>3
  <2>8. \A c \in Core \ {d} : core_sw'.req[CorePort[c]] = 1 <=> core'[c].phase = "wait"
    <3> TAKE c \in Core \ {d}
    <3>1. CorePort[c] \in Port /\ core_sw.state # Busy[CorePort[c]]
      BY <2>4, CoreSignals DEF Connected
    <3>2. core_sw'.req[CorePort[c]] = IF core[c].phase = "strobe" THEN 1 ELSE core_sw.req[CorePort[c]]
      BY <2>3, <3>1, CoreSignals DEF Remembered
    <3> QED BY <2>7, <3>2
  <2>9. core_sw'.req[p] # 1
    <3>1. core_sw'.req[p] = 0
      BY <2>1, <2>3 DEF Remembered
    <3>2. \A n : n = 0 => n # 1
      OBVIOUS
    <3> QED BY <3>1, <3>2, Zenon
  <2>10. \A c \in Core \ {d} : ~Connected(c)'
    <3> TAKE c \in Core \ {d}
    <3>1. CorePort[c] \in Port /\ CorePort[c] # p
      BY <2>2, CoreSignals, PortCore
    <3>2. Busy[CorePort[c]] # Busy[p] /\ Busy[CorePort[c]] # "S_IDLE"
      BY <3>1, PortCore
    <3> QED BY <2>3, <3>2 DEF Connected
  <2>11. Connected(d)' <=> ~Ends(core_sw, CoreHosts, sys1_rsp, p)
    BY <2>1, <2>2, <2>3, PortCore DEF Connected
  <2>12. core_sw'.state \in {"S_IDLE"} \cup {Busy[q] : q \in Port}
    BY <2>1, <2>3
  <2>13. Ends(core_sw, CoreHosts, sys1_rsp, p) <=>
           IF core_sw.lock[p] = 1 THEN LockOf(core[d]) = 0 ELSE sys1_rsp.ack = 1
    BY <2>2, CoreSignals DEF Ends
  <2> DEFINE own == /\ core'[d].phase = "wait" => Connected(d)'
                    /\ Connected(d)' =>
                         /\ core'[d].phase # "strobe"
                         /\ core_sw'.lock[p] = IF core'[d].phase = "wait" THEN LockOf(core'[d]) ELSE 1
  <2>14. SUFFICES own /\ (CoreWaits(d) \/ CoreAnswered(d) \/ CoreReleases(d))
    <3>1. ASSUME own, NEW c \in Core
          PROVE  /\ core'[c].phase = "wait" => core_sw'.req[CorePort[c]] = 1 \/ Connected(c)'
                 /\ core_sw'.req[CorePort[c]] = 1 => core'[c].phase = "wait"
                 /\ Connected(c)' =>
                      /\ core_sw'.sel_q = CorePort[c] /\ core'[c].phase # "strobe"
                      /\ core_sw'.lock[CorePort[c]] =
                           IF core'[c].phase = "wait" THEN LockOf(core'[c]) ELSE 1
      <4>1. CASE c = d
        <5>1. Connected(c)' <=> Connected(d)'
          BY <4>1 DEF Connected
        <5>2. CorePort[c] = p /\ core'[c] = core'[d]
          BY <2>2, <4>1
        <5>3. core_sw'.sel_q = p
          BY <2>3
        <5> QED BY <2>9, <3>1, <5>1, <5>2, <5>3
      <4>2. CASE c # d
        BY <2>8, <2>10, <4>2
      <4> QED BY <4>1, <4>2
    <3>2. own => CoreSide'
      BY <2>12, <3>1 DEF CoreSide
    <3> QED BY <3>2 DEF CoreStep
  <2>15. CASE core[d].phase = "wait" /\ sys1_rsp.ack = 0
    <3>1. core'[d] = core[d] /\ Serving(d)
      BY <2>4, <2>15 DEF Moved, Serving
    <3>2. ~Ends(core_sw, CoreHosts, sys1_rsp, p)
      BY <2>5, <2>6, <2>13, <2>15
    <3>3. Serving(d)' /\ core_sw.lock[p] = LockOf(core[d])
      BY <2>5, <2>11, <2>15, <3>1, <3>2 DEF Serving
    <3> QED BY <2>2, <2>3, <2>5, <2>6, <2>11, <2>15, <3>1, <3>2, <3>3 DEF CoreWaits
  <2>16. CASE core[d].phase = "wait" /\ sys1_rsp.ack # 0
    <3>1. sys1_rsp.ack = 1 /\ Serving(d) /\ core'[d].phase \in {"exec", "trap"}
      BY <2>4, <2>16 DEF Moved, Serving, Bit
    <3>2. ~CoreAct'
      BY <2>10, <3>1 DEF CoreAct, Serving
    <3>3. core_sw.lock[p] = LockOf(core[d]) /\ (core_sw.lock[p] # 1 <=> core_sw.lock[p] = 0)
      BY <2>5, <2>6, <2>16 DEF Bit
    <3>4. Connected(d)' <=> core_sw.lock[p] = 1
      BY <2>11, <2>13, <3>1, <3>3
    <3>5. CoreAnswered(d)
      BY <2>2, <2>3, <2>6, <3>1, <3>2, <3>3, <3>4 DEF CoreAnswered
    <3> QED BY <2>3, <3>1, <3>4, <3>5
  <2>17. CASE core[d].phase # "wait"
    <3>1. LockOf(core[d]) = 0 /\ core_sw.lock[p] = 1
      BY <1>2, <2>5, <2>17, CoreSignals
    <3>2. ~Connected(d)'
      BY <2>11, <2>13, <3>1
    <3>3. core'[d].phase # "wait"
      BY <1>2, <2>5, <2>17 DEF Moved
    <3>4. ~CoreAct /\ ~CoreAct'
      BY <2>4, <2>10, <2>17, <3>2 DEF CoreAct, Serving
    <3>5. CoreReleases(d)
      BY <2>2, <2>4, <2>6, <3>1, <3>4 DEF CoreReleases
    <3> QED BY <3>2, <3>3, <3>5
  <2> QED BY <2>15, <2>16, <2>17
<1> QED BY <1>3, <1>4, <1>5 DEF CoreSide

-----------------------------------------------------------------------------
(* The second switch: its hosts are the first switch and the DMA. *)

\* What the DMA does, given whether it is answered.
DmaMoved ==
  /\ dma.phase = "idle"   => dma'.phase \in {"idle", "strobe"}
  /\ dma.phase = "strobe" => dma'.phase = "wait"
  /\ dma.phase = "wait"   => IF dma_sw.state = "S_BUSY_B" /\ sys2_rsp.ack = 1
                             THEN dma'.phase = "idle" ELSE dma'.phase = "wait"

LEMMA DmaMoves ==
  ASSUME Shape, DmaTick, DmaRsp.ack \in Bit,
         DmaRsp.ack = 1 <=> dma_sw.state = "S_BUSY_B" /\ sys2_rsp.ack = 1
  PROVE  /\ DmaMoved
         /\ {"phase", "req"} \subseteq DOMAIN dma' /\ dma'.phase \in {"idle", "strobe", "wait"}
<1>1. {"phase", "req"} \subseteq DOMAIN dma /\ dma.phase \in {"idle", "strobe", "wait"}
  BY DEF Shape
<1>2. CASE dma.phase = "idle" /\ (UNCHANGED dma
                                 \/ \E r \in DmaReqs[flavour] : dma' = [phase |-> "strobe", req |-> r])
  BY <1>1, <1>2 DEF DmaMoved
<1>3. CASE /\ dma.phase = "strobe" \/ (dma.phase = "wait" /\ DmaRsp.ack = 0)
           /\ dma' = [dma EXCEPT !.phase = "wait"]
  BY <1>1, <1>3 DEF DmaMoved
<1>4. CASE dma.phase = "wait" /\ DmaRsp.ack = 1 /\ dma' = [dma EXCEPT !.phase = "idle"]
  BY <1>1, <1>4 DEF DmaMoved
<1> QED BY <1>2, <1>3, <1>4 DEF DmaTick

\* What the first switch shows the second one.
LEMMA CoreStepSeen ==
  ASSUME CoreStep
  PROVE  /\ sys1_req.stb \in Bit
         /\ sys1_req.stb = 1 => ~CoreAct
         /\ CoreAct' <=> sys1_req.stb = 1 \/ (CoreAct /\ sys1_rsp.ack # 1)
<1>1. CASE CoreRests
  BY <1>1 DEF CoreRests, CoreAct, Serving, Bit
<1>2. CASE CoreBegins
  BY <1>2 DEF CoreBegins, CoreAct, Serving, Bit
<1>3. CASE \E c \in Core : CoreWaits(c)
  BY <1>3 DEF CoreWaits, CoreAct, Bit
<1>4. CASE \E c \in Core : CoreAnswered(c)
  BY <1>4 DEF CoreAnswered, CoreAct, Bit
<1>5. CASE \E c \in Core : CoreReleases(c)
  BY <1>5 DEF CoreReleases, Bit
<1> QED BY <1>1, <1>2, <1>3, <1>4, <1>5 DEF CoreStep

LEMMA DmaHostsFields ==
  ASSUME CoreSide
  PROVE  Hosts(DmaHosts)
<1>1. CASE core_sw.state = "S_IDLE" /\ Requesting(core_sw, CoreHosts) = {}
  <2>1. \E n : Sleeps(core_sw, CoreHosts, sys1_req, n)
    BY <1>1, SwitchSleeps, CoreHostsFields, Zenon DEF sys1_req
  <2> QED BY <2>1 DEF Sleeps, Hosts, DmaHosts, DmaReq, Port
<1>2. CASE core_sw.state = "S_IDLE" /\ Requesting(core_sw, CoreHosts) # {}
  <2>1. \E p, n : Grants(core_sw, CoreHosts, p, sys1_req, n)
    BY <1>2, SwitchGrants, CoreHostsFields, Zenon DEF sys1_req
  <2> QED BY <2>1 DEF Grants, Hosts, DmaHosts, DmaReq, Port
<1>3. CASE \E p \in Port : core_sw.state = Busy[p]
  <2>1. \E p, r, n : Serves(core_sw, CoreHosts, r, p, sys1_req, n)
    BY <1>3, SwitchServes, CoreHostsFields, Zenon DEF sys1_req
  <2> QED BY <2>1 DEF Serves, Hosts, DmaHosts, DmaReq, Port
<1> QED BY <1>1, <1>2, <1>3 DEF CoreSide

LEMMA DmaSignals ==
  /\ DmaHosts["A"] = sys1_req /\ DmaHosts["B"] = DmaReq
  /\ DmaReq.stb = 1 <=> dma.phase = "strobe"
  /\ DmaReq.stb \in Bit /\ DmaReq.lock = 0
  /\ Port = {"A", "B"} /\ Busy["A"] = "S_BUSY_A" /\ Busy["B"] = "S_BUSY_B"
  BY DEF DmaHosts, DmaReq, BitOf, Bit, Port, Busy

\* A host that is not served has its strobe remembered.
LEMMA CoreRemembered ==
  ASSUME CoreStep, DmaSide, dma_sw.state # "S_BUSY_A", sys1_rsp.ack # 1,
         dma_sw'.req["A"] = Remembered(dma_sw, DmaHosts, "A")
  PROVE  dma_sw'.req["A"] = 1 <=> CoreAct'
<1>1. dma_sw'.req["A"] = IF sys1_req.stb = 1 THEN 1 ELSE dma_sw.req["A"]
  BY DmaSignals DEF Remembered
<1>2. dma_sw.req["A"] = 1 <=> CoreAct
  BY DEF DmaSide
<1> QED BY <1>1, <1>2, CoreStepSeen

LEMMA DmaRemembered ==
  ASSUME Shape, DmaSide, DmaMoved, dma_sw.state # "S_BUSY_B",
         dma_sw'.req["B"] = Remembered(dma_sw, DmaHosts, "B")
  PROVE  dma_sw'.req["B"] = 1 <=> dma'.phase = "wait"
<1>1. dma_sw'.req["B"] = IF dma.phase = "strobe" THEN 1 ELSE dma_sw.req["B"]
  BY DmaSignals DEF Remembered
<1>2. dma_sw.req["B"] = 1 <=> dma.phase = "wait"
  BY DEF DmaSide
<1>3. dma'.phase = "wait" <=> dma.phase \in {"strobe", "wait"}
  BY DEF Shape, DmaMoved
<1> QED BY <1>1, <1>2, <1>3

\* What the stations behind the switches see: a strobe begins an access, the
\* answer ends it.
AccessStep ==
  /\ sys2_req.stb \in Bit
  /\ sys2_req.stb = 1 => ~Active
  /\ Active' <=> sys2_req.stb = 1 \/ (Active /\ sys2_rsp.ack # 1)

LEMMA OneConnected ==
  ASSUME NEW c \in Core, NEW d \in Core, Connected(c), Connected(d)
  PROVE  c = d
<1>1. Busy[CorePort[c]] = Busy[CorePort[d]]
  BY DEF Connected
<1>2. CorePort[c] \in Port /\ CorePort[d] \in Port
  BY DEF CorePort, Port, Core
<1> QED BY <1>1, <1>2, PortCore

\* The second switch while it serves the cores.
LEMMA ServeCores ==
  ASSUME Shape, CoreSide, DmaSide, CoreStep, DmaMoved, dma_sw.state = "S_BUSY_A",
         sys2_rsp.ack \in Bit, sys1_rsp.ack = sys2_rsp.ack,
         Serves(dma_sw, DmaHosts, sys2_rsp, "A", sys2_req, dma_sw')
  PROVE  DmaSide' /\ AccessStep
<1>1. PICK c \in Core : Connected(c) /\ dma_sw.lock["A"] = core_sw.lock[CorePort[c]]
  BY DEF DmaSide
<1>2. CoreWaits(c) \/ CoreAnswered(c) \/ CoreReleases(c)
  <2>1. ~CoreRests /\ ~CoreBegins
    BY <1>1 DEF CoreRests, CoreBegins
  <2>2. PICK d \in Core : CoreWaits(d) \/ CoreAnswered(d) \/ CoreReleases(d)
    BY <2>1 DEF CoreStep
  <2>3. Connected(d)
    BY <2>2 DEF CoreWaits, CoreAnswered, CoreReleases, Serving
  <2>4. d = c
    BY <1>1, <2>3, OneConnected
  <2> QED BY <2>2, <2>4
<1>3. /\ sys2_req.stb = sys1_req.stb
      /\ dma_sw'.state = IF Ends(dma_sw, DmaHosts, sys2_rsp, "A") THEN "S_IDLE" ELSE "S_BUSY_A"
      /\ dma_sw'.sel_q = "A" /\ dma_sw'.lock = dma_sw.lock
      /\ \A q \in Port : dma_sw'.req[q] = Remembered(dma_sw, DmaHosts, q)
  BY DmaSignals DEF Serves
<1>4. Ends(dma_sw, DmaHosts, sys2_rsp, "A") <=>
        IF core_sw.lock[CorePort[c]] = 1 THEN sys1_req.lock = 0 ELSE sys2_rsp.ack = 1
  BY <1>1, DmaSignals DEF Ends
<1>5. dma_sw'.req["A"] = 0 /\ (dma_sw'.req["B"] = 1 <=> dma'.phase = "wait")
  BY <1>3, DmaRemembered, DmaSignals DEF Remembered
<1>6. Active <=> CoreAct
  BY DEF Active
<1>7. CASE CoreWaits(c)
  <2>1. dma_sw'.state = "S_BUSY_A"
    BY <1>3, <1>4, <1>7 DEF CoreWaits, Bit
  <2>2. CoreAct /\ CoreAct' /\ Connected(c)'
    BY <1>7 DEF CoreWaits, CoreAct, Serving
  <2>3. dma_sw'.lock["A"] = core_sw'.lock[CorePort[c]]
    BY <1>1, <1>3, <1>7 DEF CoreWaits
  <2>4. DmaSide'
    BY <1>3, <1>5, <2>1, <2>2, <2>3 DEF DmaSide, Port, Busy
  <2>5. AccessStep
    BY <1>3, <1>6, <1>7, <2>1, <2>2 DEF AccessStep, Active, CoreWaits, Bit
  <2> QED BY <2>4, <2>5
<1>8. CASE CoreAnswered(c)
  <2>1. CoreAct /\ ~CoreAct'
    BY <1>8 DEF CoreAnswered, CoreAct
  <2>2. CASE core_sw.lock[CorePort[c]] = 1
    <3>1. dma_sw'.state = "S_BUSY_A"
      BY <1>3, <1>4, <1>8, <2>2 DEF CoreAnswered
    <3>2. Connected(c)' /\ dma_sw'.lock["A"] = core_sw'.lock[CorePort[c]]
      BY <1>1, <1>3, <1>8, <2>2 DEF CoreAnswered
    <3> QED BY <1>3, <1>5, <1>6, <1>8, <2>1, <3>1, <3>2
             DEF DmaSide, Port, Busy, AccessStep, Active, CoreAnswered, Bit
  <2>3. CASE core_sw.lock[CorePort[c]] # 1
    <3>1. dma_sw'.state = "S_IDLE"
      BY <1>3, <1>4, <1>8, <2>3 DEF CoreAnswered
    <3> QED BY <1>3, <1>5, <1>6, <1>8, <2>1, <3>1
             DEF DmaSide, Port, Busy, AccessStep, Active, CoreAnswered, Bit
  <2> QED BY <2>2, <2>3
<1>9. CASE CoreReleases(c)
  <2>1. dma_sw'.state = "S_IDLE" /\ ~CoreAct /\ ~CoreAct' /\ sys1_req.stb = 0
    BY <1>3, <1>4, <1>9 DEF CoreReleases
  <2> QED BY <1>3, <1>5, <1>6, <2>1 DEF DmaSide, Port, Busy, AccessStep, Active, Bit
<1> QED BY <1>2, <1>7, <1>8, <1>9

\* The second switch while it serves the DMA.
LEMMA ServeDma ==
  ASSUME Shape, DmaSide, CoreStep, DmaMoved, dma_sw.state = "S_BUSY_B",
         sys2_rsp.ack \in Bit, sys1_rsp.ack # 1,
         Serves(dma_sw, DmaHosts, sys2_rsp, "B", sys2_req, dma_sw')
  PROVE  DmaSide' /\ AccessStep
<1>1. dma.phase = "wait" /\ dma_sw.lock["B"] = 0
  BY DEF DmaSide
<1>2. /\ sys2_req.stb = DmaReq.stb
      /\ dma_sw'.state = IF Ends(dma_sw, DmaHosts, sys2_rsp, "B") THEN "S_IDLE" ELSE "S_BUSY_B"
      /\ dma_sw'.sel_q = "B" /\ dma_sw'.lock = dma_sw.lock
      /\ \A q \in Port : dma_sw'.req[q] = Remembered(dma_sw, DmaHosts, q)
  BY DmaSignals DEF Serves
<1>3. sys2_req.stb = 0
  BY <1>1, <1>2, DmaSignals DEF Bit
<1>4. Ends(dma_sw, DmaHosts, sys2_rsp, "B") <=> sys2_rsp.ack = 1
  BY <1>1 DEF Ends
<1>5. dma_sw'.req["B"] = 0 /\ (dma_sw'.req["A"] = 1 <=> CoreAct')
  BY <1>2, CoreRemembered, DmaSignals DEF Remembered
<1>6. dma'.phase = IF sys2_rsp.ack = 1 THEN "idle" ELSE "wait"
  BY <1>1 DEF DmaMoved
<1> QED BY <1>1, <1>2, <1>3, <1>4, <1>5, <1>6 DEF DmaSide, Port, Busy, AccessStep, Active, Bit

\* The idle second switch.
LEMMA ServeNobody ==
  ASSUME Shape, CoreSide, DmaSide, CoreStep, DmaMoved, dma_sw.state = "S_IDLE",
         sys1_rsp.ack # 1,
         dma_sw' = SwitchTick(dma_sw, FALSE, DmaHosts, sys2_rsp)
  PROVE  DmaSide' /\ AccessStep
<1>1. ~Active
  BY DEF Active
<1>2. ASSUME \A q \in Port : dma_sw'.req[q] = Remembered(dma_sw, DmaHosts, q)
      PROVE  /\ dma_sw'.req["A"] = 1 <=> CoreAct'
             /\ dma_sw'.req["B"] = 1 <=> dma'.phase = "wait"
  BY <1>2, CoreRemembered, DmaRemembered, DmaSignals
<1>3. CASE Requesting(dma_sw, DmaHosts) = {}
  <2>1. Sleeps(dma_sw, DmaHosts, sys2_req, dma_sw')
    BY <1>3, SwitchSleeps, DmaHostsFields, Zenon DEF sys2_req
  <2>2. /\ sys2_req.stb = 0 /\ dma_sw'.state = "S_IDLE"
        /\ dma_sw'.req["A"] = 1 <=> CoreAct'
        /\ dma_sw'.req["B"] = 1 <=> dma'.phase = "wait"
    <3>1. \A q \in Port : dma_sw'.req[q] = Remembered(dma_sw, DmaHosts, q)
      BY <2>1 DEF Sleeps
    <3> QED BY <1>2, <2>1, <3>1 DEF Sleeps
  <2>3. sys1_req.stb # 1 /\ dma_sw.req["A"] # 1
    BY <1>3, DmaSignals DEF Requesting
  <2>4. ~CoreAct'
    BY <2>3, CoreStepSeen DEF DmaSide
  <2>5. dma'.phase # "wait"
    <3>1. dma.phase = "idle"
      BY <1>3, DmaSignals DEF Requesting, DmaSide, Shape
    <3> QED BY <3>1 DEF DmaMoved
  <2>6. DmaSide'
    BY <2>2, <2>4, <2>5 DEF DmaSide
  <2>7. AccessStep
    <3>1. ~Active'
      BY <2>2 DEF Active
    <3>2. sys2_req.stb \in Bit /\ sys2_req.stb # 1
      BY <2>2 DEF Bit
    <3> QED BY <1>1, <3>1, <3>2 DEF AccessStep
  <2> QED BY <2>6, <2>7
<1>4. CASE Requesting(dma_sw, DmaHosts) # {}
  <2>1. PICK p \in Requesting(dma_sw, DmaHosts) : Grants(dma_sw, DmaHosts, p, sys2_req, dma_sw')
    BY <1>4, SwitchGrants, DmaHostsFields, Zenon DEF sys2_req
  <2>2. /\ sys2_req.stb = 1
        /\ dma_sw'.state = Busy[p] /\ dma_sw'.sel_q = p
        /\ dma_sw'.lock["A"] = sys1_req.lock /\ dma_sw'.lock["B"] = 0
        /\ dma_sw'.req["A"] = 1 <=> CoreAct'
        /\ dma_sw'.req["B"] = 1 <=> dma'.phase = "wait"
    BY <1>2, <2>1, DmaSignals DEF Grants
  <2>3. CASE p = "A"
    <3>1. dma_sw'.state = "S_BUSY_A"
      BY <2>2, <2>3, DmaSignals
    <3>2. sys1_req.stb = 1 \/ dma_sw.req["A"] = 1
      BY <2>1, <2>3, DmaSignals DEF Requesting
    <3>3. CoreAct'
      BY <3>2, CoreStepSeen DEF DmaSide
    <3>4. \E c \in Core : Connected(c)' /\ sys1_req.lock = core_sw'.lock[CorePort[c]]
      <4>1. CASE CoreBegins
        BY <4>1 DEF CoreBegins, Serving
      <4>2. CASE \E c \in Core : CoreWaits(c)
        BY <4>2 DEF CoreWaits, Serving
      <4>3. CASE CoreRests
        BY <3>3, <4>3 DEF CoreRests, CoreAct, Serving
      <4>4. CASE \E c \in Core : CoreAnswered(c) \/ CoreReleases(c)
        BY <3>3, <4>4 DEF CoreAnswered, CoreReleases
      <4> QED BY <4>1, <4>2, <4>3, <4>4 DEF CoreStep
    <3> QED BY <1>1, <2>2, <2>3, <3>1, <3>3, <3>4 DEF DmaSide, AccessStep, Active, Bit, Port, Busy
  <2>4. CASE p = "B"
    <3>1. dma_sw'.state = "S_BUSY_B"
      BY <2>2, <2>4, DmaSignals
    <3>2. dma.phase = "strobe" \/ dma.phase = "wait"
      BY <2>1, <2>4, DmaSignals DEF Requesting, DmaSide
    <3>3. dma'.phase = "wait"
      BY <3>2 DEF DmaMoved
    <3> QED BY <1>1, <2>2, <2>4, <3>1, <3>3 DEF DmaSide, AccessStep, Active, Bit, Port, Busy
  <2> QED BY <2>1, <2>3, <2>4, DmaSignals DEF Requesting
<1> QED BY <1>3, <1>4

-----------------------------------------------------------------------------
(* The stations behind the switches, and the way of the signals. *)

\* Where the answers go.
LEMMA Acks ==
  ASSUME Shape, DmaSide, MemSide
  PROVE  /\ sys2_rsp.ack = CASE rmw.state \in {"S_IDLE", "S_WRITE_WAIT"} -> sys_rsp.ack
                            [] rmw.state = "S_READ_ERROR" -> 1 [] OTHER -> 0
         /\ sys2_rsp.ack \in Bit
         /\ sys2_rsp.ack = 1 => Active
         /\ {"ack", "err"} \subseteq DOMAIN sys1_rsp /\ sys1_rsp.ack \in Bit
         /\ sys1_rsp.ack = 1 <=> dma_sw.state = "S_BUSY_A" /\ sys2_rsp.ack = 1
         /\ sys1_rsp.ack = 1 => CoreAct
         /\ DmaRsp.ack \in Bit
         /\ DmaRsp.ack = 1 <=> dma_sw.state = "S_BUSY_B" /\ sys2_rsp.ack = 1
<1>1. {"ack", "err"} \subseteq DOMAIN sys2_rsp
  BY DEF sys2_rsp, rmw_rsp
<1>2. rvs_rsp(sys_rsp).ack = sys_rsp.ack
  BY DEF Shape, rvs_rsp
<1>3. sys2_rsp.ack = CASE rmw.state \in {"S_IDLE", "S_WRITE_WAIT"} -> sys_rsp.ack
                       [] rmw.state = "S_READ_ERROR" -> 1 [] OTHER -> 0
  BY <1>2 DEF sys2_rsp, rmw_rsp
<1>4. sys2_rsp.ack \in Bit
  BY <1>3 DEF Shape, Bit
<1>5. sys2_rsp.ack = 1 => Active
  BY <1>3 DEF MemSide, MemBusy
<1>6. /\ {"ack", "err"} \subseteq DOMAIN sys1_rsp
      /\ sys1_rsp.ack = IF dma_sw.sel_q = "A" THEN sys2_rsp.ack ELSE 0
      /\ DmaRsp.ack = IF dma_sw.sel_q = "B" THEN sys2_rsp.ack ELSE 0
  BY <1>1 DEF sys1_rsp, DmaRsp, port_rsp
<1>7. sys1_rsp.ack \in Bit /\ DmaRsp.ack \in Bit
  BY <1>4, <1>6 DEF Bit
<1>8. sys1_rsp.ack = 1 <=> dma_sw.state = "S_BUSY_A" /\ sys2_rsp.ack = 1
  BY <1>5, <1>6 DEF Active, DmaSide
<1>9. DmaRsp.ack = 1 <=> dma_sw.state = "S_BUSY_B" /\ sys2_rsp.ack = 1
  BY <1>5, <1>6 DEF Active, DmaSide
<1>10. sys1_rsp.ack = 1 => CoreAct
  BY <1>5, <1>8 DEF Active
<1> QED BY <1>3, <1>4, <1>5, <1>6, <1>7, <1>8, <1>9, <1>10

\* Where the strobes come from.
LEMMA Strobes ==
  ASSUME CoreSide, DmaSide
  PROVE  /\ "stb" \in DOMAIN sys2_req
         /\ sys2_req.stb = 1 => ~Active
<1>1. CASE dma_sw.state = "S_IDLE"
  <2>1. CASE Requesting(dma_sw, DmaHosts) = {}
    <3>1. \E n : Sleeps(dma_sw, DmaHosts, sys2_req, n)
      BY <1>1, <2>1, SwitchSleeps, DmaHostsFields, Zenon DEF sys2_req
    <3> QED BY <1>1, <3>1 DEF Sleeps, Active
  <2>2. CASE Requesting(dma_sw, DmaHosts) # {}
    <3>1. \E p, n : Grants(dma_sw, DmaHosts, p, sys2_req, n)
      BY <1>1, <2>2, SwitchGrants, DmaHostsFields, Zenon DEF sys2_req
    <3> QED BY <1>1, <3>1 DEF Grants, Active
  <2> QED BY <2>1, <2>2
<1>2. CASE dma_sw.state = "S_BUSY_A"
  <2>1. \E r, n : Serves(dma_sw, DmaHosts, r, "A", sys2_req, n)
    BY <1>2, SwitchServes, DmaHostsFields, DmaSignals, Zenon DEF sys2_req
  <2>2. "stb" \in DOMAIN sys2_req /\ sys2_req.stb = sys1_req.stb
    BY <2>1, DmaSignals DEF Serves
  <2>3. PICK c \in Core : Connected(c)
    BY <1>2 DEF DmaSide
  <2>4. CorePort[c] \in Port /\ core_sw.state = Busy[CorePort[c]]
    BY <2>3, CoreSignals DEF Connected
  <2>5. \E r, n : Serves(core_sw, CoreHosts, r, CorePort[c], sys1_req, n)
    BY <2>4, SwitchServes, CoreHostsFields, Zenon DEF sys1_req
  <2>6. sys1_req.stb = CoreHosts[CorePort[c]].stb /\ core[c].phase # "strobe"
    BY <2>3, <2>5 DEF Serves, CoreSide
  <2> QED BY <2>2, <2>6, CoreSignals
<1>3. CASE dma_sw.state = "S_BUSY_B"
  <2>1. \E r, n : Serves(dma_sw, DmaHosts, r, "B", sys2_req, n)
    BY <1>3, SwitchServes, DmaHostsFields, DmaSignals, Zenon DEF sys2_req
  <2>2. "stb" \in DOMAIN sys2_req /\ sys2_req.stb = DmaReq.stb /\ dma.phase = "wait"
    BY <1>3, <2>1, DmaSignals DEF Serves, DmaSide
  <2> QED BY <2>2, DmaSignals
<1> QED BY <1>1, <1>2, <1>3, DmaSignals DEF DmaSide

LEMMA MemStrobe ==
  ASSUME Shape, "stb" \in DOMAIN sys2_req
  PROVE  sys3_req.stb = IF rmw.state = "S_WRITE" THEN 1 ELSE sys2_req.stb
<1>1. "stb" \in DOMAIN amo_req /\ amo_req.stb = IF rmw.state = "S_WRITE" THEN 1 ELSE sys2_req.stb
  BY DEF amo_req, rmw_req
<1> QED BY <1>1 DEF sys3_req, rvs_req

\* What the memory and the read-modify-write controller do at a clock edge.
LEMMA MemMoves ==
  ASSUME Shape, NEW err, Answer(err) \/ Delay(err)
  PROVE  /\ MemBusy' <=> sys3_req.stb = 1 \/ (MemBusy /\ sys_rsp.ack # 1)
         /\ {"ack", "err", "data"} \subseteq DOMAIN sys_rsp' /\ sys_rsp'.ack \in Bit
         /\ {"ack", "err", "data"} \subseteq DOMAIN sys_pend'
         /\ sys_pend' # NoRsp => sys_pend'.ack = 1 /\ sys_rsp'.ack = 0
<1>1. CASE sys3_req.stb = 1
  <2>1. /\ {"ack", "err", "data"} \subseteq DOMAIN Served(err)
        /\ Served(err).ack = 1 /\ Served(err) # NoRsp
    BY <1>1 DEF Served, NoRsp
  <2> QED BY <1>1, <2>1 DEF Answer, Delay, MemBusy, NoRsp, Bit
<1>2. CASE sys3_req.stb # 1
  <2>1. sys_rsp' = sys_pend /\ sys_pend' = NoRsp
    BY <1>2 DEF Answer, Delay, Served
  <2>2. sys_pend.ack \in Bit /\ (sys_pend.ack = 1 <=> sys_pend # NoRsp)
    BY DEF Shape, NoRsp, Bit
  <2> QED BY <1>2, <2>1, <2>2 DEF MemBusy, NoRsp, Shape, Bit
<1> QED BY <1>1, <1>2

RmwMoved ==
  /\ rmw.state = "S_IDLE" =>
       rmw'.state \in {"S_IDLE", "S_READ_WAIT"} /\ (sys2_req.stb # 1 => rmw'.state = "S_IDLE")
  /\ rmw.state = "S_READ_WAIT" =>
       IF sys_rsp.ack = 0 THEN rmw'.state = "S_READ_WAIT"
       ELSE rmw'.state \in {"S_READ_ERROR", "S_EXECUTE"}
  /\ rmw.state = "S_READ_ERROR" => rmw'.state = "S_IDLE"
  /\ rmw.state = "S_EXECUTE"    => rmw'.state = "S_WRITE"
  /\ rmw.state = "S_WRITE"      => rmw'.state = "S_WRITE_WAIT"
  /\ rmw.state = "S_WRITE_WAIT" =>
       rmw'.state = IF sys_rsp.ack = 1 THEN "S_IDLE" ELSE "S_WRITE_WAIT"

LEMMA RmwMoves ==
  ASSUME Shape, RmwTick(sys2_req, rvs_rsp(sys_rsp))
  PROVE  RmwMoved /\ "state" \in DOMAIN rmw' /\ rmw'.state \in rmw_state_t
<1> DEFINE in == rvs_rsp(sys_rsp)
<1>1. \A st : "state" \in DOMAIN Go(st) /\ Go(st).state = st
  BY DEF Shape, Go
<1>2. in.ack = sys_rsp.ack
  BY DEF Shape, rvs_rsp
<1> HIDE DEF in
<1>3. CASE RmwIdle(sys2_req)
  BY <1>1, <1>3 DEF RmwIdle, IsRmw, RmwMoved, rmw_state_t
<1>4. CASE RmwReadWait(in)
  BY <1>1, <1>2, <1>4 DEF RmwReadWait, RmwMoved, rmw_state_t
<1>5. CASE RmwReadError \/ RmwExecute \/ RmwWrite
  BY <1>1, <1>5 DEF RmwReadError, RmwExecute, RmwWrite, RmwMoved, rmw_state_t
<1>6. CASE RmwWriteWait(in)
  BY <1>1, <1>2, <1>6 DEF RmwWriteWait, RmwMoved, rmw_state_t
<1> QED BY <1>3, <1>4, <1>5, <1>6 DEF RmwTick, in

LEMMA MemSideStep ==
  ASSUME Shape, DmaSide, MemSide, AccessStep, RmwMoved,
         MemBusy' <=> sys3_req.stb = 1 \/ (MemBusy /\ sys_rsp.ack # 1),
         "stb" \in DOMAIN sys2_req
  PROVE  MemSide'
<1>1. sys3_req.stb = IF rmw.state = "S_WRITE" THEN 1 ELSE sys2_req.stb
  BY MemStrobe
<1>2. rmw.state \in rmw_state_t /\ sys_rsp.ack \in Bit
  BY DEF Shape
<1>3. CASE ~Active
  BY <1>1, <1>3 DEF MemSide, AccessStep, RmwMoved
<1>4. CASE Active
  <2>1. sys2_req.stb # 1 /\ (Active' <=> sys2_rsp.ack # 1)
    BY <1>4 DEF AccessStep
  <2>2. rmw.state \in {"S_IDLE", "S_READ_WAIT", "S_WRITE_WAIT"} <=> MemBusy
    BY <1>4 DEF MemSide
  <2>3. CASE rmw.state = "S_IDLE"
    BY <1>1, <1>2, <2>1, <2>2, <2>3, Acks DEF MemSide, RmwMoved, Bit
  <2>4. CASE rmw.state = "S_READ_WAIT"
    BY <1>1, <1>2, <2>1, <2>2, <2>4, Acks DEF MemSide, RmwMoved, Bit
  <2>5. CASE rmw.state = "S_READ_ERROR"
    BY <1>1, <2>1, <2>2, <2>5, Acks DEF MemSide, RmwMoved
  <2>6. CASE rmw.state = "S_EXECUTE"
    BY <1>1, <2>1, <2>2, <2>6, Acks DEF MemSide, RmwMoved
  <2>7. CASE rmw.state = "S_WRITE"
    BY <1>1, <2>1, <2>2, <2>7, Acks DEF MemSide, RmwMoved
  <2>8. CASE rmw.state = "S_WRITE_WAIT"
    BY <1>1, <1>2, <2>1, <2>2, <2>8, Acks DEF MemSide, RmwMoved, Bit
  <2> QED BY <1>2, <2>3, <2>4, <2>5, <2>6, <2>7, <2>8 DEF rmw_state_t
<1> QED BY <1>3, <1>4

-----------------------------------------------------------------------------
(* Together. *)

LEMMA InitAccess == Init => AccessInv
<1> SUFFICES ASSUME Init PROVE AccessInv
  OBVIOUS
<1>1. /\ \A c \in Core : core[c].phase = "exec" /\ ~Connected(c)
      /\ dma_sw.state = "S_IDLE" /\ dma.phase = "idle"
      /\ \A p \in Port : core_sw.req[p] # 1 /\ dma_sw.req[p] # 1
  BY DEF Init, SwitchInit, Connected, Busy, CorePort, Port
<1>2. ~CoreAct /\ ~Active
  BY <1>1 DEF CoreAct, Serving, Active
<1>3. Shape
  BY DEF Init, Shape, NoRsp, RmwInit, rmw_state_t, Bit, Core
<1>4. CoreSide
  BY <1>1, CoreSignals DEF CoreSide, Init, SwitchInit
<1>5. DmaSide
  BY <1>1, <1>2, DmaSignals DEF DmaSide
<1>6. MemSide
  BY <1>2 DEF MemSide, MemBusy, Init, RmwInit, NoRsp
<1> QED BY <1>3, <1>4, <1>5, <1>6 DEF AccessInv

\* What a clock edge does to every station, and the invariant after it.
LEMMA TickAccess ==
  ASSUME AccessInv, Tick
  PROVE  /\ AccessInv'
         /\ (\A c \in Core : Moved(c)) /\ DmaMoved /\ RmwMoved
         /\ CoreStep /\ AccessStep
<1>1. Shape /\ CoreSide /\ DmaSide /\ MemSide
  BY DEF AccessInv
<1>2. PICK go : /\ core' = [c \in Core |-> CoreNext(c, c \in go)]
                /\ DmaTick
                /\ core_sw' = SwitchTick(core_sw, TRUE, CoreHosts, sys1_rsp)
                /\ dma_sw' = SwitchTick(dma_sw, FALSE, DmaHosts, sys2_rsp)
                /\ RmwTick(sys2_req, rvs_rsp(sys_rsp))
                /\ \E err \in Bit : Answer(err) \/ Delay(err)
  BY DEF Tick, TickWith
<1>3. DOMAIN core' = Core
  BY <1>2
<1>4. \A c \in Core : \E goes \in BOOLEAN : core'[c] = CoreNext(c, goes)
  <2> TAKE c \in Core
  <2>1. core'[c] = CoreNext(c, c \in go)
    BY <1>2, Zenon
  <2>2. (c \in go) \in BOOLEAN
    OBVIOUS
  <2> QED BY <2>1, <2>2, Zenon
<1>5. \A c \in Core : /\ Moved(c) /\ {"phase", "pc"} \subseteq DOMAIN core'[c]
                      /\ core'[c].phase \in {"exec", "strobe", "wait", "trap"}
  BY <1>1, <1>4, Acks, CoresMove
<1>6. CoreSide' /\ CoreStep
  BY <1>1, <1>2, <1>5, Acks, CoreSideStep
<1>7. DmaMoved /\ {"phase", "req"} \subseteq DOMAIN dma' /\ dma'.phase \in {"idle", "strobe", "wait"}
  BY <1>1, <1>2, Acks, DmaMoves
<1>8. DmaSide' /\ AccessStep
  <2>1. CASE dma_sw.state = "S_IDLE"
    BY <1>1, <1>2, <1>6, <1>7, <2>1, Acks, ServeNobody
  <2>2. CASE dma_sw.state = "S_BUSY_A"
    <3>1. Serves(dma_sw, DmaHosts, sys2_rsp, "A", sys2_req, dma_sw')
      BY <1>1, <1>2, <2>2, SwitchServes, DmaHostsFields, DmaSignals, Zenon DEF sys2_req
    <3>2. sys1_rsp.ack = sys2_rsp.ack
      BY <1>1, <2>2, Acks DEF Bit
    <3> QED BY <1>1, <1>6, <1>7, <2>2, <3>1, <3>2, Acks, ServeCores
  <2>3. CASE dma_sw.state = "S_BUSY_B"
    <3>1. Serves(dma_sw, DmaHosts, sys2_rsp, "B", sys2_req, dma_sw')
      BY <1>1, <1>2, <2>3, SwitchServes, DmaHostsFields, DmaSignals, Zenon DEF sys2_req
    <3> QED BY <1>1, <1>6, <1>7, <2>3, <3>1, Acks, ServeDma
  <2> QED BY <1>1, <2>1, <2>2, <2>3, DmaSignals DEF DmaSide
<1>9. RmwMoved /\ "state" \in DOMAIN rmw' /\ rmw'.state \in rmw_state_t
  BY <1>1, <1>2, RmwMoves
<1>10. PICK err : Answer(err) \/ Delay(err)
  BY <1>2
<1>11. MemSide'
  BY <1>1, <1>8, <1>9, <1>10, MemMoves, MemSideStep, Strobes
<1>12. Shape'
  BY <1>1, <1>3, <1>5, <1>7, <1>9, <1>10, MemMoves DEF Shape
<1>13. AccessInv'
  BY <1>6, <1>8, <1>11, <1>12 DEF AccessInv
<1> QED BY <1>5, <1>6, <1>7, <1>8, <1>9, <1>13

LEMMA TimeoutAccess ==
  ASSUME AccessInv, LaunchTimeout
  PROVE  AccessInv'
<1>1. core[0].phase = "exec" /\ core' = [core EXCEPT ![0].pc = "failed"]
  BY DEF LaunchTimeout
<1>2. UNCHANGED <<dma, core_sw, dma_sw, rmw, sys_pend, sys_rsp>>
  BY DEF LaunchTimeout, busVars
<1>3. \A c \in Core : /\ {"phase", "pc"} \subseteq DOMAIN core'[c]
                      /\ core'[c].phase = core[c].phase
                      /\ core[c].phase = "wait" => core'[c] = core[c]
  BY <1>1 DEF AccessInv, Shape, Core
<1>4. \A c \in Core : (Connected(c)' <=> Connected(c)) /\ (Serving(c)' <=> Serving(c))
  BY <1>2, <1>3 DEF Connected, Serving
<1>5. (CoreAct' <=> CoreAct) /\ (Active' <=> Active)
  BY <1>2, <1>4 DEF CoreAct, Active
<1>6. Shape'
  BY <1>1, <1>2, <1>3 DEF AccessInv, Shape
<1>7. CoreSide'
  BY <1>2, <1>3, <1>4 DEF AccessInv, CoreSide
<1>8. DmaSide'
  BY <1>2, <1>4, <1>5 DEF AccessInv, DmaSide
<1>9. MemSide'
  BY <1>2, <1>5 DEF AccessInv, MemSide, MemBusy
<1> QED BY <1>6, <1>7, <1>8, <1>9 DEF AccessInv

LEMMA AccessSafe == AccessInv => OneAccessAtATime
<1> SUFFICES ASSUME AccessInv PROVE OneAccessAtATime
  OBVIOUS
<1>1. Shape /\ CoreSide /\ DmaSide /\ MemSide
  BY DEF AccessInv
<1>2. sys3_req.stb = 1 => sys_pend = NoRsp
  <2>1. sys2_req.stb = 1 => ~MemBusy
    BY <1>1, Strobes DEF MemSide
  <2>2. rmw.state = "S_WRITE" => ~MemBusy
    BY <1>1 DEF MemSide
  <2> QED BY <1>1, <2>1, <2>2, Strobes, MemStrobe DEF MemBusy
<1>3. \A c \in Core : CoreRsp(c).ack = 1 => core[c].phase = "wait"
  BY <1>1, Acks, AckRoute DEF Serving
<1>4. DmaRsp.ack = 1 => dma.phase = "wait"
  BY <1>1, Acks DEF DmaSide
<1> QED BY <1>2, <1>3, <1>4 DEF OneAccessAtATime

\* For every program, latency and DMA access: the memory side never gets a
\* strobe while an access is pending, and no host sees an answer it does not
\* wait for (neorv32_bus.vhd:35-153, neorv32_bus.vhd:768-898).
THEOREM OneAccess == Spec => []OneAccessAtATime
<1>1. AccessInv /\ [Next]_vars => AccessInv'
  <2> SUFFICES ASSUME AccessInv, [Next]_vars PROVE AccessInv'
    OBVIOUS
  <2>1. CASE Tick
    BY <2>1, TickAccess
  <2>2. CASE LaunchTimeout
    BY <2>2, TimeoutAccess
  <2>3. CASE UNCHANGED vars
    BY <2>3 DEF vars, progVars, busVars, AccessInv, Shape, CoreSide, DmaSide, MemSide,
                Active, CoreAct, Serving, Connected, MemBusy
  <2> QED BY <2>1, <2>2, <2>3 DEF Next
<1> QED BY <1>1, InitAccess, AccessSafe, PTL DEF Spec

-----------------------------------------------------------------------------
(* One access, from the core to the memory and back. *)

Rmws == {"SWAP", "ADD"}

\* The word a read-modify-write instruction leaves.
NewValue(i, old) == IF i.op = "ADD" THEN (old + i.data) % WORD_MOD ELSE i.data

\* The core whose access is on its way behind both switches, and its answer.
Flight(c) == dma_sw.state = "S_BUSY_A" /\ Serving(c)
Ans       == IF sys_rsp.ack = 1 THEN sys_rsp ELSE sys_pend

Fields ==
  /\ DOMAIN rmw = {"state", "cmd", "rdata", "wdata", "alu_res"}
  /\ DOMAIN rvs = {"set", "id", "addr", "turn", "sc_pend_pass", "sc_pend_fail"}
  /\ DOMAIN boot = {"sp", "entry"}
  /\ DOMAIN mem = Addr /\ DOMAIN watch = Core
  /\ sys_rsp.err \in Bit /\ sys_pend.err \in Bit
  /\ flavour \in Flavours
  /\ dma.phase # "idle" => dma.req \in DmaReqs[flavour]

\* What the controller and the station hold while core c's access is on its way.
FlightOf(c) ==
  LET i == Instr(core[c].pc) IN
  /\ rmw.state = "S_IDLE" => i.op \notin Rmws
  /\ rmw.state # "S_IDLE" => i.op \in Rmws /\ rmw.cmd = i.op /\ rmw.wdata = i.data
  /\ rmw.state \in {"S_IDLE", "S_READ_WAIT"} /\ i.rw = 0 /\ Ans.err = 0 =>
       Ans.data = mem[i.addr]
  /\ rmw.state \in {"S_EXECUTE", "S_WRITE"} => rmw.rdata = mem[i.addr]
  /\ rmw.state = "S_WRITE" => rmw.alu_res = NewValue(i, rmw.rdata)
  /\ i.op = "SC" <=> rvs.sc_pend_pass = 1 \/ rvs.sc_pend_fail = 1

NoScPending == rvs.sc_pend_pass # 1 /\ rvs.sc_pend_fail # 1

FlightSide ==
  /\ \A c \in Core : Flight(c) => FlightOf(c)
  /\ (\A c \in Core : ~Flight(c)) => rmw.state = "S_IDLE" /\ NoScPending

FlightInv == AccessInv /\ Fields /\ FlightSide

-----------------------------------------------------------------------------
(* Signals. *)

RequestFields == {"stb", "id", "op", "rw", "lock", "addr", "data"}

\* Request r is that of core c, except for the strobe.
Carries(r, c) ==
  /\ DOMAIN r = RequestFields
  /\ r.id = c /\ r.op = Instr(core[c].pc).op /\ r.rw = Instr(core[c].pc).rw
  /\ r.addr = Instr(core[c].pc).addr /\ r.data = Instr(core[c].pc).data

CarriesDma(r) ==
  /\ DOMAIN r = RequestFields
  /\ r.id = 0 /\ r.op = "none" /\ r.rw = dma.req.rw /\ r.addr = dma.req.addr
  /\ r.data = dma.req.data

\* A switch in one of its states serves port p now or at the next edge, and
\* shows its request.
AtPort(sw, new, p) ==
  /\ sw.state \in {"S_IDLE"} \cup {Busy[q] : q \in Port}
  /\ sw.state = Busy[p] \/ new.state = Busy[p]

Shows(out, request) == \E s : out = [request EXCEPT !.stb = s]

LEMMA SwitchShows ==
  ASSUME NEW sw, NEW rr, NEW host, NEW rsp, NEW p \in Port,
         AtPort(sw, SwitchTick(sw, rr, host, rsp), p)
  PROVE  Shows(x_req(sw, rr, host), host[p])
<1>1. CASE sw.state = "S_IDLE"
  <2>1. SwitchTick(sw, rr, host, rsp).state =
          IF Requesting(sw, host) = {} THEN "S_IDLE" ELSE Busy[sel(sw, rr, host)]
    BY <1>1 DEF SwitchTick
  <2>2. Busy[sel(sw, rr, host)] = Busy[p]
    BY <1>1, <2>1, PortCore DEF AtPort
  <2>3. sel(sw, rr, host) \in Port
    BY <1>1 DEF sel, Preferred, Other, Port
  <2>4. sel(sw, rr, host) = p
    BY <2>2, <2>3, PortCore
  <2> QED BY <2>4 DEF x_req, Shows
<1>2. CASE \E q \in Port : sw.state = Busy[q]
  <2>1. PICK q \in Port : sw.state = Busy[q]
    BY <1>2
  <2>2. sel(sw, rr, host) = q
    BY <2>1 DEF sel, Busy, Port
  <2>3. SwitchTick(sw, rr, host, rsp).state \in {"S_IDLE", Busy[q]}
    BY <2>1, <2>2 DEF SwitchTick
  <2>4. q = p
    BY <2>1, <2>3, PortCore DEF AtPort
  <2> QED BY <2>2, <2>4 DEF x_req, Shows
<1> QED BY <1>1, <1>2 DEF AtPort

LEMMA CoreShown ==
  ASSUME CoreSide, core_sw' = SwitchTick(core_sw, TRUE, CoreHosts, sys1_rsp),
         NEW c \in Core, Connected(c) \/ Connected(c)'
  PROVE  Carries(sys1_req, c)
<1>1. AtPort(core_sw, SwitchTick(core_sw, TRUE, CoreHosts, sys1_rsp), CorePort[c])
  BY DEF Connected, CoreSide, AtPort
<1>2. Shows(sys1_req, CoreHosts[CorePort[c]])
  BY <1>1, CoreSignals, SwitchShows, Zenon DEF sys1_req
<1>3. CoreHosts[CorePort[c]] = CoreReq(c)
  BY CoreSignals
<1> QED BY <1>2, <1>3 DEF Shows, Carries, CoreReq, RequestFields

LEMMA DmaShown ==
  ASSUME DmaSide, dma_sw' = SwitchTick(dma_sw, FALSE, DmaHosts, sys2_rsp)
  PROVE  /\ dma_sw.state = "S_BUSY_A" \/ dma_sw'.state = "S_BUSY_A" => Shows(sys2_req, sys1_req)
         /\ dma_sw.state = "S_BUSY_B" \/ dma_sw'.state = "S_BUSY_B" => CarriesDma(sys2_req)
<1>1. ASSUME NEW p \in Port, dma_sw.state = Busy[p] \/ dma_sw'.state = Busy[p]
      PROVE  Shows(sys2_req, DmaHosts[p])
  <2>1. AtPort(dma_sw, SwitchTick(dma_sw, FALSE, DmaHosts, sys2_rsp), p)
    BY <1>1 DEF AtPort, DmaSide
  <2> QED BY <2>1, SwitchShows, Zenon DEF sys2_req
<1>2. Shows(sys2_req, DmaReq) => CarriesDma(sys2_req)
  BY DEF Shows, CarriesDma, DmaReq, RequestFields
<1> QED BY <1>1, <1>2, DmaSignals

\* A core whose access is or will be on its way is seen by the stations.
LEMMA FlightShown ==
  ASSUME CoreSide, DmaSide,
         core_sw' = SwitchTick(core_sw, TRUE, CoreHosts, sys1_rsp),
         dma_sw' = SwitchTick(dma_sw, FALSE, DmaHosts, sys2_rsp),
         NEW c \in Core, Flight(c) \/ Flight(c)'
  PROVE  Carries(sys2_req, c)
<1>1. Carries(sys1_req, c)
  BY CoreShown DEF Flight, Serving
<1>2. Shows(sys2_req, sys1_req)
  BY DmaShown DEF Flight
<1> QED BY <1>1, <1>2 DEF Shows, Carries, RequestFields

\* What the instructions of the programs ask for.
LEMMA InstrKinds ==
  ASSUME NEW pc
  PROVE  /\ Instr(pc).op \in Op /\ Instr(pc).rw \in Bit /\ Instr(pc).addr \in CodeAddr
         /\ Instr(pc).op = "LR" => Instr(pc).rw = 0 /\ Instr(pc).addr = "lock"
         /\ Instr(pc).op = "SC" => Instr(pc).rw = 1 /\ Instr(pc).addr = "lock"
         /\ Instr(pc).op \in Rmws => Instr(pc).rw = 0
<1>1. Instr(pc) \in {Load(a) : a \in CodeAddr} \cup {Store(a, v) : a \in CodeAddr, v \in 0..MAIN}
                    \cup {LR("lock"), SC("lock", LOCKED), SC("lock", 0), Amo("SWAP", "lock", LOCKED),
                          Amo("SWAP", "lock", 0), Amo("ADD", "count", 1)}
  <2> DEFINE Some == {Load(a) : a \in CodeAddr} \cup {Store(a, v) : a \in CodeAddr, v \in 0..MAIN}
                     \cup {LR("lock"), SC("lock", LOCKED), SC("lock", 0), Amo("SWAP", "lock", LOCKED),
                           Amo("SWAP", "lock", 0), Amo("ADD", "count", 1)}
  <2>1. /\ \A a \in CodeAddr : Load(a) \in Some /\ \A v \in 0..MAIN : Store(a, v) \in Some
        /\ {"sp", "entry", "mswi", "uart", "lock"} \subseteq CodeAddr
        /\ {0, 1, STACK, CRT0, MAIN} \subseteq 0..MAIN
    BY DEF CodeAddr, STACK, CRT0, MAIN
  <2>2. {LR("lock"), SC("lock", LOCKED), SC("lock", 0), Amo("SWAP", "lock", LOCKED),
         Amo("SWAP", "lock", 0), Amo("ADD", "count", 1)} \subseteq Some
    OBVIOUS
  <2> HIDE DEF Some
  <2>3. \A p \in DOMAIN smp_boot : smp_boot[p] \in Some
    BY <2>1 DEF smp_boot
  <2>4. \A p \in DOMAIN smp_wakeup : smp_wakeup[p] \in Some
    BY <2>1 DEF smp_wakeup
  <2>5. \A p \in DOMAIN spin_lock : spin_lock[p] \in Some
    BY <2>2 DEF spin_lock
  <2>6. \A p \in DOMAIN spin_unlock : spin_unlock[p] \in Some
    BY <2>2 DEF spin_unlock
  <2>7. \A p \in DOMAIN spin_check : spin_check[p] \in Some
    BY <2>2 DEF spin_check
  <2>8. \A p \in DOMAIN printing : printing[p] \in Some
    BY <2>1 DEF printing
  <2>9. \A p \in DOMAIN counting : counting[p] \in Some
    BY <2>2 DEF counting
  <2>10. Load("uart") \in Some
    BY <2>1
  <2>11. Instr(pc) \in Some
    BY <2>3, <2>4, <2>5, <2>6, <2>7, <2>8, <2>9, <2>10 DEF Instr
  <2> QED BY <2>11 DEF Some
<1> QED BY <1>1 DEF Op, Bit, Rmws, CodeAddr, Load, Store, LR, SC, Amo

\* What a performed access returns to its core.
Returned(rm, rv, ans) ==
  IF rm.state = "S_IDLE"
  THEN IF rv.sc_pend_fail = 1 THEN 1 ELSE IF rv.sc_pend_pass = 1 THEN 0 ELSE ans.data
  ELSE rm.rdata

\* Core c's access has taken effect and is not answered yet.
Taken(c) == Flight(c) /\ rmw.state \in {"S_IDLE", "S_WRITE_WAIT"} /\ Ans.err = 0

Places ==
  \A c \in Core : Place(c) = IF Taken(c)
                            THEN After(flavour, c, core[c].pc, Returned(rmw, rvs, Ans), boot.entry)
                            ELSE core[c].pc

LEMMA PlaceIs == Shape /\ MemSide => Places
<1> SUFFICES ASSUME Shape, MemSide, NEW c \in Core
             PROVE  Place(c) = IF Taken(c)
                               THEN After(flavour, c, core[c].pc, Returned(rmw, rvs, Ans), boot.entry)
                               ELSE core[c].pc
  BY DEF Places
<1>1. Performed(c) <=> Flight(c) /\ rmw.state \in {"S_IDLE", "S_WRITE_WAIT"}
  <2>1. Flight(c) => Active
    BY DEF Flight, Active, CoreAct
  <2> QED BY <2>1 DEF Performed, Flight, Serving, Connected, MemSide, MemBusy
<1>2. {"ack", "err", "data"} \subseteq DOMAIN Ans
  BY DEF Shape, Ans
<1>3. ASSUME rmw.state \in {"S_IDLE", "S_WRITE_WAIT"}
      PROVE  /\ rmw_rsp(rvs_rsp(Ans)).err = Ans.err
             /\ rmw_rsp(rvs_rsp(Ans)).data = Returned(rmw, rvs, Ans)
  BY <1>2, <1>3 DEF rmw_rsp, rvs_rsp, Returned
<1> QED BY <1>1, <1>3 DEF Place, Taken, Ans

\* A sleeping core wakes up when its software interrupt is pending.
Woken(c) ==
  /\ core[c].pc = "sleep" /\ mem["mswi"] = 1
  /\ core'[c].pc = "wake_sp" /\ core'[c].phase = "exec"

\* What a core sees of the answer to its access.
LEMMA Answered ==
  ASSUME Shape, CoreSide, DmaSide, MemSide, NEW c \in Core, Flight(c), sys2_rsp.ack = 1
  PROVE  /\ CoreRsp(c).ack = 1
         /\ IF rmw.state \in {"S_IDLE", "S_WRITE_WAIT"}
            THEN /\ sys_rsp.ack = 1 /\ Ans = sys_rsp
                 /\ CoreRsp(c).err = Ans.err /\ CoreRsp(c).data = Returned(rmw, rvs, Ans)
            ELSE CoreRsp(c).err = 1
<1>1. CoreRsp(c).ack = 1
  BY Acks, AckRoute DEF Flight
<1>2. CoreRsp(c).err = sys2_rsp.err /\ CoreRsp(c).data = sys2_rsp.data
  <2>1. core_sw.sel_q = CorePort[c] /\ dma_sw.sel_q = "A"
    BY DEF Flight, Serving, CoreSide, DmaSide
  <2> QED BY <2>1 DEF CoreRsp, sys1_rsp, sys2_rsp, port_rsp, rmw_rsp
<1>3. CASE rmw.state \in {"S_IDLE", "S_WRITE_WAIT"}
  <2>1. sys_rsp.ack = 1 /\ Ans = sys_rsp
    BY <1>3, Acks DEF Ans
  <2>2. sys2_rsp.err = Ans.err /\ sys2_rsp.data = Returned(rmw, rvs, Ans)
    BY <1>3, <2>1 DEF sys2_rsp, rmw_rsp, rvs_rsp, Returned, Shape
  <2> QED BY <1>1, <1>2, <1>3, <2>1, <2>2
<1>4. CASE rmw.state \notin {"S_IDLE", "S_WRITE_WAIT"}
  <2>1. rmw.state = "S_READ_ERROR"
    BY <1>4, Acks DEF Shape
  <2> QED BY <1>1, <1>2, <2>1 DEF sys2_rsp, rmw_rsp
<1> QED BY <1>3, <1>4

\* Core c goes on to the next place of its program when it is answered.
LEMMA PcMoves ==
  ASSUME Shape, CoreSide, DmaSide, MemSide, Fields,
         NEW c \in Core, NEW goes \in BOOLEAN, core'[c] = CoreNext(c, goes)
  PROVE  IF Flight(c) /\ sys2_rsp.ack = 1 THEN core'[c].pc = Place(c)
         ELSE core'[c].pc = core[c].pc \/ (Woken(c) /\ ~Flight(c))
<1>1. /\ CoreRsp(c).ack \in Bit
      /\ CoreRsp(c).ack = 1 <=> Flight(c) /\ sys2_rsp.ack = 1
  BY Acks, AckRoute DEF Flight
<1>2. {"phase", "pc"} \subseteq DOMAIN core[c]
  BY DEF Shape
<1>3. CASE CoreRsp(c).ack = 1
  <2>1. core[c].phase = "wait"
    BY <1>1, <1>3 DEF Flight, Serving
  <2>2. core'[c].pc = IF CoreRsp(c).err = 1 THEN core[c].pc
                      ELSE After(flavour, c, core[c].pc, CoreRsp(c).data, boot.entry)
    BY <1>2, <1>3, <2>1 DEF CoreNext
  <2>3. CASE rmw.state \in {"S_IDLE", "S_WRITE_WAIT"}
    <3>1. /\ CoreRsp(c).err = Ans.err /\ CoreRsp(c).data = Returned(rmw, rvs, Ans)
          /\ Ans = sys_rsp
      BY <1>1, <1>3, <2>3, Answered
    <3>2. Ans.err \in {0, 1}
      BY <3>1 DEF Fields, Bit
    <3>3. Taken(c) <=> Ans.err = 0
      BY <1>1, <1>3, <2>3 DEF Taken
    <3> QED BY <1>1, <1>3, <2>2, <3>1, <3>2, <3>3, PlaceIs DEF Places
  <2>4. CASE rmw.state \notin {"S_IDLE", "S_WRITE_WAIT"}
    <3>1. CoreRsp(c).err = 1
      BY <1>1, <1>3, <2>4, Answered
    <3> QED BY <1>1, <1>3, <2>2, <2>4, <3>1, PlaceIs DEF Places, Taken
  <2> QED BY <2>3, <2>4
<1>4. CASE CoreRsp(c).ack # 1
  <2>1. CoreRsp(c).ack = 0
    BY <1>1, <1>4 DEF Bit
  <2>2. core'[c].pc = core[c].pc \/ (Woken(c) /\ core[c].phase = "exec")
    <3>1. CASE core[c].phase = "exec"
      BY <1>2, <3>1 DEF CoreNext, Woken, Resting
    <3>2. CASE core[c].phase # "exec"
      BY <1>2, <2>1, <3>2 DEF CoreNext, Shape
    <3> QED BY <3>1, <3>2
  <2>3. Flight(c) => core[c].phase = "wait"
    BY DEF Flight, Serving
  <2> QED BY <1>1, <1>4, <2>2, <2>3
<1> QED BY <1>3, <1>4

-----------------------------------------------------------------------------
(* A clock edge. *)

Edge(err) ==
  /\ \A c \in Core : \E goes \in BOOLEAN : core'[c] = CoreNext(c, goes)
  /\ boot' = BootNext /\ DmaTick
  /\ core_sw' = SwitchTick(core_sw, TRUE, CoreHosts, sys1_rsp)
  /\ dma_sw' = SwitchTick(dma_sw, FALSE, DmaHosts, sys2_rsp)
  /\ RmwTick(sys2_req, rvs_rsp(sys_rsp)) /\ RvsTick(amo_req, sys_rsp)
  /\ err \in Bit /\ Perform(err) /\ (Answer(err) \/ Delay(err)) /\ watch' = WatchNext(err)
  /\ UNCHANGED flavour

\* What is known of an edge after OneAccess.
EdgeFacts ==
  /\ FlightInv /\ AccessInv'
  /\ (\A c \in Core : Moved(c)) /\ DmaMoved /\ RmwMoved /\ AccessStep

LEMMA TickEdge ==
  ASSUME FlightInv, Tick
  PROVE  EdgeFacts /\ \E err : Edge(err)
<1>1. PICK go : TickWith(go, Answer) \/ TickWith(go, Delay)
  BY DEF Tick
<1>2. core' = [c \in Core |-> CoreNext(c, c \in go)]
  BY <1>1 DEF TickWith
<1>3. \A c \in Core : \E goes \in BOOLEAN : core'[c] = CoreNext(c, goes)
  <2> TAKE c \in Core
  <2>1. core'[c] = CoreNext(c, c \in go)
    BY <1>2, Zenon
  <2>2. (c \in go) \in BOOLEAN
    OBVIOUS
  <2> QED BY <2>1, <2>2, Zenon
<1>4. \E err : Edge(err)
  BY <1>1, <1>3 DEF TickWith, Edge
<1>5. EdgeFacts
  BY TickAccess DEF EdgeFacts, FlightInv
<1> QED BY <1>4, <1>5

\* Nobody's access is on its way, before and after: the memory side is idle or
\* serves the DMA.
EdgeOther ==
  /\ \A d \in Core : ~Flight(d) /\ ~Flight(d)'
  /\ sys2_req.stb = 1 => CarriesDma(sys2_req) /\ dma.phase # "idle"

\* The strobe of core c reaches the stations.
EdgeBegins(c) ==
  /\ \A d \in Core : ~Flight(d) /\ (d # c => ~Flight(d)')
  /\ Flight(c)' /\ core'[c].pc = core[c].pc
  /\ Carries(sys2_req, c) /\ sys2_req.stb = 1

\* Core c's access is on its way, and stays so until it is answered.
EdgeOn(c) ==
  /\ \A d \in Core \ {c} : ~Flight(d) /\ ~Flight(d)'
  /\ Flight(c) /\ (Flight(c)' <=> sys2_rsp.ack # 1)
  /\ Carries(sys2_req, c) /\ sys2_req.stb = 0

LEMMA EdgeKinds ==
  ASSUME EdgeFacts, NEW err, Edge(err)
  PROVE  EdgeOther \/ \E c \in Core : EdgeBegins(c) \/ EdgeOn(c)
<1>1. Shape /\ CoreSide /\ DmaSide /\ MemSide /\ Fields
  BY DEF EdgeFacts, FlightInv, AccessInv
<1>2. \A c \in Core : (Flight(c) => Active) /\ (Flight(c)' => Active')
  BY DEF Flight, Active, CoreAct
<1>3. sys2_req.stb \in {0, 1} /\ (sys2_req.stb = 1 => ~Active)
      /\ (Active' <=> sys2_req.stb = 1 \/ (Active /\ sys2_rsp.ack # 1))
  BY DEF EdgeFacts, AccessStep, Bit
<1>4. \A p \in Port : dma_sw.state = Busy[p] => dma_sw'.state \in {"S_IDLE", Busy[p]}
  BY DEF Edge, SwitchTick, Busy, Port
<1>5. \A p \in Port : core_sw.state = Busy[p] => core_sw'.state \in {"S_IDLE", Busy[p]}
  BY DEF Edge, SwitchTick, Busy, Port
<1>6. \A c, d \in Core : Connected(c)' /\ Connected(d)' => c = d
  <2> TAKE c \in Core, d \in Core
  <2>1. Connected(c)' /\ Connected(d)' => Busy[CorePort[c]] = Busy[CorePort[d]]
    BY DEF Connected
  <2> QED BY <2>1, PortCore, CoreSignals
<1>7. \A c \in Core : Flight(c) \/ Flight(c)' => Carries(sys2_req, c)
  BY <1>1, FlightShown DEF Edge
<1>8. CASE dma_sw.state = "S_BUSY_A" /\ Active
  <2>1. PICK c \in Core : Flight(c)
    BY <1>8 DEF Active, CoreAct, Flight
  <2>2. \A d \in Core \ {c} : ~Flight(d)
    BY <2>1, OneConnected DEF Flight, Serving
  <2>3. dma_sw'.state \in {"S_IDLE", "S_BUSY_A"}
    BY <1>4, <1>8, DmaSignals
  <2>4. Active' => Flight(c)'
    <3> SUFFICES ASSUME Active' PROVE Flight(c)'
      OBVIOUS
    <3>1. dma_sw'.state = "S_BUSY_A" /\ CoreAct'
      BY <2>3 DEF Active
    <3>2. PICK e \in Core : Serving(e)'
      BY <3>1 DEF CoreAct
    <3>3. core_sw.state = Busy[CorePort[c]] /\ core_sw'.state = Busy[CorePort[e]]
      BY <2>1, <3>2 DEF Flight, Serving, Connected
    <3>4. Busy[CorePort[e]] = Busy[CorePort[c]]
      BY <1>5, <3>3, PortCore, CoreSignals
    <3>5. e = c
      BY <3>4, PortCore, CoreSignals
    <3> QED BY <3>1, <3>2, <3>5 DEF Flight
  <2>5. \A d \in Core \ {c} : ~Flight(d)'
    BY <1>2, <1>6, <2>4 DEF Flight, Serving
  <2> QED BY <1>2, <1>3, <1>7, <1>8, <2>1, <2>2, <2>4, <2>5 DEF EdgeOn
<1>9. CASE dma_sw.state = "S_BUSY_B"
  <2>1. dma_sw'.state \in {"S_IDLE", "S_BUSY_B"}
    BY <1>4, <1>9, DmaSignals
  <2> QED BY <1>3, <1>9, <2>1 DEF EdgeOther, Flight, Active
<1>10. CASE ~Active
  <2>1. \A d \in Core : ~Flight(d)
    BY <1>2, <1>10
  <2>2. CASE sys2_req.stb # 1
    BY <1>2, <1>3, <1>10, <2>1, <2>2 DEF EdgeOther
  <2>3. CASE sys2_req.stb = 1 /\ dma_sw'.state = "S_BUSY_B"
    <3>1. CarriesDma(sys2_req)
      BY <1>1, <2>3, DmaShown DEF Edge
    <3>2. dma'.phase = "wait"
      BY <2>3 DEF EdgeFacts, AccessInv, DmaSide
    <3>3. dma.phase # "idle"
      BY <3>2 DEF EdgeFacts, DmaMoved
    <3> QED BY <2>1, <2>3, <3>1, <3>3 DEF EdgeOther, Flight
  <2>4. CASE sys2_req.stb = 1 /\ dma_sw'.state # "S_BUSY_B"
    <3>1. dma_sw'.state = "S_BUSY_A" /\ CoreAct'
      BY <1>3, <2>4 DEF Active
    <3>2. PICK c \in Core : Flight(c)'
      BY <3>1 DEF CoreAct, Flight
    <3>3. \A d \in Core : d # c => ~Flight(d)'
      BY <1>6, <3>2 DEF Flight, Serving
    <3>4. core'[c].pc = core[c].pc
      <4>1. core'[c].pc = core[c].pc \/ Woken(c)
        BY <1>1, <2>1, PcMoves DEF Edge
      <4>2. core'[c].phase = "wait"
        BY <3>2 DEF Flight, Serving
      <4> QED BY <4>1, <4>2 DEF Woken
    <3> QED BY <1>7, <2>1, <2>4, <3>2, <3>3, <3>4 DEF EdgeBegins
  <2> QED BY <2>2, <2>3, <2>4
<1> QED BY <1>8, <1>9, <1>10 DEF Active

-----------------------------------------------------------------------------
(* The effects an edge can have. *)

\* The watches after a write to address a.
WatchAfter(a) == IF SameGranule(a) THEN [c \in Core |-> FALSE] ELSE watch

\* Core d stays where it is, or wakes up.
Onward(d) ==
  \/ Place(d)' = Place(d)
  \/ Place(d) = "sleep" /\ mem["mswi"] = 1 /\ Place(d)' = "wake_sp"

\* The access of core c returns value v.
Arrives(c, v) ==
  /\ Place(c) = core[c].pc
  /\ Place(c)' = After(flavour, c, core[c].pc, v, boot.entry)

Reads(c, i) ==
  /\ i.op = "none" /\ i.rw = 0
  /\ UNCHANGED <<mem, watch>> /\ Arrives(c, mem[i.addr])

Stores(c, i) ==
  /\ i.op = "none" /\ i.rw = 1
  /\ mem' = [mem EXCEPT ![i.addr] = i.data] /\ watch' = WatchAfter(i.addr)
  /\ \E v : Arrives(c, v)

Reserves(c, i) ==
  /\ i.op = "LR"
  /\ mem' = mem /\ watch' = [watch EXCEPT ![c] = TRUE]
  /\ Arrives(c, mem["lock"])

Wins(c, i) ==
  /\ i.op = "SC" /\ rvs.set = 1 /\ rvs.id = c /\ rvs.addr = Granule["lock"]
  /\ mem' = [mem EXCEPT !["lock"] = i.data] /\ watch' = [d \in Core |-> FALSE]
  /\ Arrives(c, 0)

Fails(c, i) ==
  /\ i.op = "SC"
  /\ mem' = mem /\ watch' = [watch EXCEPT ![c] = FALSE]
  /\ Arrives(c, 1)

Modifies(c, i) ==
  /\ i.op \in Rmws
  /\ mem' = [mem EXCEPT ![i.addr] = NewValue(i, mem[i.addr])] /\ watch' = WatchAfter(i.addr)
  /\ Arrives(c, mem[i.addr])

\* The access of core c takes effect.
CoreEffect(c) ==
  LET i == Instr(core[c].pc) IN
  /\ core[c].phase \in {"strobe", "wait"}
  /\ Reads(c, i) \/ Stores(c, i) \/ Reserves(c, i) \/ Wins(c, i) \/ Fails(c, i) \/ Modifies(c, i)
  /\ \A d \in Core \ {c} : Onward(d)

DmaWrites(r) ==
  /\ r.rw = 1 /\ mem' = [mem EXCEPT ![r.addr] = r.data] /\ watch' = WatchAfter(r.addr)
  /\ \A d \in Core : Onward(d)

Quiet == UNCHANGED <<mem, watch>> /\ \A d \in Core : Onward(d)

Effect == Quiet \/ (\E c \in Core : CoreEffect(c)) \/ \E r \in DmaReqs[flavour] : DmaWrites(r)

-----------------------------------------------------------------------------
(* Pieces of the effects. *)

LEMMA PlaceNext == (Shape /\ MemSide)' => Places'
  BY PlaceIs, PTL

\* A core without an access on its way is where its program counter says.
LEMMA OthersOnward ==
  ASSUME EdgeFacts, NEW err, Edge(err), NEW d \in Core, ~Flight(d), ~Flight(d)'
  PROVE  Onward(d)
<1>1. Shape /\ CoreSide /\ DmaSide /\ MemSide /\ Fields /\ Shape' /\ MemSide'
  BY DEF EdgeFacts, FlightInv, AccessInv
<1>2. Place(d) = core[d].pc
  BY <1>1, PlaceIs DEF Places, Taken
<1>3. Place(d)' = core'[d].pc
  BY <1>1, PlaceNext DEF Places, Taken
<1>4. core'[d].pc = core[d].pc \/ Woken(d)
  BY <1>1, PcMoves DEF Edge
<1> QED BY <1>2, <1>3, <1>4 DEF Onward, Woken

\* Without a strobe the memory does nothing but pass on an answer.
LEMMA NoStrobe ==
  ASSUME Shape, NEW err, Edge(err), sys3_req.stb # 1
  PROVE  /\ UNCHANGED <<mem, watch>> /\ sys_rsp' = sys_pend /\ sys_pend' = NoRsp
         /\ MemBusy /\ sys_rsp.ack # 1 => Ans' = Ans
<1>1. err = 0
  BY DEF Edge, Perform, Bit
<1>2. UNCHANGED mem
  BY DEF Edge, Perform
<1>3. UNCHANGED watch
  BY <1>1 DEF Edge, WatchNext
<1>4. sys_rsp' = sys_pend /\ sys_pend' = NoRsp
  BY DEF Edge, Answer, Delay, Served
<1>5. MemBusy /\ sys_rsp.ack # 1 => Ans' = Ans
  BY <1>4 DEF MemBusy, Shape, Ans
<1> QED BY <1>2, <1>3, <1>4, <1>5

\* With a strobe the access is performed, unless it ends in an error.
LEMMA Strobe ==
  ASSUME Shape, NEW err, Edge(err), sys3_req.stb = 1
  PROVE  /\ mem' = IF sys3_req.rw = 1 /\ err = 0
                   THEN [mem EXCEPT ![sys3_req.addr] = sys3_req.data] ELSE mem
         /\ Ans'.err = err /\ (err = 0 => Ans'.data = mem[sys3_req.addr])
         /\ err \in {0, 1}
<1>1. Ans' = Served(err)
  BY DEF Edge, Answer, Delay, Served, Ans, NoRsp
<1> QED BY <1>1 DEF Edge, Perform, Served, Bit

\* A strobe that the read-modify-write controller passes on.
LEMMA PassedOn ==
  ASSUME rmw.state \notin {"S_WRITE", "S_WRITE_WAIT"}
  PROVE  amo_req = sys2_req
  BY DEF amo_req, rmw_req

\* The reservation station sees no request: it forgets an answered
\* store-conditional.
LEMMA RvsRests ==
  ASSUME Fields, RvsTick(amo_req, sys_rsp), amo_req.stb = 0
  PROVE  /\ rvs'.set = rvs.set /\ rvs'.id = rvs.id /\ rvs'.addr = rvs.addr
         /\ DOMAIN rvs' = DOMAIN rvs
         /\ IF sys_rsp.ack = 1 THEN NoScPending'
            ELSE rvs'.sc_pend_pass = rvs.sc_pend_pass /\ rvs'.sc_pend_fail = rvs.sc_pend_fail
<1>1. Reservation(amo_req) = rvs
  BY DEF Reservation
<1> QED BY <1>1 DEF RvsTick, Fields, NoScPending

\* The watches, by what the memory is asked to do.
LEMMA Watches ==
  ASSUME NEW err, Edge(err), sys3_req.stb = 1
  PROVE  /\ err = 1 => watch' = watch
         /\ err = 0 /\ sys3_req.rw = 1 /\ amo_req.op # "LR" => watch' = WatchAfter(sys3_req.addr)
         /\ err = 0 /\ sys3_req.rw = 0 /\ amo_req.op \notin {"LR", "SC"} => watch' = watch
         /\ err = 0 /\ sys3_req.rw = 0 /\ sys3_req.addr = "lock" /\ amo_req.op = "LR" =>
              watch' = [watch EXCEPT ![amo_req.id] = TRUE]
         /\ err = 0 /\ sys3_req.rw = 0 /\ sys3_req.addr = "lock" /\ amo_req.op = "SC" =>
              watch' = [watch EXCEPT ![amo_req.id] = FALSE]
<1>1. watch' = WatchNext(err)
  BY DEF Edge
<1>2. CASE SameGranule(sys3_req.addr)
  <2>1. err = 1 => watch' = watch
    BY <1>1 DEF WatchNext
  <2>2. err \in {0, 1}
    BY DEF Edge, Bit
  <2>3. err = 0 /\ sys3_req.rw = 1 /\ amo_req.op # "LR" => watch' = [c \in Core |-> FALSE]
    BY <1>1, <1>2, <2>2 DEF WatchNext
  <2>4. err = 0 /\ sys3_req.rw = 0 /\ amo_req.op \notin {"LR", "SC"} => watch' = watch
    BY <1>1, <1>2, <2>2 DEF WatchNext
  <2>5. err = 0 /\ sys3_req.rw = 0 /\ amo_req.op = "LR" =>
          watch' = [watch EXCEPT ![amo_req.id] = TRUE]
    BY <1>1, <1>2, <2>2 DEF WatchNext
  <2>6. err = 0 /\ sys3_req.rw = 0 /\ amo_req.op = "SC" =>
          watch' = [watch EXCEPT ![amo_req.id] = FALSE]
    BY <1>1, <1>2, <2>2 DEF WatchNext
  <2> QED BY <1>2, <2>1, <2>3, <2>4, <2>5, <2>6 DEF WatchAfter
<1>3. CASE ~SameGranule(sys3_req.addr)
  <2>1. watch' = watch
    BY <1>1, <1>3 DEF WatchNext
  <2>2. sys3_req.addr # "lock"
    BY <1>3 DEF SameGranule
  <2> QED BY <1>3, <2>1, <2>2 DEF WatchAfter
<1> QED BY <1>2, <1>3

\* The reservation station sees a request other than a store-conditional.
LEMMA NoScRequested ==
  ASSUME Fields, RvsTick(amo_req, sys_rsp), amo_req.op # "SC", NoScPending
  PROVE  NoScPending'
<1>1. \A n : n = 0 => n # 1
  OBVIOUS
<1>2. DOMAIN Reservation(amo_req) = DOMAIN rvs
      /\ Reservation(amo_req).sc_pend_pass = rvs.sc_pend_pass
      /\ Reservation(amo_req).sc_pend_fail = rvs.sc_pend_fail
  BY DEF Reservation, Fields
<1> QED BY <1>1, <1>2 DEF RvsTick, Fields, NoScPending

\* The memory side is idle or serves the DMA.
LEMMA OtherEffect ==
  ASSUME EdgeFacts, NEW err, Edge(err), EdgeOther
  PROVE  Effect /\ FlightSide'
<1>1. Shape /\ CoreSide /\ DmaSide /\ MemSide /\ Fields
  BY DEF EdgeFacts, FlightInv, AccessInv
<1>2. rmw.state = "S_IDLE" /\ NoScPending
  BY DEF EdgeFacts, FlightInv, FlightSide, EdgeOther
<1>3. amo_req = sys2_req
  BY <1>2, PassedOn
<1>4. \A d \in Core : Onward(d)
  BY OthersOnward DEF EdgeOther
<1>5. sys3_req.stb = sys2_req.stb /\ sys2_req.stb \in {0, 1}
  BY <1>1, <1>2, Strobes, MemStrobe DEF EdgeFacts, AccessStep, Bit
<1>6. CASE sys2_req.stb = 0
  <2>1. Quiet
    BY <1>1, <1>4, <1>5, <1>6, NoStrobe DEF Quiet
  <2>2. rmw'.state = "S_IDLE"
    BY <1>2, <1>6 DEF EdgeFacts, RmwMoved
  <2>3. NoScPending'
    BY <1>1, <1>2, <1>3, <1>6, RvsRests DEF Edge, NoScPending
  <2> QED BY <2>1, <2>2, <2>3 DEF Effect, FlightSide, EdgeOther
<1>7. CASE sys2_req.stb = 1
  <2>1. CarriesDma(sys2_req) /\ dma.req \in DmaReqs[flavour]
    BY <1>1, <1>7 DEF EdgeOther, Fields
  <2>2. sys3_req = sys2_req
    BY <1>3, <2>1 DEF sys3_req, rvs_req, CarriesDma
  <2>3. rmw'.state = "S_IDLE"
    BY <1>1, <1>2, <2>1 DEF Edge, RmwTick, RmwIdle, IsRmw, CarriesDma, RmwReadWait, RmwReadError,
                            RmwExecute, RmwWrite, RmwWriteWait, Go, Fields
  <2>4. NoScPending'
    BY <1>1, <1>2, <1>3, <2>1, NoScRequested DEF Edge, CarriesDma
  <2>5. CASE sys2_req.rw = 1 /\ err = 0
    <3>1. mem' = [mem EXCEPT ![dma.req.addr] = dma.req.data] /\ watch' = WatchAfter(dma.req.addr)
      BY <1>1, <1>3, <1>7, <2>1, <2>2, <2>5, Strobe, Watches DEF CarriesDma
    <3> QED BY <1>4, <2>1, <2>3, <2>4, <2>5, <3>1 DEF Effect, DmaWrites, CarriesDma, FlightSide, EdgeOther
  <2>6. CASE ~(sys2_req.rw = 1 /\ err = 0)
    <3>1. sys2_req.rw \in {0, 1}
      BY <1>1, <2>1, DualCoreAssumption DEF CarriesDma, Fields, Bit
    <3>2. mem' = mem /\ watch' = watch
      BY <1>1, <1>3, <1>7, <2>1, <2>2, <2>6, <3>1, Strobe, Watches DEF CarriesDma
    <3> QED BY <1>4, <2>3, <2>4, <3>2 DEF Effect, Quiet, FlightSide, EdgeOther
  <2> QED BY <2>5, <2>6
<1> QED BY <1>5, <1>6, <1>7

\* The launch configuration core 1 has read changes with an answer only.
LEMMA BootStays ==
  ASSUME EdgeFacts, NEW err, Edge(err), ~(Flight(1) /\ sys2_rsp.ack = 1)
  PROVE  boot'.entry = boot.entry /\ boot'.sp = boot.sp
<1>1. Shape /\ CoreSide /\ DmaSide /\ MemSide
  BY DEF EdgeFacts, FlightInv, AccessInv
<1>2. 1 \in Core
  BY DEF Core
<1>3. CoreRsp(1).ack # 1
  BY <1>1, <1>2, Acks, AckRoute DEF Flight
<1> QED BY <1>3 DEF Edge, BootNext

LEMMA FlightOnly ==
  ASSUME NEW c \in Core, Flight(c)', \A d \in Core \ {c} : ~Flight(d)', FlightOf(c)'
  PROVE  FlightSide'
<1>1. \A d \in Core : Flight(d)' => FlightOf(d)'
  <2> TAKE d \in Core
  <2>1. CASE d = c
    BY <2>1
  <2>2. CASE d # c
    BY <2>2
  <2> QED BY <2>1, <2>2
<1> QED BY <1>1 DEF FlightSide

\* The strobe of core c arrives.
LEMMA BeginsEffect ==
  ASSUME EdgeFacts, NEW err, Edge(err), NEW c \in Core, EdgeBegins(c)
  PROVE  (Quiet \/ CoreEffect(c)) /\ FlightSide'
<1> DEFINE i == Instr(core[c].pc)
<1>1. Shape /\ CoreSide /\ DmaSide /\ MemSide /\ Fields /\ Shape' /\ MemSide'
  BY DEF EdgeFacts, FlightInv, AccessInv
<1>2. rmw.state = "S_IDLE" /\ NoScPending
  BY DEF EdgeFacts, FlightInv, FlightSide, EdgeBegins
<1>3. /\ amo_req = sys2_req /\ DOMAIN sys2_req = RequestFields
      /\ sys2_req.stb = 1 /\ sys2_req.id = c /\ sys2_req.op = i.op /\ sys2_req.rw = i.rw
      /\ sys2_req.addr = i.addr /\ sys2_req.data = i.data
  BY <1>2, PassedOn DEF EdgeBegins, Carries
<1>4. \A d \in Core \ {c} : Onward(d) /\ ~Flight(d)'
  BY OthersOnward DEF EdgeBegins
<1>5. sys3_req.stb = 1
  BY <1>1, <1>2, <1>3, MemStrobe DEF RequestFields
<1>6. /\ core'[c].pc = core[c].pc /\ Flight(c)' /\ Instr(core'[c].pc) = i
      /\ flavour' = flavour /\ boot'.entry = boot.entry
  <2>1. ~Flight(1)
    BY DEF EdgeBegins, Core
  <2> QED BY <2>1, BootStays DEF EdgeBegins, Edge
<1>7. core[c].phase \in {"strobe", "wait"}
  <2>1. core'[c].phase = "wait"
    BY <1>6 DEF Flight, Serving
  <2> QED BY <1>1, <2>1 DEF EdgeFacts, Moved, Shape
<1>8. Place(c) = core[c].pc
  BY <1>1, PlaceIs DEF Places, Taken, EdgeBegins
<1>9. Place(c)' = IF Taken(c)' THEN After(flavour, c, core[c].pc, Returned(rmw', rvs', Ans'), boot.entry)
                  ELSE core[c].pc
  BY <1>1, <1>6, PlaceNext DEF Places
<1>10. /\ i.op \in Op /\ i.rw \in {0, 1}
       /\ i.op = "LR" => i.rw = 0 /\ i.addr = "lock"
       /\ i.op = "SC" => i.rw = 1 /\ i.addr = "lock"
       /\ i.op \in Rmws => i.rw = 0
  BY InstrKinds DEF Bit
<1>11. rmw' = IF i.op \in Rmws
              THEN [Go("S_READ_WAIT") EXCEPT !.cmd = i.op, !.wdata = i.data] ELSE Go("S_IDLE")
  BY <1>2, <1>3, <1>10 DEF Edge, RmwTick, RmwIdle, IsRmw, RmwReadWait, RmwReadError,
                           RmwExecute, RmwWrite, RmwWriteWait, Rmws, Op
<1>12. Ans'.err = err /\ err \in {0, 1}
  BY <1>1, <1>5, Strobe
<1> HIDE DEF i
<1>13. CASE i.op # "SC"
  <2>1. sys3_req = sys2_req
    BY <1>3, <1>13 DEF sys3_req, rvs_req
  <2>2. NoScPending'
    BY <1>1, <1>2, <1>3, <1>13, NoScRequested DEF Edge
  <2>3. err = 0 => Ans'.data = mem[i.addr]
    BY <1>1, <1>3, <1>5, <2>1, Strobe
  <2>4. mem' = IF i.rw = 1 /\ err = 0 THEN [mem EXCEPT ![i.addr] = i.data] ELSE mem
    BY <1>1, <1>3, <1>5, <2>1, Strobe
  <2>5. i.rw = 0 => mem' = mem
    BY <2>4
  <2>6. CASE i.op \in Rmws
    <3>1. mem' = mem /\ watch' = watch
      BY <1>3, <1>5, <1>10, <1>12, <2>1, <2>5, <2>6, Watches DEF Rmws
    <3>2. /\ rmw'.state = "S_READ_WAIT" /\ rmw'.cmd = i.op /\ rmw'.wdata = i.data
      BY <1>1, <1>11, <2>6 DEF Go, Fields
    <3>3. Place(c)' = core[c].pc
      BY <1>9, <3>2 DEF Taken
    <3>4. Quiet
      BY <1>4, <1>8, <3>1, <3>3 DEF Quiet, Onward
    <3>5. FlightOf(c)'
      BY <1>6, <1>12, <1>13, <2>2, <2>3, <2>6, <3>1, <3>2 DEF FlightOf, NoScPending
    <3> QED BY <1>4, <1>6, <3>4, <3>5, FlightOnly
  <2>7. CASE i.op \notin Rmws
    <3>1. rmw'.state = "S_IDLE"
      BY <1>1, <1>11, <2>7 DEF Go, Fields
    <3>2. FlightOf(c)'
      BY <1>6, <1>12, <1>13, <2>2, <2>3, <2>5, <2>7, <3>1 DEF FlightOf, NoScPending
    <3>3. CASE err = 1
      <4>1. mem' = mem /\ watch' = watch
        BY <1>5, <2>4, <3>3, Watches
      <4>2. Place(c)' = core[c].pc
        BY <1>9, <1>12, <3>3 DEF Taken
      <4>3. Quiet
        BY <1>4, <1>8, <4>1, <4>2 DEF Quiet, Onward
      <4> QED BY <1>4, <1>6, <3>2, <4>3, FlightOnly
    <3>4. CASE err = 0
      <4>1. Returned(rmw', rvs', Ans') = mem[i.addr]
        BY <2>2, <2>3, <3>1, <3>4 DEF Returned, NoScPending
      <4>2. Arrives(c, mem[i.addr])
        BY <1>6, <1>8, <1>9, <1>12, <3>1, <3>4, <4>1 DEF Taken, Arrives
      <4>3. Reads(c, i) \/ Stores(c, i) \/ Reserves(c, i)
        <5>1. i.op \in {"none", "LR"}
          BY <1>10, <1>13, <2>7 DEF Op, Rmws
        <5>2. CASE i.op = "none" /\ i.rw = 0
          BY <1>3, <1>5, <2>1, <2>5, <3>4, <4>2, <5>2, Watches DEF Reads
        <5>3. CASE i.op = "none" /\ i.rw = 1
          BY <1>3, <1>5, <2>1, <2>4, <3>4, <4>2, <5>3, Watches DEF Stores
        <5>4. CASE i.op = "LR"
          BY <1>3, <1>5, <1>10, <2>1, <2>5, <3>4, <4>2, <5>4, Watches DEF Reserves
        <5> QED BY <1>10, <5>1, <5>2, <5>3, <5>4
      <4>4. CoreEffect(c)
        BY <1>4, <1>7, <4>3 DEF CoreEffect, i
      <4> QED BY <1>4, <1>6, <3>2, <4>4, FlightOnly
    <3> QED BY <1>12, <3>3, <3>4
  <2> QED BY <2>6, <2>7
<1>14. CASE i.op = "SC"
  <2>1. rmw'.state = "S_IDLE" /\ i.op \notin Rmws /\ i.rw = 1 /\ i.addr = "lock"
    BY <1>1, <1>10, <1>11, <1>14 DEF Go, Fields, Rmws
  <2>2. sc_valid(amo_req) <=> rvs.set = 1 /\ rvs.id = c /\ rvs.addr = Granule["lock"]
    BY <1>3, <2>1 DEF sc_valid
  <2>3. IF sc_valid(amo_req) THEN rvs'.sc_pend_pass = 1 /\ rvs'.sc_pend_fail # 1
        ELSE rvs'.sc_pend_fail = 1
    <3>1. DOMAIN Reservation(amo_req) = DOMAIN rvs
          /\ Reservation(amo_req).sc_pend_fail = rvs.sc_pend_fail
      BY <1>1 DEF Reservation, Fields
    <3> QED BY <1>1, <1>2, <1>3, <1>14, <3>1 DEF Edge, RvsTick, Fields, NoScPending
  <2>4. FlightOf(c)'
    BY <1>6, <1>14, <2>1, <2>3 DEF FlightOf
  <2>5. CASE err = 1
    <3>1. mem' = mem
      BY <1>1, <1>5, <2>5, Strobe
    <3>2. watch' = watch
      BY <1>5, <2>5, Watches
    <3>3. Place(c)' = core[c].pc
      BY <1>9, <1>12, <2>5 DEF Taken
    <3>4. Quiet
      BY <1>4, <1>8, <3>1, <3>2, <3>3 DEF Quiet, Onward
    <3> QED BY <1>4, <1>6, <2>4, <3>4, FlightOnly
  <2>6. CASE err = 0 /\ sc_valid(amo_req)
    <3>1. sys3_req = sys2_req
      BY <1>3, <2>6 DEF sys3_req, rvs_req
    <3>2. mem' = [mem EXCEPT !["lock"] = i.data]
      BY <1>1, <1>3, <1>5, <2>1, <2>6, <3>1, Strobe
    <3>3. watch' = [d \in Core |-> FALSE]
      BY <1>3, <1>5, <1>14, <2>1, <2>6, <3>1, Watches DEF WatchAfter, SameGranule
    <3>4. Arrives(c, 0)
      BY <1>6, <1>8, <1>9, <1>12, <2>1, <2>3, <2>6 DEF Taken, Arrives, Returned
    <3>5. Wins(c, i)
      BY <1>14, <2>2, <2>6, <3>2, <3>3, <3>4 DEF Wins
    <3>6. CoreEffect(c)
      BY <1>4, <1>7, <3>5 DEF CoreEffect, i
    <3> QED BY <1>4, <1>6, <2>4, <3>6, FlightOnly
  <2>7. CASE err = 0 /\ ~sc_valid(amo_req)
    <3>1. sys3_req = [sys2_req EXCEPT !.rw = 0, !.op = "none"]
      BY <1>3, <1>14, <2>7 DEF sys3_req, rvs_req
    <3>2. sys3_req.rw = 0 /\ sys3_req.addr = "lock"
      BY <1>3, <2>1, <3>1 DEF RequestFields
    <3>3. mem' = mem
      BY <1>1, <1>5, <3>2, Strobe
    <3>4. watch' = [watch EXCEPT ![c] = FALSE]
      BY <1>3, <1>5, <1>14, <2>7, <3>2, Watches
    <3>5. Arrives(c, 1)
      BY <1>6, <1>8, <1>9, <1>12, <2>1, <2>3, <2>7 DEF Taken, Arrives, Returned
    <3>6. Fails(c, i)
      BY <1>14, <3>3, <3>4, <3>5 DEF Fails
    <3>7. CoreEffect(c)
      BY <1>4, <1>7, <3>6 DEF CoreEffect, i
    <3> QED BY <1>4, <1>6, <2>4, <3>7, FlightOnly
  <2> QED BY <1>12, <2>5, <2>6, <2>7
<1> QED BY <1>13, <1>14

\* The access of core c is on its way: a read is answered, a result is computed
\* and written, or the core is answered.
LEMMA OnEffect ==
  ASSUME EdgeFacts, NEW err, Edge(err), NEW c \in Core, EdgeOn(c)
  PROVE  (Quiet \/ CoreEffect(c)) /\ FlightSide'
<1> DEFINE i == Instr(core[c].pc)
<1>1. Shape /\ CoreSide /\ DmaSide /\ MemSide /\ Fields /\ Shape' /\ MemSide'
  BY DEF EdgeFacts, FlightInv, AccessInv
<1>2. /\ rmw.state = "S_IDLE" => i.op \notin Rmws
      /\ rmw.state # "S_IDLE" => i.op \in Rmws /\ rmw.cmd = i.op /\ rmw.wdata = i.data
      /\ rmw.state \in {"S_IDLE", "S_READ_WAIT"} /\ i.rw = 0 /\ Ans.err = 0 =>
           Ans.data = mem[i.addr]
      /\ rmw.state \in {"S_EXECUTE", "S_WRITE"} => rmw.rdata = mem[i.addr]
      /\ rmw.state = "S_WRITE" => rmw.alu_res = NewValue(i, rmw.rdata)
      /\ i.op = "SC" <=> rvs.sc_pend_pass = 1 \/ rvs.sc_pend_fail = 1
  BY DEF EdgeFacts, FlightInv, FlightSide, EdgeOn, FlightOf
<1>3. /\ DOMAIN sys2_req = RequestFields /\ sys2_req.stb = 0 /\ sys2_req.op = i.op
      /\ sys2_req.id = c /\ sys2_req.addr = i.addr
  BY DEF EdgeOn, Carries
<1>4. \A d \in Core \ {c} : Onward(d) /\ ~Flight(d)'
  BY OthersOnward DEF EdgeOn
<1>5. sys3_req.stb = IF rmw.state = "S_WRITE" THEN 1 ELSE 0
  BY <1>1, <1>3, MemStrobe DEF RequestFields
<1>6. MemBusy <=> rmw.state \in {"S_IDLE", "S_READ_WAIT", "S_WRITE_WAIT"}
  BY <1>1 DEF MemSide, Active, CoreAct, EdgeOn, Flight
<1>7. i.op \in Rmws => i.rw = 0 /\ i.op # "SC"
  BY InstrKinds DEF Rmws
<1>8. /\ flavour' = flavour
      /\ sys2_rsp.ack # 1 => /\ core'[c].pc = core[c].pc /\ Instr(core'[c].pc) = i
                             /\ boot'.entry = boot.entry /\ Flight(c)'
      /\ sys2_rsp.ack = 1 => core'[c].pc = Place(c) /\ ~Flight(c)'
  <2>1. flavour' = flavour
    BY DEF Edge
  <2>2. CASE sys2_rsp.ack # 1
    <3>1. core'[c].pc = core[c].pc
      BY <1>1, <2>2, PcMoves DEF Edge, EdgeOn
    <3> QED BY <2>1, <2>2, <3>1, BootStays DEF EdgeOn
  <2>3. CASE sys2_rsp.ack = 1
    BY <1>1, <2>1, <2>3, PcMoves DEF Edge, EdgeOn
  <2> QED BY <2>2, <2>3
<1>9. Place(c) = IF rmw.state \in {"S_IDLE", "S_WRITE_WAIT"} /\ Ans.err = 0
                 THEN After(flavour, c, core[c].pc, Returned(rmw, rvs, Ans), boot.entry)
                 ELSE core[c].pc
  BY <1>1, PlaceIs DEF Places, Taken, EdgeOn
<1>10. Place(c)' = IF Taken(c)' THEN After(flavour', c, core'[c].pc, Returned(rmw', rvs', Ans'), boot'.entry)
                   ELSE core'[c].pc
  BY <1>1, PlaceNext DEF Places
<1>11. sys2_rsp.ack = CASE rmw.state \in {"S_IDLE", "S_WRITE_WAIT"} -> sys_rsp.ack
                        [] rmw.state = "S_READ_ERROR" -> 1 [] OTHER -> 0
  BY <1>1, Acks
<1>12. RmwTick(sys2_req, rvs_rsp(sys_rsp)) /\ RvsTick(amo_req, sys_rsp)
  BY DEF Edge
<1>13. core[c].phase = "wait"
  BY DEF EdgeOn, Flight, Serving
<1> HIDE DEF i
<1>14. CASE rmw.state = "S_WRITE"
  <2>1. /\ amo_req = [sys2_req EXCEPT !.data = rmw.alu_res, !.rw = 1, !.stb = 1]
        /\ sys3_req = amo_req
    BY <1>2, <1>3, <1>7, <1>14 DEF amo_req, rmw_req, sys3_req, rvs_req, RequestFields
  <2>2. /\ sys3_req.stb = 1 /\ sys3_req.rw = 1 /\ sys3_req.addr = i.addr
        /\ sys3_req.data = rmw.alu_res /\ amo_req.op = i.op
    BY <1>3, <2>1 DEF RequestFields
  <2>3. /\ rmw'.state = "S_WRITE_WAIT" /\ rmw'.cmd = rmw.cmd /\ rmw'.wdata = rmw.wdata
        /\ rmw'.rdata = rmw.rdata
    BY <1>1, <1>12, <1>14 DEF RmwTick, RmwIdle, RmwReadWait, RmwReadError, RmwExecute, RmwWrite,
                              RmwWriteWait, Go, Fields
  <2>4. NoScPending'
    BY <1>1, <1>2, <1>7, <1>12, <1>14, <2>2, NoScRequested DEF NoScPending
  <2>5. /\ core'[c].pc = core[c].pc /\ Instr(core'[c].pc) = i
        /\ boot'.entry = boot.entry /\ Flight(c)'
    <3>1. sys2_rsp.ack = 0
      BY <1>11, <1>14
    <3>2. sys2_rsp.ack # 1
      BY <3>1
    <3> QED BY <1>8, <3>2
  <2>6. FlightOf(c)'
    BY <1>2, <1>7, <1>14, <2>3, <2>4, <2>5 DEF FlightOf, NoScPending
  <2>7. Ans'.err = err /\ err \in {0, 1}
    BY <1>1, <2>2, Strobe
  <2>8. Place(c) = core[c].pc
    BY <1>9, <1>14
  <2>9. CASE err = 1
    <3>1. mem' = mem /\ watch' = watch
      BY <1>1, <2>2, <2>9, Strobe, Watches
    <3>2. Place(c)' = core[c].pc
      BY <1>10, <2>5, <2>7, <2>9 DEF Taken
    <3>3. Quiet
      BY <1>4, <2>8, <3>1, <3>2 DEF Quiet, Onward
    <3> QED BY <1>4, <2>5, <2>6, <3>3, FlightOnly
  <2>10. CASE err = 0
    <3>1. mem' = [mem EXCEPT ![i.addr] = NewValue(i, mem[i.addr])]
      BY <1>1, <1>2, <1>14, <2>2, <2>10, Strobe
    <3>2. watch' = WatchAfter(i.addr)
      BY <1>2, <1>14, <2>2, <2>10, Watches DEF Rmws
    <3>3. Arrives(c, mem[i.addr])
      BY <1>2, <1>8, <1>10, <1>14, <2>3, <2>5, <2>7, <2>8, <2>10 DEF Taken, Arrives, Returned
    <3>4. Modifies(c, i)
      BY <1>2, <1>14, <3>1, <3>2, <3>3 DEF Modifies
    <3>5. CoreEffect(c)
      BY <1>4, <1>13, <3>4 DEF CoreEffect, i
    <3> QED BY <1>4, <2>5, <2>6, <3>5, FlightOnly
  <2> QED BY <2>7, <2>9, <2>10
<1>15. CASE rmw.state # "S_WRITE"
  <2>1. /\ mem' = mem /\ watch' = watch
        /\ MemBusy /\ sys_rsp.ack # 1 => Ans' = Ans
    <3>1. sys3_req.stb = 0
      BY <1>5, <1>15
    <3>2. sys3_req.stb # 1
      BY <3>1
    <3> QED BY <1>1, <3>2, NoStrobe
  <2>2. amo_req.stb = 0
    BY <1>3, <1>15 DEF amo_req, rmw_req, RequestFields
  <2>3. IF sys_rsp.ack = 1 THEN NoScPending'
        ELSE rvs'.sc_pend_pass = rvs.sc_pend_pass /\ rvs'.sc_pend_fail = rvs.sc_pend_fail
    BY <1>1, <1>12, <2>2, RvsRests
  <2>4. Onward(c) => Quiet
    BY <1>4, <2>1 DEF Quiet
  <2>5. CASE sys2_rsp.ack = 1
    <3>1. Place(c)' = Place(c)
      BY <1>8, <1>10, <2>5 DEF Taken
    <3>2. rmw'.state = "S_IDLE"
      BY <1>1, <1>11, <1>15, <2>5 DEF EdgeFacts, RmwMoved, EdgeOn, Shape, rmw_state_t
    <3>3. NoScPending'
      <4>1. CASE sys_rsp.ack = 1
        BY <2>3, <4>1
      <4>2. CASE sys_rsp.ack # 1
        <5>1. rmw.state = "S_READ_ERROR"
          BY <1>1, <1>11, <2>5, <4>2 DEF Shape
        <5> QED BY <1>2, <1>7, <2>3, <4>2, <5>1 DEF NoScPending
      <4> QED BY <4>1, <4>2
    <3>4. FlightSide'
      BY <1>4, <1>8, <2>5, <3>2, <3>3 DEF FlightSide
    <3> QED BY <2>4, <3>1, <3>4 DEF Onward
  <2>6. CASE sys2_rsp.ack # 1
    <3>1. /\ core'[c].pc = core[c].pc /\ Instr(core'[c].pc) = i
          /\ boot'.entry = boot.entry /\ Flight(c)'
      BY <1>8, <2>6
    <3>2. CASE rmw.state = "S_IDLE"
      <4>1. sys_rsp.ack # 1 /\ Ans' = Ans
        BY <1>6, <1>11, <2>1, <2>6, <3>2
      <4>2. rmw'.state = "S_IDLE"
        BY <1>3, <3>2 DEF EdgeFacts, RmwMoved
      <4>3. FlightOf(c)'
        BY <1>2, <2>1, <2>3, <3>1, <3>2, <4>1, <4>2 DEF FlightOf
      <4>4. Place(c)' = Place(c)
        BY <1>8, <1>9, <1>10, <2>3, <3>1, <3>2, <4>1, <4>2 DEF Taken, Returned
      <4> QED BY <1>4, <2>4, <3>1, <4>3, <4>4, FlightOnly DEF Onward
    <3>3. CASE rmw.state = "S_WRITE_WAIT"
      <4>1. sys_rsp.ack # 1 /\ Ans' = Ans
        BY <1>6, <1>11, <2>1, <2>6, <3>3
      <4>2. /\ rmw'.state = "S_WRITE_WAIT" /\ rmw'.cmd = rmw.cmd /\ rmw'.wdata = rmw.wdata
            /\ rmw'.rdata = rmw.rdata
        <5>1. rvs_rsp(sys_rsp).ack # 1
          BY <1>1, <4>1 DEF rvs_rsp, Shape
        <5> QED BY <1>1, <1>12, <3>3, <5>1 DEF RmwTick, RmwIdle, RmwReadWait, RmwReadError, RmwExecute,
                                               RmwWrite, RmwWriteWait, Go, Fields
      <4>3. FlightOf(c)'
        BY <1>2, <1>7, <2>3, <3>1, <3>3, <4>1, <4>2 DEF FlightOf
      <4>4. Place(c)' = Place(c)
        BY <1>8, <1>9, <1>10, <3>1, <3>3, <4>1, <4>2 DEF Taken, Returned
      <4> QED BY <1>4, <2>4, <3>1, <4>3, <4>4, FlightOnly DEF Onward
    <3>4. CASE rmw.state \in {"S_READ_WAIT", "S_EXECUTE"}
      <4>1. NoScPending'
        BY <1>2, <1>7, <2>3, <3>4 DEF NoScPending
      <4>2. Onward(c)
        <5>1. rmw'.state \in {"S_READ_WAIT", "S_READ_ERROR", "S_EXECUTE", "S_WRITE"}
          BY <3>4 DEF EdgeFacts, RmwMoved
        <5> QED BY <1>9, <1>10, <3>1, <3>4, <5>1 DEF Taken, Onward
      <4>3. CASE rmw.state = "S_EXECUTE"
        <5>1. /\ rmw'.state = "S_WRITE" /\ rmw'.cmd = rmw.cmd /\ rmw'.wdata = rmw.wdata
              /\ rmw'.rdata = rmw.rdata /\ rmw'.alu_res = alu
          BY <1>1, <1>12, <4>3 DEF RmwTick, RmwIdle, RmwReadWait, RmwReadError, RmwExecute, RmwWrite,
                                   RmwWriteWait, Go, Fields
        <5>2. rmw'.alu_res = NewValue(i, rmw.rdata)
          BY <1>2, <4>3, <5>1 DEF alu, NewValue
        <5>3. FlightOf(c)'
          BY <1>2, <1>7, <2>1, <3>1, <4>1, <4>3, <5>1, <5>2 DEF FlightOf, NoScPending
        <5> QED BY <1>4, <2>4, <3>1, <4>2, <5>3, FlightOnly
      <4>4. CASE rmw.state = "S_READ_WAIT"
        <5>1. /\ rvs_rsp(sys_rsp).ack = sys_rsp.ack /\ rvs_rsp(sys_rsp).err = sys_rsp.err
              /\ rvs_rsp(sys_rsp).data = sys_rsp.data
          BY <1>1, <1>2, <1>7, <4>4 DEF rvs_rsp, Shape
        <5>2. /\ rmw'.state = IF sys_rsp.ack = 0 THEN "S_READ_WAIT"
                              ELSE IF sys_rsp.err = 1 THEN "S_READ_ERROR" ELSE "S_EXECUTE"
              /\ rmw'.cmd = rmw.cmd /\ rmw'.wdata = rmw.wdata /\ rmw'.rdata = sys_rsp.data
          BY <1>1, <1>12, <4>4, <5>1 DEF RmwTick, RmwIdle, RmwReadWait, RmwReadError, RmwExecute,
                                         RmwWrite, RmwWriteWait, Go, Fields
        <5>3. sys_rsp.ack \in {0, 1} /\ sys_rsp.err \in {0, 1}
          BY <1>1 DEF Shape, Fields, Bit
        <5>4. CASE sys_rsp.ack = 0
          <6>1. Ans' = Ans
            BY <1>6, <2>1, <4>4, <5>4
          <6> QED BY <1>2, <1>4, <1>7, <2>1, <2>4, <3>1, <4>1, <4>2, <4>4, <5>2, <5>4, <6>1, FlightOnly
                  DEF FlightOf, NoScPending
        <5>5. CASE sys_rsp.ack = 1
          <6>1. Ans = sys_rsp
            BY <5>5 DEF Ans
          <6>2. FlightOf(c)'
            BY <1>2, <1>7, <2>1, <3>1, <4>1, <4>4, <5>2, <5>3, <5>5, <6>1 DEF FlightOf, NoScPending
          <6> QED BY <1>4, <2>4, <3>1, <4>2, <6>2, FlightOnly
        <5> QED BY <5>3, <5>4, <5>5
      <4> QED BY <3>4, <4>3, <4>4
    <3> QED BY <1>1, <1>11, <1>15, <2>6, <3>2, <3>3, <3>4 DEF Shape, rmw_state_t
  <2> QED BY <2>5, <2>6
<1> QED BY <1>14, <1>15

-----------------------------------------------------------------------------
(* Every step. *)

LEMMA EdgeEffect ==
  ASSUME EdgeFacts, NEW err, Edge(err)
  PROVE  Effect /\ FlightSide'
<1>1. CASE EdgeOther
  BY <1>1, OtherEffect
<1>2. CASE \E c \in Core : EdgeBegins(c)
  BY <1>2, BeginsEffect DEF Effect
<1>3. CASE \E c \in Core : EdgeOn(c)
  BY <1>3, OnEffect DEF Effect
<1> QED BY <1>1, <1>2, <1>3, EdgeKinds

LEMMA EdgeFields ==
  ASSUME EdgeFacts, NEW err, Edge(err), Effect
  PROVE  Fields'
<1>1. Fields /\ Shape
  BY DEF EdgeFacts, FlightInv, AccessInv
<1>2. DOMAIN rmw' = DOMAIN rmw
  BY DEF Edge, RmwTick, RmwIdle, RmwReadWait, RmwReadError, RmwExecute, RmwWrite, RmwWriteWait, Go
<1>3. DOMAIN rvs' = DOMAIN rvs
  <2>1. DOMAIN Reservation(amo_req) = DOMAIN rvs
    BY DEF Reservation
  <2> QED BY <2>1 DEF Edge, RvsTick
<1>4. DOMAIN boot' = {"sp", "entry"}
  BY DEF Edge, BootNext
<1>5. DOMAIN mem' = DOMAIN mem
  BY DEF Effect, Quiet, DmaWrites, CoreEffect, Reads, Stores, Reserves, Wins, Fails, Modifies
<1>6. DOMAIN watch' = Core
  <2>1. \A a : DOMAIN WatchAfter(a) = Core
    BY <1>1 DEF WatchAfter, Fields
  <2> QED BY <1>1, <2>1 DEF Effect, Quiet, DmaWrites, CoreEffect, Reads, Stores, Reserves, Wins,
                            Fails, Modifies, Fields
<1>7. sys_rsp'.err \in Bit /\ sys_pend'.err \in Bit
  <2>1. Served(err).err \in Bit /\ NoRsp.err \in Bit
    BY <1>1 DEF Served, Fields, Edge, NoRsp, Bit
  <2> QED BY <2>1 DEF Edge, Answer, Delay
<1>8. flavour' \in Flavours /\ flavour' = flavour
  BY <1>1 DEF Edge, Fields
<1>9. dma'.phase # "idle" => dma'.req \in DmaReqs[flavour]
  <2>1. {"phase", "req"} \subseteq DOMAIN dma
    BY <1>1 DEF Shape
  <2> QED BY <1>1, <2>1 DEF Edge, DmaTick, Fields
<1> QED BY <1>1, <1>2, <1>3, <1>4, <1>5, <1>6, <1>7, <1>8, <1>9 DEF Fields

LEMMA InitFlight == Init => FlightInv
<1> SUFFICES ASSUME Init PROVE FlightInv
  OBVIOUS
<1>1. Fields
  BY DEF Init, Fields, RmwInit, RvsInit, NoRsp, Bit
<1>2. \A c \in Core : ~Flight(c)
  BY DEF Init, SwitchInit, Flight
<1>3. rmw.state = "S_IDLE" /\ NoScPending
  BY DEF Init, RmwInit, RvsInit, NoScPending
<1> QED BY <1>1, <1>2, <1>3, InitAccess DEF FlightInv, FlightSide

\* Core 0 gives up its launch.
GivesUp ==
  /\ UNCHANGED <<mem, watch, flavour, boot>>
  /\ core[0].pc \in {"poll1", "poll2"} /\ core'[0].pc = "failed"
  /\ Place(0) = core[0].pc /\ Place(0)' = "failed"
  /\ core'[1] = core[1] /\ Place(1)' = Place(1)

LEMMA TimeoutEffect ==
  ASSUME FlightInv, LaunchTimeout
  PROVE  FlightInv' /\ GivesUp
<1>1. core[0].phase = "exec" /\ core[0].pc \in {"poll1", "poll2"}
      /\ core' = [core EXCEPT ![0].pc = "failed"]
  BY DEF LaunchTimeout
<1>2. UNCHANGED <<flavour, boot, dma, core_sw, dma_sw, rmw, rvs, mem, sys_pend, sys_rsp, watch>>
  BY DEF LaunchTimeout, busVars
<1>3. AccessInv /\ AccessInv' /\ Shape /\ MemSide /\ Shape' /\ MemSide'
  BY TimeoutAccess DEF FlightInv, AccessInv
<1>4. core'[1] = core[1] /\ core'[0].pc = "failed" /\ core'[0].phase = "exec"
  BY <1>1, <1>3 DEF Shape, Core
<1>5. ~Flight(0) /\ ~Flight(0)' /\ (Flight(1)' <=> Flight(1)) /\ Core = {0, 1}
  BY <1>1, <1>2, <1>4 DEF Flight, Serving, Connected, Core
<1>6. Ans' = Ans
  BY <1>2 DEF Ans
<1>7. FlightOf(1) => FlightOf(1)'
  BY <1>2, <1>4, <1>6 DEF FlightOf
<1>8. FlightSide'
  BY <1>2, <1>5, <1>7 DEF FlightInv, FlightSide, NoScPending
<1>9. Fields'
  BY <1>2 DEF FlightInv, Fields
<1>10. Place(0) = core[0].pc /\ Place(0)' = core'[0].pc
  BY <1>3, <1>5, PlaceIs, PlaceNext DEF Places, Taken
<1>11. Place(1)' = Place(1)
  <2>1. Taken(1)' <=> Taken(1)
    BY <1>2, <1>5, <1>6 DEF Taken
  <2> QED BY <1>2, <1>3, <1>4, <1>5, <1>6, <2>1, PlaceIs, PlaceNext DEF Places
<1> QED BY <1>1, <1>2, <1>3, <1>4, <1>8, <1>9, <1>10, <1>11 DEF FlightInv, GivesUp

LEMMA StutterEffect ==
  ASSUME FlightInv, UNCHANGED vars
  PROVE  FlightInv' /\ Quiet
<1>1. UNCHANGED <<flavour, core, boot, dma, core_sw, dma_sw, rmw, rvs, mem, sys_pend, sys_rsp, watch>>
  BY DEF vars, progVars, busVars
<1>2. AccessInv'
  BY <1>1 DEF FlightInv, AccessInv, Shape, CoreSide, DmaSide, MemSide, Active, CoreAct, Serving,
              Connected, MemBusy
<1>3. Ans' = Ans /\ \A c : Flight(c)' <=> Flight(c)
  BY <1>1 DEF Ans, Flight, Serving, Connected
<1>4. FlightSide'
  BY <1>1, <1>3 DEF FlightInv, FlightSide, FlightOf, NoScPending
<1>5. Fields'
  BY <1>1 DEF FlightInv, Fields
<1>6. \A c \in Core : Place(c)' = Place(c)
  <2> TAKE c \in Core
  <2>1. Taken(c)' <=> Taken(c)
    BY <1>1, <1>3 DEF Taken
  <2>2. Shape /\ MemSide /\ Shape' /\ MemSide'
    BY <1>2 DEF FlightInv, AccessInv
  <2> QED BY <1>1, <1>3, <2>1, <2>2, PlaceIs, PlaceNext DEF Places
<1> QED BY <1>1, <1>2, <1>4, <1>5, <1>6 DEF FlightInv, Quiet, Onward

LEMMA StepEffect ==
  ASSUME FlightInv, [Next]_vars
  PROVE  FlightInv' /\ (Effect \/ GivesUp)
<1>1. CASE Tick
  <2>1. PICK err : EdgeFacts /\ Edge(err)
    BY <1>1, TickEdge
  <2>2. Effect /\ FlightSide'
    BY <2>1, EdgeEffect
  <2> QED BY <2>1, <2>2, EdgeFields DEF FlightInv, EdgeFacts
<1>2. CASE LaunchTimeout
  BY <1>2, TimeoutEffect
<1>3. CASE UNCHANGED vars
  BY <1>3, StutterEffect DEF Effect
<1> QED BY <1>1, <1>2, <1>3 DEF Next

\* What each station of the way to the memory holds is the access of the host
\* that waits for it: the request a switch remembers or passes on, the operands
\* of a read-modify-write, the answer on its way back
\* (neorv32_bus.vhd:35-153, 768-898, 935-1035).
THEOREM FlightKept == Spec => []FlightInv
<1>1. FlightInv /\ [Next]_vars => FlightInv'
  BY StepEffect
<1> QED BY <1>1, InitFlight, PTL DEF Spec

\* Whatever the switches remember, the controller splits and the memory
\* delays, a step performs at most one access of one host, wholly: a core's
\* load, store, load-reserved, store-conditional or read-modify-write returns
\* what the memory held at that instant, and the store-conditional succeeds
\* only with the reservation (neorv32_bus.vhd:35-153, 768-898, 935-1035).
THEOREM AtomicAccesses == Spec => [][Effect \/ GivesUp]_vars
<1>1. FlightInv /\ [Next]_vars => [Effect \/ GivesUp]_vars
  BY StepEffect
<1> QED BY <1>1, FlightKept, PTL DEF Spec

Locks == INSTANCE SpinLock_proofs WITH
  Cores <- Core,
  lock  <- mem["lock"],
  watch <- watch,
  at    <- [c \in Core |-> LockPlace(c)]

-----------------------------------------------------------------------------
(* A reservation stands for a load-reserved nobody has written after, or for *)
(* one that was answered with an error.                                      *)

Lost(c) ==
  /\ Instr(core[c].pc).op = "LR"
  /\ core[c].phase = "trap" \/ (Flight(c) /\ Ans.err = 1)

ReservationSide ==
  \A c \in Core : rvs.set = 1 /\ rvs.id = c =>
    rvs.addr = Granule["lock"] /\ (watch[c] \/ Lost(c))

ReservationInv == FlightInv /\ ReservationSide

\* What the reservation station is asked at a clock edge.
NotReserved ==
  /\ amo_req.stb = 1 /\ amo_req.op \notin {"LR", "SC"} /\ amo_req.rw \in {0, 1}
  /\ sys3_req = amo_req

Reserved(c) ==
  /\ EdgeBegins(c) /\ amo_req.stb = 1 /\ amo_req.id = c /\ amo_req.addr = "lock"
  /\ amo_req.op = Instr(core[c].pc).op /\ amo_req.rw = Instr(core[c].pc).rw
  /\ amo_req.op \in {"LR", "SC"}

LEMMA Requests ==
  ASSUME EdgeFacts, NEW err, Edge(err)
  PROVE  /\ sys3_req.stb = amo_req.stb
         /\ amo_req.stb = 0 \/ NotReserved \/ \E c \in Core : Reserved(c)
<1>1. Shape /\ Fields /\ CoreSide /\ DmaSide
  BY DEF EdgeFacts, FlightInv, AccessInv
<1>2. "stb" \in DOMAIN sys2_req /\ sys2_req.stb \in {0, 1}
  BY <1>1, Strobes DEF EdgeFacts, AccessStep, Bit
<1>3. /\ amo_req.stb = IF rmw.state = "S_WRITE" THEN 1 ELSE sys2_req.stb
      /\ sys3_req.stb = amo_req.stb
  BY <1>1, <1>2, MemStrobe DEF amo_req, rmw_req, sys3_req, rvs_req
<1>4. amo_req.op # "SC" => sys3_req = amo_req
  BY DEF sys3_req, rvs_req
<1>5. CASE EdgeOther
  <2>1. amo_req = sys2_req
    BY <1>5, PassedOn DEF EdgeFacts, FlightInv, FlightSide, EdgeOther
  <2>2. CASE sys2_req.stb = 1
    <3>1. amo_req.op = "none" /\ amo_req.rw = dma.req.rw
      BY <1>5, <2>1, <2>2 DEF EdgeOther, CarriesDma
    <3>2. dma.req \in DmaReqs[flavour] /\ flavour \in Flavours
      BY <1>1, <1>5, <2>2 DEF EdgeOther, Fields
    <3>3. dma.req.rw \in {0, 1}
      BY <3>2, DualCoreAssumption DEF Bit
    <3> QED BY <1>3, <1>4, <2>1, <2>2, <3>1, <3>3 DEF NotReserved
  <2> QED BY <1>2, <1>3, <2>1, <2>2
<1>6. ASSUME NEW c \in Core, EdgeBegins(c)
      PROVE  NotReserved \/ Reserved(c)
  <2> DEFINE i == Instr(core[c].pc)
  <2>1. amo_req = sys2_req
    BY <1>6, PassedOn DEF EdgeFacts, FlightInv, FlightSide, EdgeBegins
  <2>2. /\ amo_req.stb = 1 /\ amo_req.id = c /\ amo_req.op = i.op /\ amo_req.rw = i.rw
        /\ amo_req.addr = i.addr
    BY <1>6, <2>1 DEF EdgeBegins, Carries
  <2>3. i.rw \in {0, 1} /\ (i.op \in {"LR", "SC"} => i.addr = "lock")
    BY InstrKinds DEF Bit
  <2> HIDE DEF i
  <2>4. CASE i.op \in {"LR", "SC"}
    BY <1>6, <2>2, <2>3, <2>4 DEF Reserved, i
  <2>5. CASE i.op \notin {"LR", "SC"}
    BY <1>4, <2>2, <2>3, <2>5 DEF NotReserved
  <2> QED BY <2>4, <2>5
<1>7. ASSUME NEW c \in Core, EdgeOn(c)
      PROVE  amo_req.stb = 0 \/ NotReserved
  <2>1. sys2_req.stb = 0 /\ sys2_req.op = Instr(core[c].pc).op /\ DOMAIN sys2_req = RequestFields
    BY <1>7 DEF EdgeOn, Carries
  <2>2. CASE rmw.state = "S_WRITE"
    <3>1. Instr(core[c].pc).op \in Rmws
      BY <1>7, <2>2 DEF EdgeOn, EdgeFacts, FlightInv, FlightSide, FlightOf
    <3>2. amo_req.op \in Rmws /\ amo_req.rw = 1 /\ amo_req.stb = 1
      BY <2>1, <2>2, <3>1 DEF amo_req, rmw_req, RequestFields
    <3> QED BY <1>4, <3>2 DEF NotReserved, Rmws
  <2>3. CASE rmw.state # "S_WRITE"
    BY <1>3, <2>1, <2>3
  <2> QED BY <2>2, <2>3
<1> QED BY <1>3, <1>5, <1>6, <1>7, EdgeKinds

\* An access that ended in an error leaves its core trapped.
LEMMA LostStays ==
  ASSUME EdgeFacts, NEW err, Edge(err), NEW c \in Core, Lost(c)
  PROVE  Lost(c)'
<1>1. Shape /\ Fields /\ CoreSide /\ DmaSide /\ MemSide
  BY DEF EdgeFacts, FlightInv, AccessInv
<1>2. PICK goes \in BOOLEAN : core'[c] = CoreNext(c, goes)
  BY DEF Edge
<1>3. CASE core[c].phase = "trap"
  <2>1. core'[c] = core[c]
    BY <1>2, <1>3 DEF CoreNext
  <2> QED BY <1>3, <2>1 DEF Lost
<1>4. CASE core[c].phase # "trap"
  <2>1. Flight(c) /\ Ans.err = 1 /\ Instr(core[c].pc).op = "LR"
    BY <1>4 DEF Lost
  <2>2. core[c].phase = "wait"
    BY <2>1 DEF Flight, Serving
  <2>3. rmw.state = "S_IDLE"
    BY <2>1 DEF EdgeFacts, FlightInv, FlightSide, FlightOf, Rmws
  <2>4. EdgeOn(c)
    BY <2>1, EdgeKinds DEF EdgeOther, EdgeBegins, EdgeOn
  <2>5. CASE sys2_rsp.ack = 1
    <3>1. CoreRsp(c).ack = 1 /\ CoreRsp(c).err = 1
      BY <1>1, <2>1, <2>3, <2>5, Answered
    <3>2. core'[c] = [core[c] EXCEPT !.phase = "trap"]
      BY <1>2, <2>2, <3>1 DEF CoreNext
    <3>3. core'[c].phase = "trap" /\ core'[c].pc = core[c].pc
      BY <1>1, <3>2 DEF Shape
    <3> QED BY <2>1, <3>3 DEF Lost
  <2>6. CASE sys2_rsp.ack # 1
    <3>1. core'[c].pc = core[c].pc /\ Flight(c)'
      BY <1>1, <1>2, <2>1, <2>4, <2>6, PcMoves DEF EdgeOn
    <3>2. sys_rsp.ack # 1 /\ MemBusy
      BY <1>1, <2>1, <2>3, <2>6, Acks DEF MemSide, Active, CoreAct, Flight
    <3>3. sys3_req.stb # 1
      <4>1. sys3_req.stb = 0
        BY <1>1, <2>3, <2>4, MemStrobe DEF EdgeOn, Carries, RequestFields
      <4> QED BY <4>1
    <3>4. Ans' = Ans
      BY <1>1, <3>2, <3>3, NoStrobe
    <3> QED BY <2>1, <3>1, <3>4 DEF Lost
  <2> QED BY <2>5, <2>6
<1> QED BY <1>3, <1>4

\* A request that is neither a load-reserved nor a store-conditional.
LEMMA OthersReserve ==
  ASSUME EdgeFacts, NEW err, Edge(err), NotReserved, ReservationSide
  PROVE  ReservationSide'
<1>1. Fields
  BY DEF EdgeFacts, FlightInv
<1>2. /\ rvs'.id = rvs.id /\ rvs'.addr = rvs.addr
      /\ rvs'.set = 1 => rvs.set = 1 /\ ~(amo_req.rw = 1 /\ Granule[amo_req.addr] = rvs.addr)
  <2>1. Reservation(amo_req) = IF amo_req.rw = 1 /\ Granule[amo_req.addr] = rvs.addr
                               THEN [rvs EXCEPT !.set = 0] ELSE rvs
    BY DEF Reservation, NotReserved
  <2>2. /\ rvs'.set = Reservation(amo_req).set /\ rvs'.id = Reservation(amo_req).id
        /\ rvs'.addr = Reservation(amo_req).addr
    BY <1>1, <2>1 DEF Edge, RvsTick, Fields
  <2> QED BY <1>1, <2>1, <2>2 DEF Fields
<1>3. ASSUME NEW c \in Core, rvs'.set = 1, rvs'.id = c
      PROVE  rvs'.addr = Granule["lock"] /\ (watch'[c] \/ Lost(c)')
  <2>1. rvs.addr = Granule["lock"] /\ (watch[c] \/ Lost(c))
    BY <1>2, <1>3 DEF ReservationSide
  <2>2. watch' = watch
    <3>1. sys3_req.stb = 1 /\ sys3_req = amo_req /\ err \in {0, 1} /\ amo_req.rw \in {0, 1}
      BY DEF NotReserved, Edge, Bit
    <3>2. amo_req.rw = 1 => ~SameGranule(sys3_req.addr)
      BY <1>2, <1>3, <2>1, <3>1 DEF SameGranule
    <3>3. amo_req.rw = 1 => WatchAfter(sys3_req.addr) = watch
      BY <3>2 DEF WatchAfter
    <3> QED BY <3>1, <3>3, Watches DEF NotReserved
  <2> QED BY <1>2, <2>1, <2>2, LostStays
<1> QED BY <1>3 DEF ReservationSide

\* A load-reserved takes the reservation, if the other core lets it.
LEMMA LrReserves ==
  ASSUME EdgeFacts, NEW err, Edge(err), NEW d \in Core, Reserved(d), amo_req.op = "LR",
         ReservationSide
  PROVE  ReservationSide'
<1>1. Fields /\ Shape
  BY DEF EdgeFacts, FlightInv, AccessInv
<1>2. /\ rvs'.set = Reservation(amo_req).set /\ rvs'.id = Reservation(amo_req).id
      /\ rvs'.addr = Reservation(amo_req).addr
  BY <1>1 DEF Edge, RvsTick, Fields, Reservation
<1>3. Reservation(amo_req) = IF lr_allow(amo_req)
                             THEN [rvs EXCEPT !.set = 1, !.id = d, !.addr = Granule["lock"]] ELSE rvs
  BY DEF Reservation, Reserved
<1>4. sys3_req = amo_req /\ amo_req.rw = 0 /\ amo_req.addr = "lock" /\ amo_req.id = d
  BY InstrKinds DEF sys3_req, rvs_req, Reserved
<1>5. Ans'.err = err /\ err \in {0, 1}
  BY <1>1, <1>4, Strobe DEF Reserved
<1>6. watch' = IF err = 1 THEN watch ELSE [watch EXCEPT ![d] = TRUE]
  BY <1>4, <1>5, Watches DEF Reserved
<1>7. err = 1 => Lost(d)'
  BY <1>5 DEF Reserved, EdgeBegins, Lost
<1>8. \A c \in Core : watch[c] => watch'[c]
  BY <1>1, <1>6 DEF Fields
<1>9. watch'[d] \/ Lost(d)'
  BY <1>1, <1>5, <1>6, <1>7 DEF Fields
<1>10. CASE lr_allow(amo_req)
  <2>1. rvs'.id = d /\ rvs'.addr = Granule["lock"]
    BY <1>1, <1>2, <1>3, <1>10 DEF Fields
  <2> QED BY <1>9, <2>1 DEF ReservationSide
<1>11. CASE ~lr_allow(amo_req)
  <2>1. rvs'.set = rvs.set /\ rvs'.id = rvs.id /\ rvs'.addr = rvs.addr
    BY <1>2, <1>3, <1>11
  <2> QED BY <1>8, <2>1, LostStays DEF ReservationSide
<1> QED BY <1>10, <1>11

\* A store-conditional ends the reservation of its core.
LEMMA ScReserves ==
  ASSUME EdgeFacts, NEW err, Edge(err), NEW d \in Core, Reserved(d), amo_req.op = "SC",
         ReservationSide
  PROVE  ReservationSide'
<1>1. Fields /\ Shape
  BY DEF EdgeFacts, FlightInv, AccessInv
<1>2. /\ rvs'.set = Reservation(amo_req).set /\ rvs'.id = Reservation(amo_req).id
      /\ rvs'.addr = Reservation(amo_req).addr
  BY <1>1 DEF Edge, RvsTick, Fields, Reservation
<1>3. Reservation(amo_req) = IF sc_valid(amo_req) THEN [rvs EXCEPT !.set = 0, !.turn = 1 - @]
                             ELSE IF rvs.id = d THEN [rvs EXCEPT !.set = 0] ELSE rvs
  BY DEF Reservation, Reserved
<1>4. CASE sc_valid(amo_req) \/ rvs.id = d
  <2>1. rvs'.set # 1
    <3>1. rvs'.set = 0
      BY <1>1, <1>2, <1>3, <1>4 DEF Fields
    <3> QED BY <3>1
  <2> QED BY <2>1 DEF ReservationSide
<1>5. CASE ~sc_valid(amo_req) /\ rvs.id # d
  <2>1. rvs'.set = rvs.set /\ rvs'.id = rvs.id /\ rvs'.addr = rvs.addr
    BY <1>2, <1>3, <1>5
  <2>2. amo_req.id = d /\ amo_req.addr = "lock" /\ DOMAIN amo_req = RequestFields
    <3>1. amo_req = sys2_req
      BY PassedOn DEF EdgeFacts, FlightInv, FlightSide, Reserved, EdgeBegins
    <3> QED BY <3>1 DEF Reserved, EdgeBegins, Carries
  <2>3. sys3_req.rw = 0 /\ sys3_req.addr = "lock" /\ sys3_req.stb = 1
    BY <1>5, <2>2, Requests DEF sys3_req, rvs_req, Reserved, RequestFields
  <2>4. watch' = watch \/ watch' = [watch EXCEPT ![d] = FALSE]
    BY <2>2, <2>3, Watches DEF Edge, Bit
  <2>5. \A c \in Core : c # d /\ watch[c] => watch'[c]
    BY <1>1, <2>4 DEF Fields
  <2> QED BY <1>5, <2>1, <2>5, LostStays DEF ReservationSide
<1> QED BY <1>4, <1>5

LEMMA StepReservation ==
  ASSUME ReservationInv, [Next]_vars
  PROVE  ReservationSide'
<1>1. CASE Tick
  <2>1. PICK err : EdgeFacts /\ Edge(err)
    BY <1>1, TickEdge DEF ReservationInv
  <2>2. CASE amo_req.stb = 0
    <3>1. rvs'.set = rvs.set /\ rvs'.id = rvs.id /\ rvs'.addr = rvs.addr
      BY <2>1, <2>2, RvsRests DEF Edge, EdgeFacts, FlightInv
    <3>2. watch' = watch
      <4>1. sys3_req.stb = 0
        BY <2>1, <2>2, Requests
      <4>2. sys3_req.stb # 1
        BY <4>1
      <4> QED BY <2>1, <4>2, NoStrobe DEF EdgeFacts, FlightInv, AccessInv
    <3> QED BY <2>1, <3>1, <3>2, LostStays DEF ReservationInv, ReservationSide
  <2>3. CASE NotReserved
    BY <2>1, <2>3, OthersReserve DEF ReservationInv
  <2>4. ASSUME NEW d \in Core, Reserved(d)
        PROVE  ReservationSide'
    BY <2>1, <2>4, LrReserves, ScReserves DEF ReservationInv, Reserved
  <2> QED BY <2>1, <2>2, <2>3, <2>4, Requests
<1>2. CASE LaunchTimeout
  <2>1. UNCHANGED <<rvs, watch, core_sw, dma_sw, sys_rsp, sys_pend>>
    BY <1>2 DEF LaunchTimeout, busVars
  <2>2. core'[1] = core[1] /\ core[0].phase = "exec"
    BY <1>2 DEF LaunchTimeout, ReservationInv, FlightInv, AccessInv, Shape, Core
  <2>3. \A c \in Core : Lost(c) => Lost(c)'
    BY <2>1, <2>2 DEF Core, Lost, Flight, Serving, Connected, Ans
  <2> QED BY <2>1, <2>3 DEF ReservationInv, ReservationSide
<1>3. CASE UNCHANGED vars
  <2>1. UNCHANGED <<rvs, watch, core, core_sw, dma_sw, sys_rsp, sys_pend>>
    BY <1>3 DEF vars, progVars, busVars
  <2>2. \A c \in Core : Lost(c) => Lost(c)'
    BY <2>1 DEF Lost, Flight, Serving, Connected, Ans
  <2> QED BY <2>1, <2>2 DEF ReservationInv, ReservationSide
<1> QED BY <1>1, <1>2, <1>3 DEF Next

LEMMA ReservationKeeps == ReservationInv /\ [Next]_vars => ReservationInv'
  BY StepReservation, StepEffect DEF ReservationInv

LEMMA InitReservation == Init => ReservationInv
<1>1. ASSUME Init PROVE ReservationSide
  <2>1. rvs.set = 0
    BY <1>1 DEF Init, RvsInit
  <2>2. rvs.set # 1
    BY <2>1
  <2> QED BY <2>2 DEF ReservationSide
<1> QED BY <1>1, InitFlight DEF ReservationInv

-----------------------------------------------------------------------------
(* The programs, spelled out. *)

Loads    == {"poll1", "poll2", "wake_sp", "wake_entry"}
Writes   == {"sp1", "entry1", "msi1", "sp2", "entry2", "msi2", "wake_ack", "print"}
LRs      == {"lock_lr", "unlock_lr", "check"}
SCs      == {"lock_sc", "unlock_sc"}
Swaps    == {"lock_swap", "unlock_swap"}
Counts   == {"count1", "count2"}

LEMMA InstrTable ==
  /\ \A pc : pc \notin Loads \cup Writes \cup LRs \cup SCs \cup Swaps \cup Counts =>
       Instr(pc) = Load("uart")
  /\ Instr("sp1") = Store("sp", STACK) /\ Instr("sp2") = Store("sp", STACK)
  /\ Instr("entry1") = Store("entry", CRT0) /\ Instr("entry2") = Store("entry", MAIN)
  /\ Instr("msi1") = Store("mswi", 1) /\ Instr("msi2") = Store("mswi", 1)
  /\ Instr("poll1") = Load("mswi") /\ Instr("poll2") = Load("mswi")
  /\ Instr("wake_sp") = Load("sp") /\ Instr("wake_entry") = Load("entry")
  /\ Instr("wake_ack") = Store("mswi", 0) /\ Instr("print") = Store("uart", 0)
  /\ Instr("lock_lr") = LR("lock") /\ Instr("unlock_lr") = LR("lock") /\ Instr("check") = LR("lock")
  /\ Instr("lock_sc") = SC("lock", LOCKED) /\ Instr("unlock_sc") = SC("lock", 0)
  /\ Instr("lock_swap") = Amo("SWAP", "lock", LOCKED) /\ Instr("unlock_swap") = Amo("SWAP", "lock", 0)
  /\ Instr("count1") = Amo("ADD", "count", 1) /\ Instr("count2") = Amo("ADD", "count", 1)
<1>1. /\ DOMAIN smp_boot = {"sp1", "entry1", "msi1", "poll1", "sp2", "entry2", "msi2", "poll2"}
      /\ DOMAIN smp_wakeup = {"wake_sp", "wake_entry", "wake_ack"}
      /\ DOMAIN spin_lock = {"lock_lr", "lock_sc", "lock_swap"}
      /\ DOMAIN spin_unlock = {"unlock_lr", "unlock_sc", "unlock_swap"}
      /\ DOMAIN spin_check = {"check"} /\ DOMAIN printing = {"print"}
      /\ DOMAIN counting = {"count1", "count2"}
  BY DEF smp_boot, smp_wakeup, spin_lock, spin_unlock, spin_check, printing, counting
<1>2. /\ \A pc \in DOMAIN smp_boot    : Instr(pc) = smp_boot[pc]
      /\ \A pc \in DOMAIN smp_wakeup  : Instr(pc) = smp_wakeup[pc]
      /\ \A pc \in DOMAIN spin_lock   : Instr(pc) = spin_lock[pc]
      /\ \A pc \in DOMAIN spin_unlock : Instr(pc) = spin_unlock[pc]
      /\ \A pc \in DOMAIN spin_check  : Instr(pc) = spin_check[pc]
      /\ \A pc \in DOMAIN printing    : Instr(pc) = printing[pc]
      /\ \A pc \in DOMAIN counting    : Instr(pc) = counting[pc]
  BY <1>1 DEF Instr
<1>3. \A pc : pc \notin Loads \cup Writes \cup LRs \cup SCs \cup Swaps \cup Counts =>
        Instr(pc) = Load("uart")
  BY <1>1 DEF Instr, Loads, Writes, LRs, SCs, Swaps, Counts
<1>4. /\ smp_boot["sp1"] = Store("sp", STACK) /\ smp_boot["sp2"] = Store("sp", STACK)
      /\ smp_boot["entry1"] = Store("entry", CRT0) /\ smp_boot["entry2"] = Store("entry", MAIN)
      /\ smp_boot["msi1"] = Store("mswi", 1) /\ smp_boot["msi2"] = Store("mswi", 1)
      /\ smp_boot["poll1"] = Load("mswi") /\ smp_boot["poll2"] = Load("mswi")
  BY DEF smp_boot
<1>5. /\ smp_wakeup["wake_sp"] = Load("sp") /\ smp_wakeup["wake_entry"] = Load("entry")
      /\ smp_wakeup["wake_ack"] = Store("mswi", 0)
  BY DEF smp_wakeup
<1>6. /\ spin_lock["lock_lr"] = LR("lock") /\ spin_lock["lock_sc"] = SC("lock", LOCKED)
      /\ spin_lock["lock_swap"] = Amo("SWAP", "lock", LOCKED)
  BY DEF spin_lock
<1>7. /\ spin_unlock["unlock_lr"] = LR("lock") /\ spin_unlock["unlock_sc"] = SC("lock", 0)
      /\ spin_unlock["unlock_swap"] = Amo("SWAP", "lock", 0)
  BY DEF spin_unlock
<1>8. /\ spin_check["check"] = LR("lock") /\ printing["print"] = Store("uart", 0)
      /\ counting["count1"] = Amo("ADD", "count", 1) /\ counting["count2"] = Amo("ADD", "count", 1)
  BY DEF spin_check, printing, counting
<1> QED BY <1>1, <1>2, <1>3, <1>4, <1>5, <1>6, <1>7, <1>8

LEMMA AfterTable ==
  ASSUME NEW f, NEW c, NEW v, NEW e
  PROVE  /\ \A pc : pc \notin Loads \cup Writes \cup LRs \cup SCs \cup Swaps \cup Counts =>
              After(f, c, pc, v, e) = pc
         /\ After(f, c, "sp1", v, e) = "entry1" /\ After(f, c, "sp2", v, e) = "entry2"
         /\ After(f, c, "entry1", v, e) = "msi1" /\ After(f, c, "entry2", v, e) = "msi2"
         /\ After(f, c, "msi1", v, e) = "poll1" /\ After(f, c, "msi2", v, e) = "poll2"
         /\ After(f, c, "poll1", v, e) = IF v = 0 THEN "sp2" ELSE "poll1"
         /\ After(f, c, "poll2", v, e) = IF v = 0 THEN Begin(f) ELSE "poll2"
         /\ After(f, c, "wake_sp", v, e) = "wake_entry" /\ After(f, c, "wake_entry", v, e) = "wake_ack"
         /\ After(f, c, "wake_ack", v, e) = IF e = MAIN THEN Begin(f) ELSE "sleep"
         /\ After(f, c, "lock_lr", v, e) = IF v = 0 THEN "lock_sc" ELSE "lock_lr"
         /\ After(f, c, "lock_sc", v, e) = IF v = 0 THEN "print" ELSE "lock_lr"
         /\ After(f, c, "lock_swap", v, e) = IF v = 0 THEN "print" ELSE "lock_swap"
         /\ After(f, c, "print", v, e) = IF f = "lrsc" THEN "unlock_lr" ELSE "unlock_swap"
         /\ After(f, c, "unlock_lr", v, e) = "unlock_sc"
         /\ After(f, c, "unlock_sc", v, e) = IF v = 0 THEN Unlocked(f, c) ELSE "unlock_lr"
         /\ After(f, c, "unlock_swap", v, e) = Unlocked(f, c)
         /\ After(f, c, "check", v, e) = IF v = 0 THEN "done" ELSE "check"
         /\ After(f, c, "count1", v, e) = "count2" /\ After(f, c, "count2", v, e) = "done"
<1>1. \A pc : pc \notin Loads \cup Writes \cup LRs \cup SCs \cup Swaps \cup Counts =>
        After(f, c, pc, v, e) = pc
  BY DEF After, Straight, Loads, Writes, LRs, SCs, Swaps, Counts
<1>2. \A pc \in DOMAIN Straight : After(f, c, pc, v, e) = Straight[pc]
  BY DEF After, Straight
<1>3. /\ After(f, c, "sp1", v, e) = "entry1" /\ After(f, c, "sp2", v, e) = "entry2"
      /\ After(f, c, "entry1", v, e) = "msi1" /\ After(f, c, "entry2", v, e) = "msi2"
      /\ After(f, c, "msi1", v, e) = "poll1" /\ After(f, c, "msi2", v, e) = "poll2"
      /\ After(f, c, "wake_sp", v, e) = "wake_entry" /\ After(f, c, "wake_entry", v, e) = "wake_ack"
      /\ After(f, c, "unlock_lr", v, e) = "unlock_sc"
      /\ After(f, c, "count1", v, e) = "count2" /\ After(f, c, "count2", v, e) = "done"
  BY <1>2 DEF Straight
<1>4. /\ After(f, c, "poll1", v, e) = IF v = 0 THEN "sp2" ELSE "poll1"
      /\ After(f, c, "poll2", v, e) = IF v = 0 THEN Begin(f) ELSE "poll2"
      /\ After(f, c, "wake_ack", v, e) = IF e = MAIN THEN Begin(f) ELSE "sleep"
  BY DEF After, Straight
<1>5. /\ After(f, c, "lock_lr", v, e) = IF v = 0 THEN "lock_sc" ELSE "lock_lr"
      /\ After(f, c, "lock_sc", v, e) = IF v = 0 THEN "print" ELSE "lock_lr"
      /\ After(f, c, "lock_swap", v, e) = IF v = 0 THEN "print" ELSE "lock_swap"
  BY DEF After, Straight
<1>6. /\ After(f, c, "print", v, e) = IF f = "lrsc" THEN "unlock_lr" ELSE "unlock_swap"
      /\ After(f, c, "unlock_sc", v, e) = IF v = 0 THEN Unlocked(f, c) ELSE "unlock_lr"
      /\ After(f, c, "unlock_swap", v, e) = Unlocked(f, c)
      /\ After(f, c, "check", v, e) = IF v = 0 THEN "done" ELSE "check"
  BY DEF After, Straight
<1> QED BY <1>1, <1>3, <1>4, <1>5, <1>6

\* Which places ask for which kind of access.
Coded == Loads \cup Writes \cup LRs \cup SCs \cup Swaps \cup Counts

LEMMA InstrClasses ==
  ASSUME NEW pc
  PROVE  /\ Instr(pc).op = "none" /\ Instr(pc).rw = 0 => pc \in Loads \/ pc \notin Coded
         /\ Instr(pc).op = "none" /\ Instr(pc).rw = 1 => pc \in Writes
         /\ Instr(pc).op = "LR" => pc \in LRs
         /\ Instr(pc).op = "SC" => pc \in SCs
         /\ Instr(pc).op \in Rmws => pc \in Swaps \cup Counts
<1>1. CASE pc \notin Coded
  <2>1. Instr(pc) = Load("uart")
    BY <1>1, InstrTable DEF Coded
  <2> QED BY <1>1, <2>1 DEF Load, Rmws
<1>2. CASE pc \in Loads
  <2>1. Instr(pc).op = "none" /\ Instr(pc).rw = 0
    BY <1>2, InstrTable DEF Loads, Load
  <2> QED BY <1>2, <2>1 DEF Rmws
<1>3. CASE pc \in Writes
  <2>1. Instr(pc).op = "none" /\ Instr(pc).rw = 1
    BY <1>3, InstrTable DEF Writes, Store
  <2> QED BY <1>3, <2>1 DEF Rmws
<1>4. CASE pc \in LRs
  <2>1. Instr(pc).op = "LR"
    BY <1>4, InstrTable DEF LRs, LR
  <2> QED BY <1>4, <2>1 DEF Rmws
<1>5. CASE pc \in SCs
  <2>1. Instr(pc).op = "SC"
    BY <1>5, InstrTable DEF SCs, SC
  <2> QED BY <1>5, <2>1 DEF Rmws
<1>6. CASE pc \in Swaps \cup Counts
  <2>1. Instr(pc).op \in Rmws
    BY <1>6, InstrTable DEF Swaps, Counts, Amo, Rmws
  <2> QED BY <1>6, <2>1 DEF Rmws
<1> QED BY <1>1, <1>2, <1>3, <1>4, <1>5, <1>6 DEF Coded

-----------------------------------------------------------------------------
(* The programs implement the spin lock.                                     *)

LockAt(place) ==
  CASE place = "lock_sc"                                 -> "try"
    [] place \in {"print", "unlock_lr", "unlock_swap"}   -> "cs"
    [] place = "unlock_sc"                               -> "free"
    [] OTHER                                             -> "out"

LEMMA LockPlaces == \A c : LockPlace(c) = LockAt(Place(c)) /\ LockPlace(c)' = LockAt(Place(c)')
  BY DEF LockPlace, LockAt

LEMMA LockAtTable ==
  /\ LockAt("lock_sc") = "try" /\ LockAt("unlock_sc") = "free"
  /\ LockAt("print") = "cs" /\ LockAt("unlock_lr") = "cs" /\ LockAt("unlock_swap") = "cs"
  /\ \A pc : pc \notin {"lock_sc", "unlock_sc", "print", "unlock_lr", "unlock_swap"} =>
       LockAt(pc) = "out"
  BY DEF LockAt

LEMMA OthersStay ==
  ASSUME NEW d, Onward(d)
  PROVE  LockPlace(d)' = LockPlace(d)
  BY LockPlaces, LockAtTable DEF Onward

LEMMA LockMoves ==
  ASSUME NEW c \in Core, NEW place, LockPlace(c)' = place,
         \A d \in Core \ {c} : LockPlace(d)' = LockPlace(d)
  PROVE  Lock!Move(c, place)
  BY DEF Lock!Move

LEMMA LockStands ==
  ASSUME \A d \in Core : LockPlace(d)' = LockPlace(d)
  PROVE  [c \in Core |-> LockPlace(c)]' = [c \in Core |-> LockPlace(c)]
  OBVIOUS

\* Writes beside the lock word disturb reservations at most.
LEMMA Beside ==
  ASSUME \A d \in Core : LockPlace(d)' = LockPlace(d), mem'["lock"] = mem["lock"],
         NEW a, watch' = WatchAfter(a)
  PROVE  Lock!Disturb \/ UNCHANGED Lock!vars
  BY LockStands DEF Lock!Disturb, Lock!Nobody, Lock!vars, WatchAfter

\* Where an access that is not one of the lock's leads.
LEMMA ElsewhereStays ==
  ASSUME NEW c, NEW v, Arrives(c, v),
         core[c].pc \in Loads \cup (Writes \ {"print"}) \cup Counts \/ core[c].pc \notin Coded
  PROVE  LockPlace(c)' = LockPlace(c)
<1> DEFINE pc == core[c].pc
           next == After(flavour, c, pc, v, boot.entry)
<1>1. LockAt(Begin(flavour)) = "out"
  BY LockAtTable DEF Begin
<1>2. CASE pc \notin Coded
  <2>1. next = pc
    BY <1>2, AfterTable DEF Coded
  <2> QED BY <2>1, LockPlaces DEF Arrives
<1>3. CASE pc \in Loads
  <2>1. next \in {"sp2", "poll1", "poll2", "wake_entry", "wake_ack"} \/ next = Begin(flavour)
    BY <1>3, AfterTable DEF Loads
  <2>2. LockAt(next) = "out" /\ LockAt(pc) = "out"
    BY <1>1, <1>3, <2>1, LockAtTable DEF Loads
  <2> QED BY <2>2, LockPlaces DEF Arrives
<1>4. CASE pc \in Writes \ {"print"}
  <2>1. next \in {"entry1", "entry2", "msi1", "msi2", "poll1", "poll2", "sleep"} \/ next = Begin(flavour)
    BY <1>4, AfterTable DEF Writes
  <2>2. LockAt(next) = "out" /\ LockAt(pc) = "out"
    BY <1>1, <1>4, <2>1, LockAtTable DEF Writes
  <2> QED BY <2>2, LockPlaces DEF Arrives
<1>5. CASE pc \in Counts
  <2>1. next \in {"count2", "done"}
    BY <1>5, AfterTable DEF Counts
  <2>2. LockAt(next) = "out" /\ LockAt(pc) = "out"
    BY <1>5, <2>1, LockAtTable DEF Counts
  <2> QED BY <2>2, LockPlaces DEF Arrives
<1> QED BY <1>2, <1>3, <1>4, <1>5

\* The access of core c is a step of the lock.
LEMMA CoreLocks ==
  ASSUME ReservationInv, NEW c \in Core, CoreEffect(c)
  PROVE  Lock!Next \/ UNCHANGED Lock!vars
<1> DEFINE i  == Instr(core[c].pc)
           pc == core[c].pc
<1>1. \A d \in Core \ {c} : LockPlace(d)' = LockPlace(d)
  BY OthersStay DEF CoreEffect
<1>2. DOMAIN mem = Addr /\ "lock" \in Addr /\ DOMAIN watch = Core
  BY DualCoreAssumption DEF ReservationInv, FlightInv, Fields, CodeAddr
<1>3. Reads(c, i) \/ Stores(c, i) \/ Reserves(c, i) \/ Wins(c, i) \/ Fails(c, i) \/ Modifies(c, i)
  BY DEF CoreEffect
<1>4. CASE Reads(c, i)
  <2>1. pc \in Loads \/ pc \notin Coded
    BY <1>4, InstrClasses DEF Reads
  <2>2. LockPlace(c)' = LockPlace(c)
    BY <1>4, <2>1, ElsewhereStays DEF Reads
  <2> QED BY <1>1, <1>4, <2>2, LockStands DEF Reads, Lock!vars
<1>5. CASE Stores(c, i)
  <2>1. pc \in Writes
    BY <1>5, InstrClasses DEF Stores
  <2>2. i.addr # "lock"
    BY <2>1, InstrTable DEF Writes, Store
  <2>3. mem'["lock"] = mem["lock"]
    BY <1>2, <1>5, <2>2 DEF Stores
  <2>4. PICK v : Arrives(c, v)
    BY <1>5 DEF Stores
  <2>5. LockPlace(c)' = LockPlace(c)
    <3>1. CASE pc = "print"
      <4>1. After(flavour, c, pc, v, boot.entry) \in {"unlock_lr", "unlock_swap"}
        BY <3>1, AfterTable
      <4>2. LockAt(After(flavour, c, pc, v, boot.entry)) = "cs" /\ LockAt(pc) = "cs"
        BY <3>1, <4>1, LockAtTable
      <4> QED BY <2>4, <4>2, LockPlaces DEF Arrives
    <3>2. CASE pc # "print"
      BY <2>1, <2>4, <3>2, ElsewhereStays
    <3> QED BY <3>1, <3>2
  <2>6. \A d \in Core : LockPlace(d)' = LockPlace(d)
    BY <1>1, <2>5
  <2> QED BY <1>5, <2>3, <2>6, Beside DEF Stores, Lock!Next
<1>6. CASE Reserves(c, i)
  <2>1. pc \in LRs
    BY <1>6, InstrClasses DEF Reserves
  <2>2. Lock!Reserve(c) /\ mem' = mem
    BY <1>6 DEF Reserves, Lock!Reserve
  <2>3. /\ LockPlace(c) = LockAt(pc)
        /\ LockPlace(c)' = LockAt(After(flavour, c, pc, mem["lock"], boot.entry))
    BY <1>6, LockPlaces DEF Reserves, Arrives
  <2>4. CASE pc = "lock_lr" /\ mem["lock"] = 0
    <3>1. LockPlace(c) = "out" /\ LockPlace(c)' = "try"
      BY <2>3, <2>4, AfterTable, LockAtTable
    <3>2. Lock!See(c)
      BY <1>1, <2>2, <2>4, <3>1, LockMoves DEF Lock!See
    <3> QED BY <3>2 DEF Lock!Next
  <2>5. CASE pc = "check" \/ (pc = "lock_lr" /\ mem["lock"] # 0)
    <3>1. LockPlace(c) = "out" /\ LockPlace(c)' = "out"
      BY <2>3, <2>5, AfterTable, LockAtTable
    <3>2. Lock!Look(c)
      BY <1>1, <2>2, <3>1, LockStands DEF Lock!Look
    <3> QED BY <3>2 DEF Lock!Next
  <2>6. CASE pc = "unlock_lr"
    <3>1. LockPlace(c) = "cs" /\ LockPlace(c)' = "free"
      BY <2>3, <2>6, AfterTable, LockAtTable
    <3>2. Lock!Begin(c)
      BY <1>1, <2>2, <3>1, LockMoves DEF Lock!Begin
    <3> QED BY <3>2 DEF Lock!Next
  <2> QED BY <2>1, <2>4, <2>5, <2>6 DEF LRs
<1>7. CASE Wins(c, i)
  <2>1. pc \in SCs
    BY <1>7, InstrClasses DEF Wins
  <2>2. watch[c]
    BY <1>7 DEF Wins, ReservationInv, ReservationSide, Lost
  <2>3. watch' = Lock!Nobody /\ mem'["lock"] = i.data
    BY <1>2, <1>7 DEF Wins, Lock!Nobody
  <2>4. /\ LockPlace(c) = LockAt(pc)
        /\ LockPlace(c)' = LockAt(After(flavour, c, pc, 0, boot.entry))
    BY <1>7, LockPlaces DEF Wins, Arrives
  <2>5. CASE pc = "lock_sc"
    <3>1. LockPlace(c) = "try" /\ LockPlace(c)' = "cs"
      BY <2>4, <2>5, AfterTable, LockAtTable
    <3>2. Lock!Write(1)
      BY <2>3, <2>5, InstrTable DEF Lock!Write, SC, LOCKED
    <3>3. Lock!Win(c)
      BY <1>1, <2>2, <3>1, <3>2, LockMoves DEF Lock!Win
    <3> QED BY <3>3 DEF Lock!Next
  <2>6. CASE pc = "unlock_sc"
    <3>1. LockPlace(c) = "free" /\ LockPlace(c)' = "out"
      BY <2>4, <2>6, AfterTable, LockAtTable DEF Unlocked
    <3>2. Lock!Write(0)
      BY <2>3, <2>6, InstrTable DEF Lock!Write, SC
    <3>3. Lock!Leave(c)
      BY <1>1, <2>2, <3>1, <3>2, LockMoves DEF Lock!Leave
    <3> QED BY <3>3 DEF Lock!Next
  <2> QED BY <2>1, <2>5, <2>6 DEF SCs
<1>8. CASE Fails(c, i)
  <2>1. pc \in SCs
    BY <1>8, InstrClasses DEF Fails
  <2>2. Lock!Drop(c) /\ mem' = mem
    BY <1>8 DEF Fails, Lock!Drop
  <2>3. /\ LockPlace(c) = LockAt(pc)
        /\ LockPlace(c)' = LockAt(After(flavour, c, pc, 1, boot.entry))
    BY <1>8, LockPlaces DEF Fails, Arrives
  <2>4. CASE pc = "lock_sc"
    <3>1. LockPlace(c) = "try" /\ LockPlace(c)' = "out"
      BY <2>3, <2>4, AfterTable, LockAtTable
    <3>2. Lock!Lose(c)
      BY <1>1, <2>2, <3>1, LockMoves DEF Lock!Lose
    <3> QED BY <3>2 DEF Lock!Next
  <2>5. CASE pc = "unlock_sc"
    <3>1. LockPlace(c) = "free" /\ LockPlace(c)' = "cs"
      BY <2>3, <2>5, AfterTable, LockAtTable
    <3>2. Lock!Retry(c)
      BY <1>1, <2>2, <3>1, LockMoves DEF Lock!Retry
    <3> QED BY <3>2 DEF Lock!Next
  <2> QED BY <2>1, <2>4, <2>5 DEF SCs
<1>9. CASE Modifies(c, i)
  <2>1. pc \in Swaps \cup Counts
    BY <1>9, InstrClasses DEF Modifies
  <2>2. CASE pc \in Counts
    <3>1. i.addr = "count"
      BY <2>2, InstrTable DEF Counts, Amo
    <3>2. mem'["lock"] = mem["lock"]
      BY <1>2, <1>9, <3>1 DEF Modifies
    <3>3. LockPlace(c)' = LockPlace(c)
      BY <1>9, <2>2, ElsewhereStays DEF Modifies
    <3>4. \A d \in Core : LockPlace(d)' = LockPlace(d)
      BY <1>1, <3>3
    <3> QED BY <1>9, <3>2, <3>4, Beside DEF Modifies, Lock!Next
  <2>3. CASE pc \in Swaps
    <3>1. i.addr = "lock" /\ NewValue(i, mem[i.addr]) = i.data
      BY <2>3, InstrTable DEF Swaps, Amo, NewValue
    <3>2. mem'["lock"] = i.data /\ watch' = Lock!Nobody
      BY <1>2, <1>9, <3>1 DEF Modifies, WatchAfter, SameGranule, Lock!Nobody
    <3>3. /\ LockPlace(c) = LockAt(pc)
          /\ LockPlace(c)' = LockAt(After(flavour, c, pc, mem["lock"], boot.entry))
      BY <1>9, <3>1, LockPlaces DEF Modifies, Arrives
    <3>4. CASE pc = "lock_swap"
      <4>1. LockPlace(c) = "out" /\ LockPlace(c)' = IF mem["lock"] = 0 THEN "cs" ELSE "out"
        BY <3>3, <3>4, AfterTable, LockAtTable
      <4>2. Lock!Write(1)
        BY <3>2, <3>4, InstrTable DEF Lock!Write, Amo, LOCKED
      <4>3. Lock!Take(c)
        BY <1>1, <4>1, <4>2, LockMoves DEF Lock!Take
      <4> QED BY <4>3 DEF Lock!Next
    <3>5. CASE pc = "unlock_swap"
      <4>1. LockPlace(c) = "cs" /\ LockPlace(c)' = "out"
        BY <3>3, <3>5, AfterTable, LockAtTable DEF Unlocked
      <4>2. Lock!Write(0)
        BY <3>2, <3>5, InstrTable DEF Lock!Write, Amo
      <4>3. Lock!Give(c)
        BY <1>1, <4>1, <4>2, LockMoves DEF Lock!Give
      <4> QED BY <4>3 DEF Lock!Next
    <3> QED BY <2>3, <3>4, <3>5 DEF Swaps
  <2> QED BY <2>1, <2>2, <2>3
<1> QED BY <1>3, <1>4, <1>5, <1>6, <1>7, <1>8, <1>9

LEMMA StepLocks ==
  ASSUME ReservationInv, Effect \/ GivesUp
  PROVE  Lock!Next \/ UNCHANGED Lock!vars
<1>1. CASE Quiet
  <2>1. \A d \in Core : LockPlace(d)' = LockPlace(d)
    BY <1>1, OthersStay DEF Quiet
  <2> QED BY <1>1, <2>1, LockStands DEF Quiet, Lock!vars
<1>2. CASE \E c \in Core : CoreEffect(c)
  BY <1>2, CoreLocks
<1>3. ASSUME NEW r \in DmaReqs[flavour], DmaWrites(r)
      PROVE  Lock!Next \/ UNCHANGED Lock!vars
  <2>1. \A d \in Core : LockPlace(d)' = LockPlace(d)
    BY <1>3, OthersStay DEF DmaWrites
  <2>2. DOMAIN mem = Addr /\ "lock" \in Addr /\ flavour \in Flavours
    BY DualCoreAssumption DEF ReservationInv, FlightInv, Fields, CodeAddr
  <2>3. mem'["lock"] = mem["lock"]
    BY <1>3, <2>2, SharedAssumption DEF DmaWrites
  <2> QED BY <1>3, <2>1, <2>3, Beside DEF DmaWrites, Lock!Next
<1>4. CASE GivesUp
  <2>1. LockPlace(0)' = LockPlace(0) /\ LockPlace(1)' = LockPlace(1)
    BY <1>4, LockPlaces, LockAtTable DEF GivesUp
  <2> QED BY <1>4, <2>1, LockStands DEF GivesUp, Core, Lock!vars
<1> QED BY <1>1, <1>2, <1>3, <1>4 DEF Effect

LEMMA InitLocks == Init => Lock!Init
<1> SUFFICES ASSUME Init PROVE Lock!Init
  OBVIOUS
<1>1. mem["lock"] = 0 /\ watch = Lock!Nobody
  BY DualCoreAssumption DEF Init, CodeAddr, Lock!Nobody
<1>2. \A c \in Core : LockPlace(c) = "out"
  <2> TAKE c \in Core
  <2>1. AccessInv /\ ~Flight(c) /\ core[c].pc \in {"sp1", "sleep"}
    BY InitAccess DEF Init, SwitchInit, Flight
  <2>2. Place(c) = core[c].pc
    BY <2>1, PlaceIs DEF AccessInv, Places, Taken
  <2> QED BY <2>1, <2>2, LockPlaces, LockAtTable
<1> QED BY <1>1, <1>2 DEF Lock!Init

\* The cores' programs, on the switches, the read-modify-write controller and
\* the reservation station, implement the spin lock: every step of the buses is
\* a step of the lock or none (neorv32_bus.vhd:935-1035,
\* demo_dual_core/spinlock.c:18-52, demo_dual_core_rte/spinlock.c:18-31).
THEOREM LocksImplemented == Spec => ImplementsSpinLock
<1>1. ReservationInv /\ [Next]_vars => ReservationInv' /\ [Lock!Next]_Lock!vars
  <2>1. ASSUME ReservationInv, [Next]_vars
        PROVE  Lock!Next \/ UNCHANGED Lock!vars
    BY <2>1, StepEffect, StepLocks DEF ReservationInv
  <2> QED BY <2>1, ReservationKeeps
<1> QED BY <1>1, InitReservation, InitLocks, PTL DEF Spec, ImplementsSpinLock, Lock!Spec

-----------------------------------------------------------------------------
(* Mutual exclusion, by what the cores' program counters say.                *)

\* The two instances of the lock are one.
LEMMA SameLock ==
  /\ Lock!Init = Locks!Init /\ Lock!vars = Locks!vars /\ Lock!Next = Locks!Next
  /\ Lock!LockInv = Locks!LockInv
  BY DEF Lock!Init, Locks!Init, Lock!vars, Locks!vars, Lock!Next, Locks!Next, Lock!Look, Locks!Look,
         Lock!See, Locks!See, Lock!Win, Locks!Win, Lock!Lose, Locks!Lose, Lock!Begin, Locks!Begin,
         Lock!Leave, Locks!Leave, Lock!Retry, Locks!Retry, Lock!Take, Locks!Take, Lock!Give,
         Locks!Give, Lock!Disturb, Locks!Disturb, Lock!Move, Locks!Move, Lock!Reserve, Locks!Reserve,
         Lock!Drop, Locks!Drop, Lock!Write, Locks!Write, Lock!Nobody, Locks!Nobody,
         Lock!LockInv, Locks!LockInv, Lock!TypeOK, Locks!TypeOK, Lock!Place, Locks!Place,
         Lock!LockTells, Locks!LockTells, Lock!WatchedFree, Locks!WatchedFree,
         Lock!MutualExclusion, Locks!MutualExclusion, Lock!Inside, Locks!Inside

LEMMA SameInvariant == Lock!LockInv <=> Locks!LockInv
  BY SameLock

LEMMA LockInvariant == Spec => []Lock!LockInv
<1>1. Lock!LockInv /\ [Lock!Next]_Lock!vars => Lock!LockInv'
  <2>1. Locks!LockInv /\ (Locks!Next \/ UNCHANGED Locks!vars) => Locks!LockInv'
    BY Locks!NextLockInv
  <2>2. Lock!LockInv' <=> Locks!LockInv'
    BY SameInvariant, PTL
  <2> QED BY <2>1, <2>2, SameLock DEF Lock!vars, Locks!vars
<1>2. Lock!Init => Lock!LockInv
  BY SameLock, Locks!InitLockInv
<1> QED BY <1>1, <1>2, LocksImplemented, PTL DEF ImplementsSpinLock, Lock!Spec

\* A core whose last store has set the lock free, and not been answered yet,
\* is still in spin_unlock.
Unlocking == {"unlock_lr", "unlock_sc", "unlock_swap"}
SetFree == \A c \in Core : core[c].pc \in Unlocking /\ LockPlace(c) = "out" => mem["lock"] = 0

LEMMA InFlightOnly ==
  ASSUME Shape, MemSide, NEW c \in Core, core[c].pc \in Unlocking \cup {"print"}, ~Flight(c)
  PROVE  LockPlace(c) \in {"cs", "free"}
<1>1. Place(c) = core[c].pc
  BY PlaceIs DEF Places, Taken
<1> QED BY <1>1, LockPlaces, LockAtTable DEF Unlocking

\* Between spin_lock and spin_unlock a core is inside, unless its last store is
\* performed.
LEMMA InsideOrOut ==
  ASSUME Shape, MemSide, NEW c \in Core, core[c].pc \in Unlocking \cup {"print"}
  PROVE  \/ LockPlace(c) \in {"cs", "free"}
         \/ core[c].pc \in Unlocking /\ LockPlace(c) = "out"
<1>1. CASE Place(c) = core[c].pc
  BY <1>1, LockPlaces, LockAtTable DEF Unlocking
<1>2. CASE Place(c) # core[c].pc
  <2>1. PICK v : Place(c) = After(flavour, c, core[c].pc, v, boot.entry)
    BY <1>2, PlaceIs DEF Places
  <2>2. CASE core[c].pc = "print"
    <3>1. Place(c) \in {"unlock_lr", "unlock_swap"}
      BY <2>1, <2>2, AfterTable
    <3> QED BY <3>1, LockPlaces, LockAtTable
  <2>3. CASE core[c].pc \in Unlocking
    <3>1. Place(c) \in {"unlock_sc", "unlock_lr", "check", "done"}
      BY <2>1, <2>3, AfterTable DEF Unlocking, Unlocked
    <3> QED BY <2>3, <3>1, LockPlaces, LockAtTable
  <2> QED BY <2>2, <2>3
<1> QED BY <1>1, <1>2

\* What happens while core c's access is on its way is its own doing.
LEMMA OwnEffect ==
  ASSUME EdgeFacts, NEW err, Edge(err), NEW c \in Core, Flight(c)'
  PROVE  (Quiet \/ CoreEffect(c)) /\ core'[c].pc = core[c].pc
<1>1. EdgeBegins(c) \/ EdgeOn(c)
  BY EdgeKinds DEF EdgeOther, EdgeBegins, EdgeOn
<1>2. CASE EdgeBegins(c)
  BY <1>2, BeginsEffect DEF EdgeBegins
<1>3. CASE EdgeOn(c)
  <2>1. Quiet \/ CoreEffect(c)
    BY <1>3, OnEffect
  <2>2. Flight(c) /\ sys2_rsp.ack # 1
    BY <1>3 DEF EdgeOn
  <2>3. PICK goes \in BOOLEAN : core'[c] = CoreNext(c, goes)
    BY DEF Edge
  <2>4. core'[c].pc = core[c].pc
    BY <2>2, <2>3, PcMoves DEF EdgeFacts, FlightInv, AccessInv
  <2> QED BY <2>1, <2>4
<1> QED BY <1>1, <1>2, <1>3

LEMMA StepSetFree ==
  ASSUME FlightInv, SetFree, [Next]_vars
  PROVE  SetFree'
<1>1. CASE Tick
  <2> SUFFICES ASSUME NEW c \in Core, core'[c].pc \in Unlocking, LockPlace(c)' = "out"
               PROVE  mem'["lock"] = 0
    BY DEF SetFree
  <2>1. PICK err : EdgeFacts /\ Edge(err)
    BY <1>1, TickEdge
  <2>2. Flight(c)'
    <3>1. (Shape /\ MemSide)'
      BY <2>1 DEF EdgeFacts, AccessInv
    <3>2. ~Flight(c)' => Place(c)' = core'[c].pc
      BY <3>1, PlaceNext DEF Places, Taken
    <3> QED BY <3>2, LockPlaces, LockAtTable DEF Unlocking
  <2>3. (Quiet \/ CoreEffect(c)) /\ core'[c].pc = core[c].pc
    BY <2>1, <2>2, OwnEffect
  <2>4. CASE Quiet
    BY <2>3, <2>4, OthersStay DEF Quiet, SetFree
  <2>5. CASE CoreEffect(c)
    <3> DEFINE i == Instr(core[c].pc)
    <3>1. \/ core[c].pc = "unlock_lr" /\ i = LR("lock")
          \/ core[c].pc = "unlock_sc" /\ i = SC("lock", 0)
          \/ core[c].pc = "unlock_swap" /\ i = Amo("SWAP", "lock", 0)
      BY <2>3, InstrTable DEF Unlocking
    <3>2. DOMAIN mem = Addr /\ "lock" \in Addr
      BY DualCoreAssumption DEF FlightInv, Fields, CodeAddr
    <3>3. Reads(c, i) \/ Stores(c, i) \/ Reserves(c, i) \/ Wins(c, i) \/ Fails(c, i) \/ Modifies(c, i)
      BY <2>5 DEF CoreEffect
    <3> HIDE DEF i
    <3>4. CASE core[c].pc = "unlock_lr"
      <4>1. Reserves(c, i)
        BY <3>1, <3>3, <3>4 DEF LR, Reads, Stores, Wins, Fails, Modifies, Rmws
      <4>2. Place(c)' = "unlock_sc"
        BY <3>4, <4>1, AfterTable DEF Reserves, Arrives
      <4> QED BY <4>2, LockPlaces, LockAtTable
    <3>5. CASE core[c].pc = "unlock_sc"
      <4>1. Wins(c, i) \/ Fails(c, i)
        BY <3>1, <3>3, <3>5 DEF SC, Reads, Stores, Reserves, Modifies, Rmws
      <4>2. Fails(c, i) => Place(c)' = "unlock_lr"
        BY <3>5, AfterTable DEF Fails, Arrives
      <4>3. Wins(c, i)
        BY <4>1, <4>2, LockPlaces, LockAtTable
      <4> QED BY <3>1, <3>2, <3>5, <4>3 DEF Wins, SC
    <3>6. CASE core[c].pc = "unlock_swap"
      <4>1. Modifies(c, i)
        BY <3>1, <3>3, <3>6 DEF Amo, Reads, Stores, Reserves, Wins, Fails
      <4> QED BY <3>1, <3>2, <3>6, <4>1 DEF Modifies, NewValue, Amo
    <3> QED BY <3>1, <3>4, <3>5, <3>6
  <2> QED BY <2>3, <2>4, <2>5
<1>2. CASE LaunchTimeout
  <2>1. GivesUp
    BY <1>2, TimeoutEffect
  <2>2. LockPlace(1)' = LockPlace(1)
    BY <2>1, LockPlaces DEF GivesUp
  <2> QED BY <2>1, <2>2 DEF GivesUp, SetFree, Unlocking, Core
<1>3. CASE UNCHANGED vars
  <2>1. Quiet /\ core' = core
    BY <1>3, StutterEffect DEF vars, progVars
  <2> QED BY <2>1, OthersStay DEF Quiet, SetFree
<1> QED BY <1>1, <1>2, <1>3 DEF Next

LEMMA SetFreeKept == Spec => []SetFree
<1>1. Init => SetFree
  BY DEF Init, SetFree, Unlocking
<1>2. FlightInv /\ SetFree /\ [Next]_vars => SetFree'
  BY StepSetFree
<1> QED BY <1>1, <1>2, FlightKept, PTL DEF Spec

\* Only one core at a time is between spin_lock and spin_unlock, as its program
\* counter says: a core that is answered late, after its last store has freed
\* the lock, is gone before the other one has taken it.
THEOREM OnlyOnePrints == Spec => []MutualExclusion
<1>1. FlightInv /\ SetFree /\ Lock!LockInv => MutualExclusion
  <2> SUFFICES ASSUME FlightInv, SetFree, Lock!LockInv, Printing(0), Printing(1)
               PROVE  FALSE
    BY DEF MutualExclusion
  <2>1. \A c \in Core : core[c].pc \in Unlocking \cup {"print"}
    BY DEF Printing, Core, printing, spin_unlock, Unlocking
  <2>2. \A c \in Core : Lock!Inside(c) <=> LockPlace(c) \in {"cs", "free"}
    BY DEF Lock!Inside
  <2>3. \A c \in Core : ~Flight(c) => Lock!Inside(c)
    BY <2>1, <2>2, InFlightOnly DEF FlightInv, AccessInv
  <2>4. PICK c \in Core : ~Flight(c)
    <3>1. Flight(0) /\ Flight(1) => 0 = 1
      BY OneConnected DEF Flight, Serving, Core
    <3> QED BY <3>1 DEF Core
  <2>5. PICK d \in Core : d # c
    BY DEF Core
  <2>6. ~Lock!Inside(d)
    BY <2>3, <2>4, <2>5 DEF Lock!LockInv, Lock!MutualExclusion
  <2>7. mem["lock"] # 0
    BY <2>3, <2>4 DEF Lock!LockInv, Lock!LockTells
  <2>8. LockPlace(d) \in {"cs", "free"}
    BY <2>1, <2>7, InsideOrOut DEF SetFree, FlightInv, AccessInv
  <2> QED BY <2>2, <2>6, <2>8
<1> QED BY <1>1, FlightKept, SetFreeKept, LockInvariant, PTL

-----------------------------------------------------------------------------
(* The words the cores share beside the lock.                                *)

\* What core c's access leaves in the shared words.
LEMMA SharedWrites ==
  ASSUME FlightInv, NEW c \in Core, CoreEffect(c)
  PROVE  /\ \A a \in {"sp", "entry", "mswi"} :
              mem'[a] = IF core[c].pc \in Writes /\ Instr(core[c].pc).addr = a
                        THEN Instr(core[c].pc).data ELSE mem[a]
         /\ mem'["count"] = IF core[c].pc \in Counts THEN (mem["count"] + 1) % WORD_MOD
                            ELSE mem["count"]
         /\ core[c].pc \in Loads => Arrives(c, mem[Instr(core[c].pc).addr])
         /\ \E v : Arrives(c, v)
<1> DEFINE i  == Instr(core[c].pc)
           pc == core[c].pc
<1>1. DOMAIN mem = Addr /\ {"lock", "sp", "entry", "mswi", "count"} \subseteq Addr
  BY DualCoreAssumption DEF FlightInv, Fields, CodeAddr
<1>2. Reads(c, i) \/ Stores(c, i) \/ Reserves(c, i) \/ Wins(c, i) \/ Fails(c, i) \/ Modifies(c, i)
  BY DEF CoreEffect
<1>3. Loads \cap Writes = {} /\ Counts \cap Writes = {} /\ LRs \cap Writes = {} /\ SCs \cap Writes = {}
      /\ Counts \cap Loads = {} /\ Counts \cap LRs = {} /\ Counts \cap SCs = {}
      /\ Swaps \cap (Loads \cup Writes \cup Counts) = {}
      /\ Loads \cap LRs = {} /\ Loads \cap SCs = {}
  BY DEF Loads, Writes, Counts, LRs, SCs, Swaps
<1>4. CASE Reads(c, i)
  <2>1. pc \notin Writes \cup Counts
    BY <1>3, <1>4, InstrClasses DEF Reads, Coded
  <2> QED BY <1>4, <2>1 DEF Reads
<1>5. CASE Stores(c, i)
  <2>1. pc \in Writes /\ pc \notin Counts /\ pc \notin Loads
    BY <1>3, <1>5, InstrClasses DEF Stores
  <2>2. i.addr # "count"
    BY <2>1, InstrTable DEF Writes, Store
  <2> QED BY <1>1, <1>5, <2>1, <2>2 DEF Stores
<1>6. CASE Reserves(c, i)
  <2>1. pc \notin Writes \cup Counts \cup Loads
    BY <1>3, <1>6, InstrClasses DEF Reserves
  <2> QED BY <1>6, <2>1 DEF Reserves
<1>7. CASE Wins(c, i)
  <2>1. pc \notin Writes \cup Counts \cup Loads
    BY <1>3, <1>7, InstrClasses DEF Wins
  <2> QED BY <1>1, <1>7, <2>1 DEF Wins
<1>8. CASE Fails(c, i)
  <2>1. pc \notin Writes \cup Counts \cup Loads
    BY <1>3, <1>8, InstrClasses DEF Fails
  <2> QED BY <1>8, <2>1 DEF Fails
<1>9. CASE Modifies(c, i)
  <2>1. pc \in Swaps \cup Counts
    BY <1>9, InstrClasses DEF Modifies
  <2>2. CASE pc \in Counts
    <3>1. i.addr = "count" /\ NewValue(i, mem[i.addr]) = (mem["count"] + 1) % WORD_MOD
      BY <2>2, InstrTable DEF Counts, Amo, NewValue
    <3> QED BY <1>1, <1>3, <1>9, <2>2, <3>1 DEF Modifies
  <2>3. CASE pc \in Swaps
    <3>1. i.addr = "lock"
      BY <2>3, InstrTable DEF Swaps, Amo
    <3> QED BY <1>1, <1>3, <1>9, <2>3, <3>1 DEF Modifies
  <2> QED BY <2>1, <2>2, <2>3
<1> QED BY <1>2, <1>4, <1>5, <1>6, <1>7, <1>8, <1>9

\* The DMA leaves them alone.
LEMMA DmaLeaves ==
  ASSUME FlightInv, NEW r \in DmaReqs[flavour], DmaWrites(r)
  PROVE  \A a \in {"sp", "entry", "mswi", "count"} : mem'[a] = mem[a]
<1>1. DOMAIN mem = Addr /\ {"sp", "entry", "mswi", "count"} \subseteq Addr /\ flavour \in Flavours
  BY DualCoreAssumption DEF FlightInv, Fields, CodeAddr
<1> QED BY <1>1, SharedAssumption DEF DmaWrites

-----------------------------------------------------------------------------
(* The counter.                                                              *)

Starting == DOMAIN smp_boot \cup DOMAIN smp_wakeup \cup {"sleep", "failed"}
CountSide ==
  flavour = "add" =>
    /\ \A c \in Core : Place(c) \in Starting \cup {"count1", "count2", "done"}
    /\ mem["count"] = Counted(0) + Counted(1)

CountedAt(place) == CASE place = "count2" -> 1 [] place = "done" -> 2 [] OTHER -> 0

LEMMA CountedPlaces ==
  /\ \A c : Counted(c) = CountedAt(Place(c)) /\ Counted(c)' = CountedAt(Place(c)')
  /\ CountedAt("count1") = 0 /\ CountedAt("count2") = 1 /\ CountedAt("done") = 2
  /\ \A place \in Starting : CountedAt(place) = 0
  /\ \A place : CountedAt(place) \in 0..2
  BY DEF Counted, CountedAt, Starting, smp_boot, smp_wakeup

LEMMA StartingSet ==
  Starting = {"sp1", "entry1", "msi1", "poll1", "sp2", "entry2", "msi2", "poll2",
              "wake_sp", "wake_entry", "wake_ack", "sleep", "failed"}
  BY DEF Starting, smp_boot, smp_wakeup

\* Only an access to the counter moves a core on to where it has counted.
LEMMA CountPath ==
  ASSUME flavour = "add", NEW c, NEW v, NEW pc
  PROVE  /\ pc \in Starting => After(flavour, c, pc, v, boot.entry) \in Starting \cup {"count1"}
         /\ After(flavour, c, "count1", v, boot.entry) = "count2"
         /\ After(flavour, c, "count2", v, boot.entry) = "done"
         /\ After(flavour, c, "done", v, boot.entry) = "done"
<1>1. Begin(flavour) = "count1"
  BY DEF Begin
<1>2. CASE pc \in {"sleep", "failed"}
  <2>1. pc \notin Coded
    BY <1>2 DEF Coded, Loads, Writes, LRs, SCs, Swaps, Counts
  <2> QED BY <1>2, <2>1, AfterTable, StartingSet DEF Coded, Loads, Writes, LRs, SCs, Swaps, Counts
<1>3. CASE pc \in Starting \ {"sleep", "failed"}
  BY <1>1, <1>3, AfterTable, StartingSet DEF Loads, Writes, LRs, SCs, Swaps, Counts
<1>4. "done" \notin Coded
  BY DEF Coded, Loads, Writes, LRs, SCs, Swaps, Counts
<1> QED BY <1>2, <1>3, <1>4, AfterTable DEF Coded

LEMMA OnwardCounts ==
  ASSUME flavour = "add", NEW d, Onward(d), Place(d) \in Starting \cup {"count1", "count2", "done"}
  PROVE  /\ Place(d)' \in Starting \cup {"count1", "count2", "done"}
         /\ Counted(d)' = Counted(d)
  BY CountedPlaces, StartingSet DEF Onward

LEMMA StepCount ==
  ASSUME FlightInv, CountSide, [Next]_vars
  PROVE  CountSide'
<1> SUFFICES ASSUME flavour = "add"
             PROVE  /\ \A c \in Core : Place(c)' \in Starting \cup {"count1", "count2", "done"}
                    /\ mem'["count"] = Counted(0)' + Counted(1)'
  <2>1. flavour' = flavour
    BY DEF Next, Tick, TickWith, LaunchTimeout, vars, progVars
  <2> QED BY <2>1 DEF CountSide
<1>1. /\ \A c \in Core : Place(c) \in Starting \cup {"count1", "count2", "done"}
      /\ mem["count"] = Counted(0) + Counted(1)
      /\ Core = {0, 1}
  BY DEF CountSide, Core
<1>2. Effect \/ GivesUp
  BY StepEffect
<1>3. CASE Quiet
  BY <1>1, <1>3, OnwardCounts DEF Quiet
<1>4. ASSUME NEW r \in DmaReqs[flavour], DmaWrites(r)
      PROVE  /\ \A c \in Core : Place(c)' \in Starting \cup {"count1", "count2", "done"}
             /\ mem'["count"] = Counted(0)' + Counted(1)'
  <2>1. mem'["count"] = mem["count"]
    BY <1>4, DmaLeaves
  <2> QED BY <1>1, <1>4, <2>1, OnwardCounts DEF DmaWrites
<1>5. ASSUME NEW c \in Core, CoreEffect(c)
      PROVE  /\ \A d \in Core : Place(d)' \in Starting \cup {"count1", "count2", "done"}
             /\ mem'["count"] = Counted(0)' + Counted(1)'
  <2>1. \A d \in Core \ {c} : /\ Place(d)' \in Starting \cup {"count1", "count2", "done"}
                              /\ Counted(d)' = Counted(d)
    BY <1>1, <1>5, OnwardCounts DEF CoreEffect
  <2>2. PICK v : Place(c) = core[c].pc /\ Place(c)' = After(flavour, c, core[c].pc, v, boot.entry)
    BY <1>5, SharedWrites DEF Arrives
  <2>3. mem'["count"] = IF core[c].pc \in Counts THEN (mem["count"] + 1) % WORD_MOD ELSE mem["count"]
    BY <1>5, SharedWrites
  <2>4. \A d \in Core : Counted(d) \in 0..2
    BY CountedPlaces
  <2>5. CASE core[c].pc \in Starting
    <3>1. Place(c)' \in Starting \cup {"count1"} /\ core[c].pc \notin Counts
      BY <2>2, <2>5, CountPath, StartingSet DEF Counts
    <3>2. Counted(c)' = Counted(c)
      BY <2>2, <2>5, <3>1, CountedPlaces
    <3> QED BY <1>1, <2>1, <2>3, <3>1, <3>2
  <2>6. CASE core[c].pc \in Counts
    <3>1. /\ Place(c)' \in {"count2", "done"}
          /\ Counted(c)' = Counted(c) + 1 /\ Counted(c) \in 0..1
      BY <2>2, <2>6, CountPath, CountedPlaces DEF Counts
    <3>2. mem["count"] \in 0..3
      BY <1>1, <2>4, <3>1
    <3>3. (mem["count"] + 1) % WORD_MOD = mem["count"] + 1
      BY <3>2, SharedAssumption DEF MAIN
    <3>4. mem'["count"] = mem["count"] + 1
      BY <2>3, <2>6, <3>3
    <3>5. CASE c = 0
      BY <1>1, <2>1, <2>4, <3>1, <3>4, <3>5
    <3>6. CASE c = 1
      BY <1>1, <2>1, <2>4, <3>1, <3>4, <3>6
    <3> QED BY <1>1, <3>5, <3>6
  <2>7. CASE core[c].pc = "done"
    <3>1. Place(c)' = "done" /\ core[c].pc \notin Counts
      BY <2>2, <2>7, CountPath DEF Counts
    <3>2. Counted(c)' = Counted(c)
      BY <2>2, <2>7, <3>1, CountedPlaces
    <3> QED BY <1>1, <2>1, <2>3, <3>1, <3>2
  <2> QED BY <1>1, <2>2, <2>5, <2>6, <2>7 DEF Counts
<1>6. CASE GivesUp
  <2>1. Place(0)' = "failed" /\ Place(0) \in Starting /\ Place(1)' = Place(1) /\ mem' = mem
    BY <1>6, StartingSet DEF GivesUp
  <2> QED BY <1>1, <2>1, CountedPlaces, StartingSet
<1> QED BY <1>2, <1>3, <1>4, <1>5, <1>6 DEF Effect

LEMMA InitPlaces ==
  ASSUME Init
  PROVE  Place(0) = "sp1" /\ Place(1) = "sleep" /\ core[1].pc = "sleep"
<1>1. AccessInv /\ \A c \in Core : ~Flight(c)
  BY InitAccess DEF Init, SwitchInit, Flight
<1>2. \A c \in Core : Place(c) = core[c].pc
  BY <1>1, PlaceIs DEF AccessInv, Places, Taken
<1> QED BY <1>2 DEF Init, Core

\* amoadd loses no count, wherever its two accesses are delayed, although the
\* other core and the DMA use the same bus, and an error leaves the counter
\* alone (neorv32_bus.vhd:768-898).
THEOREM CountsExactly == Spec => []CountExact
<1>1. Init => CountSide
  <2> SUFFICES ASSUME Init PROVE CountSide
    OBVIOUS
  <2>1. mem["count"] = 0
    BY DualCoreAssumption DEF Init, CodeAddr
  <2> QED BY <2>1, InitPlaces, CountedPlaces, StartingSet DEF CountSide, Core
<1>2. FlightInv /\ CountSide /\ [Next]_vars => CountSide'
  BY StepCount
<1>3. CountSide => CountExact
  BY DEF CountSide, CountExact
<1> QED BY <1>1, <1>2, <1>3, FlightKept, PTL DEF Spec

-----------------------------------------------------------------------------
(* The launch of core 1.                                                     *)

BootPlaces == {"sp1", "entry1", "msi1", "poll1", "sp2", "entry2", "msi2", "poll2", "failed"}
Polls == {"poll1", "poll2"}
Wake  == {"wake_sp", "wake_entry", "wake_ack", "sleep"}
Given(sp, entry) == sp = STACK /\ entry = MAIN

\* Where the two cores are in the handshake, and what the words they exchange
\* hold then: the configuration is complete before the interrupt is raised,
\* and core 1 has read it before the interrupt is acknowledged.
Agreed(p0, p1, sp, entry, mswi, boot_sp, boot_entry) ==
  /\ p1 \notin BootPlaces
  /\ p0 \in BootPlaces \ (Polls \cup {"failed"}) => mswi = 0 /\ p1 = "sleep"
  /\ p0 \in BootPlaces \ {"sp1", "failed"} => sp = STACK
  /\ p0 \in {"msi1", "poll1"} => entry = CRT0
  /\ p0 \in {"msi2", "poll2"} => entry = MAIN
  /\ p0 \in Polls =>
       \/ mswi = 1 /\ p1 \in Wake
       \/ mswi = 0 /\ p1 = "sleep" /\ p0 = "poll1"
       \/ mswi = 0 /\ p1 \notin Wake /\ p0 = "poll2" /\ Given(boot_sp, boot_entry)
  /\ p0 \notin BootPlaces => Given(boot_sp, boot_entry) /\ p1 \notin Wake

\* What core 1 has copied while core 0 waits for it.
Copied(p0, pc1, entry, boot_sp, boot_entry) ==
  p0 \in Polls => /\ pc1 \in {"wake_entry", "wake_ack"} => boot_sp = STACK
                  /\ pc1 = "wake_ack" => boot_entry = entry

Handshake ==
  /\ Agreed(Place(0), Place(1), mem["sp"], mem["entry"], mem["mswi"], boot.sp, boot.entry)
  /\ Copied(Place(0), core[1].pc, mem["entry"], boot.sp, boot.entry)
  /\ boot = [sp |-> boot.sp, entry |-> boot.entry]

\* Where a place of the launch can be reached from.
LEMMA Before ==
  ASSUME NEW f, NEW c, NEW pc, NEW v, NEW e, NEW q, q = After(f, c, pc, v, e)
  PROVE  /\ q = "wake_entry" => pc = "wake_sp"
         /\ q = "wake_ack" => pc = "wake_entry"
         /\ q \in Polls => pc \in {"msi1", "msi2"} \cup Polls
         /\ pc \notin BootPlaces => q \notin BootPlaces
         /\ pc \notin BootPlaces \cup Wake => q \notin Wake
<1>1. Begin(f) \in {"lock_lr", "lock_swap", "count1"} /\ Unlocked(f, c) \in {"check", "done"}
  BY DEF Begin, Unlocked
<1>2. CASE pc \notin Coded
  <2>1. q = pc
    BY <1>2, AfterTable DEF Coded
  <2>2. pc \notin {"poll1", "poll2", "wake_entry", "wake_ack"}
    BY <1>2 DEF Coded, Loads, Writes
  <2> QED BY <2>1, <2>2 DEF Polls
<1>3. CASE pc \in Loads
  <2>1. \/ pc \in {"poll1", "poll2"} /\ q \in {"sp2", "poll1", "poll2", "lock_lr", "lock_swap", "count1"}
        \/ pc = "wake_sp" /\ q = "wake_entry"
        \/ pc = "wake_entry" /\ q = "wake_ack"
    BY <1>1, <1>3, AfterTable DEF Loads
  <2> QED BY <2>1 DEF Polls, BootPlaces, Wake
<1>4. CASE pc \in Writes
  <2>1. \/ pc \in {"sp1", "sp2", "entry1", "entry2"} /\ q \in {"entry1", "entry2", "msi1", "msi2"}
        \/ pc \in {"msi1", "msi2"} /\ q \in {"poll1", "poll2"}
        \/ pc = "wake_ack" /\ q \in {"sleep", "lock_lr", "lock_swap", "count1"}
        \/ pc = "print" /\ q \in {"unlock_lr", "unlock_swap"}
    BY <1>1, <1>4, AfterTable DEF Writes
  <2> QED BY <2>1 DEF Polls, BootPlaces, Wake
<1>5. CASE pc \in LRs \cup SCs \cup Swaps \cup Counts
  <2>1. q \in {"lock_lr", "lock_sc", "lock_swap", "print", "unlock_lr", "unlock_sc", "check", "done",
               "count2"}
    BY <1>1, <1>5, AfterTable DEF LRs, SCs, Swaps, Counts
  <2> QED BY <2>1 DEF Polls, BootPlaces, Wake
<1> QED BY <1>2, <1>3, <1>4, <1>5 DEF Coded

\* How core 1's program counter and its copy of the configuration follow.
KeepsBoot == boot'.sp = boot.sp /\ boot'.entry = boot.entry

Returns ==
  /\ Quiet
  /\ core'[1].pc = Place(1) /\ Place(1)' = Place(1)
  /\ Place(1) = core[1].pc \/ \E v : Place(1) = After(flavour, 1, core[1].pc, v, boot.entry)
  /\ boot'.sp = IF core[1].pc = "wake_sp" /\ Place(1) = "wake_entry" THEN mem["sp"] ELSE boot.sp
  /\ boot'.entry = IF core[1].pc = "wake_entry" /\ Place(1) = "wake_ack" THEN mem["entry"]
                   ELSE boot.entry

Follows ==
  /\ boot' = [sp |-> boot'.sp, entry |-> boot'.entry]
  /\ \/ core'[1].pc = core[1].pc /\ KeepsBoot
     \/ core[1].pc = "sleep" /\ core'[1].pc = "wake_sp" /\ KeepsBoot
     \/ Returns

LEMMA EdgeFollows ==
  ASSUME EdgeFacts, NEW err, Edge(err)
  PROVE  Follows
<1>1. Shape /\ Fields /\ CoreSide /\ DmaSide /\ MemSide /\ Shape' /\ MemSide' /\ 1 \in Core /\ 0 \in Core
  BY DEF EdgeFacts, FlightInv, AccessInv, Core
<1>2. PICK goes \in BOOLEAN : core'[1] = CoreNext(1, goes)
  BY <1>1 DEF Edge
<1>3. boot' = [sp |-> boot'.sp, entry |-> boot'.entry]
  BY DEF Edge, BootNext
<1>4. CASE ~(Flight(1) /\ sys2_rsp.ack = 1)
  <2>1. KeepsBoot
    BY <1>4, BootStays DEF KeepsBoot
  <2>2. core'[1].pc = core[1].pc \/ Woken(1)
    BY <1>1, <1>2, <1>4, PcMoves
  <2> QED BY <1>3, <2>1, <2>2 DEF Follows, Woken
<1>5. CASE Flight(1) /\ sys2_rsp.ack = 1
  <2>1. EdgeOn(1) /\ ~Flight(1)'
    BY <1>1, <1>5, EdgeKinds DEF EdgeOther, EdgeBegins, EdgeOn
  <2>2. core'[1].pc = Place(1)
    BY <1>1, <1>2, <1>5, PcMoves
  <2>3. Place(1)' = Place(1)
    BY <1>1, <2>1, <2>2, PlaceNext DEF Places, Taken
  <2>4. Quiet
    <3>1. sys3_req.stb # 1
      <4>1. rmw.state # "S_WRITE"
        BY <1>1, <1>5, Acks
      <4>2. sys3_req.stb = 0
        BY <1>1, <2>1, <4>1, MemStrobe DEF EdgeOn, Carries, RequestFields
      <4> QED BY <4>2
    <3>2. mem' = mem /\ watch' = watch
      BY <1>1, <3>1, NoStrobe
    <3>3. Onward(0)
      BY <1>1, <2>1, OthersOnward DEF EdgeOn, Core
    <3> QED BY <2>3, <3>2, <3>3 DEF Quiet, Onward, Core
  <2>5. Place(1) = IF Taken(1) THEN After(flavour, 1, core[1].pc, Returned(rmw, rvs, Ans), boot.entry)
                   ELSE core[1].pc
    BY <1>1, PlaceIs DEF Places
  <2>6. /\ CoreRsp(1).ack = 1 /\ core[1].phase = "wait"
        /\ CoreRsp(1).err = 0 <=> Taken(1)
        /\ Taken(1) => CoreRsp(1).data = Returned(rmw, rvs, Ans)
    <3>1. core[1].phase = "wait"
      BY <1>5 DEF Flight, Serving
    <3>2. CASE rmw.state \in {"S_IDLE", "S_WRITE_WAIT"}
      BY <1>1, <1>5, <3>1, <3>2, Answered DEF Taken
    <3>3. CASE rmw.state \notin {"S_IDLE", "S_WRITE_WAIT"}
      <4>1. CoreRsp(1).ack = 1 /\ CoreRsp(1).err = 1
        BY <1>1, <1>5, <3>3, Answered
      <4>2. CoreRsp(1).err # 0
        BY <4>1
      <4> QED BY <3>1, <3>3, <4>1, <4>2 DEF Taken
    <3> QED BY <3>2, <3>3
  <2>7. ASSUME core[1].pc \in {"wake_sp", "wake_entry"}, Taken(1)
        PROVE  CoreRsp(1).data = mem[Instr(core[1].pc).addr]
    <3>1. Instr(core[1].pc).op = "none" /\ Instr(core[1].pc).rw = 0
      BY <2>7, InstrTable DEF Load
    <3>2. rmw.state = "S_IDLE" /\ NoScPending /\ Ans.data = mem[Instr(core[1].pc).addr]
      BY <1>1, <2>7, <3>1 DEF Taken, EdgeFacts, FlightInv, FlightSide, FlightOf, NoScPending, Rmws
    <3> QED BY <2>6, <2>7, <3>2 DEF Returned, NoScPending
  <2>8. /\ core[1].pc = "wake_sp" => (Place(1) = "wake_entry" <=> Taken(1))
        /\ core[1].pc = "wake_entry" => (Place(1) = "wake_ack" <=> Taken(1))
    BY <2>5, AfterTable
  <2>9. Instr("wake_sp").addr = "sp" /\ Instr("wake_entry").addr = "entry"
    BY InstrTable DEF Load
  <2>10. /\ boot'.sp = IF core[1].pc = "wake_sp" /\ CoreRsp(1).err = 0 THEN CoreRsp(1).data ELSE boot.sp
         /\ boot'.entry = IF core[1].pc = "wake_entry" /\ CoreRsp(1).err = 0 THEN CoreRsp(1).data
                          ELSE boot.entry
    BY <2>6 DEF Edge, BootNext
  <2>11. /\ boot'.sp = IF core[1].pc = "wake_sp" /\ Place(1) = "wake_entry" THEN mem["sp"] ELSE boot.sp
         /\ boot'.entry = IF core[1].pc = "wake_entry" /\ Place(1) = "wake_ack" THEN mem["entry"]
                          ELSE boot.entry
    BY <2>6, <2>7, <2>8, <2>9, <2>10
  <2> QED BY <1>3, <2>2, <2>3, <2>4, <2>5, <2>11 DEF Follows, Returns
<1> QED BY <1>4, <1>5

\* When core 0's access takes effect and moves it on, core 1 has none on its way.
LEMMA Alone ==
  ASSUME EdgeFacts, NEW err, Edge(err), Place(0) = core[0].pc, Place(0)' # core[0].pc,
         core[0].pc # "sleep"
  PROVE  Place(1)' = core'[1].pc
<1>1. Shape /\ Fields /\ CoreSide /\ DmaSide /\ MemSide /\ Shape' /\ MemSide' /\ 1 \in Core /\ 0 \in Core
  BY DEF EdgeFacts, FlightInv, AccessInv, Core
<1>2. core'[0].pc = core[0].pc
  <2>1. PICK goes \in BOOLEAN : core'[0] = CoreNext(0, goes)
    BY <1>1 DEF Edge
  <2> QED BY <1>1, <2>1, PcMoves DEF Woken
<1>3. Flight(0)'
  BY <1>1, <1>2, PlaceNext DEF Places, Taken
<1>4. ~Flight(1)'
  BY <1>1, <1>3, EdgeKinds DEF EdgeOther, EdgeBegins, EdgeOn
<1> QED BY <1>1, <1>4, PlaceNext DEF Places, Taken

LaunchInv == FlightInv /\ Handshake

\* While nothing is performed, core 1 wakes up at most.
LEMMA QuietAgrees ==
  ASSUME Handshake, Follows, Onward(0), Onward(1),
         mem'["sp"] = mem["sp"], mem'["entry"] = mem["entry"], mem'["mswi"] = mem["mswi"]
  PROVE  Agreed(Place(0), Place(1), mem["sp"], mem["entry"], mem["mswi"], boot.sp, boot.entry)'
<1>1. Agreed(Place(0), Place(1), mem["sp"], mem["entry"], mem["mswi"], boot.sp, boot.entry)
  BY DEF Handshake
<1>2. Place(1) \notin Wake => KeepsBoot
  BY DEF Follows, Returns, KeepsBoot, Wake
<1>3. \/ Place(0)' = Place(0)
      \/ Place(0) \notin BootPlaces /\ Place(0)' \notin BootPlaces
  BY DEF Onward, BootPlaces
<1>4. \/ Place(1)' = Place(1)
      \/ Place(1) = "sleep" /\ mem["mswi"] = 1 /\ Place(1)' = "wake_sp"
  BY DEF Onward
<1>5. Polls \subseteq BootPlaces /\ "wake_sp" \in Wake /\ "wake_sp" \notin BootPlaces
      /\ "sleep" \in Wake /\ {"msi1", "msi2"} \subseteq BootPlaces
  BY DEF Polls, BootPlaces, Wake
<1>6. \A n : n = 0 => n # 1
  OBVIOUS
<1>7. CASE Place(0) \notin BootPlaces
  <2>1. Place(0)' \notin BootPlaces /\ Place(1)' = Place(1) /\ KeepsBoot
    BY <1>1, <1>2, <1>3, <1>4, <1>5, <1>7 DEF Agreed
  <2> QED BY <1>1, <1>5, <1>7, <2>1 DEF Agreed, Given, KeepsBoot, Polls, BootPlaces
<1>8. CASE Place(0) \in BootPlaces /\ Place(1)' = Place(1)
  <2>1. Place(0)' = Place(0) /\ (Place(1) \notin Wake => KeepsBoot)
    BY <1>2, <1>3, <1>8
  <2> QED BY <1>1, <1>8, <2>1 DEF Agreed, Given, KeepsBoot
<1>9. CASE Place(0) \in BootPlaces /\ Place(1) = "sleep" /\ mem["mswi"] = 1 /\ Place(1)' = "wake_sp"
  <2>1. Place(0)' = Place(0) /\ Place(0) \in Polls \cup {"failed"}
    BY <1>1, <1>3, <1>6, <1>9 DEF Agreed
  <2> QED BY <1>1, <1>5, <1>9, <2>1 DEF Agreed
<1> QED BY <1>4, <1>7, <1>8, <1>9

\* An access of core 0.
LEMMA Core0Agrees ==
  ASSUME FlightInv, Handshake, Follows, 0 \in Core, 1 \in Core, CoreEffect(0)
  PROVE  Agreed(Place(0), Place(1), mem["sp"], mem["entry"], mem["mswi"], boot.sp, boot.entry)'
<1> DEFINE pc == core[0].pc
<1>1. Agreed(pc, Place(1), mem["sp"], mem["entry"], mem["mswi"], boot.sp, boot.entry) /\ Place(0) = pc
  BY SharedWrites DEF Handshake, Arrives
<1>2. Place(1) \notin Wake => KeepsBoot
  BY DEF Follows, Returns, KeepsBoot, Wake
<1>3. \/ Place(1)' = Place(1)
      \/ Place(1) = "sleep" /\ mem["mswi"] = 1 /\ Place(1)' = "wake_sp"
  BY DEF CoreEffect, Onward
<1>4. \A a \in {"sp", "entry", "mswi"} :
        mem'[a] = IF pc \in Writes /\ Instr(pc).addr = a THEN Instr(pc).data ELSE mem[a]
  BY SharedWrites
<1>5. PICK v : Place(0)' = After(flavour, 0, pc, v, boot.entry)
  BY SharedWrites DEF Arrives
<1>6. \A n : n = 0 => n # 1
  OBVIOUS
<1>7. Place(1)' \notin BootPlaces /\ (Place(1) \notin Wake => Place(1)' \notin Wake)
      /\ (Place(1) \in Wake => Place(1)' \in Wake)
  BY <1>1, <1>3 DEF Agreed, BootPlaces, Wake
<1> HIDE DEF pc
<1>8. CASE pc \notin BootPlaces
  <2>1. Place(0)' \notin BootPlaces
    BY <1>5, <1>8, Before
  <2>2. Place(0)' \notin Polls
    BY <2>1 DEF Polls, BootPlaces
  <2> QED BY <1>1, <1>2, <1>7, <1>8, <2>1, <2>2 DEF Agreed, Given, KeepsBoot, BootPlaces
<1>9. CASE pc = "failed"
  <2>1. pc \notin Coded
    BY <1>9 DEF Coded, Loads, Writes, LRs, SCs, Swaps, Counts
  <2>2. Place(0)' = "failed"
    BY <1>5, <1>9, <2>1, AfterTable DEF Coded
  <2> QED BY <1>7, <2>2 DEF Agreed, BootPlaces, Polls
<1>10. CASE pc \in BootPlaces \ (Polls \cup {"failed"})
  <2>1. mem["mswi"] = 0 /\ Place(1) = "sleep" /\ Place(1)' = "sleep"
    BY <1>1, <1>3, <1>6, <1>10 DEF Agreed
  <2>2. CASE pc \in {"sp1", "sp2"}
    <3>1. mem'["sp"] = STACK /\ mem'["mswi"] = 0 /\ Place(0)' \in {"entry1", "entry2"}
      BY <1>4, <1>5, <2>1, <2>2, InstrTable, AfterTable DEF Store, Writes
    <3> QED BY <2>1, <3>1 DEF Agreed, BootPlaces, Polls
  <2>3. CASE pc \in {"entry1", "entry2"}
    <3>1. mem'["sp"] = STACK /\ mem'["mswi"] = 0
      BY <1>1, <1>4, <2>1, <2>3, InstrTable DEF Store, Writes, Agreed, BootPlaces
    <3>2. \/ mem'["entry"] = CRT0 /\ Place(0)' = "msi1"
          \/ mem'["entry"] = MAIN /\ Place(0)' = "msi2"
      BY <1>4, <1>5, <2>3, InstrTable, AfterTable DEF Store, Writes
    <3> QED BY <2>1, <3>1, <3>2 DEF Agreed, BootPlaces, Polls
  <2>4. CASE pc \in {"msi1", "msi2"}
    <3>1. mem'["sp"] = STACK /\ mem'["mswi"] = 1
      BY <1>1, <1>4, <2>4, InstrTable DEF Store, Writes, Agreed, BootPlaces
    <3>2. \/ mem'["entry"] = CRT0 /\ Place(0)' = "poll1"
          \/ mem'["entry"] = MAIN /\ Place(0)' = "poll2"
      BY <1>1, <1>4, <1>5, <2>4, InstrTable, AfterTable DEF Store, Writes, Agreed
    <3> QED BY <2>1, <3>1, <3>2 DEF Agreed, BootPlaces, Polls, Wake
  <2> QED BY <1>10, <2>2, <2>3, <2>4 DEF BootPlaces, Polls
<1>11. CASE pc \in Polls
  <2>1. pc \in Loads /\ pc \notin Writes /\ Instr(pc).addr = "mswi"
    BY <1>11, InstrTable DEF Polls, Loads, Writes, Load
  <2>2. Place(0)' = After(flavour, 0, pc, mem["mswi"], boot.entry)
    BY <2>1, SharedWrites DEF Arrives, pc
  <2>3. mem'["sp"] = mem["sp"] /\ mem'["entry"] = mem["entry"] /\ mem'["mswi"] = mem["mswi"]
    BY <1>4, <2>1
  <2>4. mem["sp"] = STACK
    BY <1>1, <1>11 DEF Agreed, Polls, BootPlaces
  <2>5. CASE mem["mswi"] = 1
    <3>1. Place(0)' = pc
      BY <1>6, <1>11, <2>2, <2>5, AfterTable DEF Polls
    <3>2. Place(1)' \in Wake
      BY <1>1, <1>6, <1>7, <1>11, <2>5 DEF Agreed
    <3> QED BY <1>1, <1>7, <1>11, <2>3, <2>4, <2>5, <3>1, <3>2 DEF Agreed, Polls, BootPlaces
  <2>6. CASE mem["mswi"] = 0 /\ pc = "poll1"
    <3>1. Place(0)' = "sp2"
      BY <2>2, <2>6, AfterTable
    <3>2. Place(1)' = "sleep"
      BY <1>1, <1>3, <1>6, <1>11, <2>6 DEF Agreed
    <3> QED BY <2>3, <2>4, <2>6, <3>1, <3>2 DEF Agreed, Polls, BootPlaces
  <2>7. CASE mem["mswi"] = 0 /\ pc = "poll2"
    <3>1. Place(0)' = Begin(flavour)
      BY <2>2, <2>7, AfterTable
    <3>2. Begin(flavour) \in {"lock_lr", "lock_swap", "count1"}
      BY DEF Begin
    <3>3. Place(1) \notin Wake /\ Given(boot.sp, boot.entry)
      BY <1>1, <1>6, <1>11, <2>7 DEF Agreed
    <3> QED BY <1>2, <1>7, <3>1, <3>2, <3>3 DEF Agreed, Given, KeepsBoot, Polls, BootPlaces
  <2> QED BY <1>1, <1>11, <2>5, <2>6, <2>7 DEF Agreed, Polls
<1> QED BY <1>8, <1>9, <1>10, <1>11

\* An access of core 1.
LEMMA Core1Agrees ==
  ASSUME FlightInv, Handshake, Follows, 0 \in Core, 1 \in Core, CoreEffect(1)
  PROVE  /\ Agreed(Place(0), Place(1), mem["sp"], mem["entry"], mem["mswi"], boot.sp, boot.entry)'
         /\ mem'["entry"] = mem["entry"]
<1> DEFINE pc == core[1].pc
<1>1. /\ Agreed(Place(0), pc, mem["sp"], mem["entry"], mem["mswi"], boot.sp, boot.entry)
      /\ Copied(Place(0), pc, mem["entry"], boot.sp, boot.entry) /\ Place(1) = pc
  BY SharedWrites DEF Handshake, Arrives
<1>2. KeepsBoot
  BY <1>1 DEF Follows, Returns, KeepsBoot
<1>3. \/ Place(0)' = Place(0)
      \/ Place(0) \notin BootPlaces /\ Place(0)' \notin BootPlaces
  BY DEF CoreEffect, Onward, BootPlaces
<1>4. \A a \in {"sp", "entry", "mswi"} :
        mem'[a] = IF pc \in Writes /\ Instr(pc).addr = a THEN Instr(pc).data ELSE mem[a]
  BY SharedWrites
<1>5. PICK v : Place(1)' = After(flavour, 1, pc, v, boot.entry)
  BY SharedWrites DEF Arrives
<1>6. \A n : n = 0 => n # 1
  OBVIOUS
<1>7. pc \notin BootPlaces /\ Place(1)' \notin BootPlaces
  BY <1>1, <1>5, Before DEF Agreed
<1> HIDE DEF pc
<1>8. CASE pc # "wake_ack"
  <2>1. mem'["sp"] = mem["sp"] /\ mem'["entry"] = mem["entry"] /\ mem'["mswi"] = mem["mswi"]
    <3>1. pc \in Writes => Instr(pc).addr = "uart"
      BY <1>7, <1>8, InstrTable DEF Writes, BootPlaces, Store
    <3> QED BY <1>4, <3>1
  <2>2. CASE pc \in Wake
    <3>1. Place(1)' \in Wake /\ (pc = "sleep" => Place(1)' = "sleep")
      <4>1. "sleep" \notin Coded
        BY DEF Coded, Loads, Writes, LRs, SCs, Swaps, Counts
      <4> QED BY <1>5, <1>8, <2>2, <4>1, AfterTable DEF Wake, Coded
    <3> QED BY <1>1, <1>2, <1>3, <1>7, <2>1, <2>2, <3>1 DEF Agreed, Given, KeepsBoot, BootPlaces, Polls
  <2>3. CASE pc \notin Wake
    <3>1. Place(1)' \notin Wake /\ pc # "sleep"
      BY <1>5, <1>7, <2>3, Before DEF Wake
    <3> QED BY <1>1, <1>2, <1>3, <1>7, <2>1, <2>3, <3>1 DEF Agreed, Given, KeepsBoot, BootPlaces, Polls
  <2> QED BY <2>1, <2>2, <2>3
<1>9. CASE pc = "wake_ack"
  <2>1. mem'["sp"] = mem["sp"] /\ mem'["entry"] = mem["entry"] /\ mem'["mswi"] = 0
    BY <1>4, <1>9, InstrTable DEF Writes, Store
  <2>2. Place(1)' = IF boot.entry = MAIN THEN Begin(flavour) ELSE "sleep"
    BY <1>5, <1>9, AfterTable
  <2>3. Begin(flavour) \notin Wake
    BY DEF Begin, Wake
  <2>4. Place(0) \in Polls \cup {"failed"}
    BY <1>1, <1>9 DEF Agreed, Wake
  <2>5. CASE Place(0) = "failed"
    BY <1>3, <1>7, <2>1, <2>5 DEF Agreed, BootPlaces, Polls
  <2>6. CASE Place(0) \in Polls
    <3>1. Place(0)' = Place(0) /\ mem["sp"] = STACK /\ boot.sp = STACK /\ boot.entry = mem["entry"]
      BY <1>1, <1>3, <1>9, <2>6 DEF Agreed, Copied, Polls, BootPlaces
    <3>2. CASE Place(0) = "poll1"
      <4>1. Place(1)' = "sleep" /\ mem'["entry"] = CRT0
        BY <1>1, <2>1, <2>2, <3>1, <3>2 DEF Agreed, CRT0, MAIN
      <4> QED BY <1>7, <2>1, <3>1, <3>2, <4>1 DEF Agreed, Polls, BootPlaces
    <3>3. CASE Place(0) = "poll2"
      <4>1. Place(1)' \notin Wake /\ mem'["entry"] = MAIN /\ Given(boot'.sp, boot'.entry)
        BY <1>1, <1>2, <2>1, <2>2, <2>3, <3>1, <3>3 DEF Agreed, Given, KeepsBoot
      <4> QED BY <1>7, <2>1, <3>1, <3>3, <4>1 DEF Agreed, Polls, BootPlaces
    <3> QED BY <2>1, <2>6, <3>2, <3>3 DEF Polls
  <2> QED BY <2>1, <2>4, <2>5, <2>6
<1> QED BY <1>8, <1>9

\* What core 1 copies is what core 0 wrote.
LEMMA CopiedOn ==
  ASSUME Handshake, Follows, Place(0) \in Polls, mem'["entry"] = mem["entry"]
  PROVE  /\ core'[1].pc \in {"wake_entry", "wake_ack"} => boot'.sp = STACK
         /\ core'[1].pc = "wake_ack" => boot'.entry = mem'["entry"]
<1>1. mem["sp"] = STACK /\ Copied(Place(0), core[1].pc, mem["entry"], boot.sp, boot.entry)
  BY DEF Handshake, Agreed, Polls, BootPlaces
<1>2. CASE core'[1].pc = core[1].pc /\ KeepsBoot
  BY <1>1, <1>2 DEF Copied, KeepsBoot
<1>3. CASE core'[1].pc = "wake_sp"
  BY <1>3
<1>4. CASE Returns
  <2>1. core'[1].pc = "wake_entry" /\ core[1].pc # "wake_entry" => core[1].pc = "wake_sp"
    BY <1>4, Before DEF Returns
  <2>2. core'[1].pc = "wake_ack" /\ core[1].pc # "wake_ack" => core[1].pc = "wake_entry"
    BY <1>4, Before DEF Returns
  <2> QED BY <1>1, <1>4, <2>1, <2>2 DEF Returns, Copied
<1> QED BY <1>2, <1>3, <1>4 DEF Follows

LEMMA EdgeAgrees ==
  ASSUME LaunchInv, EdgeFacts, NEW err, Edge(err), Effect
  PROVE  Handshake'
<1>1. Follows
  BY EdgeFollows
<1>2. 0 \in Core /\ 1 \in Core
  BY DEF Core
<1>3. CASE Quiet \/ \E r \in DmaReqs[flavour] : DmaWrites(r)
  <2>1. /\ Onward(0) /\ Onward(1) /\ mem'["sp"] = mem["sp"] /\ mem'["entry"] = mem["entry"]
        /\ mem'["mswi"] = mem["mswi"]
    BY <1>2, <1>3, DmaLeaves DEF Quiet, DmaWrites, LaunchInv
  <2>2. Place(0)' \in Polls => Place(0) \in Polls
    BY <2>1 DEF Onward, Polls
  <2> QED BY <1>1, <2>1, <2>2, QuietAgrees, CopiedOn DEF LaunchInv, Handshake, Copied, Follows
<1>4. CASE CoreEffect(1)
  <2>1. Onward(0)
    BY <1>2, <1>4 DEF CoreEffect
  <2>2. Place(0)' \in Polls => Place(0) \in Polls
    BY <2>1 DEF Onward, Polls
  <2> QED BY <1>1, <1>2, <1>4, <2>2, Core1Agrees, CopiedOn DEF LaunchInv, Handshake, Copied, Follows
<1>5. CASE CoreEffect(0)
  <2>1. Agreed(Place(0), Place(1), mem["sp"], mem["entry"], mem["mswi"], boot.sp, boot.entry)'
    BY <1>1, <1>2, <1>5, Core0Agrees DEF LaunchInv
  <2>2. PICK v : Place(0) = core[0].pc /\ Place(0)' = After(flavour, 0, core[0].pc, v, boot.entry)
    BY <1>2, <1>5, SharedWrites DEF LaunchInv, Arrives
  <2>3. Place(0)' \in Polls => core[0].pc \in {"msi1", "msi2"} \cup Polls
    BY <2>2, Before
  <2>4. CASE core[0].pc \in Polls
    <3>1. mem'["entry"] = mem["entry"]
      <4>1. core[0].pc \notin Writes
        BY <2>4 DEF Polls, Writes
      <4> QED BY <1>2, <1>5, <4>1, SharedWrites DEF LaunchInv
    <3> QED BY <1>1, <2>1, <2>2, <2>4, <3>1, CopiedOn DEF LaunchInv, Handshake, Copied, Follows
  <2>5. CASE core[0].pc \in {"msi1", "msi2"}
    <3>1. Place(1) = "sleep" /\ mem["mswi"] = 0
      BY <2>2, <2>5 DEF LaunchInv, Handshake, Agreed, BootPlaces, Polls
    <3>2. Place(1)' = "sleep"
      <4>1. mem["mswi"] # 1
        BY <3>1
      <4> QED BY <1>2, <1>5, <3>1, <4>1 DEF CoreEffect, Onward
    <3>3. Place(0)' # core[0].pc
      BY <2>2, <2>5, AfterTable
    <3>4. core'[1].pc = "sleep"
      BY <2>2, <2>5, <3>2, <3>3, Alone
    <3> QED BY <1>1, <2>1, <3>4 DEF Handshake, Copied, Follows
  <2>6. CASE core[0].pc \notin {"msi1", "msi2"} \cup Polls
    BY <1>1, <2>1, <2>3, <2>6 DEF Handshake, Copied, Follows
  <2> QED BY <2>4, <2>5, <2>6
<1> QED BY <1>3, <1>4, <1>5 DEF Effect, Core

LEMMA StepHandshake ==
  ASSUME LaunchInv, [Next]_vars
  PROVE  Handshake'
<1>1. CASE Tick
  <2>1. PICK err : EdgeFacts /\ Edge(err)
    BY <1>1, TickEdge DEF LaunchInv
  <2> QED BY <2>1, EdgeEffect, EdgeAgrees
<1>2. CASE LaunchTimeout
  <2>1. GivesUp
    BY <1>2, TimeoutEffect DEF LaunchInv
  <2> QED BY <2>1 DEF GivesUp, LaunchInv, Handshake, Agreed, Copied, Polls, BootPlaces
<1>3. CASE UNCHANGED vars
  <2>1. Quiet /\ core' = core /\ boot' = boot
    BY <1>3, StutterEffect DEF vars, progVars, LaunchInv
  <2>2. Follows
    BY <2>1 DEF Follows, KeepsBoot, LaunchInv, Handshake
  <2>3. Onward(0) /\ Onward(1) /\ mem' = mem
    BY <2>1 DEF Quiet, Core
  <2>4. Place(0)' \in Polls => Place(0) \in Polls
    BY <2>3 DEF Onward, Polls
  <2> QED BY <2>2, <2>3, <2>4, QuietAgrees, CopiedOn DEF LaunchInv, Handshake, Copied, Follows
<1> QED BY <1>1, <1>2, <1>3 DEF Next

LEMMA LaunchKept == Spec => []LaunchInv
<1>1. Init => LaunchInv
  <2> SUFFICES ASSUME Init PROVE LaunchInv
    OBVIOUS
  <2>1. mem["mswi"] = 0 /\ boot = [sp |-> 0, entry |-> 0]
    BY DualCoreAssumption DEF Init, CodeAddr
  <2> QED BY <2>1, InitFlight, InitPlaces DEF LaunchInv, Handshake, Agreed, Copied, BootPlaces, Polls
<1>2. LaunchInv /\ [Next]_vars => LaunchInv'
  BY StepHandshake, StepEffect DEF LaunchInv
<1> QED BY <1>1, <1>2, PTL DEF Spec

\* When neorv32_smp_launch has returned 0, core 1 runs its program, with the
\* stack and the entry point it was given, although each of the words went
\* over the bus on its own and was polled for (neorv32_smp.c:25-88,
\* crt0.S:77-103).
THEOREM LaunchesTruly == Spec => []LaunchTruthful
<1>1. LaunchInv => LaunchTruthful
  <2> SUFFICES ASSUME LaunchInv, Launched PROVE LaunchTruthful
    BY DEF LaunchTruthful
  <2>1. core[0].pc \notin BootPlaces
    BY DEF Launched, BootPlaces, smp_boot
  <2>2. Place(0) \notin BootPlaces
    <3>1. Place(0) = core[0].pc \/ \E v : Place(0) = After(flavour, 0, core[0].pc, v, boot.entry)
      BY PlaceIs DEF LaunchInv, FlightInv, AccessInv, Places, Core
    <3> QED BY <2>1, <3>1, Before
  <2>3. boot = [sp |-> STACK, entry |-> MAIN] /\ Place(1) \notin Wake
    BY <2>2 DEF LaunchInv, Handshake, Agreed, Given
  <2> QED BY <2>3 DEF LaunchTruthful, Wake, smp_wakeup
<1> QED BY <1>1, LaunchKept, PTL
=============================================================================
