------------------------------ MODULE DualCore ------------------------------
(* Two cores and a DMA controller in front of one memory: the round-robin    *)
(* switch of the cores, the prioritising switch of the DMA, the              *)
(* read-modify-write controller and the reservation station, running the     *)
(* dual-core programs.  One step is a clock edge, or core 0 giving up the    *)
(* launch.                                                                   *)
EXTENDS AmoRmw, AmoRvs, DualCoreCode

CONSTANTS
  Flavours,   \* the programs to run
  DmaReqs,    \* accesses the DMA may make beside each program: [rw, addr, data]
  MaxErrs,    \* MaxErrs[f]: bound on accesses of program f that end with a bus error
  Slack       \* memory and programs take their time; else they are immediate

ASSUME DualCoreAssumption ==
  /\ Flavours \subseteq Flavour
  /\ \A f \in Flavours : DmaReqs[f] \subseteq [rw : Bit, addr : Addr, data : Value]
  /\ \A f \in Flavours : MaxErrs[f] \in Nat
  /\ Slack \in BOOLEAN
  /\ CodeAddr \subseteq Addr

\* The words the cores share are written by the cores only, and hold the
\* values the programs store.
ASSUME SharedAssumption ==
  /\ \A f \in Flavours : \A r \in DmaReqs[f] :
       r.rw = 1 => r.addr \notin {"lock", "count", "sp", "entry", "mswi"}
  /\ WORD_MOD \in Nat /\ WORD_MOD > MAIN

VARIABLES
  flavour,    \* the program, never changes
  core,       \* core[c]: place in the program, and state of the access
  boot,       \* what core 1 has read of its launch configuration
  dma,        \* the DMA's bus port
  core_sw, dma_sw,   \* the two bus switches
  mem,        \* what the addresses hold
  sys_pend,   \* an access that is performed and not answered, or NoRsp
  sys_rsp,    \* the response signals of the memory side
  errs,       \* bus errors so far
  clk,        \* the clock, changes with every cycle
  \* history
  watch,      \* watch[c]: no write to the granule of c's LR since it
  overtaken   \* overtaken[c]: grants of the other core while c asked for one

progVars == <<flavour, core, boot, dma>>
busVars  == <<core_sw, dma_sw, rmw, rvs, mem, sys_pend, sys_rsp, errs>>
vars == <<progVars, busVars, clk, watch, overtaken>>

NoRsp == [ack |-> 0, err |-> 0, data |-> 0]

-----------------------------------------------------------------------------
(* Wiring.  The load/store unit holds the lock from the strobe of a          *)
(* read-modify-write access to its answer.                                   *)

CoreReq(c) ==
  LET i == Instr(core[c].pc)
      busy == core[c].phase \in {"strobe", "wait"}
  IN [stb |-> BitOf(core[c].phase = "strobe"), id |-> c, op |-> i.op, rw |-> i.rw,
      lock |-> BitOf(busy /\ i.op \in {"SWAP", "ADD"}), addr |-> i.addr, data |-> i.data]

DmaReq ==
  [stb |-> BitOf(dma.phase = "strobe"), id |-> 0, op |-> "none", rw |-> dma.req.rw,
   lock |-> 0, addr |-> dma.req.addr, data |-> dma.req.data]

CoreHosts == [A |-> CoreReq(0), B |-> CoreReq(1)]
sys1_req  == x_req(core_sw, TRUE, CoreHosts)
DmaHosts  == [A |-> sys1_req, B |-> DmaReq]
sys2_req  == x_req(dma_sw, FALSE, DmaHosts)
amo_req   == rmw_req(sys2_req)
sys3_req  == rvs_req(amo_req)

sys2_rsp  == rmw_rsp(rvs_rsp(sys_rsp))
sys1_rsp  == port_rsp(dma_sw, sys2_rsp, "A")
DmaRsp    == port_rsp(dma_sw, sys2_rsp, "B")
CorePort  == [c \in Core |-> IF c = 0 THEN "A" ELSE "B"]
CoreRsp(c) == port_rsp(core_sw, sys1_rsp, CorePort[c])

-----------------------------------------------------------------------------
(* The cores.  Between two accesses there is at least one cycle without a    *)
(* strobe; how many more is up to the program (goes).  The software          *)
(* interrupt ends core 1's sleep.  An error traps: the core is lost.         *)

CoreNext(c, goes) ==
  LET k == core[c]
      v == CoreRsp(c).data
  IN CASE k.phase = "exec" /\ ~goes -> k
       [] k.phase = "exec" /\ k.pc = "sleep" /\ goes ->
            IF mem["mswi"] = 1 THEN [k EXCEPT !.pc = "wake_sp"] ELSE k
       [] k.phase = "exec" /\ k.pc \in Resting \ {"sleep"} /\ goes -> k
       [] k.phase = "exec" /\ k.pc \notin Resting /\ goes -> [k EXCEPT !.phase = "strobe"]
       [] k.phase = "strobe" -> [k EXCEPT !.phase = "wait"]
       [] k.phase = "wait" ->
            IF CoreRsp(c).ack = 0 THEN k
            ELSE IF CoreRsp(c).err = 1 THEN [k EXCEPT !.phase = "trap"]
            ELSE [phase |-> "exec", pc |-> After(flavour, c, k.pc, v, boot.entry)]
       [] k.phase = "trap" -> k

BootNext ==
  LET done == core[1].phase = "wait" /\ CoreRsp(1).ack = 1 /\ CoreRsp(1).err = 0
  IN [sp    |-> IF done /\ core[1].pc = "wake_sp" THEN CoreRsp(1).data ELSE boot.sp,
      entry |-> IF done /\ core[1].pc = "wake_entry" THEN CoreRsp(1).data ELSE boot.entry]

\* The cores that go on with their programs in this cycle.
Able  == {c \in Core : core[c].phase = "exec" /\ core[c].pc \notin Resting \ {"sleep"}}
Goers == IF Slack THEN SUBSET Able ELSE {Able}

(* The DMA: single-shot strobes, one access at a time. *)

DmaTick ==
  \/ /\ dma.phase = "idle"
     /\ \E r \in DmaReqs[flavour] : dma' = [phase |-> "strobe", req |-> r]
  \/ /\ dma.phase = "idle" /\ UNCHANGED dma
  \/ /\ dma.phase = "strobe" \/ (dma.phase = "wait" /\ DmaRsp.ack = 0)
     /\ dma' = [dma EXCEPT !.phase = "wait"]
  \/ /\ dma.phase = "wait" /\ DmaRsp.ack = 1
     /\ dma' = [dma EXCEPT !.phase = "idle"]

(* The memory side: the gateway and what is behind it.  An access is         *)
(* performed when its strobe arrives and answered one cycle later, or two;   *)
(* one that ends in an error has had no effect.                              *)

Perform(err) ==
  /\ err = 0 \/ (sys3_req.stb = 1 /\ errs < MaxErrs[flavour])
  /\ errs' = errs + err
  /\ mem' = IF sys3_req.stb = 1 /\ sys3_req.rw = 1 /\ err = 0
            THEN [mem EXCEPT ![sys3_req.addr] = sys3_req.data] ELSE mem

Served(err) ==
  IF sys3_req.stb = 1
  THEN [ack |-> 1, err |-> err, data |-> IF err = 0 THEN mem[sys3_req.addr] ELSE 0]
  ELSE sys_pend

Answer(err) == sys_rsp' = Served(err) /\ sys_pend' = NoRsp
Delay(err)  == Slack /\ sys3_req.stb = 1 /\ sys_rsp' = NoRsp /\ sys_pend' = Served(err)

(* History. *)

SameGranule(a) == Granule[a] = Granule["lock"]

WatchNext(err) ==
  LET r  == sys3_req
      id == amo_req.id
  IN CASE r.stb = 0 \/ err = 1 \/ ~SameGranule(r.addr) -> watch
       [] r.stb = 1 /\ err = 0 /\ SameGranule(r.addr) /\ r.rw = 1 -> [c \in Core |-> FALSE]
       [] r.stb = 1 /\ err = 0 /\ SameGranule(r.addr) /\ amo_req.op = "LR" ->
            [watch EXCEPT ![id] = TRUE]
       [] r.stb = 1 /\ err = 0 /\ SameGranule(r.addr) /\ amo_req.op = "SC" /\ r.rw = 0 ->
            [watch EXCEPT ![id] = FALSE]
       [] OTHER -> watch

Asks(c) == core[c].phase = "strobe" \/ core_sw.req[CorePort[c]] = 1
Granted(c) == core_sw.state = "S_IDLE" /\ Asks(c) /\ sel(core_sw, TRUE, CoreHosts) = CorePort[c]

OvertakenNext ==
  [c \in Core |-> IF ~Asks(c) \/ Granted(c) THEN 0
                  ELSE IF Granted(1 - c) THEN overtaken[c] + 1 ELSE overtaken[c]]

-----------------------------------------------------------------------------
Init ==
  /\ flavour \in Flavours
  /\ core = [c \in Core |-> [phase |-> "exec", pc |-> IF c = 0 THEN "sp1" ELSE "sleep"]]
  /\ boot = [sp |-> 0, entry |-> 0]
  /\ dma = [phase |-> "idle", req |-> [rw |-> 0, addr |-> "near", data |-> 0]]
  /\ core_sw = SwitchInit /\ dma_sw = SwitchInit
  /\ RmwInit /\ RvsInit
  /\ mem = [a \in Addr |-> 0]
  /\ sys_pend = NoRsp /\ sys_rsp = NoRsp /\ errs = 0 /\ clk = 0
  /\ watch = [c \in Core |-> FALSE] /\ overtaken = [c \in Core |-> 0]

TickWith(go, reply(_)) ==
  /\ core' = [c \in Core |-> CoreNext(c, c \in go)]
  /\ boot' = BootNext
  /\ DmaTick
  /\ core_sw' = SwitchTick(core_sw, TRUE, CoreHosts, sys1_rsp)
  /\ dma_sw' = SwitchTick(dma_sw, FALSE, DmaHosts, sys2_rsp)
  /\ RmwTick(sys2_req, rvs_rsp(sys_rsp))
  /\ RvsTick(amo_req, sys_rsp)
  /\ \E err \in Bit : Perform(err) /\ reply(err) /\ watch' = WatchNext(err)
  /\ overtaken' = OvertakenNext
  /\ clk' = 1 - clk /\ UNCHANGED flavour

Tick == \E go \in Goers : TickWith(go, Answer) \/ TickWith(go, Delay)

\* __neorv32_smp_boot runs out of patience.
LaunchTimeout ==
  /\ Slack
  /\ core[0].phase = "exec" /\ core[0].pc \in {"poll1", "poll2"}
  /\ core' = [core EXCEPT ![0].pc = "failed"]
  /\ UNCHANGED <<flavour, boot, dma, busVars, clk, watch, overtaken>>

Next == Tick \/ LaunchTimeout
Spec == Init /\ [][Next]_vars

\* The clock runs, and no core stays between two accesses forever, nor asleep
\* with its software interrupt pending.
ClockRuns   == WF_clk(clk' = 1 - clk)
Executes(c) ==
  []<>(\/ core[c].phase # "exec"
       \/ core[c].pc \in Resting /\ ~(core[c].pc = "sleep" /\ mem["mswi"] = 1))
FairSpec == Spec /\ ClockRuns /\ \A c \in Core : Executes(c)

-----------------------------------------------------------------------------
(* Properties. *)

\* Every register holds a value of its type.
TypeOK ==
  /\ \A c \in Core : core[c].phase \in {"exec", "strobe", "wait", "trap"}
  /\ boot \in [sp : Value, entry : Value]
  /\ core_sw \in switch_t /\ dma_sw \in switch_t
  /\ RmwTypeOK /\ RvsTypeOK
  /\ mem \in [Addr -> Value]
  /\ watch \in [Core -> BOOLEAN]

\* The memory side is given one access at a time: two switches that remember
\* strobes, a controller that adds one and locks that outlive answers never
\* let a second strobe through before the first is answered, and never show an
\* answer to a host that is not waiting for one.
OneAccessAtATime ==
  /\ sys3_req.stb = 1 => sys_pend = NoRsp
  /\ \A c \in Core : CoreRsp(c).ack = 1 => core[c].phase = "wait"
  /\ DmaRsp.ack = 1 => dma.phase = "wait"

\* Round robin: a core that asks for the bus sees the other one served at most
\* once before it is.
NotOvertaken == \A c \in Core : overtaken[c] <= 1

\* Where a core is once the access it is waiting for, which may be performed
\* but not answered, is taken into account.
Performed(c) ==
  /\ core[c].phase = "wait"
  /\ core_sw.state = Busy[CorePort[c]] /\ dma_sw.state = "S_BUSY_A"
  /\ \/ rmw.state = "S_IDLE" /\ (sys_pend # NoRsp \/ sys_rsp.ack = 1)
     \/ rmw.state = "S_WRITE_WAIT"

Place(c) ==
  LET rsp == rmw_rsp(rvs_rsp(IF sys_rsp.ack = 1 THEN sys_rsp ELSE sys_pend))
  IN IF Performed(c) /\ rsp.err = 0
     THEN After(flavour, c, core[c].pc, rsp.data, boot.entry) ELSE core[c].pc

LockPlace(c) ==
  CASE Place(c) = "lock_sc"                                 -> "try"
    [] Place(c) \in {"print", "unlock_lr", "unlock_swap"}   -> "cs"
    [] Place(c) = "unlock_sc"                               -> "free"
    [] OTHER                                                -> "out"

\* Switches, controller and station together give the programs the atomic
\* accesses their locks rely on: each takes effect at one instant, and a
\* store-conditional succeeds only if nobody wrote to the granule meanwhile.
Lock == INSTANCE SpinLock WITH
  Cores <- Core,
  lock  <- mem["lock"],
  watch <- watch,
  at    <- [c \in Core |-> LockPlace(c)]
ImplementsSpinLock == Lock!Spec

\* So only one core at a time is between spin_lock and spin_unlock, and prints.
Printing(c) == core[c].pc \in DOMAIN printing \cup DOMAIN spin_unlock
MutualExclusion == ~(Printing(0) /\ Printing(1))

\* amoadd loses no count although read and write are two accesses on the bus,
\* and an error in either leaves the counter alone.
Counted(c) == CASE Place(c) = "count2" -> 1 [] Place(c) = "done" -> 2 [] OTHER -> 0
CountExact == flavour = "add" => mem["count"] = Counted(0) + Counted(1)

\* When neorv32_smp_launch has returned 0, core 1 has left its sleep for the
\* second time, with the stack and the entry point it was to be given.
Launched == core[0].pc \notin DOMAIN smp_boot \cup {"failed"}
LaunchTruthful ==
  Launched => /\ boot = [sp |-> STACK, entry |-> MAIN]
              /\ Place(1) \notin DOMAIN smp_wakeup \cup {"sleep"}

\* Every access of a core is answered, whatever the other core and the DMA do.
AccessEnds ==
  \A c \in Core : (core[c].phase = "strobe") ~> (core[c].phase \in {"exec", "trap"})

\* With the swap lock both cores get their turn and return, unless a bus error
\* or the launch stops one.
Stopped == core[0].pc = "failed" \/ \E c \in Core : core[c].phase = "trap"
BothReturn == (flavour = "swap") ~> (Stopped \/ \A c \in Core : core[c].pc = "done")

\* Load-reserved and store-conditional are free of starvation: a core that
\* tries to leave its critical section, with nobody else inside, gets out.
NoStarvation ==
  \A c \in Core : (core[c].pc = "unlock_lr") ~> (core[c].pc \notin DOMAIN spin_unlock)
=============================================================================
