------------------------------- MODULE DmaDriver -------------------------------
(* An application that drives the DMA with the functions of neorv32_dma.c,   *)
(* the controller and a memory of any speed.  A call is its sequence of      *)
(* register accesses; any number of cycles passes between two of them.       *)
EXTENDS Dma, Sequences, FiniteSetsExt

CONSTANTS
  MEM_BYTES,   \* bytes of memory; an access behind them is a bus error
  Descriptors, \* the transfers: [src, dst, conf]
  Habits,      \* "chain": the application programs while the DMA is running
  MaxPrograms  \* bound: descriptors the application programs

VARIABLES
  cpu,       \* the call under way: [call, desc, at, phase, got]
  app,       \* what the application is about
  answer,    \* what the last call told it
  mem, clk, programs,
  \* history
  pending,   \* descriptors programmed and not fetched
  cur,       \* the one being executed: [desc, before, moved]
  cut,       \* the DMA was disabled while it fetched a descriptor
  late       \* elements written since the DMA was disabled

hist == <<pending, cur, cut, late>>
vars == <<dmaVars, cpu, app, answer, mem, clk, programs, hist>>

NoConf == [num |-> 0, bswap |-> FALSE, src |-> "CONST_BYTE", dst |-> "CONST_BYTE"]
NoDesc == [src |-> 0, dst |-> 0, conf |-> NoConf]
NoWord == [addr |-> MEM_BYTES, conf |-> NoConf]
AddrWord(a) == [NoWord EXCEPT !.addr = a]
ConfWord(c) == [NoWord EXCEPT !.conf = c]

-----------------------------------------------------------------------------
(* What a transfer is to do: the reference, element by element. *)

ElementSrc(d, i) == d.src + i * Increment(d.conf.src)
ElementDst(d, i) == d.dst + i * Increment(d.conf.dst)

\* Element i of d reaches no memory.
Fails(d, i) == ElementSrc(d, i) >= MEM_BYTES \/ ElementDst(d, i) >= MEM_BYTES

\* Swapping the byte order mirrors the bytes of a word.
Mirrored(d, a) == IF d.conf.bswap THEN (a \div 4) * 4 + 3 - (a % 4) ELSE a
Targets(d, i) ==
  LET a == ElementDst(d, i)
  IN IF d.conf.dst \in InByte THEN {Mirrored(d, a)} ELSE {(a \div 4) * 4 + l : l \in Lane}

\* What element i of d puts at address a, as the manual has it: a byte that is
\* written to a word is extended with zeros.
ElementByte(m, d, i, a) ==
  LET s    == ElementSrc(d, i)
      lane == Mirrored(d, a) % 4
  IN IF d.conf.src \notin InByte THEN m[(s \div 4) * 4 + lane]
     ELSE IF d.conf.dst \in InByte \/ lane = 0 THEN m[s] ELSE 0

\* Memory m after the first n elements of d.
Copied(m, d, n) ==
  [a \in DOMAIN m |->
     LET writers == {i \in 0..n - 1 : a \in Targets(d, i)}
     IN IF writers = {} THEN m[a] ELSE ElementByte(m, d, Max(writers), a)]

ASSUME DescriptorAssumption ==
  /\ MEM_BYTES \in Nat /\ MEM_BYTES % 4 = 0
  /\ Descriptors \subseteq
       [src : Nat, dst : Nat, conf : [num : 1..NUM_MOD - 1, bswap : BOOLEAN, src : Type, dst : Type]]

\* No transfer reads what it writes.
ASSUME DriverAssumption ==
  \A d \in Descriptors : \A i, j \in 0..d.conf.num - 1 :
    \A a \in Targets(d, i) : a \div 4 # ElementSrc(d, j) \div 4

-----------------------------------------------------------------------------
Ready == [call |-> "none", desc |-> NoDesc, at |-> 0, phase |-> "ready", got |-> FALSE]

Init ==
  /\ DmaInit
  /\ cpu = Ready /\ app = "off" /\ answer = "none"
  /\ mem = [a \in 0..MEM_BYTES - 1 |-> a] /\ clk = 0 /\ programs = 0
  /\ pending = <<>> /\ cur = [desc |-> NoDesc, before |-> mem, moved |-> 0]
  /\ cut = FALSE /\ late = 0

(* The memory answers a request of the engine in any later cycle. *)

NoRsp == [ack |-> FALSE, err |-> FALSE, data |-> data_buf]
MemoryAnswer ==
  LET word == bus_control.addr * 4
  IN [ack |-> TRUE, err |-> word >= MEM_BYTES,
      data |-> [l \in Lane |-> IF word >= MEM_BYTES THEN 0 ELSE mem[word + l]]]
Responses == {NoRsp} \cup IF engine.state \in Waiting THEN {MemoryAnswer} ELSE {}

Stores(rsp) == engine.state = "S_WRITE_RSP" /\ rsp.ack /\ ~rsp.err
MemoryEdge(rsp) ==
  mem' = IF ~Stores(rsp) THEN mem
         ELSE LET req == bus_control
              IN [a \in DOMAIN mem |->
                    IF a \div 4 = req.addr /\ a % 4 \in req.ben THEN req.data[a % 4] ELSE mem[a]]

\* A descriptor is whole when its last word is pushed; the engine takes it
\* when it has its last word.
HistoryEdge(req, rsp) ==
  /\ pending' =
       IF ~ctrl.enable /\ engine.state \notin Fetch THEN <<>>
       ELSE (IF engine.state = "S_GET_3" /\ pending # <<>> THEN Tail(pending) ELSE pending)
            \o (IF req.op = "desc" /\ req.word.conf # NoConf /\ ~Full THEN <<cpu.desc>> ELSE <<>>)
  /\ cur' = CASE engine.state = "S_GET_3" ->
                   [desc |-> IF pending = <<>> THEN NoDesc ELSE Head(pending),
                    before |-> mem, moved |-> 0]
              [] app = "off" -> [desc |-> NoDesc, before |-> mem, moved |-> 0]
              [] Stores(rsp) -> [cur EXCEPT !.moved = @ + 1]
              [] OTHER -> cur
  /\ cut'  = (app # "off" /\ (cut \/ (~ctrl.enable /\ engine.state \in Fetch)))
  /\ late' = IF ctrl.enable THEN 0 ELSE IF Stores(rsp) THEN late + 1 ELSE late

\* A cycle in which the CPU makes the access req.
Cycle(req) ==
  /\ clk' = 1 - clk
  /\ \E rsp \in Responses :
       DmaEdge(req, rsp) /\ MemoryEdge(rsp) /\ HistoryEdge(req, rsp)

-----------------------------------------------------------------------------
(* The calls.  Each setter reads the control register and writes it back     *)
(* with a bit set or cleared.                                                *)

\* The access of the call under way that comes next.
Access ==
  LET WithBits(start, ack) == WriteCtrl(cpu.got, start, ack)
      word == <<AddrWord(cpu.desc.src), AddrWord(cpu.desc.dst), ConfWord(cpu.desc.conf)>>
  IN CASE cpu.call = "enable"  -> WriteCtrl(TRUE, FALSE, FALSE)
       [] cpu.call = "disable" -> WriteCtrl(FALSE, FALSE, FALSE)
       [] cpu.call = "start"   -> WithBits(TRUE, FALSE)
       [] cpu.call = "irq_ack" -> WithBits(FALSE, TRUE)
       [] cpu.call = "program" -> IF cpu.at % 2 = 0 THEN ReadCtrl ELSE PushDesc(word[(cpu.at + 1) \div 2])
       [] cpu.call = "program_nocheck" -> PushDesc(word[cpu.at + 1])

Accesses == [enable |-> 2, disable |-> 2, start |-> 2, irq_ack |-> 2, status |-> 1,
             program |-> 6, program_nocheck |-> 3]

\* Mutant: DONE is looked at before BUSY and ERROR.
status_doneFirst(v) ==
  IF v.done THEN "DONE" ELSE IF v.err THEN "ERROR" ELSE IF v.busy THEN "BUSY" ELSE "IDLE"

neorv32_dma_status(v) ==
  IF v.err THEN "ERROR" ELSE IF v.busy THEN "BUSY" ELSE IF v.done THEN "DONE" ELSE "IDLE"

\* The application calls f; its first access is issued at once.
Call(f, d, req) ==
  /\ cpu.phase = "ready"
  /\ cpu' = [call |-> f, desc |-> d, at |-> 1, phase |-> "rsp", got |-> cpu.got]
  /\ answer' = "none" /\ Cycle(req)

Enable ==
  app = "off" /\ Call("enable", NoDesc, ReadCtrl) /\ UNCHANGED <<app, programs>>
Program(d) ==
  /\ app = "setup" \/ (app = "started" /\ "chain" \in Habits)
  /\ programs < MaxPrograms /\ programs' = programs + 1
  /\ \/ Call("program", d, ReadCtrl)
     \/ /\ 3 * (Len(pending) + 1) <= FIFO_DEPTH
        /\ Call("program_nocheck", d, PushDesc(AddrWord(d.src)))
  /\ UNCHANGED app
Start ==
  /\ app = "setup" /\ pending # <<>>
  /\ Call("start", NoDesc, ReadCtrl) /\ UNCHANGED <<app, programs>>
Status ==
  app \in {"started", "stopping"} /\ Call("status", NoDesc, ReadCtrl) /\ UNCHANGED <<app, programs>>
Disable ==
  /\ app \in {"setup", "started", "sleeping", "full"}
  /\ Call("disable", NoDesc, ReadCtrl) /\ UNCHANGED <<app, programs>>

\* The interrupt wakes the application; its handler acknowledges.
Interrupt ==
  /\ app = "sleeping" /\ ctrl.done
  /\ cpu.phase = "ready" /\ cpu' = [Ready EXCEPT !.call = "irq_ack", !.at = 1, !.phase = "rsp"]
  /\ answer' = IF ctrl.err THEN "ERROR" ELSE "DONE"
  /\ Cycle(ReadCtrl) /\ UNCHANGED <<app, programs>>

\* After an error or the end the application may clear the flags.
IrqAck ==
  app = "setup" /\ answer \in {"DONE", "ERROR"} /\ Call("irq_ack", NoDesc, ReadCtrl) /\ UNCHANGED <<app, programs>>

\* The next access of the call.
Issue ==
  /\ cpu.phase = "next"
  /\ cpu' = [cpu EXCEPT !.at = @ + 1, !.phase = "rsp"]
  /\ Cycle(Access) /\ UNCHANGED <<app, answer, programs>>

\* What the application does when its call returns.
Returns ==
  CASE cpu.call = "enable"  -> {"setup"}
    [] cpu.call = "disable" -> {"stopping"}
    [] cpu.call = "start"   -> {"started", "sleeping"}
    [] cpu.call = "irq_ack" -> {"setup"}
    [] cpu.call \in {"program", "program_nocheck"} -> {app}
    [] cpu.call = "status" ->
         LET s == neorv32_dma_status(CtrlValue)
         IN CASE app = "started"  /\ s \in {"DONE", "ERROR"} -> {"setup"}
              [] app = "stopping" /\ s # "BUSY" -> {"off"}
              [] OTHER -> {app}

\* The response to the access: the program goes on, finds the FIFO full, or
\* the call is over.
Respond ==
  /\ cpu.phase = "rsp"
  /\ LET full == cpu.call = "program" /\ cpu.at % 2 = 1 /\ CtrlValue.full
         over == cpu.at = Accesses[cpu.call]
     IN \/ ~full /\ ~over /\ cpu' = [cpu EXCEPT !.phase = "next", !.got = CtrlValue.enable]
           /\ UNCHANGED <<app, answer>>
        \/ full /\ cpu' = Ready /\ app' = "full" /\ answer' = "FULL"
        \/ ~full /\ over /\ cpu' = Ready /\ app' \in Returns
           /\ answer' = IF cpu.call = "status" THEN neorv32_dma_status(CtrlValue) ELSE answer
  /\ Cycle(NoReq) /\ UNCHANGED programs

\* The CPU makes no access.
Pause == cpu.phase # "rsp" /\ Cycle(NoReq) /\ UNCHANGED <<cpu, app, answer, programs>>

Next ==
  \/ Enable \/ (\E d \in Descriptors : Program(d)) \/ Start \/ Status \/ Disable
  \/ Interrupt \/ IrqAck \/ Issue \/ Respond \/ Pause

Spec == Init /\ [][Next]_vars

\* The clock runs, the memory answers every request (at the latest the bus
\* monitor does), a call is carried through, an application that waits polls,
\* and the interrupt is taken.
FairSpec ==
  /\ Spec /\ WF_clk(clk' = 1 - clk)
  /\ []<>(engine.state \notin Waiting)
  /\ []<>(cpu.phase = "rsp" \/ (cpu.phase = "ready" /\ app \notin {"started", "stopping"}
                                /\ ~(app = "sleeping" /\ ctrl.done)))

-----------------------------------------------------------------------------
(* Properties. *)

\* Every register holds a value of its type.
TypeOK ==
  /\ ctrl \in [{"enable", "start", "err", "done"} -> BOOLEAN]
  /\ DOMAIN fifo = {"mem", "w_pnt", "r_pnt", "avail", "rdata"}
  /\ fifo.w_pnt \in 0..2 * FIFO_DEPTH - 1 /\ fifo.r_pnt \in 0..2 * FIFO_DEPTH - 1
  /\ engine.num \in 0..NUM_MOD - 1 /\ engine.src_type \in Type /\ engine.dst_type \in Type
  /\ engine.state \in Fetch \cup Waiting \cup {"S_CHECK", "S_GET_3", "S_READ_REQ", "S_WRITE_REQ"}
  /\ app \in {"off", "setup", "full", "started", "sleeping", "stopping"}
  /\ answer \in {"none", "FULL", "IDLE", "BUSY", "DONE", "ERROR"}
  /\ cpu.phase \in {"ready", "next", "rsp"} /\ pending \in Seq(Descriptors)

\* The engine executes the descriptors that were programmed, in their order:
\* when it starts to transfer, its registers hold the oldest one.
FetchesDescriptors ==
  EngineFetches /\ ~cut =>
    /\ cur.desc # NoDesc
    /\ cur.desc = [src  |-> engine.src_addr, dst |-> engine.dst_addr,
                   conf |-> [num |-> engine.num, bswap |-> engine.bswap,
                             src |-> engine.src_type, dst |-> engine.dst_type]]

\* A transfer changes memory as its descriptor says, element by element, and
\* nothing else, whether it ends, fails or is aborted; as long as no descriptor
\* writes bytes to words, which the engine does not extend with zeros.
CopiesExact == ~cut => mem = Copied(cur.before, cur.desc, cur.moved)

\* When the status is DONE, or the interrupt came without an error, every
\* descriptor was executed to its last element; when it is ERROR, the last one
\* stopped at an element that reaches no memory.
AnswersTrue ==
  /\ answer = "DONE" /\ app # "stopping" => pending = <<>> /\ cur.moved = cur.desc.conf.num
  /\ answer = "ERROR" => cur.moved < cur.desc.conf.num /\ Fails(cur.desc, cur.moved)

\* At most one element is written after the DMA was disabled.
AbortPrompt == late <= 1

\* A started or disabled DMA comes to its end and the application sees it,
\* unless it was disabled while it fetched a descriptor.
TransfersEnd ==
  app \in {"started", "sleeping", "stopping"}
    ~> app \notin {"started", "sleeping", "stopping"} \/ cut
=============================================================================
