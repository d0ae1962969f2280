--------------------------- MODULE DmaDriver_proofs ---------------------------
(* Why a disabled DMA writes at most one more element, whatever its FIFO     *)
(* size, its descriptors and the habits of the application; and, if that     *)
(* programs only while the DMA is idle, why the engine takes the descriptors *)
(* in their order, copies exactly what they say and reports it truly.        *)
EXTENDS DmaDriver, TLAPS

\* Once an element was written with the DMA disabled, the engine is between
\* transfers: the FIFO has been cleared, so it may at most begin to fetch,
\* with `avail` low before it gets to the first word.
Stopped ==
  /\ Empty
  /\ \/ engine.state = "S_CHECK"
     \/ engine.state \in {"S_GET_0", "S_GET_1"} /\ ~fifo.avail

AbortInv ==
  /\ "state" \in DOMAIN engine
  /\ late \in {0, 1}
  /\ late = 1 => Stopped

LEMMA InitAbort == Init => AbortInv
  BY DEF Init, DmaInit, AbortInv

\* Disabled, the FIFO clears its pointers in every cycle.
LEMMA DisabledClears ==
  ASSUME NEW req, descriptor_buffer(req), ~ctrl.enable
  PROVE  Empty' /\ fifo'.avail = ~Empty
  BY DEF descriptor_buffer, Empty

\* The engine goes on in a record.
LEMMA EngineKeeps ==
  ASSUME NEW rsp, bus_engine(rsp), "state" \in DOMAIN engine
  PROVE  "state" \in DOMAIN engine'
  BY DEF bus_engine, Idle, NextDescriptor, Get0, Get1, Get2, Get3, ReadReq, ReadRsp, WriteReq, WriteRsp

\* A write that is answered while the DMA is disabled ends the transfer.
LEMMA StoreStops ==
  ASSUME NEW rsp, bus_engine(rsp), "state" \in DOMAIN engine, ~ctrl.enable, Stores(rsp)
  PROVE  engine'.state = "S_CHECK"
<1>1. engine.state = "S_WRITE_RSP" /\ rsp.ack
  BY DEF Stores
<1>2. WriteRsp(rsp)
  BY <1>1 DEF bus_engine, Idle, NextDescriptor, Get0, Get1, Get2, Get3, ReadReq, ReadRsp, WriteReq
<1> QED BY <1>1, <1>2 DEF WriteRsp

\* A stopped engine whose FIFO stays empty never leaves the first word.
LEMMA StoppedStays ==
  ASSUME NEW req, NEW rsp, descriptor_buffer(req), bus_engine(rsp),
         "state" \in DOMAIN engine, ~ctrl.enable, Stopped
  PROVE  Stopped' /\ ~Stores(rsp)
<1>1. Empty' /\ ~fifo'.avail
  BY DisabledClears DEF Stopped
<1>2. CASE engine.state = "S_CHECK"
  <2>1. Idle \/ NextDescriptor
    BY <1>2 DEF bus_engine, Get0, Get1, Get2, Get3, ReadReq, ReadRsp, WriteReq, WriteRsp
  <2>2. engine'.state \in {"S_CHECK", "S_GET_0"}
    BY <2>1 DEF Idle, NextDescriptor
  <2> QED BY <1>1, <1>2, <2>2 DEF Stopped, Stores
<1>3. CASE engine.state = "S_GET_0" /\ ~fifo.avail
  <2>1. Get0
    BY <1>3 DEF bus_engine, Idle, NextDescriptor, Get1, Get2, Get3, ReadReq, ReadRsp, WriteReq, WriteRsp
  <2> QED BY <1>1, <1>3, <2>1 DEF Get0, Stopped, Stores
<1>4. CASE engine.state = "S_GET_1" /\ ~fifo.avail
  <2>1. Get1
    BY <1>4 DEF bus_engine, Idle, NextDescriptor, Get0, Get2, Get3, ReadReq, ReadRsp, WriteReq, WriteRsp
  <2>2. engine'.state = "S_GET_1"
    BY <1>4, <2>1 DEF Get1
  <2> QED BY <1>1, <1>4, <2>2 DEF Stopped, Stores
<1> QED BY <1>2, <1>3, <1>4 DEF Stopped

LEMMA CycleAbort ==
  ASSUME NEW req, AbortInv, Cycle(req)
  PROVE  AbortInv'
<1>1. PICK rsp \in Responses : DmaEdge(req, rsp) /\ HistoryEdge(req, rsp)
  BY DEF Cycle
<1>2. descriptor_buffer(req) /\ bus_engine(rsp)
  BY <1>1 DEF DmaEdge
<1>3. late' = IF ctrl.enable THEN 0 ELSE IF Stores(rsp) THEN late + 1 ELSE late
  BY <1>1 DEF HistoryEdge
<1>4. "state" \in DOMAIN engine'
  BY <1>2, EngineKeeps DEF AbortInv
<1>5. CASE ctrl.enable
  BY <1>3, <1>4, <1>5 DEF AbortInv
<1>6. CASE ~ctrl.enable /\ late = 1
  <2>1. Stopped' /\ ~Stores(rsp)
    BY <1>2, <1>6, StoppedStays DEF AbortInv
  <2> QED BY <1>3, <1>4, <1>6, <2>1 DEF AbortInv
<1>7. CASE ~ctrl.enable /\ late = 0 /\ Stores(rsp)
  <2>1. Empty' /\ engine'.state = "S_CHECK"
    BY <1>2, <1>7, DisabledClears, StoreStops DEF AbortInv
  <2> QED BY <1>3, <1>4, <1>7, <2>1 DEF AbortInv, Stopped
<1>8. CASE ~ctrl.enable /\ late = 0 /\ ~Stores(rsp)
  BY <1>3, <1>4, <1>8 DEF AbortInv
<1> QED BY <1>5, <1>6, <1>7, <1>8 DEF AbortInv

\* In every step of the system one clock cycle goes by.
LEMMA StepIsCycle ==
  ASSUME Next
  PROVE  \E req : Cycle(req)
  BY DEF Next, Enable, Program, Start, Status, Disable, Interrupt, IrqAck, Issue, Respond, Pause, Call

\* In every reachable state at most one element was written since the DMA was
\* disabled (neorv32_dma.vhd:310), for any FIFO and any programs.
THEOREM DmaAbortPrompt == Spec => []AbortPrompt
<1>1. AbortInv /\ [Next]_vars => AbortInv'
  <2> SUFFICES ASSUME AbortInv, [Next]_vars PROVE AbortInv'
    OBVIOUS
  <2>1. CASE Next
    BY <2>1, StepIsCycle, CycleAbort
  <2>2. CASE UNCHANGED vars
    BY <2>2 DEF vars, dmaVars, hist, AbortInv, Stopped, Empty
  <2> QED BY <2>1, <2>2
<1>2. AbortInv => AbortPrompt
  BY DEF AbortInv, AbortPrompt
<1> QED BY <1>1, <1>2, InitAbort, PTL DEF Spec
-----------------------------------------------------------------------------
(* The application and the flags. *)

CpuSide ==
  /\ DOMAIN cpu = {"call", "desc", "at", "phase", "got"}
  /\ \/ cpu.phase = "ready" /\ cpu.call = "none" /\ cpu.at = 0
     \/ /\ cpu.phase \in {"next", "rsp"} /\ cpu.call \in DOMAIN Accesses
        /\ cpu.at \in 1..Accesses[cpu.call]
        /\ cpu.phase = "next" => cpu.at < Accesses[cpu.call]
  /\ app \in {"off", "setup", "full", "started", "sleeping", "stopping"}
  /\ app = "off" <=> cpu.call = "enable" \/ (app = "off" /\ cpu.phase = "ready")
  /\ cpu.call \in {"start", "program", "program_nocheck"} => app = "setup"
  /\ cpu.call = "disable" => app \in {"setup", "started", "sleeping", "full"}
  /\ cpu.call = "irq_ack" => app \in {"setup", "sleeping"}
  /\ cpu.call = "status" => app \in {"started", "stopping"}
  /\ cpu.call \in {"program", "program_nocheck"} => cpu.desc \in Descriptors

\* The driver's setters keep the enable bit; start is a pulse.
EnableSide ==
  /\ ctrl.enable <=>
       \/ app \in {"setup", "started", "sleeping", "full"} /\ ~(cpu.call = "disable" /\ cpu.at = 2)
       \/ cpu.call = "enable" /\ cpu.at = 2
  /\ cpu.call \in {"start", "irq_ack"} /\ cpu.phase = "next" => cpu.got
  /\ ctrl.start => cpu.call = "start" /\ cpu.at = 2
  /\ cpu.call = "start" /\ cpu.at = 2 => ~ctrl.err /\ ~ctrl.done
  /\ app = "stopping" => ~ctrl.err /\ ~ctrl.done

\* The engine runs only between a start and the answer that ends it.
IdleSide ==
  /\ ~engine.run => engine.state = "S_CHECK"
  /\ app \in {"off", "setup", "full"} \/ cpu.call = "irq_ack" => ~engine.run /\ ~engine.done
  /\ engine.done => ~engine.run
  /\ engine.err => engine.run /\ engine.state = "S_CHECK"
  /\ app \in {"off", "stopping"} => Empty
  /\ cut => app = "stopping" \/ (app = "off" /\ cpu.phase = "ready")

\* How the last transfer ended.
Finished == pending = <<>> /\ cur.moved = cur.desc.conf.num
Failed   == cur.moved < cur.desc.conf.num /\ Fails(cur.desc, cur.moved)

FlagSide ==
  ctrl.enable =>
    /\ engine.run => ~ctrl.err /\ ~ctrl.done
    /\ engine.done => ~ctrl.done
    /\ app \in {"started", "sleeping"} /\ (ctrl.done \/ engine.done \/ ctrl.err) =>
         ~engine.run /\ (IF ctrl.err THEN Failed ELSE Finished)

AnswerSide ==
  /\ answer \in {"DONE", "ERROR"} => (app = "setup" /\ cpu.call = "none") \/ cpu.call = "irq_ack"
  /\ answer = "DONE" => Finished
  /\ answer = "ERROR" => Failed

-----------------------------------------------------------------------------
(* The FIFO. *)

\* The words of a descriptor.
Word(d, k) == IF k = 0 THEN AddrWord(d.src) ELSE IF k = 1 THEN AddrWord(d.dst) ELSE ConfWord(d.conf)

\* How many words of the next descriptor are in, of the oldest one out.
PushedWords ==
  IF cpu.call = "program" THEN (cpu.at \div 2) % 3
  ELSE IF cpu.call = "program_nocheck" THEN cpu.at % 3 ELSE 0
FetchedWords ==
  CASE engine.state = "S_GET_1" -> 1 [] engine.state = "S_GET_2" -> 2 [] engine.state = "S_GET_3" -> 3
    [] OTHER -> 0
Level == 3 * Len(pending) + PushedWords - FetchedWords

\* From pointer r on the FIFO holds the words of the descriptors p but the
\* first f; and n words of d.
Waits(m, r, p, f) ==
  \A q \in 1..Len(p), k \in 0..2 : 3 * (q - 1) + k >= f => m[Slot(r + (3 * (q - 1) + k - f))] = Word(p[q], k)
Begun(m, r, d, n) == \A k \in 0..2 : k < n => m[Slot(r + k)] = Word(d, k)

FifoRegs ==
  /\ DOMAIN fifo = {"mem", "w_pnt", "r_pnt", "avail", "rdata"} /\ DOMAIN fifo.mem = 0..FIFO_DEPTH - 1
  /\ fifo.w_pnt \in 0..2 * FIFO_DEPTH - 1 /\ fifo.r_pnt \in 0..2 * FIFO_DEPTH - 1

FifoSide ==
  ctrl.enable /\ app # "full" =>
    /\ Level \in 0..FIFO_DEPTH /\ fifo.w_pnt = (fifo.r_pnt + Level) % (2 * FIFO_DEPTH)
    /\ Waits(fifo.mem, fifo.r_pnt, pending, FetchedWords)
    /\ Begun(fifo.mem, fifo.r_pnt + 3 * Len(pending), cpu.desc, PushedWords)
    /\ cpu.call = "program" /\ cpu.at \in {1, 3, 5} /\ cpu.phase = "next" => Level < FIFO_DEPTH
    /\ cpu.call = "program_nocheck" /\ cpu.at < 3 => 3 * (Len(pending) + 1) <= FIFO_DEPTH
    /\ fifo.avail /\ ~engine.run => Level > 0
    /\ engine.run /\ engine.state \notin Fetch \cup {"S_GET_3"} => (fifo.avail <=> Level > 0)

\* A descriptor on its way from the FIFO to the engine.
FetchSide ==
  /\ engine.state \in Fetch \cup {"S_GET_3"} => ~engine.num_or
  /\ ~cut =>
       /\ (engine.state = "S_GET_0" /\ ctrl.enable) \/ engine.state \in {"S_GET_1", "S_GET_2", "S_GET_3"} =>
            pending # <<>>
       /\ engine.state = "S_GET_1" => fifo.avail /\ fifo.rdata = Word(Head(pending), 0)
       /\ engine.state = "S_GET_2" => fifo.avail /\ fifo.rdata = Word(Head(pending), 1)
                                        /\ engine.src_addr = Head(pending).src
       /\ engine.state = "S_GET_3" => /\ fifo.rdata = Word(Head(pending), 2)
                                      /\ engine.src_addr = Head(pending).src
                                      /\ engine.dst_addr = Head(pending).dst

-----------------------------------------------------------------------------
(* The transfer. *)

\* What the engine holds of the word that contains address s.
Loaded(s) ==
  [l \in Lane |-> IF engine.src_type \in InByte THEN cur.before[s] ELSE cur.before[(s \div 4) * 4 + l]]

Transferring == engine.state \in {"S_READ_REQ", "S_READ_RSP", "S_WRITE_REQ", "S_WRITE_RSP"}

TransferSide ==
  ~cut /\ Transferring =>
    LET d == cur.desc
        m == cur.moved
        c == d.conf
        s == engine.state
    IN /\ d \in Descriptors /\ m \in 0..c.num - 1
       /\ engine.bswap = c.bswap /\ engine.src_type = c.src /\ engine.dst_type = c.dst
       /\ engine.num = IF s = "S_READ_REQ" THEN c.num - m ELSE c.num - m - 1
       /\ engine.num_or <=> IF s = "S_WRITE_RSP" THEN m + 1 < c.num ELSE m > 0
       /\ engine.src_addr = ElementSrc(d, IF s = "S_WRITE_RSP" THEN m + 1 ELSE m)
       /\ engine.dst_addr = ElementDst(d, IF s = "S_READ_REQ" /\ m > 0 THEN m - 1 ELSE m)
       /\ s \in {"S_WRITE_REQ", "S_WRITE_RSP"} =>
            ElementSrc(d, m) < MEM_BYTES /\ data_buf = Loaded(ElementSrc(d, m))

\* After it.
EndSide ==
  ~cut /\ engine.state = "S_CHECK" /\ engine.run =>
    IF engine.err THEN Failed ELSE ctrl.enable => cur.moved = cur.desc.conf.num

\* What the engine puts at address a for element i of d: all bytes of a word
\* become the byte that was read.
MovedByte(m, d, i, a) ==
  LET s == ElementSrc(d, i)
  IN IF d.conf.src \in InByte THEN m[s] ELSE m[(s \div 4) * 4 + (Mirrored(d, a) % 4)]

\* Memory m after the engine has moved the first n elements of d.
Moved(m, d, n) ==
  [a \in DOMAIN m |->
     LET writers == {i \in 0..n - 1 : a \in Targets(d, i)}
     IN IF writers = {} THEN m[a] ELSE MovedByte(m, d, Max(writers), a)]

\* What it has done to memory.
MemSide ==
  /\ DOMAIN cur = {"desc", "before", "moved"}
  /\ mem = [a \in 0..MEM_BYTES - 1 |-> mem[a]]
  /\ ~cut => /\ mem = Moved(cur.before, cur.desc, cur.moved) /\ DOMAIN cur.before = 0..MEM_BYTES - 1
             /\ cur.moved = 0 \/ (cur.moved \in Nat /\ cur.desc \in Descriptors)

\* The engine's registers.
EngineRegs == {"state", "run", "done", "err", "src_addr", "dst_addr", "num", "num_or", "bswap", "src_type", "dst_type"}

DriverInv ==
  /\ DOMAIN engine = EngineRegs /\ pending \in Seq(Descriptors)
  /\ CpuSide /\ EnableSide /\ IdleSide /\ FlagSide /\ AnswerSide
  /\ FifoRegs /\ FifoSide /\ FetchSide /\ TransferSide /\ EndSide /\ MemSide
-----------------------------------------------------------------------------
(* One clock edge of the controller. *)

\* The registers after it, as conditions.
LEMMA CtrlStep ==
  ASSUME NEW req, ctrl_write(req)
  PROVE  /\ ctrl'.enable <=> IF req.op = "write" THEN req.en ELSE ctrl.enable
         /\ ctrl'.start <=> req.op = "write" /\ req.start
         /\ ctrl'.err <=> /\ ctrl.enable /\ ~(req.op = "write" /\ (req.start \/ req.ack))
                          /\ ctrl.err \/ engine.err
         /\ ctrl'.done <=> /\ ctrl.enable /\ ~(req.op = "write" /\ (req.start \/ req.ack))
                           /\ ctrl.done \/ engine.done
  BY DEF ctrl_write

\* The actions of the engine are its states.
LEMMA EngineCase ==
  ASSUME NEW rsp, bus_engine(rsp)
  PROVE  /\ engine.state = "S_CHECK" => IF engine.run THEN NextDescriptor ELSE Idle
         /\ engine.state = "S_GET_0" => Get0
         /\ engine.state = "S_GET_1" => Get1
         /\ engine.state = "S_GET_2" => Get2
         /\ engine.state = "S_GET_3" => Get3
         /\ engine.state = "S_READ_REQ" => ReadReq
         /\ engine.state = "S_READ_RSP" => ReadRsp(rsp)
         /\ engine.state = "S_WRITE_REQ" => WriteReq
         /\ engine.state = "S_WRITE_RSP" => WriteRsp(rsp)
         /\ engine.state \in {"S_CHECK", "S_GET_0", "S_GET_1", "S_GET_2", "S_GET_3", "S_READ_REQ",
                              "S_READ_RSP", "S_WRITE_REQ", "S_WRITE_RSP"}
  BY DEF bus_engine, Idle, NextDescriptor, Get0, Get1, Get2, Get3, ReadReq, ReadRsp, WriteReq, WriteRsp

\* When it begins and ends to run, and where it goes.
LEMMA EngineRuns ==
  ASSUME NEW rsp, bus_engine(rsp), DOMAIN engine = EngineRegs
  PROVE  /\ DOMAIN engine' = EngineRegs
         /\ engine.state = "S_CHECK" =>
              /\ engine'.run <=> /\ fifo.avail /\ ~ctrl.err
                                 /\ IF engine.run THEN ~engine.err ELSE ctrl.start
              /\ engine'.done <=> engine.run /\ ~engine'.run
              /\ ~engine'.err
              /\ engine'.state = IF engine'.run THEN "S_GET_0" ELSE "S_CHECK"
         /\ engine.state # "S_CHECK" =>
              /\ (engine'.run <=> engine.run) /\ (engine'.done <=> engine.done)
              /\ ~engine.err /\ engine'.err =>
                   engine'.state = "S_CHECK" /\ engine.state \in Waiting /\ rsp.ack /\ rsp.err
<1> USE DEF EngineRegs
<1>1. CASE engine.state = "S_CHECK" /\ engine.run
  <2>1. NextDescriptor
    BY <1>1, EngineCase
  <2> QED BY <1>1, <2>1 DEF NextDescriptor
<1>2. CASE engine.state = "S_CHECK" /\ ~engine.run
  <2>1. Idle
    BY <1>2, EngineCase
  <2> QED BY <1>2, <2>1 DEF Idle
<1>3. CASE engine.state \in {"S_GET_0", "S_GET_1", "S_GET_2", "S_GET_3"}
  <2>1. Get0 \/ Get1 \/ Get2 \/ Get3
    BY <1>3, EngineCase
  <2> QED BY <1>3, <2>1 DEF Get0, Get1, Get2, Get3
<1>4. CASE engine.state \in {"S_READ_REQ", "S_WRITE_REQ"}
  <2>1. ReadReq \/ WriteReq
    BY <1>4, EngineCase
  <2> QED BY <1>4, <2>1 DEF ReadReq, WriteReq
<1>5. CASE engine.state \in {"S_READ_RSP", "S_WRITE_RSP"}
  <2>1. ReadRsp(rsp) \/ WriteRsp(rsp)
    BY <1>5, EngineCase
  <2> QED BY <1>5, <2>1 DEF ReadRsp, WriteRsp, Waiting
<1> QED BY <1>1, <1>2, <1>3, <1>4, <1>5, EngineCase
-----------------------------------------------------------------------------
(* What the application may do in a cycle, whatever its action. *)

\* It writes the control register: the second access of a setter.
Writes(req) ==
  /\ req.op = "write" /\ cpu.phase = "next" /\ cpu.at = 1 /\ cpu'.at = 2
  /\ cpu.call \in {"enable", "disable", "start", "irq_ack"}
  /\ cpu'.call = cpu.call /\ cpu'.phase = "rsp" /\ app' = app
  /\ req.en <=> cpu.call # "disable"
  /\ req.start <=> cpu.call = "start"
  /\ req.ack <=> cpu.call = "irq_ack"

\* It pushes word k of a descriptor.
Pushes(req, k) ==
  /\ app = "setup" /\ app' = "setup" /\ cpu'.desc \in Descriptors
  /\ req = PushDesc(Word(cpu'.desc, k)) /\ PushedWords = k /\ PushedWords' = (IF k = 2 THEN 0 ELSE k + 1)
  /\ k = 0 \/ cpu'.desc = cpu.desc
  /\ cpu.call \in {"none", "program", "program_nocheck"}
  /\ cpu'.call \in {"program", "program_nocheck"} /\ cpu'.phase = "rsp"
  /\ \/ cpu.call = "program" /\ cpu.at \in {1, 3, 5} /\ cpu.phase = "next"
     \/ 3 * (Len(pending) + 1) <= FIFO_DEPTH
     \/ cpu.call = "program_nocheck" /\ cpu.at < 3

\* It reads or makes no access.
Reads(req) ==
  /\ req.op \in {"none", "read"}
  /\ app' # "full" => PushedWords' = PushedWords /\ (PushedWords = 0 \/ cpu'.desc = cpu.desc)

\* What becomes of the application.
Returned ==
  /\ cpu.phase = "rsp" /\ cpu'.phase = "ready" /\ cpu'.call = "none"
  /\ \/ cpu.call = "enable" /\ cpu.at = 2 /\ app' = "setup"
     \/ cpu.call = "disable" /\ cpu.at = 2 /\ app' = "stopping"
     \/ cpu.call = "start" /\ cpu.at = 2 /\ app' \in {"started", "sleeping"}
     \/ cpu.call = "irq_ack" /\ cpu.at = 2 /\ app' = "setup"
     \/ cpu.call = "program" /\ app' = "full"
     \/ cpu.call = "status" /\ app = "started" /\ app' = "setup" /\ (ctrl.err \/ (~engine.run /\ ctrl.done))
     \/ cpu.call = "status" /\ app = "stopping" /\ app' = "off" /\ (ctrl.err \/ ~engine.run)
AppMoves(req) ==
  /\ app' = app \/ (Returned /\ req.op = "none")
  /\ cpu.call \in {"enable", "disable", "start"} /\ cpu.at = 2 => Returned
  /\ cpu'.call = "irq_ack" => cpu.call = "irq_ack" \/ app = "setup" \/ (app = "sleeping" /\ ctrl.done)
  /\ cpu'.call \in {"start", "irq_ack"} /\ cpu'.phase = "next" =>
       cpu.call = cpu'.call /\ ((cpu.phase = "next" /\ cpu'.got = cpu.got) \/ (cpu'.got <=> ctrl.enable))
  /\ cpu'.call \in {"enable", "disable", "start"} /\ cpu'.at = 2 => req.op = "write"
  /\ cpu'.call = "program" /\ cpu'.at \in {1, 3, 5} /\ cpu'.phase = "next" =>
       /\ cpu.call = "program" /\ cpu.at = cpu'.at /\ app' = app
       /\ cpu.phase = "next" \/ ~Full
  /\ cpu'.call = "program_nocheck" /\ cpu'.at < 3 =>
       3 * (Len(pending) + 1) <= FIFO_DEPTH \/ (cpu.call = "program_nocheck" /\ cpu.at < 3)

Moves(req) ==
  /\ Writes(req) \/ (\E k \in 0..2 : Pushes(req, k)) \/ Reads(req)
  /\ AppMoves(req)

Edge(req, rsp) == rsp \in Responses /\ DmaEdge(req, rsp) /\ MemoryEdge(rsp) /\ HistoryEdge(req, rsp)

\* How many accesses a call makes.
LEMMA Lengths ==
  /\ \A f : f \in DOMAIN Accesses <=> f \in {"enable", "disable", "start", "irq_ack", "status", "program", "program_nocheck"}
  /\ Accesses["enable"] = 2 /\ Accesses["disable"] = 2 /\ Accesses["start"] = 2 /\ Accesses["irq_ack"] = 2
  /\ Accesses["status"] = 1 /\ Accesses["program"] = 6 /\ Accesses["program_nocheck"] = 3
  BY DEF Accesses

\* The fields of a call that begins.
LEMMA CallFields ==
  ASSUME NEW f, NEW d, NEW req, Call(f, d, req)
  PROVE  /\ DOMAIN cpu' = {"call", "desc", "at", "phase", "got"}
         /\ cpu.phase = "ready" /\ cpu'.call = f /\ cpu'.desc = d /\ cpu'.at = 1 /\ cpu'.phase = "rsp"
         /\ answer' = "none"
  BY DEF Call

\* A call that begins.
LEMMA Begins ==
  ASSUME DriverInv, "chain" \notin Habits,
         Enable \/ (\E d \in Descriptors : Program(d)) \/ Start \/ Status \/ Disable \/ Interrupt \/ IrqAck
  PROVE  CpuSide' /\ \E req : Cycle(req) /\ Moves(req)
<1> USE DEF DriverInv
<1>0. cpu.phase = "ready" => cpu.call = "none"
  BY DEF CpuSide
<1>1. CASE Enable
  <2>1. Call("enable", NoDesc, ReadCtrl) /\ app = "off" /\ app' = app
    BY <1>1 DEF Enable
  <2>2. CpuSide'
    BY <2>1, CallFields, Lengths DEF CpuSide
  <2>3. Moves(ReadCtrl)
    BY <1>0, <2>1, CallFields DEF Moves, Reads, AppMoves, PushedWords, ReadCtrl
  <2> QED BY <2>1, <2>2, <2>3 DEF Call
<1>2. ASSUME NEW d \in Descriptors, Program(d) PROVE CpuSide' /\ \E req : Cycle(req) /\ Moves(req)
  <2>1. app = "setup" /\ app' = app
    BY <1>2 DEF Program
  <2>2. CASE Call("program", d, ReadCtrl)
    <3>1. CpuSide'
      BY <2>1, <2>2, CallFields, Lengths DEF CpuSide
    <3>2. Moves(ReadCtrl)
      BY <1>0, <2>1, <2>2, CallFields DEF Moves, Reads, AppMoves, PushedWords, ReadCtrl
    <3> QED BY <2>2, <3>1, <3>2 DEF Call
  <2>3. CASE 3 * (Len(pending) + 1) <= FIFO_DEPTH /\ Call("program_nocheck", d, PushDesc(AddrWord(d.src)))
    <3>1. CpuSide'
      BY <2>1, <2>3, CallFields, Lengths DEF CpuSide
    <3>2. Pushes(PushDesc(AddrWord(d.src)), 0)
      BY <1>0, <2>1, <2>3, CallFields DEF Pushes, PushedWords, Word
    <3>3. Moves(PushDesc(AddrWord(d.src)))
      BY <1>0, <2>1, <2>3, <3>2, CallFields DEF Moves, AppMoves
    <3> QED BY <2>3, <3>1, <3>3 DEF Call
  <2> QED BY <1>2, <2>2, <2>3 DEF Program
<1>3. CASE Start
  <2>1. Call("start", NoDesc, ReadCtrl) /\ app = "setup" /\ app' = app
    BY <1>3 DEF Start
  <2>2. CpuSide'
    BY <2>1, CallFields, Lengths DEF CpuSide
  <2>3. Moves(ReadCtrl)
    BY <1>0, <2>1, CallFields DEF Moves, Reads, AppMoves, PushedWords, ReadCtrl
  <2> QED BY <2>1, <2>2, <2>3 DEF Call
<1>4. CASE Status
  <2>1. Call("status", NoDesc, ReadCtrl) /\ app \in {"started", "stopping"} /\ app' = app
    BY <1>4 DEF Status
  <2>2. CpuSide'
    BY <2>1, CallFields, Lengths DEF CpuSide
  <2>3. Moves(ReadCtrl)
    BY <1>0, <2>1, CallFields DEF Moves, Reads, AppMoves, PushedWords, ReadCtrl
  <2> QED BY <2>1, <2>2, <2>3 DEF Call
<1>5. CASE Disable
  <2>1. Call("disable", NoDesc, ReadCtrl) /\ app \in {"setup", "started", "sleeping", "full"} /\ app' = app
    BY <1>5 DEF Disable
  <2>2. CpuSide'
    BY <2>1, CallFields, Lengths DEF CpuSide
  <2>3. Moves(ReadCtrl)
    BY <1>0, <2>1, CallFields DEF Moves, Reads, AppMoves, PushedWords, ReadCtrl
  <2> QED BY <2>1, <2>2, <2>3 DEF Call
<1>6. CASE Interrupt
  <2>1. /\ DOMAIN cpu' = {"call", "desc", "at", "phase", "got"}
        /\ cpu.phase = "ready" /\ cpu'.call = "irq_ack" /\ cpu'.at = 1 /\ cpu'.phase = "rsp"
        /\ app = "sleeping" /\ ctrl.done /\ app' = app /\ Cycle(ReadCtrl)
    BY <1>6 DEF Interrupt, Ready
  <2>2. CpuSide'
    BY <2>1, Lengths DEF CpuSide
  <2>3. Moves(ReadCtrl)
    BY <1>0, <2>1 DEF Moves, Reads, AppMoves, PushedWords, ReadCtrl
  <2> QED BY <2>1, <2>2, <2>3
<1>7. CASE IrqAck
  <2>1. Call("irq_ack", NoDesc, ReadCtrl) /\ app = "setup" /\ app' = app
    BY <1>7 DEF IrqAck
  <2>2. CpuSide'
    BY <2>1, CallFields, Lengths DEF CpuSide
  <2>3. Moves(ReadCtrl)
    BY <1>0, <2>1, CallFields DEF Moves, Reads, AppMoves, PushedWords, ReadCtrl
  <2> QED BY <2>1, <2>2, <2>3 DEF Call
<1> QED BY <1>1, <1>2, <1>3, <1>4, <1>5, <1>6, <1>7

\* The next access of the call under way.
LEMMA Issues ==
  ASSUME DriverInv, Issue
  PROVE  CpuSide' /\ \E req : Cycle(req) /\ Moves(req)
<1> USE DEF DriverInv
<1>1. /\ cpu.phase = "next" /\ Cycle(Access) /\ app' = app
      /\ DOMAIN cpu' = {"call", "desc", "at", "phase", "got"}
      /\ cpu'.call = cpu.call /\ cpu'.desc = cpu.desc /\ cpu'.at = cpu.at + 1 /\ cpu'.phase = "rsp"
      /\ cpu'.got = cpu.got
  BY DEF Issue, CpuSide
<1>2. /\ cpu.call \in {"enable", "disable", "start", "irq_ack", "status", "program", "program_nocheck"}
      /\ cpu.at \in 1..Accesses[cpu.call] /\ cpu.at < Accesses[cpu.call]
  BY <1>1, Lengths DEF CpuSide
<1>3. CpuSide'
  BY <1>1, <1>2, Lengths DEF CpuSide
<1>4. CASE cpu.call \in {"enable", "disable", "start", "irq_ack"}
  <2>1. cpu.at = 1
    BY <1>2, <1>4, Lengths
  <2>2. cpu.call \in {"start", "irq_ack"} => cpu.got
    BY <1>1 DEF EnableSide
  <2>3. /\ Access.op = "write"
        /\ Access.en <=> cpu.call # "disable"
        /\ Access.start <=> cpu.call = "start"
        /\ Access.ack <=> cpu.call = "irq_ack"
    BY <1>4, <2>2 DEF Access, WriteCtrl
  <2>4. Writes(Access)
    BY <1>1, <1>4, <2>1, <2>3 DEF Writes
  <2>5. AppMoves(Access)
    BY <1>1, <1>4, <2>1, <2>3 DEF AppMoves
  <2> QED BY <1>1, <1>3, <2>4, <2>5 DEF Moves
<1>5. CASE cpu.call = "program" /\ cpu.at \in {2, 4}
  <2>1. Access = ReadCtrl
    BY <1>5 DEF Access
  <2>2. Reads(Access)
    BY <1>1, <1>5, <2>1 DEF Reads, ReadCtrl, PushedWords
  <2>3. AppMoves(Access)
    BY <1>1, <1>5 DEF AppMoves
  <2> QED BY <1>1, <1>3, <2>2, <2>3 DEF Moves
<1>6. CASE cpu.call = "program" /\ cpu.at \in {1, 3, 5}
  <2>1. app = "setup" /\ cpu.desc \in Descriptors
    BY <1>6 DEF CpuSide
  <2> DEFINE k == (cpu.at - 1) \div 2
  <2>2. k \in 0..2 /\ (cpu.at = 2 * k + 1)
    BY <1>6
  <2>3. Access = PushDesc(Word(cpu'.desc, k))
    <3>1. cpu.at % 2 = 1 /\ (cpu.at + 1) \div 2 = k + 1
      BY <2>2
    <3>2. Access = PushDesc(<<AddrWord(cpu.desc.src), AddrWord(cpu.desc.dst), ConfWord(cpu.desc.conf)>>[k + 1])
      BY <1>6, <3>1 DEF Access
    <3> HIDE DEF k
    <3> QED BY <1>1, <2>2, <3>2 DEF Word
  <2>4. PushedWords = k /\ PushedWords' = IF k = 2 THEN 0 ELSE k + 1
    BY <1>1, <1>6 DEF PushedWords
  <2> HIDE DEF k
  <2>5. Pushes(Access, k)
    BY <1>1, <1>6, <2>1, <2>2, <2>3, <2>4 DEF Pushes
  <2>6. AppMoves(Access)
    BY <1>1, <1>6, <2>1 DEF AppMoves
  <2> QED BY <1>1, <1>3, <2>2, <2>5, <2>6 DEF Moves
<1>7. CASE cpu.call = "program_nocheck"
  <2>1. app = "setup" /\ cpu.desc \in Descriptors
    BY <1>7 DEF CpuSide
  <2>2. cpu.at \in {1, 2}
    BY <1>2, <1>7, Lengths
  <2>3. Access = PushDesc(Word(cpu'.desc, cpu.at))
    BY <1>1, <1>7, <2>2 DEF Access, Word
  <2>4. PushedWords = cpu.at /\ PushedWords' = IF cpu.at = 2 THEN 0 ELSE cpu.at + 1
    BY <1>1, <1>7, <2>2 DEF PushedWords
  <2>5. Pushes(Access, cpu.at)
    BY <1>1, <1>7, <2>1, <2>2, <2>3, <2>4 DEF Pushes
  <2>6. AppMoves(Access)
    BY <1>1, <1>7, <2>1, <2>2 DEF AppMoves
  <2> QED BY <1>1, <1>3, <2>2, <2>5, <2>6 DEF Moves
<1>8. cpu.call # "status"
  BY <1>2, Lengths
<1>9. cpu.call = "program" => cpu.at \in 1..5
  BY <1>2, Lengths
<1> QED BY <1>2, <1>4, <1>5, <1>6, <1>7, <1>8, <1>9

\* No access in this cycle.
LEMMA NoAccess == NoReq.op = "none"
  BY DEF NoReq

LEMMA Pauses ==
  ASSUME DriverInv, Pause
  PROVE  CpuSide' /\ \E req : Cycle(req) /\ Moves(req)
<1>1. cpu.phase # "rsp" /\ Cycle(NoReq) /\ cpu' = cpu /\ app' = app
  BY DEF Pause
<1>2. CpuSide'
  BY <1>1 DEF DriverInv, CpuSide
<1>3. Reads(NoReq)
  BY <1>1, NoAccess DEF Reads, PushedWords
<1>4. cpu.call \in {"enable", "disable", "start"} => cpu.at # 2
  BY <1>1, Lengths DEF DriverInv, CpuSide
<1>5. cpu.call = "irq_ack" => cpu'.call = "irq_ack"
  BY <1>1
<1>6. AppMoves(NoReq)
  BY <1>1, <1>4, NoAccess DEF AppMoves
<1> QED BY <1>1, <1>2, <1>3, <1>6 DEF Moves

\* What the status says.
LEMMA StatusSays ==
  LET s == neorv32_dma_status(CtrlValue)
  IN /\ s = "ERROR" <=> ctrl.err
     /\ s = "DONE" <=> ~ctrl.err /\ ~engine.run /\ ctrl.done
     /\ s # "BUSY" <=> ctrl.err \/ ~engine.run
     /\ s \in {"ERROR", "DONE", "BUSY", "IDLE"}
  BY DEF neorv32_dma_status, CtrlValue

LEMMA Responds ==
  ASSUME DriverInv, Respond
  PROVE  CpuSide' /\ \E req : Cycle(req) /\ Moves(req)
<1> USE DEF DriverInv
<1> DEFINE full == cpu.call = "program" /\ cpu.at % 2 = 1 /\ CtrlValue.full
           over == cpu.at = Accesses[cpu.call]
<1>1. cpu.phase = "rsp" /\ Cycle(NoReq)
  BY DEF Respond
<1>2. /\ cpu.call \in {"enable", "disable", "start", "irq_ack", "status", "program", "program_nocheck"}
      /\ cpu.at \in 1..Accesses[cpu.call]
  BY <1>1, Lengths DEF CpuSide
<1>3. CASE ~full /\ ~over /\ cpu' = [cpu EXCEPT !.phase = "next", !.got = CtrlValue.enable] /\ app' = app
  <2>1. /\ DOMAIN cpu' = {"call", "desc", "at", "phase", "got"}
        /\ cpu'.call = cpu.call /\ cpu'.desc = cpu.desc /\ cpu'.at = cpu.at /\ cpu'.phase = "next"
        /\ cpu'.got <=> ctrl.enable
    BY <1>3 DEF CpuSide, CtrlValue
  <2>2. CpuSide'
    BY <1>1, <1>2, <1>3, <2>1, Lengths DEF CpuSide
  <2>3. Reads(NoReq)
    BY <2>1, NoAccess DEF Reads, PushedWords
  <2>4. cpu.call \in {"enable", "disable", "start"} => cpu.at # 2
    BY <1>3, Lengths
  <2>5. cpu.call = "program" /\ cpu.at \in {1, 3, 5} => ~Full
    BY <1>3 DEF CtrlValue
  <2>6. AppMoves(NoReq)
    BY <1>1, <1>3, <2>1, <2>4, <2>5 DEF AppMoves
  <2> QED BY <1>1, <2>2, <2>3, <2>6 DEF Moves
<1>4. CASE full /\ cpu' = Ready /\ app' = "full"
  <2>1. CpuSide'
    BY <1>4 DEF CpuSide, Ready
  <2>2. Reads(NoReq)
    BY <1>4, NoAccess DEF Reads
  <2>3. Returned
    BY <1>1, <1>4 DEF Returned, Ready
  <2>4. AppMoves(NoReq)
    BY <1>1, <1>4, <2>3, NoAccess DEF AppMoves, Ready
  <2> QED BY <1>1, <2>1, <2>2, <2>4 DEF Moves
<1>5. CASE ~full /\ over /\ cpu' = Ready /\ app' \in Returns
  <2>1. /\ DOMAIN cpu' = {"call", "desc", "at", "phase", "got"}
        /\ cpu'.call = "none" /\ cpu'.at = 0 /\ cpu'.phase = "ready"
    BY <1>5 DEF Ready
  <2>2. PushedWords = 0 /\ PushedWords' = 0
    BY <1>2, <1>5, <2>1, Lengths DEF PushedWords
  <2>3. Reads(NoReq)
    BY <2>2, NoAccess DEF Reads
  <2>4. app' = app \/ Returned
    <3>1. CASE cpu.call \in {"enable", "disable", "start", "irq_ack"}
      <4>1. cpu.at = 2
        BY <1>5, <3>1, Lengths
      <4> QED BY <1>1, <1>5, <2>1, <3>1, <4>1 DEF Returns, Returned
    <3>2. CASE cpu.call \in {"program", "program_nocheck"}
      BY <1>5, <3>2 DEF Returns
    <3>3. CASE cpu.call = "status"
      BY <1>1, <1>5, <2>1, <3>3, StatusSays DEF Returns, Returned
    <3> QED BY <1>2, <3>1, <3>2, <3>3
  <2>5. cpu.call \in {"enable", "disable", "start", "irq_ack"} => Returned
    <3>1. cpu.call \in {"enable", "disable", "start", "irq_ack"} => cpu.at = 2
      BY <1>5, Lengths
    <3> QED BY <1>1, <1>5, <2>1, <3>1 DEF Returns, Returned
  <2>6. AppMoves(NoReq)
    BY <2>1, <2>4, <2>5, NoAccess DEF AppMoves
  <2>7. app' \in {"off", "setup", "full", "started", "sleeping", "stopping"} /\ (app' = "off" => app = "off" \/ Returned)
    BY <2>4 DEF CpuSide, Returned
  <2>8. CpuSide'
    BY <2>1, <2>7 DEF CpuSide
  <2> QED BY <1>1, <2>3, <2>6, <2>8 DEF Moves
<1> QED BY <1>1, <1>3, <1>4, <1>5 DEF Respond

\* Every step is a clock edge with an access the application may make.
LEMMA StepMoves ==
  ASSUME DriverInv, Next, "chain" \notin Habits
  PROVE  CpuSide' /\ \E req, rsp : Edge(req, rsp) /\ Moves(req)
<1>1. CpuSide' /\ \E req : Cycle(req) /\ Moves(req)
  BY Begins, Issues, Responds, Pauses DEF Next
<1>2. PICK req : Cycle(req) /\ Moves(req)
  BY <1>1
<1>3. \E rsp : Edge(req, rsp)
  BY <1>2 DEF Cycle, Edge
<1> QED BY <1>1, <1>2, <1>3
-----------------------------------------------------------------------------
(* The flags. *)

\* Only a setter changes the control register by hand.
LEMMA CtrlMoves ==
  ASSUME NEW req, NEW rsp, Edge(req, rsp), Moves(req)
  PROVE  /\ req.op # "write" =>
              /\ (ctrl'.enable <=> ctrl.enable) /\ ~ctrl'.start
              /\ ctrl'.err <=> ctrl.enable /\ (ctrl.err \/ engine.err)
              /\ ctrl'.done <=> ctrl.enable /\ (ctrl.done \/ engine.done)
         /\ req.op = "write" =>
              /\ Writes(req) /\ (ctrl'.enable <=> cpu.call # "disable") /\ (ctrl'.start <=> cpu.call = "start")
              /\ ctrl'.err <=> ctrl.enable /\ cpu.call \notin {"start", "irq_ack"} /\ (ctrl.err \/ engine.err)
              /\ ctrl'.done <=> ctrl.enable /\ cpu.call \notin {"start", "irq_ack"} /\ (ctrl.done \/ engine.done)
<1>1. ctrl_write(req)
  BY DEF Edge, DmaEdge
<1>2. req.op = "write" => Writes(req)
  BY DEF Moves, Pushes, Reads, PushDesc
<1>3. CASE req.op # "write"
  BY <1>1, <1>3, CtrlStep
<1>4. CASE req.op = "write"
  <2>1. /\ ctrl'.enable <=> req.en
        /\ ctrl'.start <=> req.start
        /\ ctrl'.err <=> ctrl.enable /\ ~(req.start \/ req.ack) /\ (ctrl.err \/ engine.err)
        /\ ctrl'.done <=> ctrl.enable /\ ~(req.start \/ req.ack) /\ (ctrl.done \/ engine.done)
    BY <1>1, <1>4, CtrlStep
  <2>2. Writes(req)
    BY <1>2, <1>4
  <2>3. /\ req.en <=> cpu.call # "disable"
        /\ req.start <=> cpu.call = "start"
        /\ req.ack <=> cpu.call = "irq_ack"
    BY <2>2 DEF Writes
  <2> QED BY <1>4, <2>1, <2>2, <2>3
<1> QED BY <1>3, <1>4

\* The engine, as a step of the whole.
LEMMA EngineMoves ==
  ASSUME NEW req, NEW rsp, Edge(req, rsp), DriverInv
  PROVE  bus_engine(rsp) /\ DOMAIN engine = EngineRegs
  BY DEF Edge, DmaEdge, DriverInv

LEMMA EnableKept ==
  ASSUME DriverInv, NEW req, NEW rsp, Edge(req, rsp), Moves(req), CpuSide'
  PROVE  EnableSide'
<1> USE DEF DriverInv
<1>1. AppMoves(req)
  BY DEF Moves
<1>2. CASE req.op = "write"
  <2>1. /\ Writes(req) /\ (ctrl'.enable <=> cpu.call # "disable") /\ (ctrl'.start <=> cpu.call = "start")
        /\ ctrl'.err <=> ctrl.enable /\ cpu.call \notin {"start", "irq_ack"} /\ (ctrl.err \/ engine.err)
        /\ ctrl'.done <=> ctrl.enable /\ cpu.call \notin {"start", "irq_ack"} /\ (ctrl.done \/ engine.done)
    BY <1>2, CtrlMoves
  <2>2. cpu.call = "enable" <=> app = "off"
    BY <2>1 DEF CpuSide, Writes
  <2>3. app # "stopping"
    BY <2>1 DEF CpuSide, Writes
  <2> QED BY <2>1, <2>2, <2>3 DEF Writes, EnableSide, CpuSide
<1>3. CASE req.op # "write"
  <2>1. /\ (ctrl'.enable <=> ctrl.enable) /\ ~ctrl'.start
        /\ ctrl'.err <=> ctrl.enable /\ (ctrl.err \/ engine.err)
        /\ ctrl'.done <=> ctrl.enable /\ (ctrl.done \/ engine.done)
    BY <1>3, CtrlMoves
  <2>2. cpu'.call \in {"enable", "disable", "start"} => cpu'.at # 2
    BY <1>1, <1>3 DEF AppMoves
  <2>3. CASE Returned
    <3>1. /\ ctrl.enable <=> app' \notin {"off", "stopping"}
      BY <2>3 DEF Returned, EnableSide, CpuSide
    <3>2. app' \in {"off", "setup", "full", "started", "sleeping", "stopping"} /\ cpu'.call = "none"
      BY <2>3 DEF Returned, CpuSide
    <3> QED BY <2>1, <3>1, <3>2 DEF EnableSide
  <2>4. CASE ~Returned
    <3>1. app' = app /\ (cpu.call \in {"enable", "disable", "start"} => cpu.at # 2)
      BY <1>1, <2>4 DEF AppMoves
    <3>2. ctrl.enable <=> app' \in {"setup", "started", "sleeping", "full"}
      BY <3>1 DEF EnableSide
    <3>3. cpu'.call \in {"start", "irq_ack"} /\ cpu'.phase = "next" => cpu'.got
      <4> SUFFICES ASSUME cpu'.call \in {"start", "irq_ack"}, cpu'.phase = "next" PROVE cpu'.got
        OBVIOUS
      <4>1. cpu.call = cpu'.call /\ ((cpu.phase = "next" /\ cpu'.got = cpu.got) \/ (cpu'.got <=> ctrl.enable))
        BY <1>1 DEF AppMoves
      <4>2. ctrl.enable
        BY <3>1, <3>2, <4>1 DEF CpuSide
      <4> QED BY <4>1, <4>2 DEF EnableSide
    <3> QED BY <2>1, <2>2, <3>1, <3>2, <3>3 DEF EnableSide
  <2> QED BY <2>3, <2>4
<1> QED BY <1>2, <1>3

\* An idle engine is in its first state and starts only by the start pulse.
LEMMA IdleStays ==
  ASSUME DriverInv, NEW req, NEW rsp, Edge(req, rsp), ~engine.run
  PROVE  /\ engine.state = "S_CHECK" /\ ~engine'.done /\ ~engine'.err /\ ~engine.err
         /\ engine'.run <=> fifo.avail /\ ~ctrl.err /\ ctrl.start
         /\ engine'.state = (IF engine'.run THEN "S_GET_0" ELSE "S_CHECK")
  BY EngineMoves, EngineRuns DEF DriverInv, IdleSide

LEMMA IdleKept ==
  ASSUME DriverInv, NEW req, NEW rsp, Edge(req, rsp), Moves(req), CpuSide'
  PROVE  IdleSide'
<1> USE DEF DriverInv
<1>1. bus_engine(rsp) /\ descriptor_buffer(req) /\ DOMAIN engine = EngineRegs
  BY EngineMoves DEF Edge, DmaEdge
<1>2. ~engine'.run => engine'.state = "S_CHECK"
  BY <1>1, EngineRuns DEF IdleSide
<1>3. engine'.done => ~engine'.run
  BY <1>1, EngineRuns DEF IdleSide
<1>4. engine'.err => engine'.run /\ engine'.state = "S_CHECK"
  BY <1>1, EngineRuns DEF IdleSide
<1>5. app' \in {"off", "setup", "full"} \/ cpu'.call = "irq_ack" => ~engine'.run /\ ~engine'.done
  <2> SUFFICES ASSUME app' \in {"off", "setup", "full"} \/ cpu'.call = "irq_ack"
               PROVE  ~engine'.run /\ ~engine'.done
    OBVIOUS
  <2>1. AppMoves(req)
    BY DEF Moves
  <2>2. cpu.call = "start" => ~(cpu.at = 2)
    BY <2>1 DEF AppMoves, Returned
  <2>3. ~ctrl.start
    BY <2>2 DEF EnableSide
  <2>4. ~engine.run
    <3>1. CASE app \in {"off", "setup", "full"} \/ cpu.call = "irq_ack"
      BY <3>1 DEF IdleSide
    <3>2. CASE cpu'.call = "irq_ack" /\ app = "sleeping" /\ ctrl.done /\ cpu.call # "irq_ack"
      <4>1. ctrl.enable
        BY <2>1, <3>2 DEF EnableSide, AppMoves, Returned
      <4> QED BY <3>2, <4>1 DEF FlagSide
    <3>3. CASE app \in {"started", "sleeping", "stopping"} /\ cpu.call # "irq_ack" /\ app' \in {"off", "setup", "full"}
      <4>1. Returned
        BY <2>1, <3>3 DEF AppMoves
      <4>2. cpu.call = "status" \/ (cpu.call = "enable" /\ app' = "setup") \/ (cpu.call = "program" /\ app' = "full")
        BY <3>3, <4>1 DEF Returned
      <4>3. cpu.call = "status"
        BY <3>3, <4>2 DEF CpuSide
      <4>4. CASE app = "started"
        <5>1. ctrl.enable
          BY <4>3, <4>4 DEF EnableSide
        <5>2. ctrl.err \/ (~engine.run /\ ctrl.done)
          BY <4>1, <4>3, <4>4 DEF Returned
        <5> QED BY <4>4, <5>1, <5>2 DEF FlagSide
      <4>5. CASE app = "stopping"
        BY <4>1, <4>3, <4>5 DEF Returned, EnableSide
      <4> QED BY <4>1, <4>3, <4>4, <4>5 DEF Returned
    <3> QED BY <2>1, <3>1, <3>2, <3>3 DEF AppMoves, CpuSide
  <2> QED BY <2>3, <2>4, IdleStays
<1>6. app' \in {"off", "stopping"} => Empty'
  <2>1. CASE ctrl.enable
    <3> SUFFICES ASSUME app' \in {"off", "stopping"} PROVE Empty'
      OBVIOUS
    <3>1. app = "off" /\ app' = "off"
      BY <2>1 DEF Moves, AppMoves, Returned, EnableSide, CpuSide
    <3>2. Empty /\ ~engine.run /\ engine.state \notin Fetch
      BY <3>1 DEF IdleSide, Fetch
    <3>3. req.op # "desc"
      BY <3>1 DEF Moves, Writes, Reads, Pushes
    <3> QED BY <1>1, <3>2, <3>3 DEF descriptor_buffer, Empty
  <2>2. CASE ~ctrl.enable
    BY <1>1, <2>2, DisabledClears
  <2> QED BY <2>1, <2>2
<1>7. cut' => app' = "stopping" \/ (app' = "off" /\ cpu'.phase = "ready")
  <2> SUFFICES ASSUME cut' PROVE app' = "stopping" \/ (app' = "off" /\ cpu'.phase = "ready")
    OBVIOUS
  <2>1. app # "off" /\ (cut \/ (~ctrl.enable /\ engine.state \in Fetch))
    BY DEF Edge, HistoryEdge
  <2>2. app = "stopping" \/ (~ctrl.enable /\ engine.run)
    BY <2>1 DEF IdleSide, Fetch
  <2>3. app = "stopping" \/ (cpu.call = "disable" /\ cpu.at = 2)
    BY <2>1, <2>2 DEF IdleSide, EnableSide, CpuSide
  <2> QED BY <2>3 DEF Moves, AppMoves, Returned, CpuSide
<1> QED BY <1>2, <1>3, <1>4, <1>5, <1>6, <1>7 DEF IdleSide

\* Words of an address carry no configuration, the third one does.
LEMMA WordConf ==
  ASSUME NEW d \in Descriptors
  PROVE  Word(d, 0).conf = NoConf /\ Word(d, 1).conf = NoConf /\ Word(d, 2).conf = d.conf /\ d.conf # NoConf
<1>1. d.conf \in [num : 1..NUM_MOD - 1, bswap : BOOLEAN, src : Type, dst : Type]
  BY DescriptorAssumption
<1>2. d.conf.num # 0
  BY <1>1, DmaAssumption
<1>3. d.conf # NoConf
  BY <1>2 DEF NoConf
<1> QED BY <1>3 DEF Word, AddrWord, ConfWord, NoWord

\* What is left of the descriptors that wait.
LEMMA PendingMoves ==
  ASSUME NEW req, NEW rsp, Edge(req, rsp), Moves(req), pending \in Seq(Descriptors)
  PROVE  /\ pending' \in Seq(Descriptors)
         /\ ~ctrl.enable /\ engine.state \notin Fetch => pending' = <<>>
         /\ ctrl.enable /\ engine.state # "S_GET_3" /\ ~Pushes(req, 2) => pending' = pending
         /\ ctrl.enable /\ engine.state # "S_GET_3" /\ Pushes(req, 2) /\ ~Full =>
              pending' = Append(pending, cpu.desc) /\ cpu'.desc = cpu.desc
         /\ ctrl.enable /\ engine.state = "S_GET_3" /\ app # "setup" =>
              pending' = IF pending = <<>> THEN <<>> ELSE Tail(pending)
         /\ ~ctrl.enable /\ engine.state \in Fetch /\ app # "setup" => pending' = pending
<1> DEFINE word == req.op = "desc" /\ req.word.conf # NoConf /\ ~Full
           rest == IF engine.state = "S_GET_3" /\ pending # <<>> THEN Tail(pending) ELSE pending
<1>1. pending' = IF ~ctrl.enable /\ engine.state \notin Fetch THEN <<>>
                 ELSE rest \o (IF word THEN <<cpu.desc>> ELSE <<>>)
  BY DEF Edge, HistoryEdge
<1>2. rest \in Seq(Descriptors)
  OBVIOUS
<1>3. word => Pushes(req, 2) /\ app = "setup" /\ cpu'.desc = cpu.desc
  <2> SUFFICES ASSUME word PROVE Pushes(req, 2) /\ app = "setup" /\ cpu'.desc = cpu.desc
    OBVIOUS
  <2>1. PICK k \in 0..2 : Pushes(req, k)
    BY DEF Moves, Writes, Reads
  <2>2. cpu'.desc \in Descriptors /\ req.word = Word(cpu'.desc, k)
    BY <2>1 DEF Pushes, PushDesc
  <2>3. k = 2
    BY <2>1, <2>2, WordConf
  <2> QED BY <2>1, <2>3 DEF Pushes
<1>4. Pushes(req, 2) /\ ~Full => word /\ cpu'.desc = cpu.desc
  <2> SUFFICES ASSUME Pushes(req, 2), ~Full PROVE word /\ cpu'.desc = cpu.desc
    OBVIOUS
  <2>1. cpu'.desc \in Descriptors /\ req.op = "desc" /\ req.word = Word(cpu'.desc, 2) /\ cpu'.desc = cpu.desc
    BY DEF Pushes, PushDesc
  <2> QED BY <2>1, WordConf
<1>5. ~word => pending' = IF ~ctrl.enable /\ engine.state \notin Fetch THEN <<>> ELSE rest
  <2> HIDE DEF word, rest
  <2>1. rest \o <<>> = rest
    BY <1>2
  <2> QED BY <1>1, <2>1
<1>6. word /\ (ctrl.enable \/ engine.state \in Fetch) => pending' = Append(rest, cpu.desc)
  <2>1. rest \o <<cpu.desc>> = Append(rest, cpu.desc)
    BY <1>2
  <2> HIDE DEF word, rest
  <2> QED BY <1>1, <2>1
<1>7. pending' \in Seq(Descriptors)
  <2>1. CASE ~ctrl.enable /\ engine.state \notin Fetch
    BY <1>1, <2>1
  <2>2. CASE word /\ (ctrl.enable \/ engine.state \in Fetch)
    <3>1. cpu.desc \in Descriptors
      BY <1>3, <2>2 DEF Pushes
    <3> HIDE DEF word, rest
    <3> QED BY <1>2, <1>6, <2>2, <3>1
  <2>3. CASE ~word /\ (ctrl.enable \/ engine.state \in Fetch)
    <3> HIDE DEF word, rest
    <3> QED BY <1>2, <1>5, <2>3
  <2> QED BY <2>1, <2>2, <2>3
<1>8. ~ctrl.enable /\ engine.state \notin Fetch => pending' = <<>>
  BY <1>1
<1> HIDE DEF word
<1> QED BY <1>3, <1>4, <1>5, <1>6, <1>7, <1>8 DEF Fetch

\* An idle engine leaves the history of its last transfer alone.
LEMMA IdleHistory ==
  ASSUME DriverInv, NEW req, NEW rsp, Edge(req, rsp), Moves(req), ~engine.run, ctrl.enable, app # "off"
  PROVE  /\ cur' = cur /\ (Failed' <=> Failed)
         /\ app # "setup" \/ cpu.call = "irq_ack" => (Finished' <=> Finished)
         /\ ~(\E k \in 0..2 : Pushes(req, k)) => (Finished' <=> Finished)
<1>1. engine.state = "S_CHECK"
  BY DEF DriverInv, IdleSide
<1>2. cur' = cur
  BY <1>1 DEF Edge, HistoryEdge, Stores
<1>3. Failed' <=> Failed
  BY <1>2 DEF Failed
<1>4. ~(\E k \in 0..2 : Pushes(req, k)) => pending' = pending
  BY <1>1, PendingMoves DEF DriverInv
<1>5. app # "setup" \/ cpu.call = "irq_ack" => ~(\E k \in 0..2 : Pushes(req, k))
  <2>1. app # "setup" => ~(\E k \in 0..2 : Pushes(req, k))
    BY DEF Pushes
  <2>2. CASE cpu.call = "irq_ack"
    BY <2>2 DEF Pushes
  <2> QED BY <2>1, <2>2
<1> QED BY <1>2, <1>3, <1>4, <1>5 DEF Finished

\* When the engine stops, its last transfer failed or nothing is left to do.
LEMMA StopEnds ==
  ASSUME DriverInv, NEW req, NEW rsp, Edge(req, rsp), Moves(req), ctrl.enable,
         engine.run, ~engine'.run
  PROVE  /\ engine.state = "S_CHECK" /\ engine'.done /\ ~ctrl.err /\ ~ctrl.done /\ ~engine.done
         /\ IF engine.err THEN Failed' ELSE Finished'
<1> USE DEF DriverInv
<1>1. engine.state = "S_CHECK" /\ engine'.done /\ (fifo.avail => ctrl.err \/ engine.err)
  BY EngineMoves, EngineRuns
<1>2. ~ctrl.err /\ ~ctrl.done /\ ~engine.done
  BY DEF FlagSide, IdleSide
<1>3. app \in {"started", "sleeping"}
  BY DEF EnableSide, IdleSide, CpuSide
<1>4. ~cut /\ app \notin {"off", "full", "setup"}
  BY <1>3 DEF IdleSide
<1>5. cur' = cur /\ pending' = pending
  <2>1. ~Pushes(req, 2)
    BY <1>4 DEF Pushes
  <2> QED BY <1>1, <1>4, <2>1, PendingMoves DEF Edge, HistoryEdge, Stores
<1>6. CASE engine.err
  BY <1>1, <1>2, <1>4, <1>5, <1>6 DEF EndSide, Failed
<1>7. CASE ~engine.err
  <2>1. cur.moved = cur.desc.conf.num
    BY <1>1, <1>4, <1>7 DEF EndSide
  <2>2. Level <= 0
    BY <1>1, <1>2, <1>4, <1>7 DEF FifoSide, Fetch
  <2>3. PushedWords = 0 /\ FetchedWords = 0
    BY <1>1, <1>3 DEF PushedWords, FetchedWords, CpuSide
  <2>4. Len(pending) = 0
    BY <2>2, <2>3 DEF Level
  <2>5. pending = <<>>
    BY <2>4
  <2> QED BY <1>1, <1>2, <1>5, <1>7, <2>1, <2>5 DEF Finished
<1> QED BY <1>6, <1>7

LEMMA FlagKept ==
  ASSUME DriverInv, NEW req, NEW rsp, Edge(req, rsp), Moves(req), CpuSide'
  PROVE  FlagSide'
<1> USE DEF DriverInv
<1>1. SUFFICES ASSUME ctrl'.enable
               PROVE  /\ engine'.run => ~ctrl'.err /\ ~ctrl'.done
                      /\ engine'.done => ~ctrl'.done
                      /\ app' \in {"started", "sleeping"} /\ (ctrl'.done \/ engine'.done \/ ctrl'.err) =>
                           ~engine'.run /\ (IF ctrl'.err THEN Failed' ELSE Finished')
  BY DEF FlagSide
<1>2. CASE ~ctrl.enable
  <2>1. Writes(req) /\ cpu.call # "disable" /\ ~ctrl'.err /\ ~ctrl'.done
    BY <1>1, <1>2, CtrlMoves
  <2>2. app = "off" /\ app' = "off"
    BY <1>2, <2>1 DEF Writes, EnableSide, CpuSide
  <2> QED BY <2>1, <2>2
<1>3. CASE ctrl.enable /\ ~engine.run
  <2>1. ~engine.err /\ ~engine'.done /\ (engine'.run <=> fifo.avail /\ ~ctrl.err /\ ctrl.start)
    BY <1>3, IdleStays
  <2>2. (ctrl'.err => ctrl.err) /\ (ctrl'.done => ctrl.done \/ engine.done)
    BY <1>3, <2>1, CtrlMoves
  <2>3. ctrl.start => ~ctrl.err /\ ~ctrl.done /\ ~engine.done
    BY DEF EnableSide, IdleSide, CpuSide
  <2>4. engine'.run => ~ctrl'.err /\ ~ctrl'.done
    BY <2>1, <2>2, <2>3
  <2>5. ASSUME app' \in {"started", "sleeping"}, ctrl'.done \/ ctrl'.err
        PROVE  ~engine'.run /\ (IF ctrl'.err THEN Failed' ELSE Finished')
    <3>1. cpu.call # "start"
      <4> SUFFICES ASSUME cpu.call = "start" PROVE FALSE
        OBVIOUS
      <4>1. app = "setup" /\ ~engine.done
        BY DEF CpuSide, IdleSide
      <4>2. Returned /\ cpu.at = 2
        BY <2>5, <4>1 DEF Moves, AppMoves, Returned
      <4>3. ~ctrl.err /\ ~ctrl.done
        BY <4>2 DEF EnableSide
      <4> QED BY <2>2, <2>5, <4>1, <4>3
    <3>2. app' = app /\ app \in {"started", "sleeping"}
      BY <2>5, <3>1 DEF Moves, AppMoves, Returned, CpuSide
    <3>3. ~engine'.run
      BY <2>4, <2>5
    <3>4. ctrl.err \/ ctrl.done \/ engine.done
      BY <2>2, <2>5
    <3>5. IF ctrl.err THEN Failed ELSE Finished
      BY <1>3, <3>2, <3>4 DEF FlagSide
    <3>6. ctrl'.err <=> ctrl.err
      BY <1>3, <2>1, <2>5, CtrlMoves
    <3>7. (Failed' <=> Failed) /\ (Finished' <=> Finished)
      BY <1>3, <3>2, IdleHistory
    <3> QED BY <3>3, <3>5, <3>6, <3>7
  <2> QED BY <2>1, <2>4, <2>5
<1>4. CASE ctrl.enable /\ engine.run /\ engine'.run
  <2>1. ~ctrl.err /\ ~ctrl.done /\ ~engine.done
    BY <1>4 DEF FlagSide, IdleSide
  <2>2. ~engine.err
    BY <1>4, EngineMoves, EngineRuns DEF IdleSide
  <2>3. ~ctrl'.err /\ ~ctrl'.done
    BY <2>1, <2>2, CtrlMoves
  <2>4. ~engine'.done
    BY <1>4, <2>1, EngineMoves, EngineRuns
  <2> QED BY <2>3, <2>4
<1>5. CASE ctrl.enable /\ engine.run /\ ~engine'.run
  <2>1. /\ engine.state = "S_CHECK" /\ engine'.done /\ ~ctrl.err /\ ~ctrl.done /\ ~engine.done
        /\ IF engine.err THEN Failed' ELSE Finished'
    BY <1>5, StopEnds
  <2>2. cpu.call \notin {"start", "irq_ack"}
    BY <1>5 DEF IdleSide, CpuSide
  <2>3. (ctrl'.err <=> engine.err) /\ ~ctrl'.done
    BY <1>5, <2>1, <2>2, CtrlMoves
  <2> QED BY <1>5, <2>1, <2>3
<1> QED BY <1>2, <1>3, <1>4, <1>5

\* The answers.
LEMMA AnswerKept ==
  ASSUME DriverInv, Next, NEW req, NEW rsp, Edge(req, rsp), Moves(req), CpuSide'
  PROVE  AnswerSide'
<1> USE DEF DriverInv
<1>1. CASE answer' = "none"
  BY <1>1 DEF AnswerSide
<1>2. CASE Interrupt
  <2>1. /\ app = "sleeping" /\ ctrl.done /\ cpu.call = "none" /\ cpu'.call = "irq_ack"
        /\ answer' = IF ctrl.err THEN "ERROR" ELSE "DONE"
    BY <1>2 DEF Interrupt, Ready, CpuSide
  <2>2. ctrl.enable
    BY <2>1 DEF EnableSide
  <2>3. ~engine.run /\ (IF ctrl.err THEN Failed ELSE Finished)
    BY <2>1, <2>2 DEF FlagSide
  <2>4. (Failed' <=> Failed) /\ (Finished' <=> Finished)
    BY <2>1, <2>2, <2>3, IdleHistory
  <2> QED BY <2>1, <2>3, <2>4 DEF AnswerSide
<1>3. ASSUME answer' = answer, answer \in {"DONE", "ERROR"},
             cpu'.call = "irq_ack" \/ (app' = "setup" /\ cpu'.call = "none"),
             ~(\E k \in 0..2 : Pushes(req, k))
      PROVE  AnswerSide'
  <2>1. (app = "setup" /\ cpu.call = "none") \/ cpu.call = "irq_ack"
    BY <1>3 DEF AnswerSide
  <2>2. ctrl.enable /\ ~engine.run /\ app # "off"
    BY <2>1 DEF EnableSide, IdleSide, CpuSide
  <2>3. (Failed' <=> Failed) /\ (Finished' <=> Finished)
    BY <1>3, <2>2, IdleHistory
  <2> QED BY <1>3, <2>3 DEF AnswerSide
<1>4. CASE Issue \/ Pause
  <2>1. /\ answer' = answer /\ app' = app /\ cpu'.call = cpu.call
        /\ Pause => cpu' = cpu /\ cpu.phase # "rsp"
        /\ Issue => cpu.phase = "next"
    BY <1>4 DEF Issue, Pause, CpuSide
  <2>2. CASE answer \in {"DONE", "ERROR"}
    <3>1. (app = "setup" /\ cpu.call = "none") \/ cpu.call = "irq_ack"
      BY <2>2 DEF AnswerSide
    <3>2. ~(\E k \in 0..2 : Pushes(req, k))
      BY <2>1, <3>1 DEF Pushes
    <3> QED BY <1>3, <2>1, <2>2, <3>1, <3>2
  <2> QED BY <2>1, <2>2 DEF AnswerSide
<1>5. CASE Respond
  <2>1. cpu.phase = "rsp" /\ cpu.call # "none"
    BY <1>5, Lengths DEF Respond, CpuSide
  <2>2. cpu'.phase # "rsp"
    <3>1. cpu' = Ready \/ cpu' = [cpu EXCEPT !.phase = "next", !.got = CtrlValue.enable]
      BY <1>5 DEF Respond
    <3>2. DOMAIN cpu = {"call", "desc", "at", "phase", "got"}
      BY DEF CpuSide
    <3>3. cpu' = Ready => cpu'.phase = "ready"
      BY DEF Ready
    <3>4. cpu' = [cpu EXCEPT !.phase = "next", !.got = CtrlValue.enable] => cpu'.phase = "next"
      BY <3>2
    <3> QED BY <3>1, <3>3, <3>4
  <2>3. ~(\E k \in 0..2 : Pushes(req, k))
    BY <2>2 DEF Pushes
  <2>4. CASE answer' = "FULL" \/ answer' \notin {"DONE", "ERROR"}
    BY <2>4 DEF AnswerSide
  <2>5. CASE answer' = answer /\ answer \in {"DONE", "ERROR"}
    <3>1. cpu.call = "irq_ack"
      BY <2>1, <2>5 DEF AnswerSide
    <3>2. cpu'.call = "irq_ack" \/ (app' = "setup" /\ cpu'.call = "none")
      <4>1. \/ cpu' = Ready /\ app' \in Returns
            \/ cpu' = [cpu EXCEPT !.phase = "next", !.got = CtrlValue.enable]
        BY <1>5, <3>1 DEF Respond
      <4>2. DOMAIN cpu = {"call", "desc", "at", "phase", "got"}
        BY DEF CpuSide
      <4>3. cpu' = [cpu EXCEPT !.phase = "next", !.got = CtrlValue.enable] => cpu'.call = "irq_ack"
        BY <3>1, <4>2
      <4>4. app' \in Returns => app' = "setup"
        BY <3>1 DEF Returns
      <4> QED BY <4>1, <4>3, <4>4 DEF Ready
    <3> QED BY <1>3, <2>3, <2>5, <3>2
  <2>6. CASE cpu.call = "status" /\ cpu'.call = "none" /\ app' \in Returns
             /\ answer' = neorv32_dma_status(CtrlValue) /\ answer' \in {"DONE", "ERROR"}
    <3>1. (answer' = "ERROR" <=> ctrl.err) /\ (answer' = "DONE" <=> ~ctrl.err /\ ~engine.run /\ ctrl.done)
      BY <2>6, StatusSays
    <3>2. app \in {"started", "stopping"}
      BY <2>6 DEF CpuSide
    <3>3. app = "started"
      BY <2>6, <3>1, <3>2 DEF EnableSide
    <3>4. app' = "setup"
      BY <2>6, <3>3 DEF Returns
    <3>5. ctrl.enable
      BY <2>6, <3>3 DEF EnableSide
    <3>6. ~engine.run /\ (IF ctrl.err THEN Failed ELSE Finished)
      BY <2>6, <3>1, <3>3, <3>5 DEF FlagSide
    <3>7. (Failed' <=> Failed) /\ (Finished' <=> Finished)
      BY <3>3, <3>5, <3>6, IdleHistory
    <3> QED BY <2>6, <3>1, <3>4, <3>6, <3>7 DEF AnswerSide
  <2>7. \/ answer' = answer \/ answer' = "FULL"
        \/ cpu.call = "status" /\ cpu'.call = "none" /\ app' \in Returns /\ answer' = neorv32_dma_status(CtrlValue)
    BY <1>5 DEF Respond, Ready
  <2> QED BY <2>4, <2>5, <2>6, <2>7
<1> QED BY <1>1, <1>2, <1>4, <1>5 DEF Next, Enable, Program, Start, Status, Disable, IrqAck, Call
-----------------------------------------------------------------------------
(* The pointers of the FIFO run over twice its depth. *)

LEMMA SlotIs ==
  ASSUME NEW x \in 0..3 * FIFO_DEPTH - 1
  PROVE  /\ Slot(x) = IF x < FIFO_DEPTH THEN x
                      ELSE IF x < 2 * FIFO_DEPTH THEN x - FIFO_DEPTH ELSE x - 2 * FIFO_DEPTH
         /\ Slot(x) \in 0..FIFO_DEPTH - 1
<1> USE DmaAssumption DEF Slot
<1>1. CASE x < FIFO_DEPTH
  BY <1>1
<1>2. CASE x >= FIFO_DEPTH /\ x < 2 * FIFO_DEPTH
  BY <1>2
<1>3. CASE x >= 2 * FIFO_DEPTH
  BY <1>3
<1> QED BY <1>1, <1>2, <1>3

LEMMA PointerIs ==
  ASSUME NEW x \in 0..4 * FIFO_DEPTH - 1
  PROVE  x % (2 * FIFO_DEPTH) = IF x < 2 * FIFO_DEPTH THEN x ELSE x - 2 * FIFO_DEPTH
<1> USE DmaAssumption
<1>1. CASE x < 2 * FIFO_DEPTH
  BY <1>1
<1>2. CASE x >= 2 * FIFO_DEPTH
  BY <1>2
<1> QED BY <1>1, <1>2

\* How many words the FIFO holds, by its pointers.
LEMMA Ring ==
  ASSUME NEW r \in 0..2 * FIFO_DEPTH - 1, NEW n \in 0..FIFO_DEPTH
  PROVE  LET w == (r + n) % (2 * FIFO_DEPTH)
         IN /\ w = r <=> n = 0
            /\ w # r /\ Slot(w) = Slot(r) <=> n = FIFO_DEPTH
            /\ Slot(w) = Slot(r + n)
            /\ n < FIFO_DEPTH => \A j \in 0..n - 1 : Slot(r + j) # Slot(r + n)
            /\ (w + 1) % (2 * FIFO_DEPTH) = (r + (n + 1)) % (2 * FIFO_DEPTH)
<1> USE DmaAssumption
<1> DEFINE w == (r + n) % (2 * FIFO_DEPTH)
<1>1. w = IF r + n < 2 * FIFO_DEPTH THEN r + n ELSE r + n - 2 * FIFO_DEPTH
  <2>1. r + n \in 0..4 * FIFO_DEPTH - 1
    OBVIOUS
  <2> QED BY <2>1, PointerIs
<1> HIDE DEF w
<1>2. w \in 0..2 * FIFO_DEPTH - 1
  BY <1>1
<1>3. Slot(w) = IF w < FIFO_DEPTH THEN w ELSE w - FIFO_DEPTH
  BY <1>2, SlotIs
<1>4. Slot(r) = IF r < FIFO_DEPTH THEN r ELSE r - FIFO_DEPTH
  BY SlotIs
<1>5. \A j \in 0..n :
        Slot(r + j) = IF r + j < FIFO_DEPTH THEN r + j
                      ELSE IF r + j < 2 * FIFO_DEPTH THEN r + j - FIFO_DEPTH ELSE r + j - 2 * FIFO_DEPTH
  <2> TAKE j \in 0..n
  <2>1. r + j \in 0..3 * FIFO_DEPTH - 1
    OBVIOUS
  <2> QED BY <2>1, SlotIs
<1>6. Slot(r + n) = IF r + n < FIFO_DEPTH THEN r + n
                    ELSE IF r + n < 2 * FIFO_DEPTH THEN r + n - FIFO_DEPTH ELSE r + n - 2 * FIFO_DEPTH
  BY <1>5
<1>7. Slot(w) = Slot(r + n)
  BY <1>1, <1>3, <1>6
<1>8. n < FIFO_DEPTH => \A j \in 0..n - 1 : Slot(r + j) # Slot(r + n)
  BY <1>5, <1>6
<1>9. (w + 1) % (2 * FIFO_DEPTH) = (r + (n + 1)) % (2 * FIFO_DEPTH)
  <2>1. (w + 1) % (2 * FIFO_DEPTH) = IF w + 1 < 2 * FIFO_DEPTH THEN w + 1 ELSE w + 1 - 2 * FIFO_DEPTH
    BY <1>2, PointerIs
  <2>2. (r + (n + 1)) % (2 * FIFO_DEPTH)
          = IF r + (n + 1) < 2 * FIFO_DEPTH THEN r + (n + 1) ELSE r + (n + 1) - 2 * FIFO_DEPTH
    <3> DEFINE x == r + (n + 1)
    <3>1. x \in 0..4 * FIFO_DEPTH - 1
      OBVIOUS
    <3> HIDE DEF x
    <3>2. x % (2 * FIFO_DEPTH) = IF x < 2 * FIFO_DEPTH THEN x ELSE x - 2 * FIFO_DEPTH
      BY <3>1, PointerIs
    <3> QED BY <3>2 DEF x
  <2> QED BY <1>1, <2>1, <2>2
<1>10. w = r <=> n = 0
  BY <1>1
<1>11. w # r /\ Slot(w) = Slot(r) <=> n = FIFO_DEPTH
  BY <1>1, <1>3, <1>4
<1> QED BY <1>7, <1>8, <1>9, <1>10, <1>11 DEF w

\* Reading a word moves the read pointer on.
LEMMA RingRead ==
  ASSUME NEW r \in 0..2 * FIFO_DEPTH - 1, NEW n \in 1..FIFO_DEPTH
  PROVE  LET s == (r + 1) % (2 * FIFO_DEPTH)
         IN /\ s \in 0..2 * FIFO_DEPTH - 1
            /\ (r + n) % (2 * FIFO_DEPTH) = (s + (n - 1)) % (2 * FIFO_DEPTH)
            /\ \A j \in 0..FIFO_DEPTH - 1 : Slot(s + j) = Slot(r + 1 + j)
<1> USE DmaAssumption
<1> DEFINE s == (r + 1) % (2 * FIFO_DEPTH)
<1>1. s = IF r + 1 < 2 * FIFO_DEPTH THEN r + 1 ELSE r + 1 - 2 * FIFO_DEPTH
  <2>1. r + 1 \in 0..4 * FIFO_DEPTH - 1
    OBVIOUS
  <2> QED BY <2>1, PointerIs
<1> HIDE DEF s
<1>2. s \in 0..2 * FIFO_DEPTH - 1
  BY <1>1
<1>3. (r + n) % (2 * FIFO_DEPTH) = IF r + n < 2 * FIFO_DEPTH THEN r + n ELSE r + n - 2 * FIFO_DEPTH
  BY PointerIs
<1>4. (s + (n - 1)) % (2 * FIFO_DEPTH)
        = IF s + (n - 1) < 2 * FIFO_DEPTH THEN s + (n - 1) ELSE s + (n - 1) - 2 * FIFO_DEPTH
  BY <1>2, PointerIs
<1>5. ASSUME NEW j \in 0..FIFO_DEPTH - 1
      PROVE  Slot(s + j) = Slot(r + 1 + j)
  <2>1. Slot(s + j) = IF s + j < FIFO_DEPTH THEN s + j
                      ELSE IF s + j < 2 * FIFO_DEPTH THEN s + j - FIFO_DEPTH ELSE s + j - 2 * FIFO_DEPTH
    <3>1. \A x \in 0..3 * FIFO_DEPTH - 1 :
            Slot(x) = IF x < FIFO_DEPTH THEN x
                      ELSE IF x < 2 * FIFO_DEPTH THEN x - FIFO_DEPTH ELSE x - 2 * FIFO_DEPTH
      BY SlotIs
    <3>2. s + j \in 0..3 * FIFO_DEPTH - 1
      BY <1>2
    <3> QED BY <1>2, <3>1, <3>2
  <2>2. Slot(r + 1 + j) = IF r + 1 + j < FIFO_DEPTH THEN r + 1 + j
                          ELSE IF r + 1 + j < 2 * FIFO_DEPTH THEN r + 1 + j - FIFO_DEPTH
                          ELSE r + 1 + j - 2 * FIFO_DEPTH
    <3>1. r + 1 + j \in 0..3 * FIFO_DEPTH - 1
      OBVIOUS
    <3> QED BY <3>1, SlotIs
  <2> QED BY <1>1, <1>2, <2>1, <2>2
<1>6. (r + n) % (2 * FIFO_DEPTH) = (s + (n - 1)) % (2 * FIFO_DEPTH)
  BY <1>1, <1>2, <1>3, <1>4
<1> QED BY <1>2, <1>5, <1>6 DEF s

\* Reading drops the first word.
LEMMA WaitsRead ==
  ASSUME NEW m, NEW p \in Seq(Descriptors), NEW f \in 0..2, NEW r \in 0..2 * FIFO_DEPTH - 1,
         3 * Len(p) - f \in 1..FIFO_DEPTH, Waits(m, r, p, f)
  PROVE  Waits(m, (r + 1) % (2 * FIFO_DEPTH), p, f + 1)
<1> USE DmaAssumption
<1> DEFINE s == (r + 1) % (2 * FIFO_DEPTH)
<1>1. s \in 0..2 * FIFO_DEPTH - 1 /\ \A j \in 0..FIFO_DEPTH - 1 : Slot(s + j) = Slot(r + 1 + j)
  BY RingRead
<1> HIDE DEF s
<1>2. ASSUME NEW q \in 1..Len(p), NEW k \in 0..2, 3 * (q - 1) + k >= f + 1
      PROVE  m[Slot(s + (3 * (q - 1) + k - (f + 1)))] = Word(p[q], k)
  <2> DEFINE i == 3 * (q - 1) + k
             j == i - (f + 1)
  <2>1. q \in Int /\ i <= 3 * Len(p) - 1
    OBVIOUS
  <2>2. j \in 0..FIFO_DEPTH - 1
    BY <1>2, <2>1
  <2>3. m[Slot(r + (i - f))] = Word(p[q], k)
    <3>1. 3 * (q - 1) + k >= f
      BY <1>2, <2>1
    <3>2. m[Slot(r + (3 * (q - 1) + k - f))] = Word(p[q], k)
      BY <3>1, Zenon DEF Waits
    <3> QED BY <3>2
  <2>4. Slot(s + j) = Slot(r + 1 + j)
    BY <1>1, <2>2
  <2>5. r + 1 + j = r + (i - f)
    BY <2>1
  <2> HIDE DEF j
  <2> QED BY <2>3, <2>4, <2>5 DEF j
<1>3. Waits(m, s, p, f + 1)
  BY <1>2 DEF Waits
<1> QED BY <1>3 DEF s

\* A descriptor that is out leaves the others.
LEMMA WaitsTail ==
  ASSUME NEW m, NEW p \in Seq(Descriptors), NEW r \in 0..2 * FIFO_DEPTH - 1, p # <<>>, Waits(m, r, p, 3)
  PROVE  /\ Waits(m, r, Tail(p), 0) /\ Tail(p) \in Seq(Descriptors)
         /\ Len(Tail(p)) = Len(p) - 1 /\ Len(p) >= 1
<1>1. /\ Tail(p) \in Seq(Descriptors) /\ Len(Tail(p)) = Len(p) - 1 /\ Len(p) \in Nat /\ Len(p) >= 1
      /\ \A q \in 1..Len(Tail(p)) : Tail(p)[q] = p[q + 1]
  OBVIOUS
<1>2. ASSUME NEW q \in 1..Len(Tail(p)), NEW k \in 0..2
      PROVE  m[Slot(r + (3 * (q - 1) + k - 0))] = Word(Tail(p)[q], k)
  <2>1. q + 1 \in 1..Len(p) /\ 3 * ((q + 1) - 1) + k >= 3
    BY <1>1
  <2>2. m[Slot(r + (3 * ((q + 1) - 1) + k - 3))] = Word(p[q + 1], k)
    BY <2>1 DEF Waits
  <2>3. 3 * ((q + 1) - 1) + k - 3 = 3 * (q - 1) + k - 0
    OBVIOUS
  <2> QED BY <1>1, <2>2, <2>3
<1> QED BY <1>1, <1>2 DEF Waits

\* The slots of the words in the FIFO and the free one behind them differ.
LEMMA SlotsApart ==
  ASSUME NEW r \in 0..2 * FIFO_DEPTH - 1, NEW n \in 0..FIFO_DEPTH - 1
  PROVE  /\ Slot(r + n) \in 0..FIFO_DEPTH - 1
         /\ \A j \in 0..n - 1 : Slot(r + j) \in 0..FIFO_DEPTH - 1 /\ Slot(r + j) # Slot(r + n)
<1> USE DmaAssumption
<1>1. r + n \in 0..3 * FIFO_DEPTH - 1 /\ n \in 0..FIFO_DEPTH /\ n < FIFO_DEPTH
  OBVIOUS
<1>2. Slot(r + n) \in 0..FIFO_DEPTH - 1
  BY <1>1, SlotIs
<1>3. \A j \in 0..n - 1 : Slot(r + j) # Slot(r + n)
  BY <1>1, Ring
<1>4. ASSUME NEW j \in 0..n - 1 PROVE Slot(r + j) \in 0..FIFO_DEPTH - 1
  <2>1. r + j \in 0..3 * FIFO_DEPTH - 1
    OBVIOUS
  <2> QED BY <2>1, SlotIs
<1> QED BY <1>2, <1>3, <1>4

\* A word that is pushed stands behind those that wait.
LEMMA WaitsPush ==
  ASSUME NEW m, NEW m1, NEW p \in Seq(Descriptors), NEW d, NEW n \in 0..2, NEW r \in 0..2 * FIFO_DEPTH - 1,
         Waits(m, r, p, 0), Begun(m, r + 3 * Len(p), d, n),
         m1[Slot(r + (3 * Len(p) + n))] = Word(d, n),
         \A j \in 0..3 * Len(p) + n - 1 : m1[Slot(r + j)] = m[Slot(r + j)]
  PROVE  /\ Waits(m1, r, p, 0) /\ Begun(m1, r + 3 * Len(p), d, n + 1)
         /\ n = 2 => Waits(m1, r, Append(p, d), 0)
<1> USE DmaAssumption
<1> DEFINE L == 3 * Len(p) + n
<1>1. Len(p) \in Nat /\ L \in Nat
  OBVIOUS
<1>4. m1[Slot(r + L)] = Word(d, n)
  OBVIOUS
<1>5. \A j \in 0..L - 1 : m1[Slot(r + j)] = m[Slot(r + j)]
  OBVIOUS
<1> HIDE DEF L
<1>6. ASSUME NEW q \in 1..Len(p), NEW k \in 0..2
      PROVE  m1[Slot(r + (3 * (q - 1) + k - 0))] = Word(p[q], k)
  <2>1. 3 * (q - 1) + k - 0 \in 0..L - 1 /\ 3 * (q - 1) + k >= 0
    BY <1>1 DEF L
  <2>2. m[Slot(r + (3 * (q - 1) + k - 0))] = Word(p[q], k)
    BY <2>1 DEF Waits
  <2> QED BY <1>5, <2>1, <2>2
<1>7. ASSUME NEW k \in 0..2, k < n + 1
      PROVE  m1[Slot(r + 3 * Len(p) + k)] = Word(d, k)
  <2>1. CASE k = n
    <3>1. r + 3 * Len(p) + k = r + L
      BY <1>1, <2>1 DEF L
    <3> QED BY <1>4, <2>1, <3>1
  <2>2. CASE k < n
    <3>1. m[Slot(r + 3 * Len(p) + k)] = Word(d, k)
      BY <2>2 DEF Begun
    <3>2. 3 * Len(p) + k \in 0..L - 1 /\ r + 3 * Len(p) + k = r + (3 * Len(p) + k)
      BY <1>1, <2>2 DEF L
    <3> QED BY <1>5, <3>1, <3>2
  <2> QED BY <1>7, <2>1, <2>2
<1>8. ASSUME n = 2, NEW q \in 1..Len(Append(p, d)), NEW k \in 0..2
      PROVE  m1[Slot(r + (3 * (q - 1) + k - 0))] = Word(Append(p, d)[q], k)
  <2>1. q \in 1..Len(p) \/ q = Len(p) + 1
    BY <1>1
  <2>2. CASE q \in 1..Len(p)
    <3>1. Append(p, d)[q] = p[q]
      BY <2>2
    <3> QED BY <1>6, <2>2, <3>1
  <2>3. CASE q = Len(p) + 1
    <3>1. r + (3 * (q - 1) + k - 0) = r + 3 * Len(p) + k /\ k < n + 1
      BY <1>1, <1>8, <2>3
    <3>2. Append(p, d)[q] = d
      BY <2>3
    <3> QED BY <1>7, <3>1, <3>2
  <2> QED BY <2>1, <2>2, <2>3
<1> QED BY <1>6, <1>7, <1>8 DEF Waits, Begun

-----------------------------------------------------------------------------
(* The FIFO in a step. *)

LEMMA FifoMoves ==
  ASSUME NEW req, descriptor_buffer(req), FifoRegs
  PROVE  /\ FifoRegs' /\ fifo'.rdata = fifo.mem[Slot(fifo.r_pnt)] /\ (fifo'.avail <=> ~Empty)
         /\ ~ctrl.enable => fifo'.w_pnt = 0 /\ fifo'.r_pnt = 0
         /\ ctrl.enable =>
              /\ fifo'.w_pnt = IF req.op = "desc" /\ ~Full THEN (fifo.w_pnt + 1) % (2 * FIFO_DEPTH) ELSE fifo.w_pnt
              /\ fifo'.r_pnt = IF engine.state \in Fetch /\ ~Empty
                               THEN (fifo.r_pnt + 1) % (2 * FIFO_DEPTH) ELSE fifo.r_pnt
         /\ fifo'.mem = IF req.op = "desc" /\ ~Full
                        THEN [fifo.mem EXCEPT ![Slot(fifo.w_pnt)] = req.word] ELSE fifo.mem
<1> USE DmaAssumption
<1>1. /\ DOMAIN fifo' = {"mem", "w_pnt", "r_pnt", "avail", "rdata"}
      /\ fifo'.rdata = fifo.mem[Slot(fifo.r_pnt)] /\ (fifo'.avail <=> ~Empty)
      /\ fifo'.mem = IF req.op = "desc" /\ ~Full
                     THEN [fifo.mem EXCEPT ![Slot(fifo.w_pnt)] = req.word] ELSE fifo.mem
  BY DEF descriptor_buffer
<1>2. ~ctrl.enable => fifo'.w_pnt = 0 /\ fifo'.r_pnt = 0
  BY DEF descriptor_buffer
<1>3. ctrl.enable =>
        /\ fifo'.w_pnt = IF req.op = "desc" /\ ~Full THEN (fifo.w_pnt + 1) % (2 * FIFO_DEPTH) ELSE fifo.w_pnt
        /\ fifo'.r_pnt = IF engine.state \in Fetch /\ ~Empty
                         THEN (fifo.r_pnt + 1) % (2 * FIFO_DEPTH) ELSE fifo.r_pnt
  BY DEF descriptor_buffer
<1>4. DOMAIN fifo'.mem = 0..FIFO_DEPTH - 1
  BY <1>1 DEF FifoRegs
<1>5. \A x \in 0..2 * FIFO_DEPTH - 1 : (x + 1) % (2 * FIFO_DEPTH) \in 0..2 * FIFO_DEPTH - 1
  OBVIOUS
<1>6. fifo'.w_pnt \in 0..2 * FIFO_DEPTH - 1 /\ fifo'.r_pnt \in 0..2 * FIFO_DEPTH - 1
  BY <1>2, <1>3, <1>5 DEF FifoRegs
<1> QED BY <1>1, <1>2, <1>3, <1>4, <1>6 DEF FifoRegs

\* The words in the FIFO, by its pointers.
LEMMA Levels ==
  ASSUME DriverInv, ctrl.enable, app # "full"
  PROVE  /\ Level \in 0..FIFO_DEPTH /\ fifo.r_pnt \in 0..2 * FIFO_DEPTH - 1
         /\ fifo.w_pnt = (fifo.r_pnt + Level) % (2 * FIFO_DEPTH)
         /\ Empty <=> Level = 0
         /\ Full <=> Level = FIFO_DEPTH
         /\ (fifo.w_pnt + 1) % (2 * FIFO_DEPTH) = (fifo.r_pnt + (Level + 1)) % (2 * FIFO_DEPTH)
<1>1. /\ Level \in 0..FIFO_DEPTH /\ fifo.r_pnt \in 0..2 * FIFO_DEPTH - 1
      /\ fifo.w_pnt = (fifo.r_pnt + Level) % (2 * FIFO_DEPTH)
  BY DEF DriverInv, FifoRegs, FifoSide
<1>2. /\ fifo.w_pnt = fifo.r_pnt <=> Level = 0
      /\ fifo.w_pnt # fifo.r_pnt /\ Slot(fifo.w_pnt) = Slot(fifo.r_pnt) <=> Level = FIFO_DEPTH
      /\ (fifo.w_pnt + 1) % (2 * FIFO_DEPTH) = (fifo.r_pnt + (Level + 1)) % (2 * FIFO_DEPTH)
  BY <1>1, Ring
<1> QED BY <1>1, <1>2 DEF Empty, Full

\* An enabled engine that runs is alone with the FIFO.
LEMMA Alone ==
  ASSUME DriverInv, ctrl.enable, engine.run
  PROVE  /\ ~cut /\ app \in {"started", "sleeping"} /\ PushedWords = 0 /\ ~ctrl.err
         /\ \A req : Moves(req) =>
              /\ req.op # "desc" /\ (\A k : ~Pushes(req, k))
              /\ CpuSide' => app' \in {"started", "sleeping", "setup"} /\ PushedWords' = 0
                             /\ cpu'.call \notin {"program", "program_nocheck"}
<1> USE DEF DriverInv
<1>1. app \in {"started", "sleeping"} /\ ~cut /\ ~ctrl.err
  BY DEF EnableSide, IdleSide, CpuSide, FlagSide
<1>2. PushedWords = 0 /\ cpu.call \notin {"program", "program_nocheck"}
  BY <1>1 DEF PushedWords, CpuSide
<1>3. ASSUME NEW req, Moves(req)
      PROVE  /\ req.op # "desc" /\ (\A k : ~Pushes(req, k))
             /\ CpuSide' => app' \in {"started", "sleeping", "setup"} /\ PushedWords' = 0
                            /\ cpu'.call \notin {"program", "program_nocheck"}
  <2>1. \A k : ~Pushes(req, k)
    BY <1>1 DEF Pushes
  <2>2. req.op # "desc"
    BY <1>3, <2>1 DEF Moves, Writes, Reads
  <2>3. ASSUME CpuSide'
        PROVE  /\ app' \in {"started", "sleeping", "setup"} /\ PushedWords' = 0
               /\ cpu'.call \notin {"program", "program_nocheck"}
    <3>1. app' = app \/ (Returned /\ cpu'.call = "none")
      BY <1>3 DEF Moves, AppMoves, Returned
    <3>2. app' \in {"started", "sleeping", "setup"}
      <4>1. app' = "stopping" => ~ctrl.enable
        BY <1>1, <3>1 DEF Returned, EnableSide
      <4> QED BY <1>1, <1>2, <3>1, <4>1 DEF Returned
    <3>3. cpu'.call \notin {"program", "program_nocheck"}
      BY <1>1, <2>3, <3>1 DEF CpuSide
    <3> QED BY <3>2, <3>3 DEF PushedWords
  <2> QED BY <2>1, <2>2, <2>3
<1> QED BY <1>1, <1>2, <1>3

\* What the engine does with a word it fetched.
LEMMA FetchMoves ==
  ASSUME NEW rsp, bus_engine(rsp), DOMAIN engine = EngineRegs
  PROVE  /\ engine.state = "S_GET_0" => engine'.state = "S_GET_1"
         /\ engine.state = "S_GET_1" =>
              /\ engine'.src_addr = fifo.rdata.addr
              /\ engine'.state = IF fifo.avail THEN "S_GET_2" ELSE "S_GET_1"
         /\ engine.state = "S_GET_2" =>
              /\ engine'.dst_addr = fifo.rdata.addr /\ engine'.src_addr = engine.src_addr
              /\ engine'.state = IF fifo.avail THEN "S_GET_3" ELSE "S_GET_2"
         /\ engine.state = "S_GET_3" =>
              /\ engine'.src_addr = engine.src_addr /\ engine'.dst_addr = engine.dst_addr
              /\ engine'.num = fifo.rdata.conf.num /\ engine'.bswap = fifo.rdata.conf.bswap
              /\ engine'.src_type = fifo.rdata.conf.src /\ engine'.dst_type = fifo.rdata.conf.dst
              /\ engine'.state = "S_READ_REQ"
         /\ engine.state \in Fetch \cup {"S_GET_3"} => engine'.num_or = engine.num_or
<1> USE DEF EngineRegs
<1>1. CASE engine.state = "S_GET_0"
  <2>1. Get0
    BY <1>1, EngineCase
  <2> QED BY <1>1, <2>1 DEF Get0
<1>2. CASE engine.state = "S_GET_1"
  <2>1. Get1
    BY <1>2, EngineCase
  <2> QED BY <1>2, <2>1 DEF Get1
<1>3. CASE engine.state = "S_GET_2"
  <2>1. Get2
    BY <1>3, EngineCase
  <2> QED BY <1>3, <2>1 DEF Get2
<1>4. CASE engine.state = "S_GET_3"
  <2>1. Get3
    BY <1>4, EngineCase
  <2> QED BY <1>4, <2>1 DEF Get3
<1>5. CASE engine.state \notin Fetch \cup {"S_GET_3"}
  BY <1>5 DEF Fetch
<1> QED BY <1>1, <1>2, <1>3, <1>4, <1>5 DEF Fetch

\* The engine transfers or is between two transfers.
LEMMA OtherStates ==
  ASSUME NEW rsp, bus_engine(rsp), DOMAIN engine = EngineRegs, engine.state \notin Fetch \cup {"S_GET_3"}
  PROVE  /\ engine'.state \notin {"S_GET_1", "S_GET_2", "S_GET_3"}
         /\ engine'.state = "S_GET_0" => engine.state = "S_CHECK"
         /\ engine'.state = "S_READ_REQ" => engine.state = "S_WRITE_RSP"
<1> USE DEF EngineRegs
<1>1. CASE engine.state = "S_CHECK"
  BY <1>1, EngineRuns
<1>2. CASE engine.state # "S_CHECK"
  <2>1. ReadReq \/ ReadRsp(rsp) \/ WriteReq \/ WriteRsp(rsp)
    BY <1>2, EngineCase DEF Fetch
  <2> QED BY <2>1 DEF ReadReq, ReadRsp, WriteReq, WriteRsp
<1> QED BY <1>1, <1>2

\* A push: the application is alone with the FIFO.
LEMMA PushKept ==
  ASSUME DriverInv, NEW req, NEW rsp, Edge(req, rsp), Moves(req), CpuSide', NEW k \in 0..2, Pushes(req, k)
  PROVE  FifoSide'
<1> USE DEF DriverInv
<1>1. /\ app = "setup" /\ app' = "setup" /\ ~engine.run /\ engine.state = "S_CHECK" /\ ~ctrl.start
      /\ cpu.call \in {"none", "program", "program_nocheck"}
  BY DEF Pushes, IdleSide, EnableSide
<1>2. ctrl.enable
  BY <1>1 DEF EnableSide
<1>3. engine'.state = "S_CHECK" /\ ~engine'.run
  BY <1>1, IdleStays
<1>4. FetchedWords = 0 /\ FetchedWords' = 0
  BY <1>1, <1>3 DEF FetchedWords
<1>5. PushedWords = k /\ PushedWords' = (IF k = 2 THEN 0 ELSE k + 1)
  BY DEF Pushes
<1>6. Len(pending) \in Nat /\ Level = 3 * Len(pending) + k /\ Level \in 0..FIFO_DEPTH
  BY <1>1, <1>2, <1>4, <1>5, Levels DEF Level
<1>7. Level < FIFO_DEPTH
  <2>1. 3 * (Len(pending) + 1) <= FIFO_DEPTH => Level < FIFO_DEPTH
    BY <1>6, DmaAssumption
  <2>2. /\ cpu.call = "program" /\ cpu.at \in {1, 3, 5} /\ cpu.phase = "next" => Level < FIFO_DEPTH
        /\ cpu.call = "program_nocheck" /\ cpu.at < 3 => 3 * (Len(pending) + 1) <= FIFO_DEPTH
    BY <1>1, <1>2 DEF FifoSide
  <2> QED BY <2>1, <2>2 DEF Pushes
<1>8. ~Full /\ fifo.r_pnt \in 0..2 * FIFO_DEPTH - 1
  BY <1>1, <1>2, <1>6, <1>7, Levels, DmaAssumption
<1>9. req.op = "desc" /\ req.word = Word(cpu'.desc, k)
  BY DEF Pushes, PushDesc
<1>10. /\ fifo'.w_pnt = (fifo.w_pnt + 1) % (2 * FIFO_DEPTH) /\ fifo'.r_pnt = fifo.r_pnt
       /\ fifo'.mem = [fifo.mem EXCEPT ![Slot(fifo.w_pnt)] = Word(cpu'.desc, k)]
  BY <1>1, <1>2, <1>8, <1>9, FifoMoves DEF Edge, DmaEdge, Fetch
<1>11. pending' = IF k = 2 THEN Append(pending, cpu'.desc) ELSE pending
  <2>1. CASE k = 2
    BY <1>1, <1>2, <1>8, <2>1, PendingMoves
  <2>2. CASE k # 2
    <3>1. ~Pushes(req, 2)
      BY <1>5, <2>2 DEF Pushes
    <3> QED BY <1>1, <1>2, <2>2, <3>1, PendingMoves
  <2> QED BY <2>1, <2>2
<1>12. Level' = Level + 1
  <2>1. k = 2 => Len(pending') = Len(pending) + 1
    BY <1>11 DEF Pushes
  <2> QED BY <1>4, <1>5, <1>6, <1>11, <2>1 DEF Level
<1>13. fifo'.w_pnt = (fifo'.r_pnt + Level') % (2 * FIFO_DEPTH)
  BY <1>1, <1>2, <1>10, <1>12, Levels
<1>14. /\ Waits(fifo.mem, fifo.r_pnt, pending, 0) /\ Begun(fifo.mem, fifo.r_pnt + 3 * Len(pending), cpu'.desc, k)
       /\ fifo.w_pnt = (fifo.r_pnt + (3 * Len(pending) + k)) % (2 * FIFO_DEPTH)
  <2>1. Waits(fifo.mem, fifo.r_pnt, pending, 0) /\ Begun(fifo.mem, fifo.r_pnt + 3 * Len(pending), cpu.desc, k)
    BY <1>1, <1>2, <1>4, <1>5 DEF FifoSide
  <2>2. k = 0 \/ cpu'.desc = cpu.desc
    BY DEF Pushes
  <2>3. k = 0 => Begun(fifo.mem, fifo.r_pnt + 3 * Len(pending), cpu'.desc, k)
    BY DEF Begun
  <2>4. fifo.w_pnt = (fifo.r_pnt + (3 * Len(pending) + k)) % (2 * FIFO_DEPTH)
    BY <1>1, <1>2, <1>6, Levels
  <2> QED BY <2>1, <2>2, <2>3, <2>4
<1>15. /\ Waits(fifo'.mem, fifo.r_pnt, pending, 0)
       /\ Begun(fifo'.mem, fifo.r_pnt + 3 * Len(pending), cpu'.desc, k + 1)
       /\ k = 2 => Waits(fifo'.mem, fifo.r_pnt, Append(pending, cpu'.desc), 0)
  <2> DEFINE m1 == fifo'.mem
             r  == fifo.r_pnt
  <2>1. DOMAIN fifo.mem = 0..FIFO_DEPTH - 1 /\ Level \in 0..FIFO_DEPTH - 1 /\ pending \in Seq(Descriptors)
    BY <1>6, <1>7, DmaAssumption DEF FifoRegs
  <2>2. Slot(fifo.w_pnt) = Slot(r + Level)
    BY <1>1, <1>2, <1>8, Levels, Ring
  <2>3. m1 = [fifo.mem EXCEPT ![Slot(r + Level)] = Word(cpu'.desc, k)]
    BY <1>10, <2>2
  <2>4. r \in 0..2 * FIFO_DEPTH - 1
    BY <1>8
  <2> HIDE DEF m1, r
  <2>5. m1[Slot(r + Level)] = Word(cpu'.desc, k) /\ \A j \in 0..Level - 1 : m1[Slot(r + j)] = fifo.mem[Slot(r + j)]
    <3>1. /\ Slot(r + Level) \in 0..FIFO_DEPTH - 1
          /\ \A j \in 0..Level - 1 : Slot(r + j) \in 0..FIFO_DEPTH - 1 /\ Slot(r + j) # Slot(r + Level)
      BY <2>1, <2>4, SlotsApart
    <3> QED BY <2>1, <2>3, <3>1
  <2>6. /\ m1[Slot(r + (3 * Len(pending) + k))] = Word(cpu'.desc, k)
        /\ \A j \in 0..3 * Len(pending) + k - 1 : m1[Slot(r + j)] = fifo.mem[Slot(r + j)]
    BY <1>6, <2>5
  <2>7. Waits(fifo.mem, r, pending, 0) /\ Begun(fifo.mem, r + 3 * Len(pending), cpu'.desc, k)
    BY <1>14 DEF r
  <2>8. Waits(m1, r, pending, 0)
    BY <2>1, <2>4, <2>6, <2>7, WaitsPush
  <2>9. Begun(m1, r + 3 * Len(pending), cpu'.desc, k + 1)
    BY <2>1, <2>4, <2>6, <2>7, WaitsPush
  <2>10. k = 2 => Waits(m1, r, Append(pending, cpu'.desc), 0)
    BY <2>1, <2>4, <2>6, <2>7, WaitsPush
  <2> QED BY <2>8, <2>9, <2>10 DEF m1, r
<1>16. Waits(fifo'.mem, fifo'.r_pnt, pending', FetchedWords')
  BY <1>4, <1>10, <1>11, <1>15
<1>17. Begun(fifo'.mem, fifo'.r_pnt + 3 * Len(pending'), cpu'.desc, PushedWords')
  <2>1. CASE k = 2
    BY <1>5, <2>1 DEF Begun
  <2>2. CASE k # 2
    BY <1>5, <1>10, <1>11, <1>15, <2>2
  <2> QED BY <2>1, <2>2
<1>18. cpu'.call = "program_nocheck" /\ cpu'.at < 3 => 3 * (Len(pending') + 1) <= FIFO_DEPTH
  <2> SUFFICES ASSUME cpu'.call = "program_nocheck", cpu'.at < 3 PROVE 3 * (Len(pending') + 1) <= FIFO_DEPTH
    OBVIOUS
  <2>1. 3 * (Len(pending) + 1) <= FIFO_DEPTH
    BY <1>1, <1>2 DEF Moves, AppMoves, FifoSide
  <2>2. k # 2
    <3>1. cpu'.at \in {1, 2}
      BY Lengths DEF CpuSide
    <3>2. PushedWords' = cpu'.at
      BY <3>1 DEF PushedWords
    <3> QED BY <1>5, <3>1, <3>2
  <2> QED BY <1>11, <2>1, <2>2
<1>19. ~(cpu'.call = "program" /\ cpu'.at \in {1, 3, 5} /\ cpu'.phase = "next")
  BY DEF Pushes
<1>20. Level' \in 0..FIFO_DEPTH /\ Level' > 0
  BY <1>6, <1>7, <1>12, DmaAssumption
<1> QED BY <1>3, <1>13, <1>16, <1>17, <1>18, <1>19, <1>20 DEF FifoSide

\* The engine takes a word.
LEMMA FetchKept ==
  ASSUME DriverInv, NEW req, NEW rsp, Edge(req, rsp), Moves(req), CpuSide', ctrl.enable, engine.state \in Fetch
  PROVE  FifoSide' /\ pending' = pending /\ FetchedWords \in 0..2 /\ FetchedWords' = FetchedWords + 1
         /\ pending # <<>> /\ Level \in 1..FIFO_DEPTH /\ ~cut
<1> USE DEF DriverInv
<1>1. engine.run
  BY DEF IdleSide, Fetch
<1>2. /\ ~cut /\ app \in {"started", "sleeping"} /\ PushedWords = 0 /\ PushedWords' = 0
      /\ req.op # "desc" /\ (\A k : ~Pushes(req, k))
      /\ cpu'.call \notin {"program", "program_nocheck"}
  BY <1>1, Alone
<1>3. pending # <<>> /\ (engine.state \in {"S_GET_1", "S_GET_2"} => fifo.avail)
  BY <1>2 DEF FetchSide, Fetch
<1>4. /\ FetchedWords \in 0..2 /\ FetchedWords' = FetchedWords + 1
      /\ engine'.state \in {"S_GET_1", "S_GET_2", "S_GET_3"}
  BY <1>3, EngineMoves, FetchMoves DEF FetchedWords, Fetch
<1>5. pending' = pending
  BY <1>2, PendingMoves DEF Fetch
<1>6. Len(pending) \in Nat /\ Len(pending) >= 1
  BY <1>3
<1>7. Level = 3 * Len(pending) - FetchedWords /\ Level \in 1..FIFO_DEPTH /\ Level' = Level - 1
  <2>1. Level = 3 * Len(pending) - FetchedWords
    BY <1>2, <1>4, <1>6 DEF Level
  <2>2. Level \in 0..FIFO_DEPTH
    BY <1>2, Levels
  <2>3. Level' = Level - 1
    BY <1>2, <1>4, <1>5, <1>6, <2>1 DEF Level
  <2> QED BY <1>4, <1>6, <2>1, <2>2, <2>3
<1>8. ~Empty /\ fifo.r_pnt \in 0..2 * FIFO_DEPTH - 1 /\ fifo.w_pnt = (fifo.r_pnt + Level) % (2 * FIFO_DEPTH)
  BY <1>2, <1>7, Levels
<1>9. /\ fifo'.r_pnt = (fifo.r_pnt + 1) % (2 * FIFO_DEPTH) /\ fifo'.w_pnt = fifo.w_pnt
      /\ fifo'.mem = fifo.mem
  BY <1>2, <1>8, FifoMoves DEF Edge, DmaEdge
<1>10. fifo'.w_pnt = (fifo'.r_pnt + Level') % (2 * FIFO_DEPTH)
  BY <1>7, <1>8, <1>9, RingRead
<1>11. Waits(fifo'.mem, fifo'.r_pnt, pending', FetchedWords')
  <2>1. Waits(fifo.mem, fifo.r_pnt, pending, FetchedWords)
    BY <1>2 DEF FifoSide
  <2>2. Waits(fifo.mem, (fifo.r_pnt + 1) % (2 * FIFO_DEPTH), pending, FetchedWords + 1)
    BY <1>4, <1>7, <1>8, <2>1, WaitsRead
  <2> QED BY <1>4, <1>5, <1>9, <2>2
<1>12. Begun(fifo'.mem, fifo'.r_pnt + 3 * Len(pending'), cpu'.desc, PushedWords')
  BY <1>2 DEF Begun
<1>13. engine'.run
  BY <1>1, EngineMoves, EngineRuns DEF Fetch
<1>14. Level' \in 0..FIFO_DEPTH
  BY <1>7, DmaAssumption
<1>15. FifoSide'
  BY <1>2, <1>4, <1>10, <1>11, <1>12, <1>13, <1>14 DEF FifoSide, Fetch
<1> QED BY <1>2, <1>3, <1>4, <1>5, <1>7, <1>15

\* The engine has taken a descriptor.
LEMMA TakenKept ==
  ASSUME DriverInv, NEW req, NEW rsp, Edge(req, rsp), Moves(req), CpuSide', ctrl.enable, engine.state = "S_GET_3"
  PROVE  FifoSide'
<1> USE DEF DriverInv
<1>1. engine.run
  BY DEF IdleSide
<1>2. /\ ~cut /\ app \in {"started", "sleeping"} /\ PushedWords = 0 /\ PushedWords' = 0
      /\ req.op # "desc" /\ (\A k : ~Pushes(req, k))
      /\ cpu'.call \notin {"program", "program_nocheck"}
  BY <1>1, Alone
<1>3. pending # <<>>
  BY <1>2 DEF FetchSide
<1>4. FetchedWords = 3 /\ FetchedWords' = 0 /\ engine'.state = "S_READ_REQ"
  BY EngineMoves, FetchMoves DEF FetchedWords
<1>5. pending' = Tail(pending)
  BY <1>2, <1>3, PendingMoves
<1>6. Waits(fifo.mem, fifo.r_pnt, pending, 3) /\ fifo.r_pnt \in 0..2 * FIFO_DEPTH - 1
  BY <1>2, <1>4, Levels DEF FifoSide
<1>7. /\ Waits(fifo.mem, fifo.r_pnt, Tail(pending), 0)
      /\ Len(Tail(pending)) = Len(pending) - 1 /\ Len(pending) \in Nat
  BY <1>3, <1>6, WaitsTail
<1>8. fifo'.r_pnt = fifo.r_pnt /\ fifo'.w_pnt = fifo.w_pnt /\ fifo'.mem = fifo.mem /\ (fifo'.avail <=> ~Empty)
  BY <1>2, FifoMoves DEF Edge, DmaEdge, Fetch
<1>9. Level' = Level
  <2>1. Len(pending') = Len(pending) - 1
    BY <1>5, <1>7
  <2>2. Level' = 3 * Len(pending') /\ Level = 3 * Len(pending) - 3
    BY <1>2, <1>4, <1>7, <2>1 DEF Level
  <2> QED BY <1>7, <2>1, <2>2
<1>10. /\ Level \in 0..FIFO_DEPTH /\ fifo.w_pnt = (fifo.r_pnt + Level) % (2 * FIFO_DEPTH)
       /\ ~Empty <=> Level > 0
  BY <1>2, Levels
<1>11. Waits(fifo'.mem, fifo'.r_pnt, pending', FetchedWords')
  BY <1>4, <1>5, <1>7, <1>8
<1>12. Begun(fifo'.mem, fifo'.r_pnt + 3 * Len(pending'), cpu'.desc, PushedWords')
  BY <1>2 DEF Begun
<1> QED BY <1>2, <1>8, <1>9, <1>10, <1>11, <1>12 DEF FifoSide

\* Nobody touches it.
LEMMA StillKept ==
  ASSUME DriverInv, NEW req, NEW rsp, Edge(req, rsp), Moves(req), CpuSide', ctrl.enable, app # "full",
         app' # "full", engine.state \notin Fetch \cup {"S_GET_3"}, \A k \in 0..2 : ~Pushes(req, k)
  PROVE  FifoSide'
<1> USE DEF DriverInv
<1>1. req.op # "desc" /\ AppMoves(req) /\ (Writes(req) \/ Reads(req))
  BY DEF Moves, Writes, Reads
<1>2. PushedWords' = PushedWords /\ (PushedWords = 0 \/ cpu'.desc = cpu.desc)
  BY <1>1 DEF Writes, Reads, PushedWords
<1>3. FetchedWords = 0 /\ FetchedWords' = 0
  BY EngineMoves, OtherStates DEF FetchedWords, Fetch
<1>4. pending' = pending
  BY PendingMoves
<1>5. Level' = Level
  BY <1>2, <1>3, <1>4 DEF Level
<1>6. fifo'.r_pnt = fifo.r_pnt /\ fifo'.w_pnt = fifo.w_pnt /\ fifo'.mem = fifo.mem /\ (fifo'.avail <=> ~Empty)
  BY <1>1, FifoMoves DEF Edge, DmaEdge
<1>7. /\ Level \in 0..FIFO_DEPTH /\ fifo.w_pnt = (fifo.r_pnt + Level) % (2 * FIFO_DEPTH)
      /\ ~Empty <=> Level > 0
      /\ ~Full => Level < FIFO_DEPTH
  BY Levels, DmaAssumption
<1>8. /\ Waits(fifo.mem, fifo.r_pnt, pending, 0)
      /\ Begun(fifo.mem, fifo.r_pnt + 3 * Len(pending), cpu.desc, PushedWords)
  BY <1>3 DEF FifoSide
<1>9. Waits(fifo'.mem, fifo'.r_pnt, pending', FetchedWords')
  BY <1>3, <1>4, <1>6, <1>8
<1>10. Begun(fifo'.mem, fifo'.r_pnt + 3 * Len(pending'), cpu'.desc, PushedWords')
  BY <1>2, <1>4, <1>6, <1>8 DEF Begun
<1>11. cpu'.call = "program" /\ cpu'.at \in {1, 3, 5} /\ cpu'.phase = "next" => Level' < FIFO_DEPTH
  BY <1>1, <1>5, <1>7 DEF AppMoves, FifoSide
<1>12. cpu'.call = "program_nocheck" /\ cpu'.at < 3 => 3 * (Len(pending') + 1) <= FIFO_DEPTH
  BY <1>1, <1>4 DEF AppMoves, FifoSide
<1> QED BY <1>5, <1>6, <1>7, <1>9, <1>10, <1>11, <1>12 DEF FifoSide

\* A DMA that is off has cleared it.
LEMMA OffKept ==
  ASSUME DriverInv, NEW req, NEW rsp, Edge(req, rsp), Moves(req), CpuSide', ~ctrl.enable
  PROVE  FifoSide'
<1> USE DEF DriverInv
<1>1. SUFFICES ASSUME ctrl'.enable PROVE FifoSide'
  BY DEF FifoSide
<1>2. Writes(req) /\ cpu.call # "disable" /\ app = "off" /\ app' = "off"
  <2>1. Writes(req) /\ cpu.call # "disable"
    BY <1>1, CtrlMoves
  <2> QED BY <2>1 DEF Writes, EnableSide, CpuSide
<1>3. ~engine.run /\ engine.state = "S_CHECK" /\ ~ctrl.start /\ Empty
  BY <1>2 DEF IdleSide, EnableSide, CpuSide
<1>4. engine'.state = "S_CHECK" /\ ~engine'.run
  BY <1>3, IdleStays
<1>5. pending' = <<>>
  BY <1>2, <1>3, PendingMoves DEF Fetch
<1>6. PushedWords' = 0 /\ FetchedWords' = 0 /\ cpu'.call \notin {"program", "program_nocheck"}
  BY <1>2, <1>4 DEF PushedWords, FetchedWords, Writes
<1>7. Level' = 0
  BY <1>5, <1>6 DEF Level
<1>8. fifo'.w_pnt = 0 /\ fifo'.r_pnt = 0 /\ ~fifo'.avail
  BY <1>3, FifoMoves DEF Edge, DmaEdge
<1>9. Waits(fifo'.mem, fifo'.r_pnt, pending', FetchedWords')
  BY <1>5 DEF Waits
<1>10. Begun(fifo'.mem, fifo'.r_pnt + 3 * Len(pending'), cpu'.desc, PushedWords')
  BY <1>6 DEF Begun
<1>11. fifo'.w_pnt = (fifo'.r_pnt + Level') % (2 * FIFO_DEPTH)
  <2>1. 0 % (2 * FIFO_DEPTH) = 0
    BY DmaAssumption, PointerIs
  <2> QED BY <1>7, <1>8, <2>1
<1> QED BY <1>4, <1>6, <1>7, <1>8, <1>9, <1>10, <1>11, DmaAssumption DEF FifoSide

LEMMA FifoKept ==
  ASSUME DriverInv, NEW req, NEW rsp, Edge(req, rsp), Moves(req), CpuSide'
  PROVE  FifoRegs' /\ FifoSide' /\ pending' \in Seq(Descriptors)
<1> USE DEF DriverInv
<1>1. FifoRegs'
  BY FifoMoves DEF Edge, DmaEdge
<1>2. FifoSide'
  <2>1. CASE ~ctrl.enable
    BY <2>1, OffKept
  <2>2. ASSUME ctrl.enable, NEW k \in 0..2, Pushes(req, k) PROVE FifoSide'
    BY <2>2, PushKept
  <2>3. CASE ctrl.enable /\ engine.state \in Fetch
    BY <2>3, FetchKept
  <2>4. CASE ctrl.enable /\ engine.state = "S_GET_3"
    BY <2>4, TakenKept
  <2>5. CASE app' = "full"
    BY <2>5 DEF FifoSide
  <2>6. CASE ctrl.enable /\ app = "full" /\ app' # "full"
    <3>1. cpu.call = "disable" /\ cpu.at = 2
      BY <2>6 DEF Moves, AppMoves, Returned, CpuSide
    <3> QED BY <2>6, <3>1 DEF EnableSide, CpuSide
  <2> QED BY <2>1, <2>2, <2>3, <2>4, <2>5, <2>6, StillKept
<1>3. pending' \in Seq(Descriptors)
  BY PendingMoves
<1> QED BY <1>1, <1>2, <1>3

-----------------------------------------------------------------------------
(* What a transfer copies. *)

LEMMA MaxIs ==
  ASSUME NEW S \in SUBSET Int, NEW x \in S, \A y \in S : x >= y
  PROVE  Max(S) = x
<1>1. \E y \in S : \A z \in S : y >= z
  OBVIOUS
<1>2. Max(S) \in S /\ \A z \in S : Max(S) >= z
  BY <1>1 DEF Max
<1> DEFINE y == Max(S)
<1>3. y \in Int /\ x \in Int /\ y >= x /\ x >= y
  BY <1>2
<1> HIDE DEF y
<1>4. y = x
  BY <1>3
<1> QED BY <1>4 DEF y

LEMMA MovedNothing ==
  ASSUME NEW m, NEW d, m = [a \in DOMAIN m |-> m[a]]
  PROVE  Moved(m, d, 0) = m
<1>1. ASSUME NEW a \in DOMAIN m PROVE {i \in 0..0 - 1 : a \in Targets(d, i)} = {}
  OBVIOUS
<1> QED BY <1>1 DEF Moved

\* One element more.
LEMMA MovedNext ==
  ASSUME NEW b, NEW d, NEW n \in Nat, NEW a \in DOMAIN b
  PROVE  Moved(b, d, n + 1)[a] = IF a \in Targets(d, n) THEN MovedByte(b, d, n, a) ELSE Moved(b, d, n)[a]
<1> DEFINE W(k) == {i \in 0..k - 1 : a \in Targets(d, i)}
<1>1. \A k : Moved(b, d, k)[a] = IF W(k) = {} THEN b[a] ELSE MovedByte(b, d, Max(W(k)), a)
  BY DEF Moved
<1>2. (n + 1) - 1 = n
  OBVIOUS
<1>3. CASE a \in Targets(d, n)
  <2>1. n \in W(n + 1) /\ W(n + 1) \in SUBSET Int /\ \A y \in W(n + 1) : n >= y
    BY <1>2, <1>3
  <2> HIDE DEF W
  <2>2. Max(W(n + 1)) = n
    BY <2>1, MaxIs
  <2> QED BY <1>1, <1>3, <2>1, <2>2
<1>4. CASE a \notin Targets(d, n)
  <2>1. W(n + 1) = W(n)
    BY <1>2, <1>4
  <2> HIDE DEF W
  <2> QED BY <1>1, <1>4, <2>1
<1> QED BY <1>3, <1>4

\* The elements of a descriptor.
LEMMA Elements ==
  ASSUME NEW d \in Descriptors, NEW i \in Nat
  PROVE  /\ d.src \in Nat /\ d.dst \in Nat /\ d.conf.num \in 1..NUM_MOD - 1 /\ d.conf.bswap \in BOOLEAN
         /\ d.conf.src \in Type /\ d.conf.dst \in Type
         /\ ElementSrc(d, i) \in Nat /\ ElementDst(d, i) \in Nat
         /\ ElementSrc(d, i + 1) = ElementSrc(d, i) + Increment(d.conf.src)
         /\ ElementDst(d, i + 1) = ElementDst(d, i) + Increment(d.conf.dst)
         /\ ElementSrc(d, 0) = d.src /\ ElementDst(d, 0) = d.dst
         /\ Increment(d.conf.src) \in Nat /\ Increment(d.conf.dst) \in Nat
<1>1. d \in [src : Nat, dst : Nat, conf : [num : 1..NUM_MOD - 1, bswap : BOOLEAN, src : Type, dst : Type]]
  BY DescriptorAssumption
<1>2. Increment(d.conf.src) \in {0, 1, 4} /\ Increment(d.conf.dst) \in {0, 1, 4}
  BY DEF Increment
<1> DEFINE u == Increment(d.conf.src)
           v == Increment(d.conf.dst)
<1> HIDE DEF u, v
<1>3. u \in {0, 1, 4} /\ v \in {0, 1, 4}
  BY <1>2 DEF u, v
<1>4. /\ d.src \in Nat /\ d.dst \in Nat /\ d.conf.num \in 1..NUM_MOD - 1 /\ d.conf.bswap \in BOOLEAN
      /\ d.conf.src \in Type /\ d.conf.dst \in Type
  BY <1>1
<1>5. \A j \in Nat : j * u \in Nat /\ j * v \in Nat /\ (j + 1) * u = j * u + u /\ (j + 1) * v = j * v + v
  <2> TAKE j \in Nat
  <2>1. j * u \in Nat /\ (j + 1) * u = j * u + u
    BY <1>3
  <2>2. j * v \in Nat /\ (j + 1) * v = j * v + v
    BY <1>3
  <2> QED BY <2>1, <2>2
<1>6. 0 * u = 0 /\ 0 * v = 0
  BY <1>3
<1>7. /\ ElementSrc(d, i) = d.src + i * u /\ ElementDst(d, i) = d.dst + i * v
      /\ ElementSrc(d, i + 1) = d.src + (i + 1) * u /\ ElementDst(d, i + 1) = d.dst + (i + 1) * v
      /\ ElementSrc(d, 0) = d.src + 0 * u /\ ElementDst(d, 0) = d.dst + 0 * v
  BY DEF ElementSrc, ElementDst, u, v
<1>8. i * u \in Nat /\ i * v \in Nat /\ (i + 1) * u = i * u + u /\ (i + 1) * v = i * v + v
  BY <1>5
<1>9. ElementSrc(d, i) \in Nat /\ ElementDst(d, i) \in Nat
  BY <1>4, <1>7, <1>8
<1>10. ElementSrc(d, i + 1) = ElementSrc(d, i) + u
  BY <1>3, <1>4, <1>7, <1>8
<1>11. ElementDst(d, i + 1) = ElementDst(d, i) + v
  BY <1>3, <1>4, <1>7, <1>8
<1>12. ElementSrc(d, 0) = d.src /\ ElementDst(d, 0) = d.dst
  BY <1>4, <1>6, <1>7
<1> QED BY <1>3, <1>4, <1>9, <1>10, <1>11, <1>12 DEF u, v

\* A transfer does not touch the words it reads.
LEMMA SourceKept ==
  ASSUME NEW b, NEW d \in Descriptors, NEW n \in 0..d.conf.num, NEW j \in 0..d.conf.num - 1,
         NEW a \in DOMAIN b, a \div 4 = ElementSrc(d, j) \div 4
  PROVE  Moved(b, d, n)[a] = b[a]
<1>1. d.conf.num \in Nat
  BY Elements
<1>2. \A i \in 0..n - 1 : a \notin Targets(d, i)
  <2> TAKE i \in 0..n - 1
  <2>1. i \in 0..d.conf.num - 1
    BY <1>1
  <2> QED BY <2>1, DriverAssumption
<1>3. {i \in 0..n - 1 : a \in Targets(d, i)} = {}
  BY <1>2
<1> QED BY <1>3 DEF Moved

-----------------------------------------------------------------------------
(* A transfer, state by state. *)

LEMMA TransferMoves ==
  ASSUME NEW rsp, bus_engine(rsp), DOMAIN engine = EngineRegs
  PROVE  /\ engine.state = "S_READ_REQ" =>
              /\ engine'.state = "S_READ_RSP" /\ engine'.num = (engine.num - 1) % NUM_MOD
              /\ engine'.dst_addr = IF engine.num_or THEN engine.dst_addr + Increment(engine.dst_type)
                                    ELSE engine.dst_addr
              /\ engine'.src_addr = engine.src_addr /\ engine'.num_or = engine.num_or
         /\ engine.state = "S_READ_RSP" =>
              /\ engine'.num = engine.num /\ engine'.dst_addr = engine.dst_addr
              /\ engine'.src_addr = engine.src_addr /\ engine'.num_or = engine.num_or
              /\ engine'.state = IF ~rsp.ack THEN "S_READ_RSP" ELSE IF rsp.err THEN "S_CHECK" ELSE "S_WRITE_REQ"
              /\ rsp.ack => (engine'.err <=> rsp.err)
         /\ engine.state = "S_WRITE_REQ" =>
              /\ engine'.state = "S_WRITE_RSP" /\ engine'.num = engine.num
              /\ engine'.src_addr = engine.src_addr + Increment(engine.src_type)
              /\ engine'.dst_addr = engine.dst_addr /\ (engine'.num_or <=> engine.num # 0)
         /\ engine.state = "S_WRITE_RSP" =>
              /\ engine'.num = engine.num /\ engine'.dst_addr = engine.dst_addr
              /\ engine'.src_addr = engine.src_addr /\ engine'.num_or = engine.num_or
              /\ engine'.state = IF ~rsp.ack THEN "S_WRITE_RSP"
                                 ELSE IF ~engine.num_or \/ ~ctrl.enable \/ rsp.err THEN "S_CHECK" ELSE "S_READ_REQ"
              /\ rsp.ack => (engine'.err <=> rsp.err)
         /\ Transferring =>
              /\ engine'.bswap = engine.bswap /\ engine'.src_type = engine.src_type
              /\ engine'.dst_type = engine.dst_type
<1> USE DEF EngineRegs
<1>1. CASE engine.state = "S_READ_REQ"
  <2>1. ReadReq
    BY <1>1, EngineCase
  <2> QED BY <1>1, <2>1 DEF ReadReq
<1>2. CASE engine.state = "S_READ_RSP"
  <2>1. ReadRsp(rsp)
    BY <1>2, EngineCase
  <2>2. CASE rsp.ack
    <3>1. engine' = [engine EXCEPT !.err = rsp.err, !.state = IF rsp.err THEN "S_CHECK" ELSE "S_WRITE_REQ"]
      BY <2>1, <2>2 DEF ReadRsp
    <3> QED BY <1>2, <2>2, <3>1
  <2>3. CASE ~rsp.ack
    <3>1. engine' = engine
      BY <2>1, <2>3 DEF ReadRsp
    <3> QED BY <1>2, <2>3, <3>1
  <2> QED BY <2>2, <2>3
<1>3. CASE engine.state = "S_WRITE_REQ"
  <2>1. WriteReq
    BY <1>3, EngineCase
  <2> QED BY <1>3, <2>1 DEF WriteReq
<1>4. CASE engine.state = "S_WRITE_RSP"
  <2>1. WriteRsp(rsp)
    BY <1>4, EngineCase
  <2>2. CASE rsp.ack
    <3>1. engine' = [engine EXCEPT !.err = rsp.err,
                                   !.state = IF ~engine.num_or \/ ~ctrl.enable \/ rsp.err
                                             THEN "S_CHECK" ELSE "S_READ_REQ"]
      BY <2>1, <2>2 DEF WriteRsp
    <3> QED BY <1>4, <2>2, <3>1
  <2>3. CASE ~rsp.ack
    <3>1. engine' = engine
      BY <2>1, <2>3 DEF WriteRsp
    <3> QED BY <1>4, <2>3, <3>1
  <2> QED BY <2>2, <2>3
<1> QED BY <1>1, <1>2, <1>3, <1>4 DEF Transferring

\* An answer comes from memory, or is an error behind its end.
LEMMA AnswerIs ==
  ASSUME NEW rsp \in Responses, rsp.ack
  PROVE  /\ engine.state \in Waiting
         /\ rsp.err <=> bus_control.addr * 4 >= MEM_BYTES
         /\ ~rsp.err => \A l \in Lane : rsp.data[l] = mem[bus_control.addr * 4 + l]
         /\ DOMAIN rsp.data = Lane /\ rsp.data = [l \in Lane |-> rsp.data[l]]
<1>1. rsp = MemoryAnswer /\ engine.state \in Waiting
  BY DEF Responses, NoRsp
<1>2. (rsp.err <=> bus_control.addr * 4 >= MEM_BYTES)
  BY <1>1 DEF MemoryAnswer
<1>3. rsp.data = [l \in Lane |-> IF bus_control.addr * 4 >= MEM_BYTES THEN 0 ELSE mem[bus_control.addr * 4 + l]]
  BY <1>1 DEF MemoryAnswer
<1> QED BY <1>1, <1>2, <1>3

\* The word of an address.
LEMMA WordOf ==
  ASSUME NEW s \in Nat
  PROVE  /\ (s \div 4) * 4 >= MEM_BYTES <=> s >= MEM_BYTES
         /\ s = (s \div 4) * 4 + (s % 4) /\ s % 4 \in Lane
         /\ \A l \in Lane : /\ ((s \div 4) * 4 + l) \div 4 = s \div 4 /\ ((s \div 4) * 4 + l) % 4 = l
                            /\ s < MEM_BYTES => (s \div 4) * 4 + l \in 0..MEM_BYTES - 1
  BY DescriptorAssumption DEF Lane

-----------------------------------------------------------------------------
(* A descriptor on its way. *)

\* What is known of an engine that runs without having been cut off.
LEMMA NotCut ==
  ASSUME DriverInv, NEW req, NEW rsp, Edge(req, rsp), engine.run, ~cut'
  PROVE  ~cut /\ app # "off" /\ (engine.state \in Fetch => ctrl.enable)
<1>1. app # "off"
  BY DEF DriverInv, IdleSide
<1> QED BY <1>1 DEF Edge, HistoryEdge

\* The word that comes out of the FIFO.
LEMMA FetchedWord ==
  ASSUME DriverInv, NEW req, NEW rsp, Edge(req, rsp), Moves(req), CpuSide', ctrl.enable, engine.state \in Fetch
  PROVE  /\ fifo'.rdata = Word(Head(pending), FetchedWords) /\ fifo'.avail
         /\ pending' = pending /\ pending # <<>> /\ Head(pending) \in Descriptors
<1> USE DEF DriverInv
<1>1. /\ pending' = pending /\ FetchedWords \in 0..2 /\ pending # <<>> /\ Level \in 1..FIFO_DEPTH /\ ~cut
  BY FetchKept
<1>2. app # "full"
  BY DEF IdleSide, Fetch
<1>3. ~Empty /\ fifo.r_pnt \in 0..2 * FIFO_DEPTH - 1
  BY <1>1, <1>2, Levels
<1>4. fifo'.avail /\ fifo'.rdata = fifo.mem[Slot(fifo.r_pnt)]
  BY <1>3, FifoMoves DEF Edge, DmaEdge
<1>5. Head(pending) = pending[1] /\ 1 \in 1..Len(pending) /\ Head(pending) \in Descriptors
  BY <1>1
<1>6. fifo.mem[Slot(fifo.r_pnt + (3 * (1 - 1) + FetchedWords - FetchedWords))] = Word(pending[1], FetchedWords)
  <2>1. Waits(fifo.mem, fifo.r_pnt, pending, FetchedWords)
    BY <1>2 DEF FifoSide
  <2>2. 3 * (1 - 1) + FetchedWords >= FetchedWords
    BY <1>1
  <2> QED BY <1>1, <1>5, <2>1, <2>2 DEF Waits
<1>7. fifo.r_pnt + (3 * (1 - 1) + FetchedWords - FetchedWords) = fifo.r_pnt
  BY <1>1, <1>3
<1> QED BY <1>1, <1>4, <1>5, <1>6, <1>7

LEMMA FetchSideKept ==
  ASSUME DriverInv, NEW req, NEW rsp, Edge(req, rsp), Moves(req), CpuSide'
  PROVE  FetchSide'
<1> USE DEF DriverInv
<1>0. bus_engine(rsp) /\ DOMAIN engine = EngineRegs
  BY EngineMoves
<1>1. engine'.state \in Fetch \cup {"S_GET_3"} => ~engine'.num_or
  <2>1. CASE engine.state \in Fetch \cup {"S_GET_3"}
    BY <1>0, <2>1, FetchMoves DEF FetchSide
  <2>2. CASE engine.state = "S_CHECK"
    <3>1. Idle \/ NextDescriptor
      BY <1>0, <2>2, EngineCase
    <3> QED BY <1>0, <3>1 DEF Idle, NextDescriptor, EngineRegs
  <2> QED BY <1>0, <2>1, <2>2, OtherStates DEF Fetch
<1>2. ASSUME ~cut', engine'.state = "S_GET_0", ctrl'.enable PROVE pending' # <<>>
  <2>1. engine.state = "S_CHECK"
    <3>1. engine.state \notin Fetch \cup {"S_GET_3"}
      BY <1>0, <1>2, FetchMoves DEF Fetch
    <3> QED BY <1>0, <1>2, <3>1, OtherStates
  <2>2. engine'.run /\ fifo.avail /\ ~ctrl.err
    BY <1>0, <1>2, <2>1, EngineRuns
  <2>3. CASE engine.run
    <3>1. ctrl.enable
      <4> SUFFICES ASSUME ~ctrl.enable PROVE FALSE
        OBVIOUS
      <4>1. Writes(req) /\ cpu.call # "disable"
        BY <1>2, CtrlMoves
      <4>2. app = "off"
        BY <4>1 DEF Writes, EnableSide, CpuSide
      <4> QED BY <2>3, <4>2 DEF IdleSide
    <3>2. PushedWords = 0 /\ app \in {"started", "sleeping"} /\ ~Pushes(req, 2)
      BY <2>3, <3>1, Alone
    <3>3. Level > 0 /\ FetchedWords = 0
      BY <2>1, <2>2, <2>3, <3>1, <3>2 DEF FifoSide, Fetch, FetchedWords
    <3>4. pending # <<>>
      BY <3>2, <3>3 DEF Level
    <3>5. pending' = pending
      BY <2>1, <3>1, <3>2, PendingMoves
    <3> QED BY <3>4, <3>5
  <2>4. CASE ~engine.run
    <3>1. ctrl.start
      BY <2>2, <2>4, IdleStays
    <3>2. app = "setup" /\ cpu.call = "start" /\ ctrl.enable
      BY <3>1 DEF EnableSide, CpuSide
    <3>3. PushedWords = 0 /\ ~Pushes(req, 2)
      BY <3>2 DEF PushedWords, Pushes
    <3>4. Level > 0 /\ FetchedWords = 0
      BY <2>1, <2>2, <2>4, <3>2 DEF FifoSide, FetchedWords
    <3>5. pending # <<>>
      BY <3>3, <3>4 DEF Level
    <3>6. pending' = pending
      BY <2>1, <3>2, <3>3, PendingMoves
    <3> QED BY <3>5, <3>6
  <2> QED BY <2>3, <2>4
<1>3. ASSUME ~cut', engine'.state \in {"S_GET_1", "S_GET_2", "S_GET_3"}
      PROVE  /\ engine.state \in Fetch /\ ctrl.enable /\ ~cut
             /\ engine.state \in {"S_GET_1", "S_GET_2"} => fifo.avail
  <2>1. engine.state \in Fetch \cup {"S_GET_3"}
    BY <1>0, <1>3, OtherStates
  <2>2. engine.state \in Fetch
    BY <1>0, <1>3, <2>1, FetchMoves
  <2>3. engine.run
    BY <2>2 DEF IdleSide, Fetch
  <2>4. ~cut /\ ctrl.enable
    BY <1>3, <2>2, <2>3, NotCut
  <2> QED BY <2>2, <2>4 DEF FetchSide
<1>4. ASSUME ~cut', engine'.state \in {"S_GET_1", "S_GET_2", "S_GET_3"}
      PROVE  /\ pending' # <<>> /\ fifo'.avail
             /\ engine'.state = "S_GET_1" => fifo'.rdata = Word(Head(pending'), 0)
             /\ engine'.state = "S_GET_2" => fifo'.rdata = Word(Head(pending'), 1)
                                              /\ engine'.src_addr = Head(pending').src
             /\ engine'.state = "S_GET_3" => /\ fifo'.rdata = Word(Head(pending'), 2)
                                             /\ engine'.src_addr = Head(pending').src
                                             /\ engine'.dst_addr = Head(pending').dst
  <2>1. /\ fifo'.rdata = Word(Head(pending), FetchedWords) /\ fifo'.avail
        /\ pending' = pending /\ pending # <<>> /\ Head(pending) \in Descriptors
    BY <1>3, <1>4, FetchedWord
  <2>2. CASE engine'.state = "S_GET_1"
    <3>1. engine.state = "S_GET_0"
      BY <1>0, <1>3, <1>4, <2>2, FetchMoves DEF Fetch
    <3> QED BY <2>1, <2>2, <3>1 DEF FetchedWords
  <2>3. CASE engine'.state = "S_GET_2"
    <3>1. engine.state = "S_GET_1" /\ engine'.src_addr = fifo.rdata.addr
      BY <1>0, <1>3, <1>4, <2>3, FetchMoves DEF Fetch
    <3>2. fifo.rdata = Word(Head(pending), 0)
      BY <1>3, <1>4, <3>1 DEF FetchSide
    <3>3. engine'.src_addr = Head(pending).src
      BY <3>1, <3>2 DEF Word, AddrWord, NoWord
    <3> QED BY <2>1, <2>3, <3>1, <3>3 DEF FetchedWords
  <2>4. CASE engine'.state = "S_GET_3"
    <3>1. engine.state = "S_GET_2" /\ engine'.dst_addr = fifo.rdata.addr /\ engine'.src_addr = engine.src_addr
      BY <1>0, <1>3, <1>4, <2>4, FetchMoves DEF Fetch
    <3>2. fifo.rdata = Word(Head(pending), 1) /\ engine.src_addr = Head(pending).src
      BY <1>3, <1>4, <3>1 DEF FetchSide
    <3>3. engine'.dst_addr = Head(pending).dst
      BY <3>1, <3>2 DEF Word, AddrWord, NoWord
    <3> QED BY <2>1, <2>4, <3>1, <3>2, <3>3 DEF FetchedWords
  <2> QED BY <1>4, <2>1, <2>2, <2>3, <2>4
<1> QED BY <1>1, <1>2, <1>4 DEF FetchSide

-----------------------------------------------------------------------------
(* The transfer in a step. *)

\* What is known while the engine transfers.
LEMMA InTransfer ==
  ASSUME DriverInv, NEW req, NEW rsp, Edge(req, rsp), Transferring, ~cut'
  PROVE  /\ engine.run /\ ~cut /\ app # "off" /\ rsp \in Responses /\ DOMAIN engine = EngineRegs
         /\ bus_engine(rsp) /\ src_align(rsp) /\ MemoryEdge(rsp) /\ engine.state # "S_GET_3"
         /\ cur.desc \in Descriptors /\ cur.desc.conf.num \in 1..NUM_MOD - 1 /\ cur.moved \in 0..cur.desc.conf.num - 1
         /\ engine.bswap = cur.desc.conf.bswap /\ engine.src_type = cur.desc.conf.src
         /\ engine.dst_type = cur.desc.conf.dst
         /\ ~Stores(rsp) => cur' = cur /\ mem' = mem
         /\ Stores(rsp) => cur'.desc = cur.desc /\ cur'.before = cur.before /\ cur'.moved = cur.moved + 1
         /\ ElementSrc(cur.desc, cur.moved) \in Nat /\ ElementDst(cur.desc, cur.moved) \in Nat
<1> USE DEF DriverInv
<1>1. engine.run /\ engine.state # "S_GET_3"
  BY DEF IdleSide, Transferring
<1>2. ~cut /\ app # "off"
  BY <1>1, NotCut
<1>3. rsp \in Responses /\ bus_engine(rsp) /\ src_align(rsp) /\ MemoryEdge(rsp) /\ DOMAIN engine = EngineRegs
  BY DEF Edge, DmaEdge
<1>4. /\ cur.desc \in Descriptors /\ cur.moved \in 0..cur.desc.conf.num - 1
      /\ engine.bswap = cur.desc.conf.bswap /\ engine.src_type = cur.desc.conf.src
      /\ engine.dst_type = cur.desc.conf.dst
  BY <1>2 DEF TransferSide
<1>5. ~Stores(rsp) => cur' = cur /\ mem' = mem
  BY <1>1, <1>2 DEF Edge, HistoryEdge, MemoryEdge
<1>6. Stores(rsp) => cur'.desc = cur.desc /\ cur'.before = cur.before /\ cur'.moved = cur.moved + 1
  <2> SUFFICES ASSUME Stores(rsp)
               PROVE  cur'.desc = cur.desc /\ cur'.before = cur.before /\ cur'.moved = cur.moved + 1
    OBVIOUS
  <2>1. cur' = [cur EXCEPT !.moved = @ + 1]
    BY <1>1, <1>2 DEF Edge, HistoryEdge
  <2>2. DOMAIN cur = {"desc", "before", "moved"}
    BY DEF MemSide
  <2> QED BY <2>1, <2>2
<1>7. cur.desc.conf.num \in 1..NUM_MOD - 1
  BY <1>4, Elements
<1>8. cur.moved \in Nat
  BY <1>4, <1>7, DmaAssumption
<1>9. ElementSrc(cur.desc, cur.moved) \in Nat /\ ElementDst(cur.desc, cur.moved) \in Nat
  BY <1>4, <1>8, Elements
<1> QED BY <1>1, <1>2, <1>3, <1>4, <1>5, <1>6, <1>7, <1>9

\* A descriptor becomes a transfer.
LEMMA TransferBegins ==
  ASSUME DriverInv, NEW req, NEW rsp, Edge(req, rsp), engine.state = "S_GET_3", ~cut'
  PROVE  /\ engine'.state = "S_READ_REQ" /\ ~engine'.num_or
         /\ cur'.desc \in Descriptors /\ cur'.moved = 0 /\ cur'.before = mem /\ mem' = mem
         /\ engine'.bswap = cur'.desc.conf.bswap /\ engine'.src_type = cur'.desc.conf.src
         /\ engine'.dst_type = cur'.desc.conf.dst /\ engine'.num = cur'.desc.conf.num
         /\ engine'.src_addr = cur'.desc.src /\ engine'.dst_addr = cur'.desc.dst
<1> USE DEF DriverInv
<1>1. engine.run /\ ~cut
  BY NotCut DEF IdleSide
<1>2. /\ pending # <<>> /\ fifo.rdata = Word(Head(pending), 2)
      /\ engine.src_addr = Head(pending).src /\ engine.dst_addr = Head(pending).dst
  BY <1>1 DEF FetchSide
<1>3. Head(pending) \in Descriptors
  BY <1>2
<1>4. cur' = [desc |-> Head(pending), before |-> mem, moved |-> 0]
  <2>1. cur' = [desc |-> IF pending = <<>> THEN NoDesc ELSE Head(pending), before |-> mem, moved |-> 0]
    <3>1. app # "off" /\ ~Stores(rsp)
      BY <1>1, NotCut DEF Stores
    <3> QED BY <3>1 DEF Edge, HistoryEdge
  <2> QED BY <1>2, <2>1
<1>5. fifo.rdata.conf = Head(pending).conf
  BY <1>2, <1>3, WordConf
<1>6. mem' = mem
  BY DEF Edge, MemoryEdge, Stores
<1>7. ~engine'.num_or
  BY EngineMoves, FetchMoves DEF FetchSide
<1>8. /\ engine'.src_addr = engine.src_addr /\ engine'.dst_addr = engine.dst_addr
      /\ engine'.num = fifo.rdata.conf.num /\ engine'.bswap = fifo.rdata.conf.bswap
      /\ engine'.src_type = fifo.rdata.conf.src /\ engine'.dst_type = fifo.rdata.conf.dst
      /\ engine'.state = "S_READ_REQ"
  BY EngineMoves, FetchMoves
<1> QED BY <1>2, <1>3, <1>4, <1>5, <1>6, <1>7, <1>8

\* What the engine reads is what memory held before the transfer.
LEMMA Loads ==
  ASSUME DriverInv, NEW req, NEW rsp, Edge(req, rsp), ~cut', engine.state = "S_READ_RSP", rsp.ack
  PROVE  /\ rsp.err <=> ElementSrc(cur.desc, cur.moved) >= MEM_BYTES
         /\ ~rsp.err => data_buf' = Loaded(ElementSrc(cur.desc, cur.moved))
<1> USE DEF DriverInv
<1>0. Transferring
  BY DEF Transferring
<1> DEFINE s == ElementSrc(cur.desc, cur.moved)
<1>1. s \in Nat /\ engine.src_addr = s /\ bus_control.addr = s \div 4
  <2>1. s \in Nat /\ ~cut
    BY <1>0, InTransfer
  <2>2. engine.src_addr = s
    BY <1>0, <2>1 DEF TransferSide
  <2> QED BY <2>1, <2>2 DEF bus_control
<1>2. rsp.err <=> s >= MEM_BYTES
  BY <1>0, <1>1, InTransfer, AnswerIs, WordOf
<1>3. ASSUME ~rsp.err PROVE data_buf' = Loaded(s)
  <2>1. s < MEM_BYTES
    BY <1>1, <1>2, <1>3, DescriptorAssumption
  <2>2. \A l \in Lane : rsp.data[l] = mem[(s \div 4) * 4 + l]
    BY <1>0, <1>1, <1>3, InTransfer, AnswerIs
  <2>3. \A l \in Lane : mem[(s \div 4) * 4 + l] = cur.before[(s \div 4) * 4 + l]
    <3> TAKE l \in Lane
    <3>1. /\ mem = Moved(cur.before, cur.desc, cur.moved) /\ DOMAIN cur.before = 0..MEM_BYTES - 1
      BY <1>0, InTransfer DEF MemSide
    <3>2. /\ (s \div 4) * 4 + l \in DOMAIN cur.before /\ ((s \div 4) * 4 + l) \div 4 = s \div 4
      BY <1>1, <2>1, <3>1, WordOf
    <3>3. /\ cur.desc \in Descriptors /\ cur.moved \in 0..cur.desc.conf.num - 1
          /\ cur.moved \in 0..cur.desc.conf.num
      BY <1>0, InTransfer, DmaAssumption
    <3> HIDE DEF s
    <3>4. Moved(cur.before, cur.desc, cur.moved)[(s \div 4) * 4 + l] = cur.before[(s \div 4) * 4 + l]
      BY <3>2, <3>3, SourceKept DEF s
    <3> QED BY <3>1, <3>4
  <2>4. data_buf' = IF engine.src_type \in InByte THEN [l \in Lane |-> rsp.data[s % 4]] ELSE rsp.data
    BY <1>0, <1>1, InTransfer DEF src_align
  <2>5. rsp.data = [l \in Lane |-> rsp.data[l]]
    BY <1>0, InTransfer, AnswerIs
  <2>6. s % 4 \in Lane /\ (s \div 4) * 4 + (s % 4) = s
    BY <1>1, WordOf
  <2> HIDE DEF s
  <2>7. rsp.data[s % 4] = cur.before[s] /\ \A l \in Lane : rsp.data[l] = cur.before[(s \div 4) * 4 + l]
    BY <2>2, <2>3, <2>6
  <2> QED BY <2>4, <2>5, <2>7 DEF Loaded
<1> QED BY <1>2, <1>3

LEMMA TransferKept ==
  ASSUME DriverInv, NEW req, NEW rsp, Edge(req, rsp), Moves(req), CpuSide'
  PROVE  TransferSide'
<1> USE DEF DriverInv
<1>0. bus_engine(rsp) /\ DOMAIN engine = EngineRegs
  BY EngineMoves
<1>1. SUFFICES ASSUME ~cut', Transferring' PROVE TransferSide'
  BY DEF TransferSide
<1>2. CASE engine.state = "S_GET_3"
  <2>1. /\ engine'.state = "S_READ_REQ" /\ ~engine'.num_or
        /\ cur'.desc \in Descriptors /\ cur'.moved = 0
        /\ engine'.bswap = cur'.desc.conf.bswap /\ engine'.src_type = cur'.desc.conf.src
        /\ engine'.dst_type = cur'.desc.conf.dst /\ engine'.num = cur'.desc.conf.num
        /\ engine'.src_addr = cur'.desc.src /\ engine'.dst_addr = cur'.desc.dst
    BY <1>1, <1>2, TransferBegins
  <2>2. /\ cur'.desc.conf.num \in 1..NUM_MOD - 1
        /\ ElementSrc(cur'.desc, 0) = cur'.desc.src /\ ElementDst(cur'.desc, 0) = cur'.desc.dst
    BY <2>1, Elements
  <2> QED BY <2>1, <2>2, DmaAssumption DEF TransferSide
<1>3. CASE Transferring
  <2> DEFINE d == cur.desc
             m == cur.moved
             n == cur.desc.conf.num
  <2>1. /\ ~cut /\ d \in Descriptors /\ n \in 1..NUM_MOD - 1 /\ m \in 0..n - 1
        /\ engine'.bswap = d.conf.bswap /\ engine'.src_type = d.conf.src /\ engine'.dst_type = d.conf.dst
        /\ engine.src_type = d.conf.src /\ engine.dst_type = d.conf.dst
        /\ ~Stores(rsp) => cur' = cur
        /\ Stores(rsp) => cur'.desc = d /\ cur'.before = cur.before /\ cur'.moved = m + 1
    BY <1>0, <1>1, <1>3, InTransfer, TransferMoves
  <2>2. /\ \A i \in Nat : ElementSrc(d, i + 1) = ElementSrc(d, i) + Increment(d.conf.src)
        /\ \A i \in Nat : ElementDst(d, i + 1) = ElementDst(d, i) + Increment(d.conf.dst)
    BY <2>1, Elements
  <2>3. CASE engine.state = "S_READ_REQ"
    <3>1. /\ engine.num = n - m /\ (engine.num_or <=> m > 0) /\ engine.src_addr = ElementSrc(d, m)
          /\ engine.dst_addr = ElementDst(d, IF m > 0 THEN m - 1 ELSE m)
      BY <2>1, <2>3, <1>3 DEF TransferSide
    <3>2. /\ engine'.state = "S_READ_RSP" /\ engine'.num = (engine.num - 1) % NUM_MOD
          /\ engine'.dst_addr = IF engine.num_or THEN engine.dst_addr + Increment(engine.dst_type)
                                ELSE engine.dst_addr
          /\ engine'.src_addr = engine.src_addr /\ engine'.num_or = engine.num_or
      BY <1>0, <2>3, TransferMoves
    <3>3. cur' = cur
      BY <2>1, <2>3 DEF Stores
    <3>4. engine'.num = n - m - 1
      <4>1. engine.num - 1 \in 0..NUM_MOD - 1 /\ engine.num - 1 = n - m - 1
        BY <2>1, <3>1, DmaAssumption
      <4>2. \A x \in 0..NUM_MOD - 1 : x % NUM_MOD = x
        BY DmaAssumption
      <4> QED BY <3>2, <4>1, <4>2
    <3>5. engine'.dst_addr = ElementDst(d, m)
      <4>1. CASE m > 0
        <5>1. m - 1 \in Nat /\ (m - 1) + 1 = m
          BY <2>1, <4>1, DmaAssumption
        <5>2. ElementDst(d, (m - 1) + 1) = ElementDst(d, m - 1) + Increment(d.conf.dst)
          BY <2>2, <5>1
        <5> QED BY <2>1, <3>1, <3>2, <4>1, <5>1, <5>2
      <4>2. CASE ~(m > 0)
        BY <3>1, <3>2, <4>2
      <4> QED BY <4>1, <4>2
    <3> QED BY <2>1, <3>1, <3>2, <3>3, <3>4, <3>5 DEF TransferSide
  <2>4. CASE engine.state = "S_READ_RSP"
    <3>1. /\ engine.num = n - m - 1 /\ (engine.num_or <=> m > 0) /\ engine.src_addr = ElementSrc(d, m)
          /\ engine.dst_addr = ElementDst(d, m)
      BY <2>1, <2>4, <1>3 DEF TransferSide
    <3>2. /\ engine'.num = engine.num /\ engine'.dst_addr = engine.dst_addr
          /\ engine'.src_addr = engine.src_addr /\ engine'.num_or = engine.num_or
          /\ engine'.state = IF ~rsp.ack THEN "S_READ_RSP" ELSE IF rsp.err THEN "S_CHECK" ELSE "S_WRITE_REQ"
      BY <1>0, <2>4, TransferMoves
    <3>3. cur' = cur
      BY <2>1, <2>4 DEF Stores
    <3>4. engine'.state = "S_WRITE_REQ" =>
            ElementSrc(d, m) < MEM_BYTES /\ data_buf' = Loaded(ElementSrc(d, m))
      <4> SUFFICES ASSUME engine'.state = "S_WRITE_REQ"
                   PROVE  ElementSrc(d, m) < MEM_BYTES /\ data_buf' = Loaded(ElementSrc(d, m))
        OBVIOUS
      <4>1. rsp.ack /\ ~rsp.err
        BY <3>2
      <4>2. ElementSrc(d, m) \in Nat
        BY <1>1, <1>3, InTransfer
      <4> QED BY <1>1, <2>4, <4>1, <4>2, Loads, DescriptorAssumption
    <3>5. Loaded(ElementSrc(d, m))' = Loaded(ElementSrc(d, m))
      BY <2>1, <3>3 DEF Loaded, ElementSrc
    <3> QED BY <1>1, <2>1, <3>1, <3>2, <3>3, <3>4, <3>5 DEF TransferSide, Transferring
  <2>5. CASE engine.state = "S_WRITE_REQ"
    <3>1. /\ engine.num = n - m - 1 /\ (engine.num_or <=> m > 0) /\ engine.src_addr = ElementSrc(d, m)
          /\ engine.dst_addr = ElementDst(d, m)
          /\ ElementSrc(d, m) < MEM_BYTES /\ data_buf = Loaded(ElementSrc(d, m))
      BY <2>1, <2>5, <1>3 DEF TransferSide
    <3>2. /\ engine'.state = "S_WRITE_RSP" /\ engine'.num = engine.num
          /\ engine'.src_addr = engine.src_addr + Increment(engine.src_type)
          /\ engine'.dst_addr = engine.dst_addr /\ (engine'.num_or <=> engine.num # 0)
      BY <1>0, <2>5, TransferMoves
    <3>3. cur' = cur
      BY <2>1, <2>5 DEF Stores
    <3>4. engine'.src_addr = ElementSrc(d, m + 1)
      <4>1. m \in Nat
        BY <2>1, DmaAssumption
      <4>2. ElementSrc(d, m + 1) = ElementSrc(d, m) + Increment(d.conf.src)
        BY <2>2, <4>1
      <4> QED BY <2>1, <3>1, <3>2, <4>2
    <3>5. engine'.num_or <=> m + 1 < n
      BY <2>1, <3>1, <3>2, DmaAssumption
    <3>6. data_buf' = data_buf
      BY <1>1, <1>3, <2>5, InTransfer DEF src_align
    <3>7. Loaded(ElementSrc(d, m))' = Loaded(ElementSrc(d, m))
      BY <2>1, <3>3 DEF Loaded, ElementSrc
    <3> QED BY <2>1, <3>1, <3>2, <3>3, <3>4, <3>5, <3>6, <3>7 DEF TransferSide
  <2>6. CASE engine.state = "S_WRITE_RSP"
    <3>1. /\ engine.num = n - m - 1 /\ (engine.num_or <=> m + 1 < n) /\ engine.src_addr = ElementSrc(d, m + 1)
          /\ engine.dst_addr = ElementDst(d, m)
          /\ ElementSrc(d, m) < MEM_BYTES /\ data_buf = Loaded(ElementSrc(d, m))
      BY <2>1, <2>6, <1>3 DEF TransferSide
    <3>2. /\ engine'.num = engine.num /\ engine'.dst_addr = engine.dst_addr
          /\ engine'.src_addr = engine.src_addr /\ engine'.num_or = engine.num_or
          /\ engine'.state = IF ~rsp.ack THEN "S_WRITE_RSP"
                             ELSE IF ~engine.num_or \/ ~ctrl.enable \/ rsp.err THEN "S_CHECK" ELSE "S_READ_REQ"
      BY <1>0, <2>6, TransferMoves
    <3>3. CASE engine'.state = "S_WRITE_RSP"
      <4>1. cur' = cur
        BY <2>1, <3>2, <3>3 DEF Stores
      <4>2. data_buf' = data_buf
        BY <1>1, <1>3, <2>6, InTransfer DEF src_align
      <4>3. Loaded(ElementSrc(d, m))' = Loaded(ElementSrc(d, m))
        BY <2>1, <4>1 DEF Loaded, ElementSrc
      <4> QED BY <2>1, <3>1, <3>2, <3>3, <4>1, <4>2, <4>3 DEF TransferSide
    <3>4. CASE engine'.state = "S_READ_REQ"
      <4>1. Stores(rsp) /\ engine.num_or
        BY <2>6, <3>2, <3>4 DEF Stores
      <4>2. cur'.desc = d /\ cur'.moved = m + 1 /\ m + 1 < n
        BY <2>1, <3>1, <4>1
      <4>3. m + 1 \in 0..n - 1 /\ m + 1 > 0 /\ (m + 1) - 1 = m /\ n - m - 1 = n - (m + 1)
        BY <2>1, <4>2, DmaAssumption
      <4> HIDE DEF d, m, n
      <4>4. cur'.desc \in Descriptors /\ cur'.moved \in 0..cur'.desc.conf.num - 1 /\ cur'.desc.conf.num = n
        BY <2>1, <4>2, <4>3 DEF d, n
      <4>5. /\ engine'.num = n - (m + 1) /\ (engine'.num_or <=> m + 1 > 0)
            /\ engine'.src_addr = ElementSrc(d, m + 1) /\ engine'.dst_addr = ElementDst(d, (m + 1) - 1)
        BY <3>1, <3>2, <4>1, <4>3
      <4> QED BY <2>1, <3>4, <4>2, <4>3, <4>4, <4>5 DEF TransferSide
    <3> QED BY <1>1, <3>2, <3>3, <3>4 DEF Transferring
  <2> QED BY <1>3, <2>3, <2>4, <2>5, <2>6 DEF Transferring
<1>4. CASE engine.state \in Fetch \cup {"S_CHECK"}
  <2>1. engine'.state \in {"S_CHECK", "S_GET_0", "S_GET_1", "S_GET_2", "S_GET_3"}
    BY <1>0, <1>4, FetchMoves, EngineRuns DEF Fetch
  <2> QED BY <1>1, <2>1 DEF Transferring
<1>5. engine.state \in Fetch \cup {"S_CHECK"} \/ engine.state = "S_GET_3" \/ Transferring
  BY <1>0, EngineCase DEF Fetch, Transferring
<1> QED BY <1>2, <1>3, <1>4, <1>5

\* A disabled DMA is enabled only by a call that is made while it is off.
LEMMA EnabledBefore ==
  ASSUME DriverInv, NEW req, NEW rsp, Edge(req, rsp), Moves(req), ctrl'.enable, engine.run
  PROVE  ctrl.enable
<1> USE DEF DriverInv
<1> SUFFICES ASSUME ~ctrl.enable PROVE FALSE
  OBVIOUS
<1>1. Writes(req) /\ cpu.call # "disable"
  BY CtrlMoves
<1>2. app = "off"
  BY <1>1 DEF Writes, EnableSide, CpuSide
<1> QED BY <1>2 DEF IdleSide

\* What is known of a write under way.
LEMMA Writing ==
  ASSUME DriverInv, NEW req, NEW rsp, Edge(req, rsp), ~cut', engine.state = "S_WRITE_RSP"
  PROVE  /\ engine.dst_addr = ElementDst(cur.desc, cur.moved) /\ ElementDst(cur.desc, cur.moved) \in Nat
         /\ engine.num_or <=> cur.moved + 1 < cur.desc.conf.num
         /\ data_buf = Loaded(ElementSrc(cur.desc, cur.moved))
         /\ bus_control.addr = ElementDst(cur.desc, cur.moved) \div 4
         /\ rsp.ack => (rsp.err <=> ElementDst(cur.desc, cur.moved) >= MEM_BYTES)
<1> USE DEF DriverInv
<1>0. Transferring
  BY DEF Transferring
<1>1. ElementDst(cur.desc, cur.moved) \in Nat /\ ~cut
  BY <1>0, InTransfer
<1>2. /\ engine.dst_addr = ElementDst(cur.desc, cur.moved)
      /\ engine.num_or <=> cur.moved + 1 < cur.desc.conf.num
      /\ data_buf = Loaded(ElementSrc(cur.desc, cur.moved))
  BY <1>0, <1>1 DEF TransferSide
<1>3. bus_control.addr = ElementDst(cur.desc, cur.moved) \div 4
  BY <1>2 DEF bus_control
<1>4. rsp.ack => (rsp.err <=> ElementDst(cur.desc, cur.moved) >= MEM_BYTES)
  BY <1>0, <1>1, <1>3, InTransfer, AnswerIs, WordOf
<1> QED BY <1>1, <1>2, <1>3, <1>4

LEMMA EndKept ==
  ASSUME DriverInv, NEW req, NEW rsp, Edge(req, rsp), Moves(req), CpuSide'
  PROVE  EndSide'
<1> USE DEF DriverInv
<1>0. bus_engine(rsp) /\ DOMAIN engine = EngineRegs
  BY EngineMoves
<1>1. SUFFICES ASSUME ~cut', engine'.state = "S_CHECK", engine'.run
               PROVE  IF engine'.err THEN Failed' ELSE ctrl'.enable => cur'.moved = cur'.desc.conf.num
  BY DEF EndSide
<1>2. engine.state \in Waiting /\ rsp.ack /\ Transferring
  <2>1. engine.state # "S_CHECK"
    BY <1>0, <1>1, EngineRuns
  <2>2. engine.state \notin Fetch \cup {"S_GET_3"}
    BY <1>0, <1>1, FetchMoves DEF Fetch
  <2>3. engine.state \notin {"S_READ_REQ", "S_WRITE_REQ"}
    BY <1>0, <1>1, TransferMoves
  <2>4. engine.state \in Waiting
    BY <1>0, <2>1, <2>2, <2>3, EngineCase DEF Waiting, Fetch
  <2>5. rsp.ack
    BY <1>0, <1>1, <2>4, TransferMoves DEF Waiting
  <2> QED BY <2>4, <2>5 DEF Waiting, Transferring
<1>3. /\ engine.run /\ cur.moved \in 0..cur.desc.conf.num - 1 /\ cur.desc.conf.num \in Nat
      /\ ~Stores(rsp) => cur' = cur
      /\ Stores(rsp) => cur'.desc = cur.desc /\ cur'.moved = cur.moved + 1
  BY <1>1, <1>2, InTransfer, DmaAssumption
<1>4. CASE engine.state = "S_READ_RSP"
  <2>1. rsp.err /\ engine'.err
    BY <1>0, <1>1, <1>2, <1>4, TransferMoves
  <2>2. ElementSrc(cur.desc, cur.moved) >= MEM_BYTES
    BY <1>1, <1>2, <1>4, <2>1, Loads
  <2>3. cur' = cur
    BY <1>3, <1>4 DEF Stores
  <2>4. cur.moved < cur.desc.conf.num
    BY <1>3
  <2>5. Failed
    BY <2>2, <2>4 DEF Failed, Fails
  <2>6. Failed' <=> Failed
    BY <2>3 DEF Failed
  <2> QED BY <2>1, <2>5, <2>6
<1>5. CASE engine.state = "S_WRITE_RSP" /\ rsp.err
  <2>1. engine'.err
    BY <1>0, <1>2, <1>5, TransferMoves
  <2>2. ElementDst(cur.desc, cur.moved) >= MEM_BYTES
    BY <1>1, <1>2, <1>5, Writing
  <2>3. cur' = cur
    BY <1>3, <1>5 DEF Stores
  <2>4. cur.moved < cur.desc.conf.num
    BY <1>3
  <2>5. Failed
    BY <2>2, <2>4 DEF Failed, Fails
  <2>6. Failed' <=> Failed
    BY <2>3 DEF Failed
  <2> QED BY <2>1, <2>5, <2>6
<1>6. CASE engine.state = "S_WRITE_RSP" /\ ~rsp.err
  <2>1. ~engine'.err /\ (~engine.num_or \/ ~ctrl.enable)
    BY <1>0, <1>1, <1>2, <1>6, TransferMoves
  <2>2. cur'.desc = cur.desc /\ cur'.moved = cur.moved + 1
    BY <1>2, <1>3, <1>6 DEF Stores
  <2>3. engine.num_or <=> cur.moved + 1 < cur.desc.conf.num
    BY <1>1, <1>6, Writing
  <2>4. ctrl'.enable => ctrl.enable
    BY <1>3, EnabledBefore
  <2>5. ctrl'.enable => cur.moved + 1 = cur.desc.conf.num
    BY <1>3, <2>1, <2>3, <2>4
  <2> QED BY <2>1, <2>2, <2>5
<1> QED BY <1>2, <1>4, <1>5, <1>6 DEF Waiting

\* The bytes a write enables are those of its element.
LEMMA HitsTargets ==
  ASSUME NEW d \in Descriptors, NEW i \in Nat, NEW a \in Nat, engine.dst_addr = ElementDst(d, i),
         engine.dst_type = d.conf.dst, engine.bswap = d.conf.bswap, ElementDst(d, i) \in Nat,
         bus_control.addr = ElementDst(d, i) \div 4
  PROVE  a \div 4 = bus_control.addr /\ a % 4 \in bus_control.ben <=> a \in Targets(d, i)
<1> DEFINE t == ElementDst(d, i)
<1> HIDE DEF t
<1>1. t \in Nat /\ bus_control.addr = t \div 4
  BY DEF t
<1>2. bus_control.ben = IF d.conf.dst \in InByte THEN {IF d.conf.bswap THEN 3 - (t % 4) ELSE t % 4} ELSE Lane
  BY DEF bus_control, LaneOf, t
<1>3. Targets(d, i) = IF d.conf.dst \in InByte THEN {IF d.conf.bswap THEN (t \div 4) * 4 + 3 - (t % 4) ELSE t}
                      ELSE {(t \div 4) * 4 + l : l \in Lane}
  BY DEF Targets, Mirrored, t
<1>4. CASE d.conf.dst \in InByte
  <2>1. a \div 4 = t \div 4 /\ a % 4 = t % 4 <=> a = t
    BY <1>1
  <2>2. a \div 4 = t \div 4 /\ a % 4 = 3 - (t % 4) <=> a = (t \div 4) * 4 + 3 - (t % 4)
    BY <1>1
  <2> QED BY <1>1, <1>2, <1>3, <1>4, <2>1, <2>2
<1>5. CASE d.conf.dst \notin InByte
  <2>1. a % 4 \in Lane
    BY DEF Lane
  <2>2. a \div 4 = t \div 4 <=> \E l \in Lane : a = (t \div 4) * 4 + l
    <3>1. a \div 4 = t \div 4 => a = (t \div 4) * 4 + (a % 4)
      BY <1>1
    <3>2. \A l \in Lane : a = (t \div 4) * 4 + l => a \div 4 = t \div 4
      BY <1>1 DEF Lane
    <3> QED BY <2>1, <3>1, <3>2
  <2> QED BY <1>1, <1>2, <1>3, <1>5, <2>1, <2>2
<1> QED BY <1>4, <1>5

\* They carry the bytes the element has read.
LEMMA CarriesElement ==
  ASSUME NEW d \in Descriptors, NEW i \in Nat, NEW a \in Nat, cur.desc = d, cur.moved = i,
         engine.src_type = d.conf.src, engine.bswap = d.conf.bswap, data_buf = Loaded(ElementSrc(d, i))
  PROVE  bus_control.data[a % 4] = MovedByte(cur.before, d, i, a)
<1> DEFINE s == ElementSrc(d, i)
<1> HIDE DEF s
<1>1. a % 4 \in Lane /\ 3 - (a % 4) \in Lane
  BY DEF Lane
<1>2. bus_control.data[a % 4] = IF d.conf.bswap THEN data_buf[3 - (a % 4)] ELSE data_buf[a % 4]
  BY <1>1 DEF bus_control
<1>3. \A l \in Lane : data_buf[l] = IF d.conf.src \in InByte THEN cur.before[s] ELSE cur.before[(s \div 4) * 4 + l]
  BY DEF Loaded, s
<1>4. Mirrored(d, a) % 4 = IF d.conf.bswap THEN 3 - (a % 4) ELSE a % 4
  <2>1. ((a \div 4) * 4 + 3 - (a % 4)) % 4 = 3 - (a % 4)
    OBVIOUS
  <2> QED BY <2>1 DEF Mirrored
<1>5. MovedByte(cur.before, d, i, a)
        = IF d.conf.src \in InByte THEN cur.before[s] ELSE cur.before[(s \div 4) * 4 + (Mirrored(d, a) % 4)]
  BY DEF MovedByte, s
<1> QED BY <1>1, <1>2, <1>3, <1>4, <1>5

LEMMA MemKept ==
  ASSUME DriverInv, NEW req, NEW rsp, Edge(req, rsp), Moves(req), CpuSide'
  PROVE  MemSide'
<1> USE DEF DriverInv
<1>0. /\ DOMAIN cur = {"desc", "before", "moved"} /\ mem = [a \in 0..MEM_BYTES - 1 |-> mem[a]]
      /\ DOMAIN mem = 0..MEM_BYTES - 1
  <2>1. DOMAIN cur = {"desc", "before", "moved"} /\ mem = [a \in 0..MEM_BYTES - 1 |-> mem[a]]
    BY DEF MemSide
  <2>2. DOMAIN [a \in 0..MEM_BYTES - 1 |-> mem[a]] = 0..MEM_BYTES - 1
    OBVIOUS
  <2> QED BY <2>1, <2>2
<1>1. CASE app = "off"
  <2>1. engine.state = "S_CHECK"
    BY <1>1 DEF IdleSide
  <2>2. mem' = mem
    BY <2>1 DEF Edge, MemoryEdge, Stores
  <2>3. cur' = [desc |-> NoDesc, before |-> mem, moved |-> 0]
    BY <1>1, <2>1 DEF Edge, HistoryEdge, Stores
  <2>4. Moved(mem, NoDesc, 0) = mem
    BY <1>0, MovedNothing
  <2> QED BY <1>0, <2>2, <2>3, <2>4 DEF MemSide
<1>2. CASE engine.state = "S_GET_3"
  <2>1. app # "off" /\ mem' = mem
    BY <1>2 DEF IdleSide, Edge, MemoryEdge, Stores
  <2>2. cur' = [desc |-> IF pending = <<>> THEN NoDesc ELSE Head(pending), before |-> mem, moved |-> 0]
    BY <1>2, <2>1 DEF Edge, HistoryEdge, Stores
  <2>3. \A d : Moved(mem, d, 0) = mem
    BY <1>0, MovedNothing
  <2> QED BY <1>0, <2>1, <2>2, <2>3 DEF MemSide
<1>3. CASE app # "off" /\ engine.state # "S_GET_3" /\ ~Stores(rsp)
  <2>1. mem' = mem /\ cur' = cur /\ (~cut' => ~cut)
    BY <1>3 DEF Edge, MemoryEdge, HistoryEdge
  <2> QED BY <2>1 DEF MemSide
<1>4. CASE app # "off" /\ Stores(rsp)
  <2>1. engine.state = "S_WRITE_RSP" /\ (~cut' => ~cut) /\ Transferring
    BY <1>4 DEF Stores, Edge, HistoryEdge, Transferring
  <2>2. cur' = [cur EXCEPT !.moved = @ + 1]
    BY <1>4, <2>1 DEF Edge, HistoryEdge
  <2>3. /\ DOMAIN cur' = {"desc", "before", "moved"}
        /\ cur'.desc = cur.desc /\ cur'.before = cur.before /\ cur'.moved = cur.moved + 1
    BY <1>0, <2>2
  <2>4. mem' = [a \in 0..MEM_BYTES - 1 |->
                  IF a \div 4 = bus_control.addr /\ a % 4 \in bus_control.ben
                  THEN bus_control.data[a % 4] ELSE mem[a]]
    BY <1>0, <1>4 DEF Edge, MemoryEdge
  <2>5. mem' = [a \in 0..MEM_BYTES - 1 |-> mem'[a]]
    BY <2>4
  <2>6. ASSUME ~cut'
        PROVE  /\ mem' = Moved(cur.before, cur.desc, cur.moved + 1) /\ DOMAIN cur.before = 0..MEM_BYTES - 1
               /\ cur.moved + 1 \in Nat /\ cur.desc \in Descriptors
    <3> DEFINE d == cur.desc
               i == cur.moved
               b == cur.before
    <3>1. mem = Moved(b, d, i) /\ DOMAIN b = 0..MEM_BYTES - 1
      BY <2>1, <2>6 DEF MemSide
    <3>2. /\ d \in Descriptors /\ i \in Nat /\ engine.dst_type = d.conf.dst /\ engine.src_type = d.conf.src
          /\ engine.bswap = d.conf.bswap
      BY <2>1, <2>6, InTransfer, DmaAssumption
    <3>3. /\ engine.dst_addr = ElementDst(d, i) /\ ElementDst(d, i) \in Nat
          /\ data_buf = Loaded(ElementSrc(d, i))
          /\ bus_control.addr = ElementDst(d, i) \div 4
      BY <2>1, <2>6, Writing
    <3>4. ASSUME NEW a \in 0..MEM_BYTES - 1
          PROVE  mem'[a] = Moved(b, d, i + 1)[a]
      <4>1. a \in Nat /\ a \in DOMAIN b
        BY <3>1, DescriptorAssumption
      <4>2. Moved(b, d, i + 1)[a] = IF a \in Targets(d, i) THEN MovedByte(b, d, i, a) ELSE Moved(b, d, i)[a]
        BY <3>2, <4>1, MovedNext
      <4>3. a \div 4 = bus_control.addr /\ a % 4 \in bus_control.ben <=> a \in Targets(d, i)
        BY <3>2, <3>3, <4>1, HitsTargets
      <4>4. bus_control.data[a % 4] = MovedByte(b, d, i, a)
        BY <3>2, <3>3, <4>1, CarriesElement
      <4>5. mem'[a] = IF a \in Targets(d, i) THEN MovedByte(b, d, i, a) ELSE mem[a]
        BY <2>4, <4>3, <4>4
      <4> QED BY <3>1, <4>2, <4>5
    <3>5. Moved(b, d, i + 1) = [a \in 0..MEM_BYTES - 1 |-> Moved(b, d, i + 1)[a]]
      BY <3>1 DEF Moved
    <3> HIDE DEF b, d, i
    <3>6. mem' = Moved(b, d, i + 1)
      BY <2>5, <3>4, <3>5
    <3>7. i + 1 \in Nat
      BY <3>2
    <3> QED BY <3>1, <3>2, <3>6, <3>7 DEF b, d, i
  <2>7. ASSUME ~cut'
        PROVE  /\ (mem = Moved(cur.before, cur.desc, cur.moved))' /\ (DOMAIN cur.before = 0..MEM_BYTES - 1)'
               /\ cur'.moved \in Nat /\ cur'.desc \in Descriptors
    <3>1. (Moved(cur.before, cur.desc, cur.moved))' = Moved(cur'.before, cur'.desc, cur'.moved)
      OBVIOUS
    <3> QED BY <2>3, <2>6, <2>7, <3>1
  <2> QED BY <2>3, <2>5, <2>7 DEF MemSide
<1> QED BY <1>1, <1>2, <1>3, <1>4

-----------------------------------------------------------------------------
(* The theorems. *)

LEMMA InitDriver == Init => DriverInv
<1> SUFFICES ASSUME Init PROVE DriverInv
  OBVIOUS
<1> USE DEF Init, DmaInit
<1>1. DOMAIN engine = EngineRegs /\ pending \in Seq(Descriptors)
  BY DEF EngineRegs
<1>2. CpuSide /\ EnableSide /\ AnswerSide
  BY DEF CpuSide, EnableSide, AnswerSide, Ready
<1>3. IdleSide /\ FlagSide
  BY DEF IdleSide, FlagSide, Empty, Ready
<1>4. FifoSide /\ FetchSide /\ TransferSide /\ EndSide
  BY DEF FifoSide, FetchSide, TransferSide, EndSide, Fetch, Transferring
<1>5. FifoRegs
  BY DmaAssumption DEF FifoRegs
<1>6. MemSide
  <2>1. mem = [a \in 0..MEM_BYTES - 1 |-> mem[a]] /\ DOMAIN mem = 0..MEM_BYTES - 1
    OBVIOUS
  <2>2. Moved(mem, NoDesc, 0) = mem
    BY <2>1, MovedNothing
  <2> QED BY <2>1, <2>2 DEF MemSide
<1> QED BY <1>1, <1>2, <1>3, <1>4, <1>5, <1>6 DEF DriverInv

LEMMA StepDriver ==
  ASSUME DriverInv, [Next]_vars, "chain" \notin Habits
  PROVE  DriverInv'
<1>1. CASE Next
  <2>1. PICK req, rsp : Edge(req, rsp) /\ Moves(req)
    BY <1>1, StepMoves
  <2>2. CpuSide'
    BY <1>1, StepMoves
  <2>3. EnableSide' /\ IdleSide' /\ FlagSide'
    BY <2>1, <2>2, EnableKept, IdleKept, FlagKept
  <2>4. AnswerSide'
    BY <1>1, <2>1, <2>2, AnswerKept
  <2>5. FifoRegs' /\ FifoSide' /\ pending' \in Seq(Descriptors)
    BY <2>1, <2>2, FifoKept
  <2>6. FetchSide' /\ TransferSide' /\ EndSide' /\ MemSide'
    BY <2>1, <2>2, FetchSideKept, TransferKept, EndKept, MemKept
  <2>7. DOMAIN engine' = EngineRegs
    BY <2>1, EngineMoves, EngineRuns
  <2> QED BY <2>2, <2>3, <2>4, <2>5, <2>6, <2>7 DEF DriverInv
<1>2. CASE UNCHANGED vars
  <2> USE <1>2 DEF vars, dmaVars, hist
  <2>1. (DOMAIN engine = EngineRegs)' /\ (pending \in Seq(Descriptors))'
    BY DEF DriverInv
  <2>2. CpuSide' /\ EnableSide' /\ IdleSide' /\ FlagSide' /\ AnswerSide'
    BY DEF DriverInv, CpuSide, EnableSide, IdleSide, FlagSide, AnswerSide, Empty, Finished, Failed
  <2>3. FifoRegs' /\ FifoSide' /\ FetchSide'
    BY DEF DriverInv, FifoRegs, FifoSide, FetchSide, Level, PushedWords, FetchedWords, Waits, Begun
  <2>4. TransferSide' /\ EndSide' /\ MemSide'
    BY DEF DriverInv, TransferSide, Transferring, Loaded, EndSide, Failed, MemSide
  <2> QED BY <2>1, <2>2, <2>3, <2>4 DEF DriverInv
<1> QED BY <1>1, <1>2

\* In every reachable state of an application that programs only while the DMA
\* is idle, the flags, the FIFO, the engine and memory agree on what was
\* programmed and what was done of it (neorv32_dma.vhd:138-321, neorv32_dma.c).
THEOREM DriverInStep == "chain" \notin Habits => (Spec => []DriverInv)
<1> SUFFICES ASSUME "chain" \notin Habits PROVE Spec => []DriverInv
  OBVIOUS
<1>1. DriverInv /\ [Next]_vars => DriverInv'
  BY StepDriver
<1> QED BY <1>1, InitDriver, PTL DEF Spec

\* A transfer begins with the oldest programmed descriptor in the registers of
\* the engine (neorv32_dma.vhd:255-279), although each of its three words was
\* pushed by itself and the FIFO's flag and output lag behind its pointers.  The
\* application programs only while the DMA is idle: S_GET_3 waits for no word.
THEOREM FetchesInOrder == "chain" \notin Habits => (Spec => []FetchesDescriptors)
<1> SUFFICES ASSUME "chain" \notin Habits PROVE Spec => []FetchesDescriptors
  OBVIOUS
<1>1. DriverInv => FetchesDescriptors
  <2> SUFFICES ASSUME DriverInv, EngineFetches, ~cut
               PROVE  /\ cur.desc # NoDesc
                      /\ cur.desc = [src  |-> engine.src_addr, dst |-> engine.dst_addr,
                                     conf |-> [num |-> engine.num, bswap |-> engine.bswap,
                                               src |-> engine.src_type, dst |-> engine.dst_type]]
    BY DEF FetchesDescriptors
  <2> DEFINE d == cur.desc
             m == cur.moved
  <2>1. engine.state = "S_READ_REQ" /\ ~engine.num_or /\ Transferring
    BY DEF EngineFetches, Transferring
  <2>2. /\ d \in Descriptors /\ m \in 0..d.conf.num - 1
        /\ engine.bswap = d.conf.bswap /\ engine.src_type = d.conf.src /\ engine.dst_type = d.conf.dst
        /\ engine.num = d.conf.num - m /\ ~(m > 0)
        /\ engine.src_addr = ElementSrc(d, m) /\ engine.dst_addr = ElementDst(d, IF m > 0 THEN m - 1 ELSE m)
    BY <2>1 DEF DriverInv, TransferSide
  <2>3. d.conf.num \in 1..NUM_MOD - 1 /\ ElementSrc(d, 0) = d.src /\ ElementDst(d, 0) = d.dst
    BY <2>2, Elements
  <2>4. m = 0 /\ d.conf.num # 0
    BY <2>2, <2>3, DmaAssumption
  <2>5. d \in [src : Nat, dst : Nat, conf : [num : 1..NUM_MOD - 1, bswap : BOOLEAN, src : Type, dst : Type]]
    BY <2>2, DescriptorAssumption
  <2>6. engine.src_addr = d.src /\ engine.dst_addr = d.dst /\ engine.num = d.conf.num
    BY <2>2, <2>3, <2>4, DmaAssumption
  <2>7. d = [src |-> d.src, dst |-> d.dst,
             conf |-> [num |-> d.conf.num, bswap |-> d.conf.bswap, src |-> d.conf.src, dst |-> d.conf.dst]]
    BY <2>5
  <2>8. d # NoDesc
    BY <2>4 DEF NoDesc, NoConf
  <2> QED BY <2>2, <2>6, <2>7, <2>8
<1> QED BY <1>1, DriverInStep, PTL

\* What a transfer has written is what its descriptor says, element by element,
\* and it has written nothing else, at every moment and however it ends
\* (neorv32_dma.vhd:217-413).  A byte that is written to words is replicated in
\* them (neorv32_dma.vhd:347-365), where soc_dma.adoc:38 has it extended with
\* zeros.  For an application that programs only while the DMA is idle.
MovesExact == ~cut => mem = Moved(cur.before, cur.desc, cur.moved)

THEOREM MovesElements == "chain" \notin Habits => (Spec => []MovesExact)
<1> SUFFICES ASSUME "chain" \notin Habits PROVE Spec => []MovesExact
  OBVIOUS
<1>1. DriverInv => MovesExact
  BY DEF DriverInv, MemSide, MovesExact
<1> QED BY <1>1, DriverInStep, PTL

\* No descriptor writes bytes to words.
Narrow == \A d \in Descriptors : d.conf.src \in InByte => d.conf.dst \in InByte

\* Then the engine copies.
LEMMA NarrowCopies ==
  ASSUME Narrow, NEW m, NEW d \in Descriptors, NEW n
  PROVE  Moved(m, d, n) = Copied(m, d, n)
<1>1. ASSUME NEW i, NEW a PROVE MovedByte(m, d, i, a) = ElementByte(m, d, i, a)
  <2> DEFINE byte == m[ElementSrc(d, i)]
             word == m[(ElementSrc(d, i) \div 4) * 4 + (Mirrored(d, a) % 4)]
             low  == Mirrored(d, a) % 4 = 0
  <2> HIDE DEF byte, word, low
  <2>1. MovedByte(m, d, i, a) = IF d.conf.src \in InByte THEN byte ELSE word
    BY DEF MovedByte, byte, word
  <2>2. ElementByte(m, d, i, a)
          = IF d.conf.src \notin InByte THEN word ELSE IF d.conf.dst \in InByte \/ low THEN byte ELSE 0
    BY DEF ElementByte, byte, word, low
  <2>3. d.conf.src \in InByte => d.conf.dst \in InByte
    BY DEF Narrow
  <2>4. CASE d.conf.src \in InByte
    BY <2>1, <2>2, <2>3, <2>4
  <2>5. CASE d.conf.src \notin InByte
    BY <2>1, <2>2, <2>5
  <2> QED BY <2>4, <2>5
<1> QED BY <1>1 DEF Moved, Copied

\* For such descriptors, this is the transfer as soc_dma.adoc has it, under the
\* same condition on the application.
THEOREM CopiesElements == "chain" \notin Habits /\ Narrow => (Spec => []CopiesExact)
<1> SUFFICES ASSUME "chain" \notin Habits, Narrow PROVE Spec => []CopiesExact
  OBVIOUS
<1>1. ASSUME DriverInv PROVE CopiesExact
  <2>1. SUFFICES ASSUME ~cut PROVE mem = Copied(cur.before, cur.desc, cur.moved)
    BY DEF CopiesExact
  <2>2. /\ mem = Moved(cur.before, cur.desc, cur.moved)
        /\ cur.moved = 0 \/ cur.desc \in Descriptors
    BY <1>1, <2>1 DEF DriverInv, MemSide
  <2>3. CASE cur.desc \in Descriptors
    BY <2>2, <2>3, NarrowCopies
  <2>4. CASE cur.moved = 0
    <3>1. Moved(cur.before, cur.desc, 0) = Copied(cur.before, cur.desc, 0)
      <4>1. \A a : {i \in 0..0 - 1 : a \in Targets(cur.desc, i)} = {}
        OBVIOUS
      <4> QED BY <4>1 DEF Moved, Copied
    <3> QED BY <2>2, <2>4, <3>1
  <2> QED BY <2>2, <2>3, <2>4
<1>2. DriverInv => CopiesExact
  BY <1>1
<1> QED BY <1>2, DriverInStep, PTL

\* DONE, from the status or the interrupt, means that every descriptor was
\* executed to its last element, and ERROR that the last one stopped at an
\* element behind the memory (neorv32_dma.c:144-160, neorv32_dma.vhd:138-160),
\* under the same condition.
THEOREM AnswersTruly == "chain" \notin Habits => (Spec => []AnswersTrue)
<1> SUFFICES ASSUME "chain" \notin Habits PROVE Spec => []AnswersTrue
  OBVIOUS
<1>1. DriverInv => AnswersTrue
  BY DEF DriverInv, AnswerSide, AnswersTrue, Finished, Failed
<1> QED BY <1>1, DriverInStep, PTL
=============================================================================
