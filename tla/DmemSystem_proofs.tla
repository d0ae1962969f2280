------------------------- MODULE DmemSystem_proofs -------------------------
(* Proofs about DmemSystem for every value of its constants.                 *)
EXTENDS DmemSystem, TLAPS

-----------------------------------------------------------------------------
(* What the memory's operators return. *)

\* Merging bytes keeps the shape of a word and of a row.
LEMMA MergeWordType ==
  ASSUME NEW old \in Word, NEW new \in Word, NEW be \in WordBE
  PROVE  MergeWord(old, new, be) \in Word
BY DEF MergeWord, Word, WordBE

LEMMA MergeRowType ==
  ASSUME NEW old \in Row, NEW new \in Row, NEW be \in RowBE
  PROVE  MergeRow(old, new, be) \in Row
<1> SUFFICES ASSUME NEW l \in Lane PROVE MergeWord(old[l], new[l], be[l]) \in Word
  BY DEF MergeRow, Row
<1> QED BY MergeWordType DEF Row, RowBE

\* Executing the same write twice in a row is executing it once.
LEMMA MergeRowTwice ==
  ASSUME NEW old \in Row, NEW new \in Row, NEW be \in RowBE
  PROVE  MergeRow(MergeRow(old, new, be), new, be) = MergeRow(old, new, be)
<1>1. ASSUME NEW l \in Lane
      PROVE  MergeWord(MergeWord(old[l], new[l], be[l]), new[l], be[l])
               = MergeWord(old[l], new[l], be[l])
  BY DEF MergeWord
<1> QED BY <1>1 DEF MergeRow

\* A request on the CPU port, widened, is a request on the memory port.
LEMMA CpuToMemType ==
  ASSUME NEW req \in CpuReq
  PROVE  CpuToMem(req) \in MemReq
<1>1. ZeroWord \in Word /\ {} \in WordBE
  BY ByteAssumption DEF ZeroWord, Word, WordBE
<1> QED BY <1>1 DEF CpuToMem, CpuReq, MemReq, Row, RowBE

\* The widened write changes the bytes of its lane and no other lane.
LEMMA CpuToMemMerge ==
  ASSUME NEW req \in CpuReq, NEW old \in Row
  PROVE  MergeRow(old, CpuToMem(req).wdata, CpuToMem(req).be)
           = [old EXCEPT ![req.lane] = MergeWord(@, req.wdata, req.be)]
<1>1. ASSUME NEW l \in Lane, l # req.lane
      PROVE  MergeWord(old[l], ZeroWord, {}) = old[l]
  BY DEF MergeWord, Row, Word
<1> QED BY <1>1 DEF MergeRow, CpuToMem, Row, CpuReq

\* The signals between the components have their types.
LEMMA WireTypes ==
  ASSUME TypeOK
  PROVE  /\ cpu_req \in CpuReq
         /\ MemPort \in MemReq
         /\ cpu_req.stb = 1 <=> host_req.stb = 1 /\ host_port = Dmem
<1>1. cpu_req \in CpuReq
  BY DEF TypeOK, cpu_req, CpuReq, Bit
<1>2. ZeroWord \in Word
  BY ByteAssumption DEF ZeroWord, Word
<1>3. MemReqIdle \in MemReq
  BY <1>2, RowsAssumption DEF MemReqIdle, MemReq, RowIndex, Bit, Row, RowBE, WordBE, ZeroRow, NoBE
<1>4. CpuToMem(cpu_req) \in MemReq
  BY <1>1, CpuToMemType
<1>5. MemPort \in MemReq
  BY <1>3, <1>4 DEF MemPort, mem_req, TypeOK
<1>6. cpu_req.stb = 1 <=> host_req.stb = 1 /\ host_port = Dmem
  BY DEF TypeOK, cpu_req, CpuReq, Bit
<1> QED BY <1>1, <1>5, <1>6

\* The keeper's counter wraps within its width.
LEMMA CounterWraps ==
  ASSUME NEW c \in 0..CntModulus - 1
  PROVE  (c + 1) % CntModulus \in 0..CntModulus - 1
<1> CntModulus \in Nat \ {0}
  BY MaxTmoAssumption DEF CntModulus
<1> QED OBVIOUS

-----------------------------------------------------------------------------
(* Type correctness. *)

LEMMA InitTypeOK == Init => TypeOK
<1> SUFFICES ASSUME Init PROVE TypeOK
  OBVIOUS
<1>1. ZeroWord \in Word /\ ZeroRow \in Row
  BY ByteAssumption DEF ZeroWord, ZeroRow, Word, Row
<1>2. CpuReqIdle \in CpuReq /\ MemReqIdle \in MemReq
  BY <1>1, RowsAssumption, LanesAssumption
  DEF CpuReqIdle, CpuReq, MemReqIdle, MemReq, RowIndex, Lane, Bit, RowBE, WordBE, NoBE
<1>3. XbarTypeOK
  BY LanesAssumption DEF Init, XbarInit, XbarTypeOK, arb_state_t, Lane
<1>4. BramTypeOK
  BY <1>1 DEF Init, BramInit, BramTypeOK, Bit
<1>5. KeeperTypeOK
  BY MaxTmoAssumption DEF Init, KeeperInit, KeeperTypeOK, CntModulus
<1> QED BY <1>2, <1>3, <1>4, <1>5 DEF Init, TypeOK

LEMMA NextTypeOK == TypeOK /\ [Next]_vars => TypeOK'
<1> SUFFICES ASSUME TypeOK, [Next]_vars PROVE TypeOK'
  OBVIOUS
<1>1. ZeroWord \in Word /\ ZeroRow \in Row
  BY ByteAssumption DEF ZeroWord, ZeroRow, Word, Row
<1>2. CpuReqIdle \in CpuReq /\ MemReqIdle \in MemReq
  BY <1>1, RowsAssumption, LanesAssumption
  DEF CpuReqIdle, CpuReq, MemReqIdle, MemReq, RowIndex, Lane, Bit, RowBE, WordBE, NoBE
<1>3. CASE Tick
  <2>1. XbarTypeOK'
    BY <1>3, WireTypes DEF Tick, XbarTick, ArbGrantDma, ArbGrantCpu, ArbRelease, ArbHold,
       XbarTypeOK, arb_state_t, TypeOK, CpuReq, xbarVars
  <2>2. BramTypeOK'
    <3>1. MemPort \in MemReq
      BY WireTypes
    <3>2. CASE BramWrite(MemPort)
      <4>1. MemPort.row \in MemIndex /\ MemPort.wdata \in Row /\ MemPort.be \in RowBE
        BY <3>1, <3>2, RowsAssumption DEF BramWrite, MemReq, MemIndex, RowIndex
      <4>2. mem[MemPort.row] \in Row
        BY <4>1 DEF TypeOK, BramTypeOK
      <4>3. MergeRow(mem[MemPort.row], MemPort.wdata, MemPort.be) \in Row
        BY <4>1, <4>2, MergeRowType
      <4> QED BY <4>3, <3>2 DEF BramWrite, TypeOK, BramTypeOK, Bit
    <3>3. CASE BramRead(MemPort)
      BY <3>1, <3>3, RowsAssumption DEF BramRead, MemReq, TypeOK, BramTypeOK, MemIndex, RowIndex, Bit
    <3>4. CASE BramOutOfBounds(MemPort)
      BY <1>1, <3>4 DEF BramOutOfBounds, TypeOK, BramTypeOK, Bit
    <3>5. CASE BramQuiet(MemPort)
      BY <3>5 DEF BramQuiet, TypeOK, BramTypeOK, Bit
    <3> QED BY <1>3, <3>2, <3>3, <3>4, <3>5 DEF Tick, BramTick
  <2>3. KeeperTypeOK'
    <3>1. (keeper_cnt + 1) % CntModulus \in 0..CntModulus - 1 /\ 0 \in 0..CntModulus - 1
      BY CounterWraps, MaxTmoAssumption DEF TypeOK, KeeperTypeOK, CntModulus
    <3>2. host_port \in Ports \cup {NoPort}
      BY DmemAssumption DEF TypeOK
    <3> QED
      BY <1>3, <3>1, <3>2 DEF Tick, KeeperTick, KeeperIdle, KeeperTimeout, KeeperBusy, KeeperError,
         CountAnswer, KeeperTypeOK, TypeOK
  <2>4. host_state' \in {"ready", "wait"} /\ host_req' \in CpuReq /\ host_port' \in HostPorts \cup {NoPort}
    BY <1>3, DmemAssumption DEF Tick, HostTick, HostIssue, HostRest, HostWait, TypeOK, CpuReq, Bit
  <2>5. dma_req' \in MemReq
    BY <1>3, DmemAssumption DEF Tick, DmaTick, DmaIssue, DmaRest, DmaHold, TypeOK, MemReq, Bit
  <2> QED BY <2>1, <2>2, <2>3, <2>4, <2>5 DEF TypeOK
<1>4. CASE Reset
  BY <1>1, <1>2, <1>4, LanesAssumption, MaxTmoAssumption
  DEF Reset, TypeOK, XbarTypeOK, arb_state_t, Lane, BramTypeOK, Bit, KeeperTypeOK, CntModulus
<1>5. CASE UNCHANGED vars
  BY <1>5 DEF vars, xbarVars, bramVars, keeperVars, TypeOK, XbarTypeOK, BramTypeOK, KeeperTypeOK
<1> QED BY <1>3, <1>4, <1>5 DEF Next

\* Every reachable state is type correct.
THEOREM TypeCorrect == Spec => []TypeOK
BY InitTypeOK, NextTypeOK, PTL DEF Spec

-----------------------------------------------------------------------------
(* The inductive invariant. *)

\* The keeper does not fire while its counter is at zero and the data memory
\* is selected.
LEMMA NoFireAtZero ==
  ASSUME keeper_sel = Dmem, keeper_cnt = 0
  PROVE  ~tmo_fire
<1>1. PortTmo[Dmem] \in Nat \ {0} /\ Dmem # NoPort
  BY DmemAssumption, PortsAssumption
<1>2. 0 \div PortTmo[Dmem] = 0
  BY <1>1
<1> QED BY <1>1, <1>2 DEF tmo_fire

\* When the host sees an answer, and from whom.
LEMMA Answers ==
  ASSUME IInv
  PROVE  /\ CpuRsp.ack = IF arb_state = "ARB_CPU" THEN 1 ELSE 0
         /\ HostRsp.ack = IF arb_state = "ARB_CPU" \/ keeper_state = "S_ERROR" THEN 1 ELSE 0
         /\ arb_state = "ARB_CPU" => ~tmo_fire
         /\ dma_req.stb = 1 => DmaRsp.ack = IF arb_state = "ARB_DMA" THEN 1 ELSE 0
<1>1. CpuRsp.ack = IF arb_state = "ARB_CPU" THEN 1 ELSE 0
  BY DEF IInv, CpuGrant, CpuServed, CpuRsp, cpu_rsp
<1>2. HostRsp.ack = IF arb_state = "ARB_CPU" \/ keeper_state = "S_ERROR" THEN 1 ELSE 0
  BY <1>1 DEF IInv, CpuGrant, HostRsp, host_rsp, bus_err
<1>3. arb_state = "ARB_CPU" => ~tmo_fire
  BY NoFireAtZero DEF IInv, CpuGrant, KeeperInStep
<1>4. dma_req.stb = 1 => DmaRsp.ack = IF arb_state = "ARB_DMA" THEN 1 ELSE 0
  BY DEF IInv, DmaGrant, DmaServedNow, DmaRsp, dma_rsp
<1> QED BY <1>1, <1>2, <1>3, <1>4

\* Host and keeper move together: the keeper is not idle after a clock exactly
\* when the host is still waiting for an access it strobed before.
LEMMA HostAndKeeper ==
  ASSUME IInv, Tick
  PROVE  /\ keeper_state' # "S_IDLE" <=> host_state = "wait" /\ HostRsp.ack = 0
         /\ keeper_state' # "S_IDLE" => HostWait /\ keeper_sel' = host_port
         /\ keeper_lock' = 0
<1>1. CASE keeper_state = "S_IDLE"
  <2>1. KeeperIdle(host_req.stb, 0, host_port)
    BY <1>1 DEF Tick, KeeperTick, KeeperIdle, KeeperTimeout, KeeperBusy, KeeperError
  <2>2. HostRsp.ack = 0
    BY <1>1, Answers DEF IInv, CpuGrant
  <2>3. host_req.stb \in {0, 1}
    BY DEF IInv, TypeOK, CpuReq, Bit
  <2>4. host_req.stb = 1 <=> host_state = "wait"
    BY <1>1, <2>3 DEF IInv, StrobeFindsIdle, KeeperTracksHost
  <2> QED BY <2>1, <2>2, <2>3, <2>4 DEF KeeperIdle, Tick, HostTick, HostIssue, HostRest, IInv, TypeOK
<1>2. CASE keeper_state = "S_ERROR"
  <2>1. KeeperError(0)
    BY <1>2 DEF Tick, KeeperTick, KeeperIdle, KeeperTimeout, KeeperBusy, KeeperError
  <2>2. HostRsp.ack = 1
    BY <1>2, Answers
  <2> QED BY <2>1, <2>2 DEF KeeperError, IInv, KeeperInStep
<1>3. CASE keeper_state = "S_BUSY"
  <2>1. KeeperTimeout(CpuRsp.ack) \/ KeeperBusy(0, CpuRsp.ack)
    BY <1>3 DEF Tick, KeeperTick, KeeperIdle, KeeperTimeout, KeeperBusy, KeeperError
  <2>2. host_state = "wait"
    BY <1>3 DEF IInv, KeeperTracksHost
  <2>3. CASE arb_state = "ARB_CPU"
    BY <2>1, <2>3, Answers DEF KeeperTimeout, KeeperBusy, IInv, KeeperInStep
  <2>4. CASE arb_state # "ARB_CPU"
    <3>1. HostRsp.ack = 0 /\ CpuRsp.ack = 0
      BY <1>3, <2>4, Answers
    <3>2. HostWait
      BY <2>2, <3>1 DEF Tick, HostTick, HostIssue, HostRest
    <3> QED BY <1>3, <2>1, <2>2, <3>1, <3>2 DEF KeeperTimeout, KeeperBusy, IInv, KeeperInStep
  <2> QED BY <2>3, <2>4
<1> QED BY <1>1, <1>2, <1>3 DEF IInv, TypeOK, KeeperTypeOK

\* Which arbiter step a clock takes.
LEMMA ArbStep ==
  ASSUME IInv, Tick
  PROVE  /\ arb_state' = "ARB_CPU" => ArbGrantCpu(cpu_req, dma_req)
         /\ arb_state' = "ARB_DMA" /\ dma_req'.stb = 1 => ArbGrantDma(cpu_req, dma_req)
<1>1. arb_state = "ARB_CPU" => cpu_req.stb # 1
  BY WireTypes DEF IInv, CpuGrant
<1>2. arb_state = "ARB_DMA" /\ dma_req.stb = 1 => dma_req'.stb = 0
  BY Answers DEF IInv, TypeOK, MemReq, Tick, DmaTick, DmaIssue, DmaRest, DmaHold
<1>3. dma_req.stb \in {0, 1}
  BY DEF IInv, TypeOK, MemReq, Bit
<1> QED
  BY <1>1, <1>2, <1>3
  DEF Tick, XbarTick, ArbGrantDma, ArbGrantCpu, ArbRelease, ArbHold, xbarVars

\* The row at an address after the step.
RowAfter(r) == IF r < NUM_WORDS THEN mem'[r] ELSE ZeroRow

\* What the block RAM does with a request of the CPU port.
LEMMA CpuAccess ==
  ASSUME TypeOK, NEW req \in CpuReq, req.stb = 1, BramTick(CpuToMem(req))
  PROVE  /\ mem_ack' = 1
         /\ req.rw = 0 => mem_rdata' = RowAfter(req.row)
         /\ req.rw = 1 /\ req.row < NUM_WORDS =>
              mem'[req.row][req.lane] = MergeWord(mem'[req.row][req.lane], req.wdata, req.be)
<1> DEFINE wide == CpuToMem(req)
<1>1. wide.row = req.row /\ wide.rw = req.rw /\ wide.stb = 1 /\ req.row \in RowIndex
  BY DEF CpuToMem, CpuReq
<1>2. CASE BramWrite(wide)
  <2>1. req.row \in MemIndex /\ req.rw = 1
    BY <1>1, <1>2, RowsAssumption DEF BramWrite, MemIndex, RowIndex
  <2>2. mem[req.row] \in Row
    BY <2>1 DEF TypeOK, BramTypeOK
  <2>3. mem'[req.row] = [mem[req.row] EXCEPT ![req.lane] = MergeWord(@, req.wdata, req.be)]
    BY <1>1, <1>2, <2>1, <2>2, CpuToMemMerge DEF BramWrite, TypeOK, BramTypeOK
  <2>4. req.lane \in Lane
    BY DEF CpuReq
  <2>5. mem'[req.row][req.lane] = MergeWord(mem[req.row][req.lane], req.wdata, req.be)
    BY <2>2, <2>3, <2>4 DEF Row
  <2>6. mem'[req.row][req.lane] = MergeWord(mem'[req.row][req.lane], req.wdata, req.be)
    BY <2>5 DEF MergeWord
  <2> QED BY <1>2, <2>1, <2>6 DEF BramWrite
<1>3. CASE BramRead(wide)
  BY <1>1, <1>3 DEF BramRead, RowAfter
<1>4. CASE BramOutOfBounds(wide)
  BY <1>1, <1>4, RowsAssumption DEF BramOutOfBounds, RowAfter, RowIndex
<1> QED BY <1>1, <1>2, <1>3, <1>4 DEF BramTick, BramQuiet

\* What it does with a request of the accelerator's port.
LEMMA DmaAccess ==
  ASSUME TypeOK, NEW req \in MemReq, req.stb = 1, BramTick(req)
  PROVE  /\ mem_ack' = 1
         /\ req.rw = 0 => mem_rdata' = RowAfter(req.row)
         /\ req.rw = 1 /\ req.row < NUM_WORDS =>
              mem'[req.row] = MergeRow(mem'[req.row], req.wdata, req.be)
<1>1. req.row \in RowIndex /\ req.wdata \in Row /\ req.be \in RowBE
  BY DEF MemReq
<1>2. CASE BramWrite(req)
  <2>1. req.row \in MemIndex /\ req.rw = 1
    BY <1>1, <1>2, RowsAssumption DEF BramWrite, MemIndex, RowIndex
  <2>2. mem[req.row] \in Row
    BY <2>1 DEF TypeOK, BramTypeOK
  <2>3. mem'[req.row] = MergeRow(mem[req.row], req.wdata, req.be)
    BY <1>2, <2>1 DEF BramWrite, TypeOK, BramTypeOK
  <2>4. mem'[req.row] = MergeRow(mem'[req.row], req.wdata, req.be)
    BY <1>1, <2>2, <2>3, MergeRowTwice
  <2> QED BY <1>2, <2>1, <2>4 DEF BramWrite
<1>3. CASE BramRead(req)
  BY <1>1, <1>3 DEF BramRead, RowAfter
<1>4. CASE BramOutOfBounds(req)
  BY <1>1, <1>4, RowsAssumption DEF BramOutOfBounds, RowAfter, RowIndex
<1> QED BY <1>2, <1>3, <1>4 DEF BramTick, BramQuiet

LEMMA InitIInv == Init => IInv
<1> SUFFICES ASSUME Init PROVE IInv
  OBVIOUS
<1>1. TypeOK
  BY InitTypeOK
<1> QED
  BY <1>1 DEF Init, XbarInit, KeeperInit, CpuReqIdle, MemReqIdle, IInv, KeeperTracksHost,
     CpuGrant, DmaGrant, StrobeFindsIdle, KeeperInStep

\* A clock preserves the relation between host and keeper.
LEMMA TickKeeper ==
  ASSUME IInv, Tick
  PROVE  KeeperTracksHost' /\ KeeperInStep' /\ StrobeFindsIdle'
<1>1. host_state \in {"ready", "wait"} /\ HostRsp.ack \in {0, 1} /\ host_req \in CpuReq
  BY Answers DEF IInv, TypeOK
<1>2. CASE HostIssue
  <2>1. host_state' = "wait" /\ host_req'.stb = 1
    BY <1>2, DmemAssumption DEF HostIssue
  <2>2. keeper_state' = "S_IDLE" /\ keeper_lock' = 0
    BY <1>2, HostAndKeeper DEF HostIssue
  <2>3. arb_state' # "ARB_CPU"
    <3>1. SUFFICES ASSUME arb_state' = "ARB_CPU" PROVE FALSE
      OBVIOUS
    <3>2. arb_state = "ARB_IDLE" /\ cpu_req.stb = 1
      BY <3>1, ArbStep DEF ArbGrantCpu
    <3>3. host_req.stb = 1
      BY <3>2, WireTypes DEF IInv
    <3>4. host_state = "wait" /\ HostRsp.ack = 0
      BY <3>2, <3>3, Answers DEF IInv, StrobeFindsIdle
    <3> QED BY <1>2, <3>4 DEF HostIssue
  <2> QED BY <2>1, <2>2, <2>3 DEF KeeperTracksHost, KeeperInStep, StrobeFindsIdle
<1>3. CASE HostRest
  <2>1. host_state' = "ready" /\ host_req'.stb = 0
    BY <1>1, <1>3 DEF HostRest, CpuReq
  <2>2. keeper_state' = "S_IDLE" /\ keeper_lock' = 0
    BY <1>3, HostAndKeeper DEF HostRest
  <2> QED BY <2>1, <2>2 DEF KeeperTracksHost, KeeperInStep, StrobeFindsIdle
<1>4. CASE HostWait
  <2>1. host_state' = "wait" /\ host_req'.stb = 0 /\ host_port' = host_port
    BY <1>1, <1>4 DEF HostWait, CpuReq
  <2>2. keeper_state' # "S_IDLE" /\ keeper_lock' = 0 /\ keeper_sel' = host_port
    BY <1>4, HostAndKeeper DEF HostWait
  <2> QED BY <2>1, <2>2 DEF KeeperTracksHost, KeeperInStep, StrobeFindsIdle
<1> QED BY <1>2, <1>3, <1>4 DEF Tick, HostTick

\* A clock that grants the CPU serves the request it has on its port.
LEMMA TickCpuGrant ==
  ASSUME IInv, Tick
  PROVE  CpuGrant'
<1> SUFFICES ASSUME arb_state' = "ARB_CPU" PROVE CpuGrant'
  BY DEF CpuGrant
<1>1. arb_state = "ARB_IDLE" /\ dma_req.stb = 0 /\ cpu_req.stb = 1 /\ cpu_word_sel' = cpu_req.lane
  BY ArbStep DEF ArbGrantCpu
<1>2. host_req.stb = 1 /\ host_port = Dmem /\ cpu_req \in CpuReq /\ cpu_req = host_req
  BY <1>1, WireTypes DEF IInv, cpu_req
<1>3. host_state = "wait" /\ keeper_state = "S_IDLE" /\ HostRsp.ack = 0
  BY <1>1, <1>2, Answers DEF IInv, StrobeFindsIdle
<1>4. HostWait
  BY <1>3 DEF Tick, HostTick, HostIssue, HostRest
<1>5. host_state' = "wait" /\ host_port' = Dmem /\ host_req' = [host_req EXCEPT !.stb = 0]
  BY <1>2, <1>3, <1>4 DEF HostWait
<1>6. keeper_state' = "S_BUSY" /\ keeper_cnt' = 0
  BY <1>2, <1>3 DEF Tick, KeeperTick, KeeperIdle, KeeperTimeout, KeeperBusy, KeeperError
<1>7. MemPort = CpuToMem(cpu_req)
  BY <1>1 DEF MemPort, mem_req
<1>8. /\ mem_ack' = 1
      /\ cpu_req.rw = 0 => mem_rdata' = RowAfter(cpu_req.row)
      /\ cpu_req.rw = 1 /\ cpu_req.row < NUM_WORDS =>
           mem'[cpu_req.row][cpu_req.lane] =
             MergeWord(mem'[cpu_req.row][cpu_req.lane], cpu_req.wdata, cpu_req.be)
  BY <1>1, <1>2, <1>7, CpuAccess DEF IInv, Tick
<1>9. /\ host_req'.row = cpu_req.row /\ host_req'.lane = cpu_req.lane /\ host_req'.stb = 0
      /\ host_req'.wdata = cpu_req.wdata /\ host_req'.be = cpu_req.be /\ host_req'.rw = cpu_req.rw
  BY <1>2, <1>5 DEF CpuReq
<1>10. CpuServed(host_req)'
  <2>1. RowAt(host_req.row)' = RowAfter(cpu_req.row)
    BY <1>9 DEF RowAt, RowAfter
  <2> QED BY <1>1, <1>8, <1>9, <2>1 DEF CpuServed
<1> QED BY <1>5, <1>6, <1>9, <1>10 DEF CpuGrant

\* A clock that grants the accelerator serves the request it holds.
LEMMA TickDmaGrant ==
  ASSUME IInv, Tick
  PROVE  DmaGrant'
<1> SUFFICES ASSUME arb_state' = "ARB_DMA", dma_req'.stb = 1 PROVE DmaServedNow(dma_req)'
  BY DEF DmaGrant
<1>1. arb_state = "ARB_IDLE" /\ dma_req.stb = 1
  BY ArbStep DEF ArbGrantDma
<1>2. dma_req' = dma_req
  BY <1>1, Answers DEF Tick, DmaTick, DmaIssue, DmaRest, DmaHold
<1>3. MemPort = dma_req
  BY <1>1 DEF MemPort, mem_req
<1>4. /\ mem_ack' = 1
      /\ dma_req.rw = 0 => mem_rdata' = RowAfter(dma_req.row)
      /\ dma_req.rw = 1 /\ dma_req.row < NUM_WORDS =>
           mem'[dma_req.row] = MergeRow(mem'[dma_req.row], dma_req.wdata, dma_req.be)
  BY <1>1, <1>3, DmaAccess DEF IInv, TypeOK, Tick
<1>5. RowAt(dma_req.row)' = RowAfter(dma_req.row)
  BY <1>2 DEF RowAt, RowAfter
<1> QED BY <1>2, <1>4, <1>5 DEF DmaServedNow

LEMMA NextIInv == IInv /\ [Next]_vars => IInv'
<1> SUFFICES ASSUME IInv, [Next]_vars PROVE IInv'
  OBVIOUS
<1>1. TypeOK'
  BY NextTypeOK DEF IInv
<1>2. CASE Tick
  BY <1>1, <1>2, TickKeeper, TickCpuGrant, TickDmaGrant DEF IInv
<1>3. CASE Reset
  BY <1>1, <1>3 DEF Reset, CpuReqIdle, MemReqIdle, IInv, KeeperTracksHost,
     CpuGrant, DmaGrant, StrobeFindsIdle, KeeperInStep
<1>4. CASE UNCHANGED vars
  <2>1. UNCHANGED <<arb_state, cpu_word_sel, mem, mem_rdata, mem_ack, keeper_state, keeper_lock,
                    keeper_sel, keeper_cnt, host_state, host_req, host_port, dma_req>>
    BY <1>4 DEF vars, xbarVars, bramVars, keeperVars
  <2>2. CpuGrant' /\ DmaGrant'
    BY <2>1 DEF IInv, CpuGrant, DmaGrant, CpuServed, DmaServedNow, RowAt
  <2> QED BY <1>1, <2>1, <2>2 DEF IInv, KeeperTracksHost, StrobeFindsIdle, KeeperInStep
<1> QED BY <1>2, <1>3, <1>4 DEF Next

\* Every reachable state satisfies the inductive invariant.
THEOREM Inductive == Spec => []IInv
BY InitIInv, NextIInv, PTL DEF Spec

\* The keeper watches exactly the accesses the host waits for.
THEOREM KeeperFollows == Spec => []KeeperTracksHost
<1>1. IInv => KeeperTracksHost
  BY DEF IInv
<1> QED BY <1>1, Inductive, PTL

\* An acknowledge to the accelerator answers the request on its port.
THEOREM DmaAnswersTrue == Spec => []DmaAckTruthful
<1>1. DmaRsp.ack = 1 => arb_state = "ARB_DMA" /\ DmaRsp.rdata = mem_rdata
  BY DEF DmaRsp, dma_rsp
<1>2. IInv => dma_req.rw \in {0, 1}
  BY DEF IInv, TypeOK, MemReq, Bit
<1>3. IInv => DmaAckTruthful
  BY <1>1, <1>2 DEF IInv, DmaGrant, DmaServedNow, DmaAckTruthful
<1> QED BY <1>3, Inductive, PTL

\* An acknowledge without error to the CPU answers the request it waits for.
THEOREM CpuAnswersTrue == Spec => []CpuAckTruthful
<1>1. ASSUME IInv, host_state = "wait", HostRsp.ack = 1, HostRsp.err = 0
      PROVE  arb_state = "ARB_CPU"
  BY <1>1, Answers DEF HostRsp, host_rsp, bus_err
<1>2. IInv => CpuAckTruthful
  BY <1>1 DEF IInv, TypeOK, CpuReq, Bit, CpuGrant, CpuServed, CpuAckTruthful, CpuRsp, cpu_rsp
<1> QED BY <1>2, Inductive, PTL

-----------------------------------------------------------------------------
(* The subsystem implements SharedMemory.                                    *)

\* The abstract specification's shapes are the same sets and values.
LEMMA SameShapes ==
  /\ Abs!Rows = MemIndex /\ Abs!Row = Row
  /\ Abs!ZeroWord = ZeroWord /\ Abs!ZeroRow = ZeroRow
  /\ Abs!CpuReqIdle = CpuReqIdle /\ Abs!MemReqIdle = MemReqIdle
<1>1. Abs!ZeroWord = ZeroWord /\ Abs!NoBE = NoBE /\ Abs!Lane = Lane
  BY DEF Abs!ZeroWord, ZeroWord, Abs!NoBE, NoBE, Abs!Lane, Lane, Abs!ByteSel, ByteSel
<1>2. Abs!ZeroRow = ZeroRow
  BY <1>1 DEF Abs!ZeroRow, ZeroRow
<1>3. Abs!Rows = MemIndex
  BY DEF Abs!Rows, MemIndex
<1>4. Abs!Row = Row
  BY DEF Abs!Row, Row, Abs!Lane, Lane, Abs!Word, Word, Abs!ByteSel, ByteSel
<1>5. Abs!CpuReqIdle = CpuReqIdle
  BY <1>1 DEF Abs!CpuReqIdle, CpuReqIdle
<1>6. Abs!MemReqIdle = MemReqIdle
  BY <1>1, <1>2 DEF Abs!MemReqIdle, MemReqIdle
<1> QED BY <1>1, <1>2, <1>3, <1>4, <1>5, <1>6

\* The initial states map to initial states.
LEMMA InitAbs == Init => Abs!Init
<1> SUFFICES ASSUME Init PROVE Abs!Init
  OBVIOUS
<1>1. CpuPhase = "idle" /\ CpuOp = CpuReqIdle /\ CpuVal = ZeroWord
  BY DEF Init, CpuPhase, CpuOp, CpuVal
<1>2. DmaPhase = "idle" /\ DmaOp = MemReqIdle /\ DmaVal = ZeroRow
  BY DEF Init, DmaPhase, DmaOp, DmaVal, MemReqIdle
<1> QED BY <1>1, <1>2, SameShapes DEF Init, BramInit, Abs!Init

\* A clock that does not grant the CPU is a step of the CPU that leaves the
\* store alone: it issues, rests, fails or waits.
LEMMA CpuSide ==
  ASSUME IInv, Tick, ~ArbGrantCpu(cpu_req, dma_req)
  PROVE  Abs!CpuStep
<1>1. arb_state' # "ARB_CPU"
  BY ArbStep
<1>2. host_req \in CpuReq /\ host_state \in {"ready", "wait"} /\ HostRsp.ack \in {0, 1}
  BY Answers DEF IInv, TypeOK
<1>3. CASE HostIssue
  <2>1. host_state' = "wait" /\ keeper_state' = "S_IDLE" /\ host_req' \in CpuReqs
    BY <1>3, HostAndKeeper DEF HostIssue
  <2>2. CpuPhase' = "pending" /\ CpuVal' = ZeroWord
    BY <1>1, <2>1 DEF CpuPhase, CpuVal
  <2>3. CpuOp' = host_req'
    BY <2>1, <2>2, DmemAssumption DEF CpuOp, CpuReq
  <2>4. CpuPhase \in {"idle", "done", "failed"}
    BY <1>3, Answers DEF HostIssue, CpuPhase
  <2> QED BY <2>1, <2>2, <2>3, <2>4, SameShapes DEF Abs!CpuStep, Abs!CpuIssue
<1>4. CASE HostRest
  <2>1. CpuPhase' = "idle" /\ CpuVal' = ZeroWord /\ CpuOp' = CpuReqIdle
    BY <1>4 DEF HostRest, CpuPhase, CpuVal, CpuOp
  <2>2. CASE CpuPhase = "idle"
    BY <2>1, <2>2 DEF Abs!CpuStep, Abs!cpuVars, CpuVal, CpuOp
  <2>3. CASE CpuPhase # "idle"
    <3>1. CpuPhase \in {"done", "failed"}
      BY <1>4, <2>3, Answers DEF HostRest, CpuPhase
    <3> QED BY <2>1, <3>1, SameShapes DEF Abs!CpuStep, Abs!CpuRest
  <2> QED BY <2>2, <2>3
<1>5. CASE HostWait
  <2>1. CpuPhase = "pending"
    BY <1>5, Answers DEF HostWait, CpuPhase
  <2>2. CpuPhase' \in {"pending", "failed"}
    BY <1>1, <1>2, <1>5 DEF HostWait, CpuPhase
  <2>3. CpuVal = ZeroWord /\ CpuVal' = ZeroWord
    BY <2>1, <2>2 DEF CpuVal
  <2>4. CpuOp' = CpuOp
    BY <1>2, <1>5, <2>1, <2>2 DEF HostWait, CpuOp, CpuReq
  <2> QED BY <2>1, <2>2, <2>3, <2>4 DEF Abs!CpuStep, Abs!CpuFail, Abs!cpuVars
<1> QED BY <1>3, <1>4, <1>5 DEF Tick, HostTick

\* A clock that does not grant the accelerator is a step of the accelerator
\* that leaves the store alone.
LEMMA DmaSide ==
  ASSUME IInv, Tick, ~ArbGrantDma(cpu_req, dma_req)
  PROVE  Abs!DmaStep
<1>1. dma_req'.stb = 1 => arb_state' # "ARB_DMA"
  BY ArbStep
<1>2. dma_req \in MemReq /\ dma_req.stb \in {0, 1}
  BY DEF IInv, TypeOK, MemReq, Bit
<1>3. CASE DmaIssue
  <2>1. dma_req'.stb = 1 /\ dma_req' \in DmaReqs /\ dma_req.stb = 0
    BY <1>3, DmemAssumption DEF DmaIssue
  <2>2. DmaPhase' = "pending" /\ DmaVal' = ZeroRow /\ DmaOp' = dma_req' /\ DmaPhase = "idle"
    BY <1>1, <2>1 DEF DmaPhase, DmaVal, DmaOp
  <2> QED BY <2>1, <2>2, SameShapes DEF Abs!DmaStep, Abs!DmaIssue
<1>4. CASE DmaRest
  <2>1. dma_req'.stb = 0
    BY <1>2, <1>4 DEF DmaRest, MemReq
  <2>2. DmaPhase' = "idle" /\ DmaVal' = ZeroRow /\ DmaOp' = MemReqIdle
    BY <2>1 DEF DmaPhase, DmaVal, DmaOp
  <2>3. CASE dma_req.stb = 0
    BY <2>2, <2>3 DEF DmaPhase, DmaVal, DmaOp, Abs!DmaStep, Abs!dmaVars
  <2>4. CASE dma_req.stb = 1
    <3>1. DmaPhase = "done"
      BY <1>4, <2>4, Answers DEF DmaRest, DmaPhase
    <3> QED BY <2>2, <3>1, SameShapes DEF Abs!DmaStep, Abs!DmaRest
  <2> QED BY <1>2, <2>3, <2>4
<1>5. CASE DmaHold
  <2>1. dma_req' = dma_req /\ dma_req.stb = 1 /\ arb_state # "ARB_DMA"
    BY <1>5, Answers DEF DmaHold
  <2>2. DmaPhase = "pending" /\ DmaPhase' = "pending"
    BY <1>1, <2>1 DEF DmaPhase
  <2>3. DmaVal' = DmaVal /\ DmaOp' = DmaOp
    BY <2>1, <2>2 DEF DmaVal, DmaOp
  <2> QED BY <2>2, <2>3 DEF Abs!DmaStep, Abs!dmaVars
<1> QED BY <1>3, <1>4, <1>5 DEF Tick, DmaTick

\* A clock without a grant leaves the memory alone: even the second execution
\* of the write the accelerator still holds changes nothing.
LEMMA StoreSide ==
  ASSUME IInv, Tick, ~ArbGrantCpu(cpu_req, dma_req), ~ArbGrantDma(cpu_req, dma_req)
  PROVE  mem' = mem
<1>1. ArbRelease(cpu_req, dma_req) \/ ArbHold(cpu_req, dma_req)
  BY DEF Tick, XbarTick
<1>2. cpu_req.stb \in {0, 1} /\ dma_req \in MemReq /\ dma_req.stb \in {0, 1}
  BY WireTypes DEF IInv, TypeOK, CpuReq, MemReq, Bit
<1>3. arb_state = "ARB_CPU" => cpu_req.stb = 0
  BY <1>2, WireTypes DEF IInv, CpuGrant
<1>4. CASE MemPort.stb = 0
  BY <1>4 DEF Tick, BramTick, BramWrite, BramRead, BramOutOfBounds, BramQuiet
<1>5. CASE MemPort.stb # 0
  <2>1. arb_state = "ARB_DMA" /\ dma_req.stb = 1 /\ MemPort = dma_req
    BY <1>1, <1>2, <1>3, <1>5 DEF ArbRelease, ArbHold, MemPort, mem_req, CpuToMem, MemReqIdle
  <2>2. CASE BramWrite(MemPort)
    <3>1. mem[dma_req.row] = MergeRow(mem[dma_req.row], dma_req.wdata, dma_req.be)
      BY <2>1, <2>2 DEF BramWrite, IInv, DmaGrant, DmaServedNow
    <3> QED BY <2>1, <2>2, <3>1 DEF BramWrite, IInv, TypeOK, BramTypeOK
  <2> QED BY <2>2 DEF Tick, BramTick, BramRead, BramOutOfBounds, BramQuiet
<1> QED BY <1>4, <1>5

\* Merging is the same operation in the abstract specification.
LEMMA SameMerge ==
  /\ \A old, new, be : Abs!MergeWord(old, new, be) = MergeWord(old, new, be)
  /\ \A old, new, be : Abs!MergeRow(old, new, be) = MergeRow(old, new, be)
BY DEF Abs!MergeWord, MergeWord, Abs!MergeRow, MergeRow, Abs!Lane, Lane, Abs!ByteSel, ByteSel

\* A clock that grants the CPU performs its operation.
LEMMA CpuTakesEffect ==
  ASSUME IInv, Tick, ArbGrantCpu(cpu_req, dma_req)
  PROVE  Abs!CpuPerform
<1>1. arb_state = "ARB_IDLE" /\ dma_req.stb = 0 /\ cpu_req.stb = 1
      /\ arb_state' = "ARB_CPU" /\ cpu_word_sel' = cpu_req.lane
  BY DEF ArbGrantCpu
<1>2. host_req.stb = 1 /\ cpu_req \in CpuReq /\ cpu_req = host_req
  BY <1>1, WireTypes DEF IInv, cpu_req
<1>3. CpuGrant'
  BY TickCpuGrant
<1>4. host_state = "wait" /\ keeper_state = "S_IDLE" /\ HostRsp.ack = 0
  BY <1>1, <1>2, Answers DEF IInv, StrobeFindsIdle
<1>5. CpuPhase = "pending" /\ CpuPhase' = "done" /\ CpuVal = ZeroWord
  BY <1>1, <1>3, <1>4 DEF CpuPhase, CpuGrant, CpuVal
<1>6. HostWait
  BY <1>4 DEF Tick, HostTick, HostIssue, HostRest
<1>7. host_req' = [host_req EXCEPT !.stb = 0]
  BY <1>6 DEF HostWait
<1>8. CpuOp = cpu_req /\ CpuOp' = cpu_req /\ host_req'.rw = cpu_req.rw
  BY <1>2, <1>5, <1>7 DEF CpuOp, CpuReq
<1>9. MemPort = CpuToMem(cpu_req)
  BY <1>1 DEF MemPort, mem_req
<1>10. /\ MemPort.row = cpu_req.row /\ MemPort.rw = cpu_req.rw /\ MemPort.stb = 1
       /\ cpu_req.row \in RowIndex /\ cpu_req.lane \in Lane /\ cpu_req.rw \in {0, 1}
  BY <1>1, <1>2, <1>9 DEF CpuToMem, CpuReq, Bit
<1>11. mem \in [MemIndex -> Row] /\ Abs!Rows = MemIndex
  BY SameShapes DEF IInv, TypeOK, BramTypeOK
<1>12. CASE cpu_req.rw = 1
  <2>1. CpuVal' = CpuVal
    BY <1>5, <1>8, <1>12 DEF CpuVal
  <2>2. mem' = [r \in MemIndex |-> IF r = cpu_req.row
                  THEN [mem[r] EXCEPT ![cpu_req.lane] = MergeWord(@, cpu_req.wdata, cpu_req.be)]
                  ELSE mem[r]]
    <3>1. CASE BramWrite(MemPort)
      <4>1. cpu_req.row \in MemIndex
        BY <1>10, <3>1, RowsAssumption DEF BramWrite, RowIndex, MemIndex
      <4>2. mem' = [mem EXCEPT ![cpu_req.row] = MergeRow(@, MemPort.wdata, MemPort.be)]
        BY <1>10, <3>1 DEF BramWrite
      <4>3. MergeRow(mem[cpu_req.row], MemPort.wdata, MemPort.be)
              = [mem[cpu_req.row] EXCEPT ![cpu_req.lane] = MergeWord(@, cpu_req.wdata, cpu_req.be)]
        BY <1>2, <1>9, <1>11, <4>1, CpuToMemMerge
      <4> QED BY <1>11, <4>1, <4>2, <4>3
    <3>2. CASE BramOutOfBounds(MemPort)
      <4>1. mem' = mem /\ cpu_req.row \notin MemIndex
        BY <1>10, <3>2, RowsAssumption DEF BramOutOfBounds, MemIndex, RowIndex
      <4> QED BY <1>11, <4>1
    <3> QED BY <1>10, <1>12, <3>1, <3>2 DEF Tick, BramTick, BramRead, BramQuiet
  <2> QED BY <1>5, <1>8, <1>11, <1>12, <2>1, <2>2, SameMerge DEF Abs!CpuPerform
<1>13. CASE cpu_req.rw = 0
  <2>1. CpuVal' = mem_rdata'[cpu_req.lane]
    BY <1>1, <1>5, <1>8, <1>13 DEF CpuVal, CpuRsp, cpu_rsp
  <2>2. mem' = mem /\ mem_rdata' = RowAt(cpu_req.row)
    BY <1>10, <1>13, RowsAssumption
    DEF Tick, BramTick, BramWrite, BramRead, BramOutOfBounds, BramQuiet, RowAt, RowIndex
  <2> QED BY <1>5, <1>8, <1>13, <2>1, <2>2, SameShapes DEF Abs!CpuPerform, Abs!RowAt, RowAt
<1> QED BY <1>10, <1>12, <1>13

\* A clock that grants the accelerator performs its operation.
LEMMA DmaTakesEffect ==
  ASSUME IInv, Tick, ArbGrantDma(cpu_req, dma_req)
  PROVE  Abs!DmaPerform
<1>1. arb_state = "ARB_IDLE" /\ dma_req.stb = 1 /\ arb_state' = "ARB_DMA"
  BY DEF ArbGrantDma
<1>2. dma_req' = dma_req
  BY <1>1, Answers DEF Tick, DmaTick, DmaIssue, DmaRest, DmaHold
<1>3. DmaPhase = "pending" /\ DmaPhase' = "done" /\ DmaVal = ZeroRow
  BY <1>1, <1>2 DEF DmaPhase, DmaVal
<1>4. DmaOp = dma_req /\ DmaOp' = dma_req
  BY <1>2, <1>3 DEF DmaOp
<1>5. MemPort = dma_req
  BY <1>1 DEF MemPort, mem_req
<1>6. dma_req.row \in RowIndex /\ dma_req.rw \in {0, 1}
  BY DEF IInv, TypeOK, MemReq, Bit
<1>7. mem \in [MemIndex -> Row] /\ Abs!Rows = MemIndex
  BY SameShapes DEF IInv, TypeOK, BramTypeOK
<1>8. CASE dma_req.rw = 1
  <2>1. DmaVal' = DmaVal
    BY <1>2, <1>3, <1>8 DEF DmaVal
  <2>2. mem' = [r \in MemIndex |-> IF r = dma_req.row
                  THEN MergeRow(mem[r], dma_req.wdata, dma_req.be) ELSE mem[r]]
    BY <1>1, <1>5, <1>6, <1>7, <1>8, RowsAssumption
    DEF Tick, BramTick, BramWrite, BramRead, BramOutOfBounds, BramQuiet, MemIndex, RowIndex
  <2> QED BY <1>3, <1>4, <1>7, <1>8, <2>1, <2>2, SameMerge DEF Abs!DmaPerform
<1>9. CASE dma_req.rw = 0
  <2>1. DmaVal' = mem_rdata'
    BY <1>1, <1>2, <1>3, <1>9 DEF DmaVal, DmaRsp, dma_rsp
  <2>2. mem' = mem /\ mem_rdata' = RowAt(dma_req.row)
    BY <1>1, <1>5, <1>6, <1>9, RowsAssumption
    DEF Tick, BramTick, BramWrite, BramRead, BramOutOfBounds, BramQuiet, RowAt, RowIndex
  <2> QED BY <1>3, <1>4, <1>9, <2>1, <2>2, SameShapes DEF Abs!DmaPerform, Abs!RowAt, RowAt
<1> QED BY <1>6, <1>8, <1>9

\* Every step maps to a step or a stutter.
LEMMA NextAbs == IInv /\ [Next]_vars => [Abs!Next]_(Abs!absVars)
<1> SUFFICES ASSUME IInv, [Next]_vars PROVE [Abs!Next]_(Abs!absVars)
  OBVIOUS
<1>1. CASE Tick
  <2>1. CASE ArbGrantCpu(cpu_req, dma_req)
    <3>1. Abs!DmaStep
      BY <1>1, <2>1, DmaSide DEF ArbGrantCpu, ArbGrantDma
    <3> QED BY <1>1, <2>1, <3>1, CpuTakesEffect DEF Abs!Next
  <2>2. CASE ArbGrantDma(cpu_req, dma_req)
    <3>1. Abs!CpuStep
      BY <1>1, <2>2, CpuSide DEF ArbGrantCpu, ArbGrantDma
    <3> QED BY <1>1, <2>2, <3>1, DmaTakesEffect DEF Abs!Next
  <2>3. CASE ~ArbGrantCpu(cpu_req, dma_req) /\ ~ArbGrantDma(cpu_req, dma_req)
    BY <1>1, <2>3, CpuSide, DmaSide, StoreSide DEF Abs!Next
  <2> QED BY <2>1, <2>2, <2>3
<1>2. CASE Reset
  <2>1. CpuPhase' = "idle" /\ CpuOp' = CpuReqIdle /\ CpuVal' = ZeroWord
    BY <1>2 DEF Reset, CpuPhase, CpuOp, CpuVal
  <2>2. DmaPhase' = "idle" /\ DmaOp' = MemReqIdle /\ DmaVal' = ZeroRow
    BY <1>2 DEF Reset, DmaPhase, DmaOp, DmaVal, MemReqIdle
  <2> QED BY <1>2, <2>1, <2>2, SameShapes DEF Reset, Abs!Next, Abs!Reset
<1>3. CASE UNCHANGED vars
  BY <1>3 DEF vars, xbarVars, bramVars, keeperVars, Abs!absVars,
     CpuPhase, CpuOp, CpuVal, CpuRsp, cpu_rsp, DmaPhase, DmaOp, DmaVal, DmaRsp, dma_rsp
<1> QED BY <1>1, <1>2, <1>3 DEF Next

\* Crossbar, block RAM and keeper implement the memory the masters are promised.
THEOREM Implements == Spec => ImplementsSharedMemory
<1>1. Spec => Abs!Init /\ [][Abs!Next]_(Abs!absVars)
  BY InitAbs, NextAbs, Inductive, PTL DEF Spec
<1> QED BY <1>1 DEF ImplementsSharedMemory, Abs!Spec
=============================================================================
