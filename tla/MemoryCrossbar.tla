--------------------------- MODULE MemoryCrossbar ---------------------------
(* neorv32_memory_crossbar: lets the CPU's 32-bit port and the accelerator's *)
(* 256-bit port share the block RAM.  A grant lasts until the granted        *)
(* master's strobe is low; nothing remembers the strobe of the other one.    *)
EXTENDS DmemTypes

VARIABLES
  arb_state,     \* arbiter state
  cpu_word_sel   \* lane of the CPU read being answered

xbarVars == <<arb_state, cpu_word_sel>>

arb_state_t == {"ARB_IDLE", "ARB_CPU", "ARB_DMA"}

XbarTypeOK ==
  /\ arb_state \in arb_state_t
  /\ cpu_word_sel \in Lane

XbarInit ==
  /\ arb_state = "ARB_IDLE"
  /\ cpu_word_sel = 0

-----------------------------------------------------------------------------
(* The arbitration state machine, on a rising clock edge. *)

ArbGrantDma(cpu_req, dma_req) ==
  /\ arb_state = "ARB_IDLE" /\ dma_req.stb = 1
  /\ arb_state' = "ARB_DMA"
  /\ UNCHANGED cpu_word_sel

\* Mutant: the lane is not latched.
ArbGrantCpuNoLane(cpu_req, dma_req) ==
  /\ arb_state = "ARB_IDLE" /\ dma_req.stb = 0 /\ cpu_req.stb = 1
  /\ arb_state' = "ARB_CPU"
  /\ UNCHANGED cpu_word_sel

ArbGrantCpu(cpu_req, dma_req) ==
  /\ arb_state = "ARB_IDLE" /\ dma_req.stb = 0 /\ cpu_req.stb = 1
  /\ arb_state' = "ARB_CPU"
  /\ cpu_word_sel' = cpu_req.lane

ArbRelease(cpu_req, dma_req) ==
  /\ \/ arb_state = "ARB_CPU" /\ cpu_req.stb = 0
     \/ arb_state = "ARB_DMA" /\ dma_req.stb = 0
  /\ arb_state' = "ARB_IDLE"
  /\ UNCHANGED cpu_word_sel

ArbHold(cpu_req, dma_req) ==
  /\ \/ arb_state = "ARB_IDLE" /\ cpu_req.stb = 0 /\ dma_req.stb = 0
     \/ arb_state = "ARB_CPU" /\ cpu_req.stb = 1
     \/ arb_state = "ARB_DMA" /\ dma_req.stb = 1
  /\ UNCHANGED xbarVars

XbarTick(cpu_req, dma_req) ==
  \/ ArbGrantDma(cpu_req, dma_req)
  \/ ArbGrantCpu(cpu_req, dma_req)
  \/ ArbRelease(cpu_req, dma_req)
  \/ ArbHold(cpu_req, dma_req)

-----------------------------------------------------------------------------
(* The combinational routing. *)

\* The CPU's word and byte enables, shifted into the lane its address names.
CpuToMem(req) ==
  [row   |-> req.row,
   wdata |-> [l \in Lane |-> IF l = req.lane THEN req.wdata ELSE ZeroWord],
   be    |-> [l \in Lane |-> IF l = req.lane THEN req.be ELSE {}],
   rw    |-> req.rw,
   stb   |-> req.stb]

\* In ARB_IDLE the winning request passes through at once.
mem_req(cpu_req, dma_req) ==
  IF arb_state = "ARB_CPU" \/ (arb_state = "ARB_IDLE" /\ dma_req.stb = 0 /\ cpu_req.stb = 1)
  THEN CpuToMem(cpu_req)
  ELSE IF arb_state = "ARB_DMA" \/ dma_req.stb = 1 THEN dma_req
  ELSE MemReqIdle

\* ack and rdata are the block RAM's response registers.
cpu_rsp(ack, rdata) ==
  IF arb_state = "ARB_CPU" THEN [ack |-> ack, rdata |-> rdata[cpu_word_sel]]
  ELSE [ack |-> 0, rdata |-> ZeroWord]

\* Mutant: the block RAM's acknowledge reaches the accelerator whoever is granted.
dma_rsp_ungated(ack, rdata) == [ack |-> ack, rdata |-> rdata]

dma_rsp(ack, rdata) ==
  IF arb_state = "ARB_DMA" THEN [ack |-> ack, rdata |-> rdata]
  ELSE [ack |-> 0, rdata |-> ZeroRow]
=============================================================================
