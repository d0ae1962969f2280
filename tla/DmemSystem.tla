----------------------------- MODULE DmemSystem -----------------------------
(* The data memory in place: the bus host (the CPU side as the gateway sees  *)
(* it), the gateway with its keeper, the crossbar, the block RAM and the     *)
(* accelerator's DMA port.  One step is one rising clock edge of all of them *)
(* or a reset of the system.                                                 *)
EXTENDS MemoryCrossbar, WideBram, BusGateway

CONSTANTS
  CpuReqs,     \* requests the host may issue on the bus (stb = 1)
  HostPorts,   \* where their addresses decode to
  DmaReqs,     \* requests the accelerator may issue (stb = 1)
  Dmem         \* the gateway's port B

ASSUME DmemAssumption ==
  /\ Dmem \in Ports /\ PortTmo[Dmem] \in Nat \ {0, 1}
  /\ HostPorts \subseteq {Dmem, NoPort}
  /\ CpuReqs \subseteq {r \in CpuReq : r.stb = 1}
  /\ DmaReqs \subseteq {r \in MemReq : r.stb = 1}

VARIABLES
  host_state,   \* "ready" or "wait": an access is outstanding
  host_req,     \* the host's request signals
  host_port,    \* the section its address is in
  dma_req       \* the accelerator's request signals

vars == <<xbarVars, bramVars, keeperVars, host_state, host_req, host_port, dma_req>>

-----------------------------------------------------------------------------
(* Wiring. *)

cpu_req == IF host_port = Dmem THEN host_req ELSE [host_req EXCEPT !.stb = 0]
MemPort == mem_req(cpu_req, dma_req)
CpuRsp  == cpu_rsp(mem_ack, mem_rdata)
DmaRsp  == dma_rsp(mem_ack, mem_rdata)
HostRsp == host_rsp(CpuRsp.ack, 0)

-----------------------------------------------------------------------------
(* The host: strobes are single-shot, one access at a time, the next one at  *)
(* the earliest in the cycle after the answer.                               *)

HostIssue ==
  /\ host_state = "ready" \/ HostRsp.ack = 1
  /\ host_state' = "wait"
  /\ host_req' \in CpuReqs
  /\ host_port' \in HostPorts

HostRest ==
  /\ host_state = "ready" \/ HostRsp.ack = 1
  /\ host_state' = "ready"
  /\ host_req' = [host_req EXCEPT !.stb = 0]
  /\ UNCHANGED host_port

HostWait ==
  /\ host_state = "wait" /\ HostRsp.ack = 0
  /\ host_req' = [host_req EXCEPT !.stb = 0]
  /\ UNCHANGED <<host_state, host_port>>

HostTick == HostIssue \/ HostRest \/ HostWait

(* The accelerator's port: the strobe and the request are held until the     *)
(* answer, then the strobe is low for at least one cycle.                    *)

DmaIssue ==
  /\ dma_req.stb = 0
  /\ dma_req' \in DmaReqs

DmaRest ==
  /\ dma_req.stb = 0 \/ DmaRsp.ack = 1
  /\ dma_req' = [dma_req EXCEPT !.stb = 0]

DmaHold ==
  /\ dma_req.stb = 1 /\ DmaRsp.ack = 0
  /\ UNCHANGED dma_req

DmaTick == DmaIssue \/ DmaRest \/ DmaHold

-----------------------------------------------------------------------------
Init ==
  /\ XbarInit /\ BramInit /\ KeeperInit
  /\ host_state = "ready" /\ host_req = CpuReqIdle /\ host_port = NoPort
  /\ dma_req = MemReqIdle

Tick ==
  /\ XbarTick(cpu_req, dma_req)
  /\ BramTick(MemPort)
  /\ KeeperTick(host_req.stb, 0, host_port, CpuRsp.ack)
  /\ HostTick
  /\ DmaTick

\* The system reset is held for several clocks: every strobe is low when it
\* ends.  The memory array keeps its content.
Reset ==
  /\ arb_state' = "ARB_IDLE" /\ cpu_word_sel' = 0
  /\ mem_ack' = 0 /\ UNCHANGED <<mem, mem_rdata>>
  /\ keeper_state' = "S_IDLE" /\ keeper_lock' = 0
  /\ keeper_sel' = NoPort /\ keeper_cnt' = 0
  /\ host_state' = "ready" /\ host_req' = CpuReqIdle /\ host_port' = NoPort
  /\ dma_req' = MemReqIdle

Next == Tick \/ Reset

Spec == Init /\ [][Next]_vars

\* The clock does not stop; a reset need never come.
Fairness == WF_vars(Tick)
FairSpec == Spec /\ Fairness

-----------------------------------------------------------------------------
(* Properties. *)

\* Every signal holds a value of its VHDL type.
TypeOK ==
  /\ XbarTypeOK /\ BramTypeOK /\ KeeperTypeOK
  /\ host_state \in {"ready", "wait"}
  /\ host_req \in CpuReq
  /\ host_port \in HostPorts \cup {NoPort}
  /\ dma_req \in MemReq

RowAt(r) == IF r < NUM_WORDS THEN mem[r] ELSE ZeroRow

\* When the accelerator samples an acknowledge (its strobe is still up), the
\* answer is to the request on its port: a read returns the row as it is in
\* memory, a write is in memory.  The block RAM also acknowledges the second
\* execution of the held strobe; that stale acknowledge must never be taken
\* for the answer to the next request.
DmaAckTruthful ==
  dma_req.stb = 1 /\ DmaRsp.ack = 1 =>
    IF dma_req.rw = 0 THEN DmaRsp.rdata = RowAt(dma_req.row)
    ELSE dma_req.row < NUM_WORDS =>
           mem[dma_req.row] = MergeRow(mem[dma_req.row], dma_req.wdata, dma_req.be)

\* The same for the CPU: an acknowledge without error carries the addressed
\* lane of the addressed row, or the written bytes are in memory.
CpuAckTruthful ==
  host_state = "wait" /\ HostRsp.ack = 1 /\ HostRsp.err = 0 =>
    IF host_req.rw = 0 THEN CpuRsp.rdata = RowAt(host_req.row)[host_req.lane]
    ELSE host_req.row < NUM_WORDS =>
           mem[host_req.row][host_req.lane] =
             MergeWord(mem[host_req.row][host_req.lane], host_req.wdata, host_req.be)

\* The keeper watches exactly the accesses the host waits for: from the cycle
\* after the strobe it is busy or reporting an error until the host is
\* answered, so no answer is filtered out as spurious and none is missed.
KeeperTracksHost ==
  (host_state = "wait" /\ host_req.stb = 0) <=> keeper_state # "S_IDLE"

\* The strengthening of these that every step preserves.  While the CPU holds
\* the grant, and in the one cycle of the accelerator's grant in which its
\* strobe is still up, the block RAM's response registers and the array agree
\* with the granted request.
CpuServed(req) ==
  /\ mem_ack = 1
  /\ cpu_word_sel = req.lane
  /\ req.rw = 0 => mem_rdata = RowAt(req.row)
  /\ req.rw = 1 /\ req.row < NUM_WORDS =>
       mem[req.row][req.lane] = MergeWord(mem[req.row][req.lane], req.wdata, req.be)

DmaServedNow(req) ==
  /\ mem_ack = 1
  /\ req.rw = 0 => mem_rdata = RowAt(req.row)
  /\ req.rw = 1 /\ req.row < NUM_WORDS =>
       mem[req.row] = MergeRow(mem[req.row], req.wdata, req.be)

CpuGrant ==
  arb_state = "ARB_CPU" =>
    /\ host_state = "wait" /\ host_req.stb = 0 /\ host_port = Dmem
    /\ keeper_state = "S_BUSY" /\ keeper_cnt = 0
    /\ CpuServed(host_req)

DmaGrant == arb_state = "ARB_DMA" /\ dma_req.stb = 1 => DmaServedNow(dma_req)

\* A strobe finds the keeper idle and the CPU without a grant.
StrobeFindsIdle ==
  host_req.stb = 1 =>
    host_state = "wait" /\ keeper_state = "S_IDLE" /\ arb_state # "ARB_CPU"

KeeperInStep ==
  /\ keeper_lock = 0
  /\ keeper_state # "S_IDLE" => keeper_sel = host_port

IInv ==
  TypeOK /\ KeeperTracksHost /\ CpuGrant /\ DmaGrant /\ StrobeFindsIdle /\ KeeperInStep

\* Mapping to what the two masters are promised.  An operation is performed in
\* the cycle its request passes through the idle arbiter; the answer follows
\* in the cycle the grant is registered.
CpuPhase ==
  IF host_state = "ready" THEN "idle"
  ELSE IF arb_state = "ARB_CPU" THEN "done"
  ELSE IF keeper_state = "S_ERROR" THEN "failed" ELSE "pending"

DmaPhase ==
  IF dma_req.stb = 0 THEN "idle"
  ELSE IF arb_state = "ARB_DMA" THEN "done" ELSE "pending"

CpuOp  == IF CpuPhase = "idle" THEN CpuReqIdle ELSE [host_req EXCEPT !.stb = 1]
CpuVal == IF CpuPhase = "done" /\ host_req.rw = 0 THEN CpuRsp.rdata ELSE ZeroWord
DmaOp  == IF DmaPhase = "idle" THEN MemReqIdle ELSE dma_req
DmaVal == IF DmaPhase = "done" /\ dma_req.rw = 0 THEN DmaRsp.rdata ELSE ZeroRow

Abs == INSTANCE SharedMemory WITH
  CpuOps    <- CpuReqs,
  DmaOps    <- DmaReqs,
  store     <- mem,
  cpu_phase <- CpuPhase,
  cpu_op    <- CpuOp,
  cpu_val   <- CpuVal,
  dma_phase <- DmaPhase,
  dma_op    <- DmaOp,
  dma_val   <- DmaVal

\* Crossbar, block RAM and keeper together are a memory on which each
\* operation takes effect once, at one instant, and on which a CPU access
\* that ends in a bus error has had no effect.
ImplementsSharedMemory == Abs!Spec

DmaServed   == (dma_req.stb = 1) ~> (dma_req.stb = 0 \/ DmaRsp.ack = 1)
CpuAnswered == (host_state = "wait") ~> (host_state = "ready" \/ HostRsp.ack = 1)

\* Every accelerator request is answered, whatever the CPU does, and every
\* CPU access ends with an acknowledge or a bus error, unless a reset ends
\* them; a host that is not answered waits forever.
RequestsEnd == DmaServed /\ CpuAnswered
=============================================================================
