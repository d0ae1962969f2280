----------------------------- MODULE CachedDmem -----------------------------
(* The data cache in front of the shared data memory: CPU, cache, gateway,   *)
(* crossbar and block RAM, with the accelerator on the crossbar's other      *)
(* port.  One step is one rising clock edge of all of them.                  *)
EXTENDS CacheHost, MemoryCrossbar, WideBram, BusGateway

CONSTANTS
  DmaReqs,   \* requests the accelerator may issue (stb = 1)
  Dmem,      \* the gateway's port B
  Image      \* what the memory holds in the beginning

ASSUME CachedDmemAssumption ==
  /\ Dmem \in Ports /\ PortTmo[Dmem] \in Nat \ {0, 1}
  /\ TAGS * NUM_BLOCKS * BLOCK_WORDS = NUM_WORDS * LANES
  /\ UC_BEGIN = TAGS
  /\ \A g \in Generics : ~g.READ_ONLY /\ \A r \in HostReqs[g] : r.amo = 0
  /\ DmaReqs \subseteq {r \in MemReq : r.stb = 1}
  /\ Image \in [MemIndex -> Row]

VARIABLES
  dma_req,   \* the accelerator's request signals
  \* history
  ref,       \* the value of each word: the last write that was answered
  lost       \* words an access that ended in a bus error may have cost

vars == <<cacheVars, hostVars, xbarVars, bramVars, keeperVars, dma_req, ref, lost>>

-----------------------------------------------------------------------------
(* Wiring: bits 4..2 of an address select the lane, the bits above the row.  *)

RowOf(addr)  == addr \div LANES
LaneOf(addr) == addr % LANES

bus_req == cache_req(host_req)
cpu_req == [row |-> RowOf(bus_req.addr), lane |-> LaneOf(bus_req.addr),
            wdata |-> bus_req.data, be |-> bus_req.ben, rw |-> bus_req.rw, stb |-> bus_req.stb]

MemPort == mem_req(cpu_req, dma_req)
CpuRsp  == cpu_rsp(mem_ack, mem_rdata)
DmaRsp  == dma_rsp(mem_ack, mem_rdata)

\* The gateway's response to the cache, and the cache's to the CPU.
BusRsp ==
  LET rsp == host_rsp(CpuRsp.ack, 0)
  IN [ack |-> rsp.ack, err |-> rsp.err, data |-> CpuRsp.rdata]
HostRsp  == cache_rsp(host_req, BusRsp)
Answered == host_state = "wait" /\ HostRsp.ack = 1

DmaIssue ==
  /\ dma_req.stb = 0
  /\ dma_req' \in DmaReqs

DmaRest ==
  /\ dma_req.stb = 0 \/ DmaRsp.ack = 1
  /\ dma_req' = [dma_req EXCEPT !.stb = 0]

DmaHold ==
  /\ dma_req.stb = 1 /\ DmaRsp.ack = 0
  /\ UNCHANGED dma_req

-----------------------------------------------------------------------------
WordAt(addr) == mem[RowOf(addr)][LaneOf(addr)]

Init ==
  /\ CacheInit /\ HostInit /\ XbarInit /\ KeeperInit
  /\ mem = Image /\ mem_rdata = ZeroRow /\ mem_ack = 0
  /\ dma_req = MemReqIdle
  /\ ref = [a \in Addr |-> WordAt(a)]
  /\ lost = {}

Tick ==
  /\ CacheTick(host_req, sync_i, BusRsp)
  /\ HostTick(Answered)
  /\ KeeperTick(bus_req.stb, cache_lock, Dmem, CpuRsp.ack)
  /\ XbarTick(cpu_req, dma_req)
  /\ BramTick(MemPort)
  /\ DmaIssue \/ DmaRest \/ DmaHold
  /\ ref'  = IF Answered THEN RefAfter(ref, lost, HostRsp) ELSE ref
  /\ lost' = IF Answered THEN LostAfter(lost, lost, HostRsp) ELSE lost

Next == Tick

Spec == Init /\ [][Next]_vars

\* The clock does not stop.
FairSpec == Spec /\ WF_vars(Tick)

-----------------------------------------------------------------------------
(* Properties. *)

\* Every signal holds a value of its VHDL type.
TypeOK ==
  /\ CacheTypeOK /\ HostTypeOK /\ XbarTypeOK /\ BramTypeOK /\ KeeperTypeOK
  /\ dma_req \in MemReq

\* A read that succeeds returns the last value written, although every word
\* travels through an arbiter that forgets strobes and latches the lane of a
\* word once per grant.
ReadsCurrent ==
  Answered /\ HostRsp.err = 0 /\ host_req.rw = 0 /\ host_req.addr \notin lost
    => HostRsp.data = ref[host_req.addr]

\* Between accesses, no fence pending, every word is in its block or in memory.
InBlock(a) == ram.valid[IdxOf(a)] = 1 /\ ram.tag[IdxOf(a)] = TagOf(a)
NothingLost ==
  ctrl.state = "S_IDLE" /\ ctrl.pnd_syn = 0 /\ sync_i = 0 =>
    \A a \in Addr \ lost :
      ref[a] = IF InBlock(a) THEN ram.data[IdxOf(a)][OfsOf(a)] ELSE WordAt(a)

\* A bus error in a locked transfer ends it: the keeper is back in its idle
\* state before the cache starts the next transfer, whose first strobe it
\* would otherwise miss.
KeeperReadyForBlock ==
  ctrl.state = "S_READ_START" /\ ctrl.ofs_int = 0 => keeper_state = "S_IDLE"

\* Every access of the CPU ends, with data or with an error.
HostAnswered == (host_state = "wait") ~> Answered
=============================================================================
