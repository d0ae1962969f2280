----------------------------- MODULE CacheSystem -----------------------------
(* A cache between the CPU and a bus that answers when it likes, possibly    *)
(* with an error, and whose memory another master (the other cache, the DMA, *)
(* the accelerator) also writes.  One step is a clock edge or a write of the *)
(* other master.                                                             *)
EXTENDS CacheHost, Sequences

CONSTANTS
  ErrAddrs,    \* addresses that may answer with a bus error, per instance
  OtherAddrs,  \* addresses the other master writes, per instance
  OtherWords   \* and what it writes there

ASSUME CacheSystemAssumption ==
  /\ \A g \in Generics : ErrAddrs[g] \subseteq Addr /\ OtherAddrs[g] \subseteq Addr
  /\ OtherWords \subseteq Word

\* Software keeps the masters apart: what the CPU writes the other one does
\* not, nor any word of a block that the CPU writes in the cache.
ASSUME SharingAssumption ==
  \A g \in Generics : \A a \in OtherAddrs[g], r \in HostReqs[g] :
    IsWrite(r) => /\ a # r.addr
                  /\ r.amo = 0 /\ TagOf(r.addr) < UC_BEGIN
                       => TagOf(a) # TagOf(r.addr) \/ IdxOf(a) # IdxOf(r.addr)

VARIABLES
  bus_rsp,     \* the response signals of the bus
  pend,        \* requests on the bus that are not answered yet
  main,        \* main memory
  \* history
  ref,         \* the value of each word: the last write that was answered
  stale,       \* words the other master wrote since the last fence
  lost,        \* words an access that ended in a bus error may have cost
  flushed,     \* nothing was written, and no error seen, since the last fence
  failed,      \* a bus error belonging to the outstanding access was seen
  void         \* a fence was executed under the outstanding fetch

busVars  == <<bus_rsp, pend, main>>
histVars == <<ref, stale, lost, flushed, failed, void>>
vars == <<cacheVars, hostVars, busVars, histVars>>

CacheReq == cache_req(host_req)
HostRsp  == cache_rsp(host_req, bus_rsp)
Answered == host_state = "wait" /\ HostRsp.ack = 1

-----------------------------------------------------------------------------
(* The bus answers requests in order, at the earliest in the next cycle.  An *)
(* access that ends in an error has no effect; an atomic one is a swap.      *)

Queue == IF CacheReq.stb = 1 THEN Append(pend, CacheReq) ELSE pend

BusAnswer ==
  /\ Queue # <<>>
  /\ LET req == Head(Queue) IN
     \E err \in IF req.addr \in ErrAddrs[generics] THEN Bit ELSE {0} :
       /\ bus_rsp' = [ack |-> 1, err |-> err,
                      data |-> IF err = 0 THEN main[req.addr] ELSE ZeroWord]
       /\ main' = IF err = 0 /\ (req.rw = 1 \/ req.amo = 1)
                  THEN [main EXCEPT ![req.addr] = MergeWord(@, req.data, req.ben)]
                  ELSE main
  /\ pend' = Tail(Queue)

BusStall ==
  /\ bus_rsp' = RspIdle
  /\ pend' = Queue
  /\ UNCHANGED main

-----------------------------------------------------------------------------
(* What the accesses mean. *)

Fenced == sync_i' = 1

\* A read that may return what another master or a fence has overtaken
\* defines no word.
Open == IF void THEN {} ELSE lost \ stale

History ==
  /\ ref'  = IF Answered THEN RefAfter(ref, Open, HostRsp) ELSE ref
  /\ lost' = IF Answered THEN LostAfter(lost, Open, HostRsp) ELSE lost
  /\ stale' = IF Fenced THEN {} ELSE stale
  /\ flushed' = IF Fenced THEN TRUE ELSE flushed /\ ~(Answered /\ IsWrite(host_req)) /\ bus_rsp.err = 0
  /\ failed' = IF host_req'.stb = 1 THEN FALSE ELSE failed \/ (bus_rsp.err = 1 /\ ctrl.sync = 0)
  /\ void' = ((Fenced /\ host_state' = "wait") \/ (void /\ host_req'.stb = 0))

-----------------------------------------------------------------------------
Init ==
  /\ CacheInit
  /\ HostInit
  /\ bus_rsp = RspIdle /\ pend = <<>>
  /\ main = [a \in Addr |-> ZeroWord]
  /\ ref = main /\ stale = {} /\ lost = {}
  /\ flushed = FALSE /\ failed = FALSE /\ void = FALSE

TickWith(bus) ==
  /\ CacheTick(host_req, sync_i, bus_rsp)
  /\ HostTick(Answered)
  /\ bus
  /\ History

Tick == TickWith(BusAnswer) \/ TickWith(BusStall)

OtherWrite ==
  /\ \E a \in OtherAddrs[generics], w \in OtherWords :
       /\ main[a] # w
       /\ main' = [main EXCEPT ![a] = w]
       /\ ref' = [ref EXCEPT ![a] = w]
       /\ stale' = stale \cup {a}
  /\ UNCHANGED <<cacheVars, hostVars, bus_rsp, pend,
                 lost, flushed, failed, void>>

Next == Tick \/ OtherWrite

Spec == Init /\ [][Next]_vars

\* The clock does not stop and the gateway ends every access in bounded time.
Fairness == WF_vars(Tick) /\ WF_vars(TickWith(BusAnswer))
FairSpec == Spec /\ Fairness

-----------------------------------------------------------------------------
(* Properties. *)

\* Every signal holds a value of its VHDL type; the bus never has more
\* requests outstanding than a block has words.
TypeOK ==
  /\ CacheTypeOK /\ HostTypeOK
  /\ bus_rsp \in bus_rsp_t
  /\ pend \in Seq(bus_req_t) /\ Len(pend) <= BLOCK_WORDS
  /\ main \in [Addr -> Word]

\* A read that succeeds returns the last value written, whether it hits,
\* fetches the block, evicts another or bypasses the cache; a word another
\* master changed is current again after a fence.
ReadsCurrent ==
  Answered /\ HostRsp.err = 0 /\ host_req.rw = 0 /\ host_req.addr \notin stale \cup lost /\ ~void
    => HostRsp.data = ref[host_req.addr]

\* Between accesses, no fence pending, every word is where it belongs: in its block if that is
\* cached, else in main memory.  A fence whose write-back fails loses nothing,
\* an access that ends in a bus error at most words of its own index.
InBlock(a) == ram.valid[IdxOf(a)] = 1 /\ ram.tag[IdxOf(a)] = TagOf(a)
NothingLost ==
  ctrl.state = "S_IDLE" /\ ctrl.pnd_syn = 0 /\ sync_i = 0 =>
    \A a \in Addr \ (stale \cup lost) :
      ref[a] = IF InBlock(a) THEN ram.data[IdxOf(a)][OfsOf(a)] ELSE main[a]

\* An uncached access issued after a fence (the store that starts a DMA or an
\* accelerator) leaves the cache only when main memory is up to date.
FenceBeforeBypass ==
  ctrl.state = "S_BYPASS" /\ ctrl.bp_req = 1 /\ flushed /\ lost = {} => main = ref

\* An access is answered with an error exactly if one of the bus transfers
\* made for it failed; an error of a fence's write-back is never blamed on
\* the access that waits for the fence.
ErrorsReported ==
  Answered => (HostRsp.err = 1 <=> failed \/ (bus_rsp.err = 1 /\ ctrl.sync = 0))

\* A block transfer holds the bus lock until its last word is acknowledged, so
\* no response arrives after the bus has been given away.
LockCoversTransfer ==
  (pend # <<>> \/ bus_rsp.ack = 1) /\ ctrl.state # "S_BYPASS" => cache_lock = 1

\* Every access is answered, also one that waits for a fence.
HostAnswered == (host_state = "wait") ~> Answered
=============================================================================
