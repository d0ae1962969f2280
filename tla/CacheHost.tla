----------------------------- MODULE CacheHost -----------------------------
(* The CPU's side of a cache: the load/store unit or the instruction fetch,  *)
(* and the fence signal.  Strobes are single-shot, there is one access at a  *)
(* time, its signals are held until the answer.  A data fence is executed    *)
(* between accesses, an instruction fence also while a fetch is outstanding. *)
EXTENDS Cache

CONSTANT HostReqs   \* requests the CPU may issue (stb = 1), per instance

ASSUME HostAssumption ==
  \A g \in Generics :
    /\ HostReqs[g] \subseteq {r \in bus_req_t : r.stb = 1}
    /\ g.READ_ONLY => \A r \in HostReqs[g] : r.rw = 0 /\ r.amo = 0

VARIABLES
  host_state,  \* "ready" or "wait": an access is outstanding
  host_req,    \* the CPU's request signals
  sync_i       \* the fence signal

hostVars == <<host_state, host_req, sync_i>>

ReqIdle == [addr |-> 0, data |-> ZeroWord, ben |-> {}, rw |-> 0, amo |-> 0, stb |-> 0]
RspIdle == [ack |-> 0, err |-> 0, data |-> ZeroWord]

HostTypeOK ==
  host_state \in {"ready", "wait"} /\ host_req \in bus_req_t /\ sync_i \in Bit

HostInit == host_state = "ready" /\ host_req = ReqIdle /\ sync_i = 0

(* One clock edge; answered: the outstanding access is acknowledged now. *)

HostIssue(answered) ==
  /\ host_state = "ready" \/ answered
  /\ host_state' = "wait"
  /\ host_req' \in HostReqs[generics]

HostRest(answered) ==
  /\ host_state = "ready" \/ answered
  /\ host_state' = "ready"
  /\ host_req' = [host_req EXCEPT !.stb = 0]

HostWait(answered) ==
  /\ host_state = "wait" /\ ~answered
  /\ host_req' = [host_req EXCEPT !.stb = 0]
  /\ UNCHANGED host_state

HostTick(answered) ==
  /\ HostIssue(answered) \/ HostRest(answered) \/ HostWait(answered)
  /\ sync_i' \in IF READ_ONLY \/ host_state' = "ready" THEN Bit ELSE {0}

(* What an access that is acknowledged with rsp means for the words' values  *)
(* ref and for the words lost that a bus error may have cost: at most those  *)
(* of the access's index.  open are the lost words that this access would    *)
(* read as they are: the first read that succeeds defines them again.        *)

SameIndex(addr) == {a \in Addr : IdxOf(a) = IdxOf(addr)}
IsWrite(req)    == req.rw = 1 \/ req.amo = 1

RefAfter(ref, open, rsp) ==
  IF rsp.err = 1 THEN ref
  ELSE IF IsWrite(host_req)
       THEN [ref EXCEPT ![host_req.addr] = MergeWord(@, host_req.data, host_req.ben)]
  ELSE IF host_req.addr \in open THEN [ref EXCEPT ![host_req.addr] = rsp.data]
  ELSE ref

LostAfter(lost, open, rsp) ==
  IF rsp.err = 1 THEN lost \cup SameIndex(host_req.addr)
  ELSE IF ~IsWrite(host_req) THEN lost \ ({host_req.addr} \cap open)
  ELSE lost
=============================================================================
