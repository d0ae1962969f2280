------------------------- MODULE CachedDmem_proofs -------------------------
(* How the cache's engine and the bus monitor stay in step on the crossbar's *)
(* memory, for any cache, with and without bursts, any timeout, accesses and *)
(* fences of the CPU and accesses of the accelerator.                        *)
EXTENDS CachedDmem, TLAPS

-----------------------------------------------------------------------------
(* The invariant. *)

EngineFields == {"state", "sync", "bus_err", "pnd_req", "pnd_syn", "pnd_bp", "bp_req",
                 "hit", "cln", "tag", "idx", "ofs_int", "ofs_ext", "ofs_buf"}

\* No access bypasses the cache: all of the memory is cached, and there are no
\* atomic accesses.
EngineSide ==
  /\ generics \in Generics
  /\ DOMAIN ctrl = EngineFields
  /\ ctrl.state \in state_t \ {"S_BYPASS"} /\ ctrl.pnd_bp = 0 /\ ctrl.ofs_int \in Offset
  /\ host_req \in bus_req_t /\ host_req.amo = 0

\* The lock is held; the lock was released in this cycle; a timeout in that
\* cycle has put the monitor into its error state once more.
Locked   == Downloading \/ Uploading
Released == ctrl.state \in {"S_READ_DONE", "S_WRITE_DONE"}
Late     == ctrl.state \in {"S_IDLE", "S_CHECK", "S_SYNC_NEXT"}

\* The monitor watches only locked transfers, and of those that are over at
\* most the last one, for two cycles.
MonitorSide ==
  /\ keeper_state \in {"S_IDLE", "S_BUSY", "S_ERROR"}
  /\ keeper_state # "S_IDLE" => keeper_lock = 1
  /\ keeper_state = "S_BUSY" => Locked \/ Released
  /\ keeper_state = "S_ERROR" => Locked \/ Released \/ Late

BlockInv == EngineSide /\ MonitorSide /\ KeeperReadyForBlock

-----------------------------------------------------------------------------
(* The engine. *)

LEMMA Cached ==
  ASSUME NEW a \in Addr
  PROVE  ~(TagOf(a) >= UC_BEGIN)
<1> DEFINE d == NUM_BLOCKS * BLOCK_WORDS
<1>1. d \in Nat \ {0} /\ TAGS \in Nat \ {0} /\ UC_BEGIN = TAGS
  BY CacheAssumption, CachedDmemAssumption
<1>2. TAGS * NUM_BLOCKS * BLOCK_WORDS = TAGS * d
  BY CacheAssumption
<1>3. a \in Nat /\ a < TAGS * d
  BY <1>1, <1>2 DEF Addr
<1> HIDE DEF d
<1>4. a \div d \in Nat /\ (a \div d) * d <= a
  BY <1>1, <1>3
<1>5. a \div d < TAGS
  <2> DEFINE q == a \div d
  <2> SUFFICES ASSUME ~(q < TAGS) PROVE FALSE
    OBVIOUS
  <2>1. q \in Nat /\ q * d <= a
    BY <1>4
  <2> HIDE DEF q
  <2>2. q - TAGS \in Nat
    BY <1>1, <2>1
  <2>3. (q - TAGS) * d \in Nat
    BY <1>1, <2>2
  <2>4. (q - TAGS) * d = q * d - TAGS * d
    BY <1>1, <2>1
  <2> QED BY <1>1, <1>3, <2>1, <2>3, <2>4
<1> QED BY <1>1, <1>4, <1>5 DEF TagOf, d

\* What a step of the engine does to the fields the invariant is about.
Step(s, o) ==
  /\ DOMAIN ctrl' = EngineFields
  /\ ctrl'.state = s /\ ctrl'.ofs_int = o /\ ctrl'.pnd_bp = 0

LEMMA Offsets ==
  /\ 0 \in Offset
  /\ \A o \in Offset : (o + 1) % BLOCK_WORDS \in Offset
  /\ \A o \in Offset : o # BLOCK_WORDS - 1 => (o + 1) % BLOCK_WORDS # 0
  BY CacheAssumption DEF Offset

LEMMA NextFields ==
  ASSUME EngineSide
  PROVE  LET n == CtrlNext(host_req, sync_i) IN
         /\ DOMAIN n = EngineFields
         /\ n.state = ctrl.state /\ n.ofs_int = ctrl.ofs_int /\ n.pnd_bp = 0
  BY DEF EngineSide, CtrlNext, EngineFields

IdleStates  == {"S_IDLE", "S_CHECK", "S_SYNC_START"}
CheckStates == {"S_IDLE", "S_WRITE_START", "S_READ_START"}

LEMMA IdleStep ==
  ASSUME EngineSide, Idle(host_req, sync_i)
  PROVE  ctrl.state = "S_IDLE" /\ \E s \in IdleStates : Step(s, ctrl.ofs_int)
<1> DEFINE n == CtrlNext(host_req, sync_i)
           acc == ctrl.pnd_syn = 0 /\ (host_req.stb = 1 \/ ctrl.pnd_req = 1)
           b == BitOf(acc /\ (TagOf(host_req.addr) >= UC_BEGIN \/ host_req.amo = 1))
           s == IF acc THEN "S_CHECK" ELSE IF ctrl.pnd_syn = 1 THEN "S_SYNC_START" ELSE "S_IDLE"
<1>1. DOMAIN n = EngineFields /\ n.state = ctrl.state /\ n.ofs_int = ctrl.ofs_int
  BY NextFields
<1>2. b = 0
  BY Cached DEF EngineSide, bus_req_t, BitOf
<1> HIDE DEF n, b
<1>3. /\ ctrl.state = "S_IDLE"
      /\ ctrl' = [n EXCEPT !.bus_err = 0, !.sync = 0, !.pnd_bp = b,
                           !.state = IF acc THEN "S_CHECK"
                                     ELSE IF ctrl.pnd_syn = 1 THEN "S_SYNC_START" ELSE @]
  BY DEF Idle, n, b
<1>4. ctrl' = [n EXCEPT !.bus_err = 0, !.sync = 0, !.pnd_bp = b, !.state = s]
  BY <1>1, <1>3 DEF EngineFields
<1>5. s \in IdleStates
  BY DEF IdleStates
<1> HIDE DEF s
<1>6. Step(s, ctrl.ofs_int)
  BY <1>1, <1>2, <1>4 DEF Step, EngineFields
<1> QED BY <1>3, <1>5, <1>6

LEMMA CheckStep ==
  ASSUME EngineSide, NEW s, CheckTo(host_req, sync_i, s)
  PROVE  ctrl.state = "S_CHECK" /\ Step(s, 0)
  BY NextFields DEF CheckTo, Step, EngineFields

LEMMA CheckSteps ==
  ASSUME EngineSide,
         \/ CheckBypassUncached(host_req, sync_i) \/ CheckBypassDirty(host_req, sync_i)
         \/ CheckBypassClean(host_req, sync_i) \/ CheckHit(host_req, sync_i)
         \/ CheckMiss(host_req, sync_i)
  PROVE  ctrl.state = "S_CHECK" /\ \E s \in CheckStates : Step(s, 0)
<1>1. ctrl.pnd_bp = 0
  BY DEF EngineSide
<1>2. CheckHit(host_req, sync_i) \/ CheckMiss(host_req, sync_i)
  BY <1>1 DEF CheckBypassUncached, CheckBypassDirty, CheckBypassClean
<1>3. CASE CheckHit(host_req, sync_i)
  BY <1>3, CheckStep DEF CheckHit, CheckStates
<1>4. CASE CheckMiss(host_req, sync_i)
  <2> DEFINE s == IF BlockDirty THEN "S_WRITE_START" ELSE "S_READ_START"
  <2>1. CheckTo(host_req, sync_i, s) /\ s \in CheckStates
    BY <1>4 DEF CheckMiss, CheckStates
  <2> HIDE DEF s
  <2> QED BY <2>1, CheckStep
<1> QED BY <1>2, <1>3, <1>4

LEMMA SyncSteps ==
  ASSUME EngineSide
  PROVE  /\ SyncStart(host_req, sync_i) =>
              ctrl.state = "S_SYNC_START" /\ Step("S_SYNC_DELAY", ctrl.ofs_int)
         /\ SyncDelay(host_req, sync_i) =>
              ctrl.state = "S_SYNC_DELAY" /\ Step("S_SYNC_CHECK", ctrl.ofs_int)
         /\ SyncCheck(host_req, sync_i) =>
              ctrl.state = "S_SYNC_CHECK" /\ \E s \in {"S_WRITE_START", "S_SYNC_NEXT"} : Step(s, 0)
         /\ SyncNext(host_req, sync_i) =>
              ctrl.state = "S_SYNC_NEXT" /\ \E s \in {"S_IDLE", "S_SYNC_DELAY"} : Step(s, ctrl.ofs_int)
<1> DEFINE n == CtrlNext(host_req, sync_i)
<1>1. DOMAIN n = EngineFields /\ n.state = ctrl.state /\ n.ofs_int = ctrl.ofs_int /\ n.pnd_bp = 0
  BY NextFields
<1> HIDE DEF n
<1>2. SyncStart(host_req, sync_i) =>
        ctrl.state = "S_SYNC_START" /\ Step("S_SYNC_DELAY", ctrl.ofs_int)
  BY <1>1 DEF SyncStart, Step, EngineFields, n
<1>3. SyncDelay(host_req, sync_i) =>
        ctrl.state = "S_SYNC_DELAY" /\ Step("S_SYNC_CHECK", ctrl.ofs_int)
  BY <1>1 DEF SyncDelay, Step, EngineFields, n
<1>4. ASSUME SyncCheck(host_req, sync_i)
      PROVE  ctrl.state = "S_SYNC_CHECK" /\ \E s \in {"S_WRITE_START", "S_SYNC_NEXT"} : Step(s, 0)
  <2> DEFINE s == IF BlockDirty THEN "S_WRITE_START" ELSE "S_SYNC_NEXT"
  <2>1. /\ ctrl.state = "S_SYNC_CHECK" /\ s \in {"S_WRITE_START", "S_SYNC_NEXT"}
        /\ ctrl' = [n EXCEPT !.ofs_ext = 0, !.ofs_int = 0, !.bus_err = 0, !.state = s]
    BY <1>4 DEF SyncCheck, n
  <2> HIDE DEF s
  <2>2. Step(s, 0)
    BY <1>1, <2>1 DEF Step, EngineFields
  <2> QED BY <2>1, <2>2
<1>5. ASSUME SyncNext(host_req, sync_i)
      PROVE  ctrl.state = "S_SYNC_NEXT" /\ \E s \in {"S_IDLE", "S_SYNC_DELAY"} : Step(s, ctrl.ofs_int)
  <2> DEFINE s == IF ctrl.idx = NUM_BLOCKS - 1 THEN "S_IDLE" ELSE "S_SYNC_DELAY"
  <2>1. /\ ctrl.state = "S_SYNC_NEXT" /\ s \in {"S_IDLE", "S_SYNC_DELAY"}
        /\ ctrl' = [n EXCEPT !.idx = (@ + 1) % NUM_BLOCKS, !.state = s]
    BY <1>5 DEF SyncNext, n
  <2> HIDE DEF s
  <2>2. Step(s, ctrl.ofs_int)
    BY <1>1, <2>1 DEF Step, EngineFields
  <2> QED BY <2>1, <2>2
<1> QED BY <1>2, <1>3, <1>4, <1>5

\* A state of a transfer: it is left for another one or for the last.
ReadOn == {"S_READ_WAIT", "S_READ_BURST", "S_READ_DONE"}
WriteOn == {"S_WRITE_START", "S_WRITE_REQ", "S_WRITE_RSP", "S_WRITE_WAIT", "S_WRITE_BURST", "S_WRITE_DONE"}
Continues ==
  \E s \in ReadOn \cup WriteOn \cup {"S_READ_START"}, o \in Offset :
    Step(s, o) /\ (s = "S_READ_START" => o # 0)

LEMMA Receives ==
  ASSUME NEW c, DOMAIN c = EngineFields, c.pnd_bp = 0
  PROVE  LET r == Received(c, BusRsp) IN
         /\ DOMAIN r = EngineFields /\ r.pnd_bp = 0 /\ r.state = c.state
         /\ r.ofs_int = (c.ofs_int + 1) % BLOCK_WORDS
  BY DEF Received, EngineFields

LEMMA TransferSteps ==
  ASSUME EngineSide,
         \/ ReadStart(host_req, sync_i) \/ ReadWait(host_req, sync_i, BusRsp)
         \/ ReadBurst(host_req, sync_i, BusRsp) \/ WriteStart(host_req, sync_i)
         \/ WriteReq(host_req, sync_i) \/ WriteRsp(host_req, sync_i, BusRsp)
         \/ WriteWait(host_req, sync_i) \/ WriteBurst(host_req, sync_i, BusRsp)
  PROVE  Locked /\ Continues
<1> DEFINE n == CtrlNext(host_req, sync_i)
           i == (ctrl.ofs_int + 1) % BLOCK_WORDS
<1>1. DOMAIN n = EngineFields /\ n.state = ctrl.state /\ n.ofs_int = ctrl.ofs_int /\ n.pnd_bp = 0
  BY NextFields
<1>2. ctrl.ofs_int \in Offset /\ i \in Offset /\ (~LastWord => i # 0)
  BY Offsets DEF EngineSide, LastWord
<1>3. ASSUME NEW s \in ReadOn \cup WriteOn, NEW o \in Offset, Step(s, o)
      PROVE  Continues
  BY <1>3 DEF Continues, ReadOn, WriteOn
<1> HIDE DEF n, i
<1>4. CASE ReadStart(host_req, sync_i)
  <2>1. Step("S_READ_WAIT", ctrl.ofs_int) /\ ctrl.state = "S_READ_START"
    BY <1>1, <1>4 DEF ReadStart, Step, EngineFields, n
  <2> QED BY <1>2, <1>3, <2>1 DEF ReadOn, Locked, Downloading
<1>5. CASE WriteStart(host_req, sync_i)
  <2>1. Step("S_WRITE_REQ", ctrl.ofs_int) /\ ctrl.state = "S_WRITE_START"
    BY <1>1, <1>5 DEF WriteStart, Step, EngineFields, n
  <2> QED BY <1>2, <1>3, <2>1 DEF WriteOn, Locked, Uploading
<1>6. CASE WriteReq(host_req, sync_i)
  <2>1. Step("S_WRITE_RSP", ctrl.ofs_int) /\ ctrl.state = "S_WRITE_REQ"
    BY <1>1, <1>6 DEF WriteReq, Step, EngineFields, n
  <2> QED BY <1>2, <1>3, <2>1 DEF WriteOn, Locked, Uploading
<1>7. CASE WriteWait(host_req, sync_i)
  <2>1. Step("S_WRITE_BURST", ctrl.ofs_int) /\ ctrl.state = "S_WRITE_WAIT"
    BY <1>1, <1>7 DEF WriteWait, Step, EngineFields, n
  <2> QED BY <1>2, <1>3, <2>1 DEF WriteOn, Locked, Uploading
<1>8. ASSUME NEW c, DOMAIN c = EngineFields, c.pnd_bp = 0, c.ofs_int = ctrl.ofs_int, c.state = ctrl.state
      PROVE  LET r == Received(c, BusRsp) IN
             DOMAIN r = EngineFields /\ r.pnd_bp = 0 /\ r.state = ctrl.state /\ r.ofs_int = i
  BY <1>8, Receives DEF i
<1>9. CASE ReadWait(host_req, sync_i, BusRsp)
  <2> DEFINE r == Received(n, BusRsp)
             s == IF BURSTS_EN THEN "S_READ_BURST" ELSE IF LastWord THEN "S_READ_DONE" ELSE "S_READ_START"
  <2>1. /\ ctrl.state = "S_READ_WAIT"
        /\ ctrl' = IF BusRsp.ack = 0 THEN n ELSE [r EXCEPT !.ofs_ext = NextOfs(@), !.state = s]
    BY <1>9 DEF ReadWait, n
  <2>2. DOMAIN r = EngineFields /\ r.pnd_bp = 0 /\ r.ofs_int = i
    BY <1>1, <1>8
  <2>3. s \in ReadOn \/ (s = "S_READ_START" /\ ~LastWord)
    BY DEF ReadOn
  <2> HIDE DEF r, s
  <2>4. CASE BusRsp.ack = 0
    <3>1. Step("S_READ_WAIT", ctrl.ofs_int)
      BY <1>1, <2>1, <2>4 DEF Step
    <3> QED BY <1>2, <1>3, <2>1, <3>1 DEF ReadOn, Locked, Downloading
  <2>5. CASE BusRsp.ack # 0
    <3>1. Step(s, i)
      BY <2>1, <2>2, <2>5 DEF Step, EngineFields
    <3>2. s \in ReadOn => Continues
      BY <1>2, <1>3, <3>1
    <3>3. s = "S_READ_START" => i # 0
      BY <1>2, <2>3 DEF ReadOn
    <3>4. s = "S_READ_START" => Continues
      BY <1>2, <3>1, <3>3 DEF Continues
    <3> QED BY <2>1, <2>3, <3>2, <3>4 DEF Locked, Downloading
  <2> QED BY <2>4, <2>5
<1>10. CASE WriteRsp(host_req, sync_i, BusRsp)
  <2> DEFINE r == Received(n, BusRsp)
             s == IF BURSTS_EN THEN "S_WRITE_WAIT" ELSE IF LastWord THEN "S_WRITE_DONE" ELSE "S_WRITE_START"
  <2>1. /\ ctrl.state = "S_WRITE_RSP" /\ s \in WriteOn
        /\ ctrl' = IF BusRsp.ack = 0 THEN n ELSE [r EXCEPT !.ofs_ext = NextOfs(@), !.state = s]
    BY <1>10 DEF WriteRsp, WriteOn, n
  <2>2. DOMAIN r = EngineFields /\ r.pnd_bp = 0 /\ r.ofs_int = i
    BY <1>1, <1>8
  <2> HIDE DEF r, s
  <2>4. CASE BusRsp.ack = 0
    <3>1. Step("S_WRITE_RSP", ctrl.ofs_int)
      BY <1>1, <2>1, <2>4 DEF Step
    <3> QED BY <1>2, <1>3, <2>1, <3>1 DEF WriteOn, Locked, Uploading
  <2>5. CASE BusRsp.ack # 0
    <3>1. Step(s, i)
      BY <2>1, <2>2, <2>5 DEF Step, EngineFields
    <3> QED BY <1>2, <1>3, <2>1, <3>1 DEF Locked, Uploading
  <2> QED BY <2>4, <2>5
<1>11. CASE ReadBurst(host_req, sync_i, BusRsp)
  <2> DEFINE m == [n EXCEPT !.ofs_ext = IF @ < BLOCK_WORDS THEN NextOfs(@) ELSE @]
             r == Received(m, BusRsp)
             s == IF LastWord THEN "S_READ_DONE" ELSE "S_READ_BURST"
  <2>1. /\ ctrl.state = "S_READ_BURST" /\ s \in ReadOn
        /\ ctrl' = IF BusRsp.ack = 0 THEN m
                   ELSE [r EXCEPT !.state = IF LastWord THEN "S_READ_DONE" ELSE @]
    BY <1>11 DEF ReadBurst, ReadOn, n
  <2>2. DOMAIN m = EngineFields /\ m.pnd_bp = 0 /\ m.state = ctrl.state /\ m.ofs_int = ctrl.ofs_int
    BY <1>1 DEF EngineFields
  <2> HIDE DEF m
  <2>3. DOMAIN r = EngineFields /\ r.pnd_bp = 0 /\ r.ofs_int = i /\ r.state = ctrl.state
    BY <2>2, <1>8
  <2> HIDE DEF r
  <2>4. CASE BusRsp.ack = 0
    <3>1. Step("S_READ_BURST", ctrl.ofs_int)
      BY <2>1, <2>2, <2>4 DEF Step
    <3> QED BY <1>2, <1>3, <2>1, <3>1 DEF ReadOn, Locked, Downloading
  <2>5. CASE BusRsp.ack # 0
    <3>1. Step(s, i)
      BY <2>1, <2>3, <2>5 DEF Step, EngineFields
    <3> HIDE DEF s
    <3> QED BY <1>2, <1>3, <2>1, <3>1 DEF Locked, Downloading
  <2> QED BY <2>4, <2>5
<1>12. CASE WriteBurst(host_req, sync_i, BusRsp)
  <2> DEFINE m == [n EXCEPT !.ofs_ext = IF ctrl.ofs_buf < BLOCK_WORDS THEN NextOfs(@) ELSE @]
             r == Received(m, BusRsp)
             s == IF LastWord THEN "S_WRITE_DONE" ELSE "S_WRITE_BURST"
  <2>1. /\ ctrl.state = "S_WRITE_BURST" /\ s \in WriteOn
        /\ ctrl' = IF BusRsp.ack = 0 THEN m
                   ELSE [r EXCEPT !.state = IF LastWord THEN "S_WRITE_DONE" ELSE @]
    BY <1>12 DEF WriteBurst, WriteOn, n
  <2>2. DOMAIN m = EngineFields /\ m.pnd_bp = 0 /\ m.state = ctrl.state /\ m.ofs_int = ctrl.ofs_int
    BY <1>1 DEF EngineFields
  <2> HIDE DEF m
  <2>3. DOMAIN r = EngineFields /\ r.pnd_bp = 0 /\ r.ofs_int = i /\ r.state = ctrl.state
    BY <2>2, <1>8
  <2> HIDE DEF r
  <2>4. CASE BusRsp.ack = 0
    <3>1. Step("S_WRITE_BURST", ctrl.ofs_int)
      BY <2>1, <2>2, <2>4 DEF Step
    <3> QED BY <1>2, <1>3, <2>1, <3>1 DEF WriteOn, Locked, Uploading
  <2>5. CASE BusRsp.ack # 0
    <3>1. Step(s, i)
      BY <2>1, <2>3, <2>5 DEF Step, EngineFields
    <3> HIDE DEF s
    <3> QED BY <1>2, <1>3, <2>1, <3>1 DEF Locked, Uploading
  <2> QED BY <2>4, <2>5
<1> QED BY <1>4, <1>5, <1>6, <1>7, <1>9, <1>10, <1>11, <1>12

LEMMA DoneSteps ==
  ASSUME EngineSide, ReadDone(host_req, sync_i) \/ WriteDone(host_req, sync_i)
  PROVE  Released /\ \E s \in {"S_IDLE", "S_CHECK", "S_SYNC_NEXT"} : Step(s, ctrl.ofs_int)
<1> DEFINE n == CtrlNext(host_req, sync_i)
<1>1. DOMAIN n = EngineFields /\ n.state = ctrl.state /\ n.ofs_int = ctrl.ofs_int /\ n.pnd_bp = 0
  BY NextFields
<1> HIDE DEF n
<1>2. CASE ReadDone(host_req, sync_i)
  <2> DEFINE s == IF ctrl.bus_err = 1 THEN "S_IDLE" ELSE "S_CHECK"
  <2>1. /\ ctrl.state = "S_READ_DONE" /\ s \in {"S_IDLE", "S_CHECK", "S_SYNC_NEXT"}
        /\ ctrl' = [n EXCEPT !.hit = 1, !.state = s]
    BY <1>2 DEF ReadDone, n
  <2> HIDE DEF s
  <2>2. Step(s, ctrl.ofs_int)
    BY <1>1, <2>1 DEF Step, EngineFields
  <2> QED BY <2>1, <2>2 DEF Released
<1>3. CASE WriteDone(host_req, sync_i)
  <2> DEFINE s == IF ctrl.sync = 1 THEN "S_SYNC_NEXT" ELSE IF ctrl.bus_err = 1 THEN "S_IDLE" ELSE "S_CHECK"
  <2>1. /\ ctrl.state = "S_WRITE_DONE" /\ s \in {"S_IDLE", "S_CHECK", "S_SYNC_NEXT"}
        /\ ctrl' = [n EXCEPT !.cln = 1, !.state = s]
    BY <1>3 DEF WriteDone, n
  <2> HIDE DEF s
  <2>2. Step(s, ctrl.ofs_int)
    BY <1>1, <2>1 DEF Step, EngineFields
  <2> QED BY <2>1, <2>2 DEF Released
<1> QED BY <1>2, <1>3

-----------------------------------------------------------------------------
(* Engine and monitor together. *)

\* What a clock edge is for the lock: it is not held, and a transfer begins or
\* not; a transfer goes on or is over; it was over a cycle ago.
AtRest  == ~Locked /\ ~Released /\ \E s \in state_t \ {"S_BYPASS"}, o \in Offset :
             Step(s, o) /\ s \notin ReadOn \cup {"S_WRITE_DONE"}
GoesOn  == Locked /\ Continues
Over    == Released /\ \E s \in {"S_IDLE", "S_CHECK", "S_SYNC_NEXT"}, o \in Offset : Step(s, o)

LEMMA EngineMoves ==
  ASSUME EngineSide, CacheTick(host_req, sync_i, BusRsp)
  PROVE  AtRest \/ GoesOn \/ Over
<1>0. ctrl.ofs_int \in Offset /\ 0 \in Offset /\ ctrl.state # "S_BYPASS"
  BY Offsets DEF EngineSide
<1>1. ASSUME ctrl.state \in {"S_IDLE", "S_CHECK", "S_SYNC_START", "S_SYNC_DELAY", "S_SYNC_CHECK", "S_SYNC_NEXT"},
             NEW o \in Offset,
             NEW s \in {"S_IDLE", "S_CHECK", "S_SYNC_START", "S_SYNC_DELAY", "S_SYNC_CHECK", "S_SYNC_NEXT",
                        "S_READ_START", "S_WRITE_START"},
             Step(s, o)
      PROVE  AtRest
  BY <1>1 DEF AtRest, Locked, Released, Downloading, Uploading, state_t, ReadOn
<1>2. CASE Idle(host_req, sync_i)
  <2>1. PICK s \in IdleStates : Step(s, ctrl.ofs_int)
    BY <1>2, IdleStep
  <2> QED BY <1>0, <1>1, <1>2, <2>1, IdleStep DEF IdleStates
<1>3. CASE \/ CheckBypassUncached(host_req, sync_i) \/ CheckBypassDirty(host_req, sync_i)
           \/ CheckBypassClean(host_req, sync_i) \/ CheckHit(host_req, sync_i)
           \/ CheckMiss(host_req, sync_i)
  <2>1. PICK s \in CheckStates : Step(s, 0)
    BY <1>3, CheckSteps
  <2> QED BY <1>0, <1>1, <1>3, <2>1, CheckSteps DEF CheckStates
<1>4. CASE \/ SyncStart(host_req, sync_i) \/ SyncDelay(host_req, sync_i)
           \/ SyncCheck(host_req, sync_i) \/ SyncNext(host_req, sync_i)
  BY <1>0, <1>1, <1>4, SyncSteps
<1>5. CASE \/ ReadStart(host_req, sync_i) \/ ReadWait(host_req, sync_i, BusRsp)
           \/ ReadBurst(host_req, sync_i, BusRsp) \/ WriteStart(host_req, sync_i)
           \/ WriteReq(host_req, sync_i) \/ WriteRsp(host_req, sync_i, BusRsp)
           \/ WriteWait(host_req, sync_i) \/ WriteBurst(host_req, sync_i, BusRsp)
  BY <1>5, TransferSteps DEF GoesOn
<1>6. CASE ReadDone(host_req, sync_i) \/ WriteDone(host_req, sync_i)
  BY <1>0, <1>6, DoneSteps DEF Over
<1>7. CASE Bypass(host_req, sync_i, BusRsp)
  BY <1>0, <1>7 DEF Bypass
<1> QED BY <1>2, <1>3, <1>4, <1>5, <1>6, <1>7 DEF CacheTick

\* Outside of a transfer there is no strobe, so the monitor stays idle; the
\* transfer's first one finds it there.
LEMMA NoStrobe ==
  ASSUME EngineSide
  PROVE  /\ cache_lock = (IF Locked THEN 1 ELSE 0)
         /\ ~Locked => bus_req.stb = 0
<1>1. cache_lock = (IF Locked THEN 1 ELSE 0)
  BY DEF cache_lock, Locked, BitOf
<1>2. ctrl.state # "S_BYPASS"
  BY DEF EngineSide
<1>3. bus_req.stb = BitOf(BlockStrobe)
  BY <1>2 DEF bus_req, cache_req
<1>4. ~Locked => ~BlockStrobe
  BY DEF Locked, Downloading, Uploading, BlockStrobe
<1> QED BY <1>1, <1>3, <1>4 DEF BitOf

LEMMA TickSides ==
  ASSUME BlockInv, Tick
  PROVE  BlockInv'
<1>1. EngineSide /\ MonitorSide
  BY DEF BlockInv
<1>2. AtRest \/ GoesOn \/ Over
  BY <1>1, EngineMoves DEF Tick
<1>3. PICK s \in state_t \ {"S_BYPASS"}, o \in Offset : Step(s, o)
  BY <1>2 DEF AtRest, GoesOn, Over, Continues, ReadOn, WriteOn, state_t
<1>4. EngineSide'
  <2>1. generics' = generics /\ generics \in Generics
    BY <1>1 DEF Tick, CacheTick, EngineSide
  <2>2. host_req' \in bus_req_t /\ host_req'.amo = 0
    <3>1. HostReqs[generics] \subseteq {r \in bus_req_t : r.stb = 1}
      BY <2>1, HostAssumption
    <3>2. \A r \in HostReqs[generics] : r.amo = 0
      BY <2>1, CachedDmemAssumption
    <3>3. host_req \in bus_req_t /\ host_req.amo = 0
      BY <1>1 DEF EngineSide
    <3>4. CASE host_req' \in HostReqs[generics]
      BY <3>1, <3>2, <3>4
    <3>5. CASE host_req' = [host_req EXCEPT !.stb = 0]
      BY <3>3, <3>5 DEF bus_req_t, Bit
    <3> QED BY <3>4, <3>5 DEF Tick, HostTick, HostIssue, HostRest, HostWait
  <2> QED BY <1>3, <2>1, <2>2 DEF EngineSide, Step
<1>5. KeeperTick(bus_req.stb, cache_lock, Dmem, CpuRsp.ack)
  BY DEF Tick
<1>6. /\ cache_lock = (IF Locked THEN 1 ELSE 0)
      /\ ~Locked => bus_req.stb = 0
  BY <1>1, NoStrobe
<1>7. /\ keeper_state \in {"S_IDLE", "S_BUSY", "S_ERROR"}
      /\ keeper_state # "S_IDLE" => keeper_lock = 1
      /\ keeper_state = "S_BUSY" => Locked \/ Released
  BY <1>1 DEF MonitorSide
<1> DEFINE st == bus_req.stb
           a == CpuRsp.ack
<1> HIDE DEF st, a
<1>8. /\ keeper_state' \in {"S_IDLE", "S_BUSY", "S_ERROR"}
      /\ keeper_state' # "S_IDLE" => keeper_lock' = 1
      /\ keeper_state' = "S_BUSY" => Locked
      /\ keeper_state' = "S_ERROR" => Locked \/ (keeper_state = "S_BUSY" /\ Released)
  <2>1. KeeperTick(st, cache_lock, Dmem, a)
    BY <1>5 DEF st, a
  <2>2. ~Locked => st = 0
    BY <1>6 DEF st
  <2>3. CASE KeeperIdle(st, cache_lock, Dmem)
    BY <1>6, <2>2, <2>3 DEF KeeperIdle
  <2>4. CASE KeeperTimeout(a)
    BY <1>7, <2>4 DEF KeeperTimeout
  <2>5. CASE KeeperBusy(cache_lock, a)
    BY <1>6, <1>7, <2>5 DEF KeeperBusy
  <2>6. CASE KeeperError(cache_lock)
    BY <1>6, <1>7, <2>6 DEF KeeperError
  <2> QED BY <2>1, <2>3, <2>4, <2>5, <2>6 DEF KeeperTick
<1>9. Locked => Locked' \/ Released'
  BY <1>2 DEF AtRest, GoesOn, Over, Continues, Step, Locked, Released, Downloading, Uploading, ReadOn, WriteOn
<1>10. Released => Late'
  BY <1>2 DEF AtRest, GoesOn, Over, Step, Late, Locked, Released, Downloading, Uploading
<1>11. MonitorSide'
  BY <1>8, <1>9, <1>10 DEF MonitorSide
<1>12. KeeperReadyForBlock'
  <2> SUFFICES ASSUME ctrl'.state = "S_READ_START", ctrl'.ofs_int = 0
               PROVE  keeper_state' = "S_IDLE"
    BY DEF KeeperReadyForBlock
  <2>1. ~GoesOn
    BY DEF GoesOn, Continues, Step, ReadOn, WriteOn
  <2>2. ~Over
    BY DEF Over, Step
  <2>3. ~Locked /\ ~Released
    BY <1>2, <2>1, <2>2 DEF AtRest
  <2> QED BY <1>8, <2>3
<1> QED BY <1>4, <1>11, <1>12 DEF BlockInv

LEMMA BlockInit == Init => BlockInv
<1> SUFFICES ASSUME Init PROVE BlockInv
  OBVIOUS
<1>1. generics \in Generics /\ ctrl = ctrl_reset
  BY DEF Init, CacheInit
<1>2. DOMAIN ctrl = EngineFields /\ ctrl.state = "S_IDLE" /\ ctrl.pnd_bp = 0 /\ ctrl.ofs_int = 0
  BY <1>1 DEF ctrl_reset, EngineFields
<1>3. host_req \in bus_req_t /\ host_req.amo = 0
  <2>1. 0 \in Addr
    <3> DEFINE d == TAGS * NUM_BLOCKS
    <3>1. d \in Nat \ {0} /\ BLOCK_WORDS \in Nat \ {0}
      BY CacheAssumption
    <3> HIDE DEF d
    <3>2. d * BLOCK_WORDS \in Nat \ {0}
      BY <3>1
    <3> QED BY <3>2 DEF d, Addr
  <2>2. ZeroWord \in Word /\ {} \in WordBE
    BY ByteAssumption DEF ZeroWord, Word, WordBE
  <2> QED BY <2>1, <2>2 DEF Init, HostInit, ReqIdle, bus_req_t, Bit
<1>4. keeper_state = "S_IDLE"
  BY DEF Init, KeeperInit
<1> QED BY <1>1, <1>2, <1>3, <1>4, Offsets
        DEF BlockInv, EngineSide, MonitorSide, KeeperReadyForBlock, state_t

\* The first strobe of a block transfer finds the bus monitor idle, and is
\* watched: however the transfer before it ended, with an acknowledge of the
\* memory or by the monitor's own timeout, in the last of its words or in one
\* before (neorv32_cache.vhd:287-356, neorv32_bus.vhd:440-483).
THEOREM MonitorReady == Spec => []KeeperReadyForBlock
<1>1. BlockInv /\ [Next]_vars => BlockInv'
  <2> SUFFICES ASSUME BlockInv, [Next]_vars PROVE BlockInv'
    OBVIOUS
  <2>1. CASE Tick
    BY <2>1, TickSides
  <2>2. CASE UNCHANGED vars
    BY <2>2 DEF vars, cacheVars, hostVars, keeperVars, BlockInv, EngineSide, MonitorSide, KeeperReadyForBlock,
                Locked, Released, Late, Downloading, Uploading
  <2> QED BY <2>1, <2>2 DEF Next
<1>2. BlockInv => KeeperReadyForBlock
  BY DEF BlockInv
<1> QED BY BlockInit, <1>1, <1>2, PTL DEF Spec
=============================================================================
