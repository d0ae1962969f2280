------------------------- MODULE CacheSystem_proofs -------------------------
(* What the cache's engine and the bus do together, and what the cache and   *)
(* main memory hold, for any cache, any bus latency, any bus errors, any     *)
(* accesses and fences of the CPU and any writes of another master that      *)
(* software keeps apart from the CPU's.  First the control: transfers are    *)
(* complete when the engine says so, the bus stays locked for them, and an   *)
(* error is reported to the access it belongs to.  Then the contents: no     *)
(* word is lost, and a read returns the last value written.                  *)
EXTENDS CacheSystem, SequenceTheorems, TLAPS

-----------------------------------------------------------------------------
(* Addresses: tag, index and offset, put together and taken apart. *)

LEMMA DivMod ==
  ASSUME NEW a \in Nat, NEW n \in Nat \ {0}
  PROVE  a \div n \in Nat /\ a % n \in 0..n - 1 /\ a = ((a \div n) * n) + (a % n)
  OBVIOUS

LEMMA DivModUnique ==
  ASSUME NEW q \in Nat, NEW n \in Nat \ {0}, NEW r \in 0..n - 1
  PROVE  ((q * n) + r) \div n = q /\ ((q * n) + r) % n = r
  OBVIOUS

LEMMA Below ==
  ASSUME NEW j \in Nat, NEW m \in Nat, NEW n \in Nat \ {0}, NEW r \in 0..n - 1, j < m
  PROVE  (j * n) + r \in 0..(m * n) - 1
<1>1. (j + 1) * n <= m * n
  <2>1. m - (j + 1) \in Nat
    OBVIOUS
  <2>2. (m - (j + 1)) * n \in Nat
    BY <2>1
  <2>3. (m - (j + 1)) * n = m * n - (j + 1) * n
    OBVIOUS
  <2> QED BY <2>2, <2>3
<1>2. (j + 1) * n = j * n + n /\ j * n \in Nat /\ m * n \in Int
  OBVIOUS
<1> QED BY <1>1, <1>2

\* Tag, index and offset, put together and taken apart.
LEMMA AddrJoin ==
  ASSUME NEW t \in Tag, NEW i \in Index, NEW o \in Offset
  PROVE  /\ AddrOf(t, i, o) \in Addr
         /\ TagOf(AddrOf(t, i, o)) = t /\ IdxOf(AddrOf(t, i, o)) = i /\ OfsOf(AddrOf(t, i, o)) = o
<1> DEFINE a == AddrOf(t, i, o)
           M == NUM_BLOCKS
           N == BLOCK_WORDS
<1>1. M \in Nat \ {0} /\ N \in Nat \ {0} /\ TAGS \in Nat \ {0}
  BY CacheAssumption
<1>2. t \in Nat /\ t < TAGS /\ i \in 0..M - 1 /\ o \in 0..N - 1 /\ o % N = o
  BY <1>1 DEF Tag, Index, Offset
<1>3. a = ((t * M + i) * N) + o
  BY <1>2 DEF AddrOf
<1>4. t * M + i \in 0..(TAGS * M) - 1
  BY <1>1, <1>2, Below
<1>5. a \in 0..(TAGS * M * N) - 1
  BY <1>1, <1>2, <1>3, <1>4, Below
<1>6. a \div N = t * M + i /\ a % N = o
  <2> DEFINE q == t * M + i
  <2>1. q \in Nat /\ a = (q * N) + o
    BY <1>3, <1>4
  <2> HIDE DEF q, a
  <2>2. a \div N = q /\ a % N = o
    BY <1>1, <1>2, <2>1, DivModUnique
  <2> QED BY <2>2 DEF q
<1>7. (a \div N) % M = i
  BY <1>1, <1>2, <1>6, DivModUnique
<1>8. a \div (M * N) = t
  <2>1. (i * N) + o \in 0..(M * N) - 1
    BY <1>1, <1>2, Below
  <2>2. M * N \in Nat \ {0}
    BY <1>1
  <2>3. a = (t * (M * N)) + ((i * N) + o)
    BY <1>1, <1>2, <1>3
  <2> QED BY <1>2, <2>1, <2>2, <2>3, DivModUnique
<1> QED BY <1>5, <1>6, <1>7, <1>8 DEF Addr, TagOf, IdxOf, OfsOf

LEMMA AddrSplit ==
  ASSUME NEW a \in Addr
  PROVE  \E t \in Tag, i \in Index, o \in Offset : a = AddrOf(t, i, o)
<1> DEFINE M == NUM_BLOCKS
           N == BLOCK_WORDS
           q == a \div N
<1>1. M \in Nat \ {0} /\ N \in Nat \ {0} /\ TAGS \in Nat \ {0}
  BY CacheAssumption
<1>2. a \in Nat /\ a < TAGS * M * N
  BY <1>1 DEF Addr
<1>3. q \in Nat /\ a % N \in 0..N - 1 /\ a = (q * N) + (a % N)
  BY <1>1, <1>2, DivMod
<1>4. q \div M \in Nat /\ q % M \in 0..M - 1 /\ q = ((q \div M) * M) + (q % M)
  BY <1>1, <1>3, DivMod
<1>5. (a % N) % N = a % N
  <2> DEFINE r == a % N
  <2>1. r \in 0..N - 1
    BY <1>3
  <2> HIDE DEF r
  <2> SUFFICES r % N = r
    BY DEF r
  <2> QED BY <1>1, <2>1
<1>6. q \div M < TAGS
  <2> SUFFICES ASSUME q \div M >= TAGS PROVE FALSE
    BY <1>1, <1>4
  <2> DEFINE d == (q \div M) - TAGS
  <2>1. d \in Nat
    BY <1>1, <1>4
  <2>2. a = (((TAGS + d) * M + (q % M)) * N) + (a % N)
    <3>1. q \div M = TAGS + d
      BY <1>1, <1>4
    <3>2. q = ((TAGS + d) * M) + (q % M)
      BY <1>4, <3>1
    <3> QED BY <1>3, <3>2
  <2>3. a = (TAGS * M * N) + ((d * M) * N) + ((q % M) * N) + (a % N)
    BY <1>1, <1>3, <1>4, <2>1, <2>2
  <2>4. (d * M) * N \in Nat /\ (q % M) * N \in Nat
    BY <1>1, <1>4, <2>1
  <2> QED BY <1>1, <1>2, <1>3, <2>3, <2>4
<1>7. a = AddrOf(q \div M, q % M, a % N)
  BY <1>3, <1>4, <1>5 DEF AddrOf
<1> QED BY <1>1, <1>3, <1>4, <1>6, <1>7 DEF Tag, Index, Offset

-----------------------------------------------------------------------------
(* The engine's phases. *)

Syncing == {"S_SYNC_START", "S_SYNC_DELAY", "S_SYNC_CHECK", "S_SYNC_NEXT"}
Reading == {"S_READ_START", "S_READ_WAIT", "S_READ_BURST", "S_READ_DONE"}
Writing == {"S_WRITE_START", "S_WRITE_REQ", "S_WRITE_RSP", "S_WRITE_WAIT",
            "S_WRITE_BURST", "S_WRITE_DONE"}

\* The engine works for the CPU's access, not for a fence.
Serving == \/ ctrl.state \in {"S_CHECK", "S_BYPASS"} \cup Reading
           \/ ctrl.state \in Writing /\ ctrl.sync = 0

\* Every register holds a value of its type.
TypeInv ==
  /\ CacheTypeOK /\ HostTypeOK
  /\ bus_rsp \in bus_rsp_t /\ pend \in Seq(bus_req_t)
  /\ main \in [Addr -> Word]
  /\ failed \in BOOLEAN

-----------------------------------------------------------------------------
(* The CPU's access and the fence. *)

\* The access under way is one of the CPU's.
Genuine == \E r \in HostReqs[generics] : host_req = [r EXCEPT !.stb = host_req.stb]

\* An access waits for the engine, which sees its strobe or has remembered it,
\* or is served.
HostSide ==
  /\ host_state = "ready" => host_req.stb = 0 /\ ctrl.pnd_req = 0 /\ ~Serving
  /\ host_state = "wait" => Genuine
  /\ host_req.stb = 1 => ctrl.pnd_req = 0 /\ ~Serving
  /\ host_state = "wait" /\ ~Serving => host_req.stb = 1 \/ ctrl.pnd_req = 1
  /\ ctrl.pnd_req = 1 => ctrl.state = "S_CHECK" \/ ~Serving

\* A data cache has no fence under an access.
FenceSide ==
  /\ ctrl.state \in Syncing \ {"S_SYNC_START"} => ctrl.sync = 1
  /\ ctrl.state \in {"S_CHECK", "S_BYPASS"} \cup Reading => ctrl.sync = 0
  /\ ~READ_ONLY =>
       /\ host_state = "wait" => sync_i = 0
       /\ Serving => ctrl.pnd_syn = 0

\* What the check has found out about the access.
AccessSide ==
  Serving =>
    /\ (ctrl.pnd_bp = 1 <=> TagOf(host_req.addr) >= UC_BEGIN \/ host_req.amo = 1)
    /\ ctrl.state = "S_BYPASS" => ctrl.pnd_bp = 1
    /\ ctrl.state \in Reading => ctrl.pnd_bp = 0 /\ ctrl.tag = TagOf(host_req.addr)
    /\ ctrl.state \in Reading \cup Writing => ctrl.idx = IdxOf(host_req.addr)

-----------------------------------------------------------------------------
(* The transfers. *)

\* Words lo to hi - 1 of a block, as requests.
Run(w, lo, hi) == [n \in 1..hi - lo |-> w[lo + n - 1]]

\* The requests for the words of the block that is moved.
Words ==
  [k \in Offset |->
     [addr |-> AddrOf(ctrl.tag, ctrl.idx, k),
      data |-> IF Uploading THEN ram.data[ctrl.idx][k] ELSE ZeroWord,
      ben  |-> ByteSel, rw |-> BitOf(Uploading), amo |-> 0, stb |-> 1]]

\* Words answered and words requested so far.
Got == ctrl.ofs_int + bus_rsp.ack
Sent ==
  IF ctrl.state \in {"S_READ_WAIT", "S_WRITE_RSP"} THEN ctrl.ofs_ext + 1
  ELSE IF ctrl.state = "S_WRITE_BURST"
       THEN IF ctrl.ofs_buf <= BLOCK_WORDS THEN ctrl.ofs_buf ELSE BLOCK_WORDS
  ELSE ctrl.ofs_ext

\* What is outstanding is what was requested and not yet answered.
Outstanding == Got <= Sent /\ Sent <= BLOCK_WORDS /\ pend = Run(Words, Got, Sent)
Quiet == pend = <<>> /\ bus_rsp.ack = 0

TransferSide ==
  /\ bus_rsp.err = 1 => bus_rsp.ack = 1
  /\ ~Downloading /\ ~Uploading /\ ctrl.state # "S_BYPASS" => Quiet
  /\ Downloading \/ Uploading => Outstanding
  /\ ctrl.state = "S_BYPASS" =>
       \/ ctrl.bp_req = 1 /\ Quiet
       \/ ctrl.bp_req = 0 /\ bus_rsp.ack = 0 /\ pend = <<[host_req EXCEPT !.stb = 1]>>
       \/ ctrl.bp_req = 0 /\ bus_rsp.ack = 1 /\ pend = <<>>

\* The counters.
OffsetSide ==
  /\ ctrl.state \in {"S_READ_START", "S_READ_WAIT", "S_WRITE_START", "S_WRITE_REQ", "S_WRITE_RSP"} =>
       ctrl.ofs_ext = ctrl.ofs_int /\ (BURSTS_EN => ctrl.ofs_int = 0)
  /\ ctrl.state \in {"S_READ_START", "S_WRITE_START", "S_WRITE_REQ", "S_WRITE_WAIT"} => bus_rsp.ack = 0
  /\ ctrl.state \in {"S_READ_BURST", "S_WRITE_WAIT", "S_WRITE_BURST"} => BURSTS_EN
  /\ ctrl.state = "S_WRITE_WAIT" => ctrl.ofs_ext = 1 /\ ctrl.ofs_int = 1
  /\ ctrl.state = "S_READ_BURST" => ctrl.ofs_int >= 1
  /\ ctrl.state = "S_WRITE_BURST" =>
       /\ ctrl.ofs_int >= 1 /\ ctrl.ofs_buf >= 1
       /\ ctrl.ofs_ext = IF ctrl.ofs_buf <= BLOCK_WORDS THEN ctrl.ofs_buf + 1 ELSE ctrl.ofs_buf
       /\ ctrl.ofs_buf <= BLOCK_WORDS + 1
  /\ ctrl.state \in {"S_READ_DONE", "S_WRITE_DONE"} => ctrl.ofs_int = 0

\* The data RAM shows the word that is sent.
ReadSide ==
  /\ ctrl.state = "S_WRITE_REQ" => rd.data = ram.data[ctrl.idx][ctrl.ofs_int]
  /\ ctrl.state = "S_WRITE_BURST" /\ ctrl.ofs_buf < BLOCK_WORDS =>
       rd.data = ram.data[ctrl.idx][ctrl.ofs_buf]

-----------------------------------------------------------------------------
(* Errors. *)

ErrorSide ==
  /\ Serving => (failed <=> ctrl.bus_err = 1)
  /\ ctrl.state \in {"S_CHECK", "S_BYPASS"} => ctrl.bus_err = 0
  /\ host_state = "wait" /\ ~Serving => ~failed

ControlInv ==
  /\ TypeInv /\ HostSide /\ FenceSide /\ AccessSide
  /\ OffsetSide /\ TransferSide /\ ReadSide /\ ErrorSide

-----------------------------------------------------------------------------
(* Types. *)

LEMMA BitOfBit == \A p \in BOOLEAN : BitOf(p) \in Bit /\ (BitOf(p) = 1 <=> p) /\ (BitOf(p) = 0 <=> ~p)
  BY DEF BitOf, Bit

LEMMA MergeType ==
  ASSUME NEW old \in Word, NEW new \in Word, NEW be
  PROVE  MergeWord(old, new, be) \in Word
  BY DEF MergeWord, Word

LEMMA ZeroType == ZeroWord \in Word
  BY ByteAssumption DEF ZeroWord, Word

\* The registers that change in every state.
LEMMA NextFields ==
  ASSUME ctrl \in ctrl_t, NEW host, NEW sync
  PROVE  LET n == CtrlNext(host, sync)
         IN /\ n \in ctrl_t
            /\ n.state = ctrl.state /\ n.sync = ctrl.sync /\ n.bus_err = ctrl.bus_err
            /\ (n.pnd_req = 1 <=> ctrl.pnd_req = 1 \/ host.stb = 1)
            /\ (n.pnd_syn = 1 <=> ctrl.pnd_syn = 1 \/ sync = 1)
            /\ n.pnd_bp = ctrl.pnd_bp /\ n.bp_req = 0 /\ n.hit = 0 /\ n.cln = 0
            /\ n.tag = ctrl.tag /\ n.idx = ctrl.idx
            /\ n.ofs_int = ctrl.ofs_int /\ n.ofs_ext = ctrl.ofs_ext /\ n.ofs_buf = ctrl.ofs_ext
  BY DEF CtrlNext, ctrl_t, BitOf, Bit

-----------------------------------------------------------------------------
(* The memories. *)

Command == [addr : Addr, set : Bit, vld : Bit, drt : Bit, we : WordBE, data : Word]

LEMMA LookCommand ==
  ASSUME NEW a \in Addr
  PROVE  /\ Look(a) \in Command
         /\ Look(a).addr = a /\ Look(a).set # 1 /\ Look(a).drt # 1 /\ Look(a).we = {}
  BY ZeroType DEF Look, Command, Bit, WordBE

\* An offset with an overflow bit loses it.
LEMMA AddrWrap ==
  ASSUME NEW t \in Tag, NEW i \in Index, NEW o \in 0..2 * BLOCK_WORDS - 1
  PROVE  /\ AddrOf(t, i, o) \in Addr /\ IdxOf(AddrOf(t, i, o)) = i
         /\ o < BLOCK_WORDS => OfsOf(AddrOf(t, i, o)) = o
<1> DEFINE p == o % BLOCK_WORDS
<1>1. p \in Offset /\ (o < BLOCK_WORDS => p = o)
  BY CacheAssumption DEF Offset
<1>2. p % BLOCK_WORDS = p
  <2> HIDE DEF p
  <2> QED BY <1>1, CacheAssumption DEF Offset
<1>3. AddrOf(t, i, o) = AddrOf(t, i, p)
  BY <1>2 DEF AddrOf
<1> HIDE DEF p
<1> QED BY <1>1, <1>3, AddrJoin

LEMMA CtrlAddrParts ==
  ASSUME TypeInv
  PROVE  CtrlAddr \in Addr /\ TagOf(CtrlAddr) = ctrl.tag /\ IdxOf(CtrlAddr) = ctrl.idx /\ OfsOf(CtrlAddr) = ctrl.ofs_int
  BY AddrJoin DEF CtrlAddr, TypeInv, CacheTypeOK, ctrl_t

LEMMA MergeNone ==
  ASSUME NEW old \in Word, NEW new
  PROVE  MergeWord(old, new, {}) = old
  BY DEF MergeWord, Word

\* A command changes the addressed block's status and word, and reads them.
LEMMA RamStep ==
  ASSUME TypeInv, NEW c \in Command, CacheRam(c)
  PROVE  LET i == IdxOf(c.addr)
             o == OfsOf(c.addr)
         IN /\ ram' \in ram_t
            /\ rd' \in [valid : Bit, dirty : Bit, tag : Tag, data : Word]
            /\ ram'.valid = IF c.set = 1 THEN [ram.valid EXCEPT ![i] = c.vld] ELSE ram.valid
            /\ ram'.dirty = IF ~READ_ONLY /\ (c.set = 1 \/ c.drt = 1)
                            THEN [ram.dirty EXCEPT ![i] = c.drt] ELSE ram.dirty
            /\ ram'.tag = IF c.set = 1 THEN [ram.tag EXCEPT ![i] = TagOf(c.addr)] ELSE ram.tag
            /\ ram'.data = [ram.data EXCEPT ![i][o] = MergeWord(@, c.data, c.we)]
            /\ rd'.valid = ram.valid[i] /\ rd'.tag = ram.tag[i] /\ rd'.data = ram.data[i][o]
            /\ ~READ_ONLY => rd'.dirty = ram.dirty[i]
            /\ READ_ONLY => rd'.dirty = 0
<1> DEFINE i == IdxOf(c.addr)
           o == OfsOf(c.addr)
<1>1. i \in Index /\ o \in Offset /\ TagOf(c.addr) \in Tag
  BY AddrSplit, AddrJoin DEF Command
<1>2. MergeWord(ram.data[i][o], c.data, c.we) \in Word
  BY <1>1, MergeType DEF TypeInv, CacheTypeOK, ram_t, Command
<1>3. [ram.data EXCEPT ![i][o] = MergeWord(@, c.data, c.we)] \in [Index -> [Offset -> Word]]
  BY <1>1, <1>2 DEF TypeInv, CacheTypeOK, ram_t
<1>4. c.set \in Bit /\ c.vld \in Bit /\ c.drt \in Bit
  BY DEF Command
<1>5. ram \in ram_t /\ 0 \in Bit
  BY DEF TypeInv, CacheTypeOK, Bit
<1> HIDE DEF i, o
<1>6. /\ ram' = [valid |-> IF c.set = 1 THEN [ram.valid EXCEPT ![i] = c.vld] ELSE ram.valid,
                 dirty |-> IF ~READ_ONLY /\ (c.set = 1 \/ c.drt = 1)
                           THEN [ram.dirty EXCEPT ![i] = c.drt] ELSE ram.dirty,
                 tag   |-> IF c.set = 1 THEN [ram.tag EXCEPT ![i] = TagOf(c.addr)] ELSE ram.tag,
                 data  |-> [ram.data EXCEPT ![i][o] = MergeWord(@, c.data, c.we)]]
      /\ rd' = [valid |-> ram.valid[i],
                dirty |-> IF READ_ONLY THEN 0 ELSE ram.dirty[i],
                tag   |-> ram.tag[i],
                data  |-> ram.data[i][o]]
  BY DEF CacheRam, i, o
<1>7. ram' \in ram_t
  BY <1>1, <1>3, <1>4, <1>5, <1>6 DEF ram_t
<1>8. rd' \in [valid : Bit, dirty : Bit, tag : Tag, data : Word]
  BY <1>1, <1>5, <1>6 DEF ram_t
<1> QED BY <1>6, <1>7, <1>8 DEF i, o

\* A command that only looks leaves the memories alone.
LEMMA LookStep ==
  ASSUME TypeInv, NEW a \in Addr, CacheRam(Look(a))
  PROVE  /\ ram' = ram /\ rd' \in [valid : Bit, dirty : Bit, tag : Tag, data : Word]
         /\ rd'.valid = ram.valid[IdxOf(a)] /\ rd'.tag = ram.tag[IdxOf(a)]
         /\ rd'.data = ram.data[IdxOf(a)][OfsOf(a)]
         /\ ~READ_ONLY => rd'.dirty = ram.dirty[IdxOf(a)]
         /\ READ_ONLY => rd'.dirty = 0
<1> DEFINE c == Look(a)
           i == IdxOf(c.addr)
           o == OfsOf(c.addr)
<1>1. c \in Command /\ c.addr = a /\ c.set # 1 /\ c.drt # 1 /\ c.we = {}
  BY LookCommand
<1>2. i \in Index /\ o \in Offset
  BY <1>1, AddrSplit, AddrJoin
<1>3. ram \in ram_t
  BY DEF TypeInv, CacheTypeOK
<1>0. CacheRam(c)
  BY DEF c
<1> HIDE DEF c
<1>4. /\ ram' \in ram_t /\ rd' \in [valid : Bit, dirty : Bit, tag : Tag, data : Word]
      /\ ram'.valid = ram.valid /\ ram'.dirty = ram.dirty /\ ram'.tag = ram.tag
      /\ ram'.data = [ram.data EXCEPT ![i][o] = MergeWord(@, c.data, c.we)]
      /\ rd'.valid = ram.valid[i] /\ rd'.tag = ram.tag[i] /\ rd'.data = ram.data[i][o]
      /\ ~READ_ONLY => rd'.dirty = ram.dirty[i]
      /\ READ_ONLY => rd'.dirty = 0
  BY <1>0, <1>1, RamStep
<1>5. ram.data[i][o] \in Word
  BY <1>2, <1>3 DEF ram_t
<1>6. MergeWord(ram.data[i][o], c.data, c.we) = ram.data[i][o]
  BY <1>1, <1>5, MergeNone
<1>7. ram'.data = ram.data
  BY <1>2, <1>3, <1>4, <1>6 DEF ram_t
<1>8. ram' = ram
  BY <1>3, <1>4, <1>7 DEF ram_t
<1> QED BY <1>1, <1>4, <1>8

\* The commands of the states, each in its type.
LEMMA HostAddr ==
  ASSUME TypeInv
  PROVE  host_req.addr \in Addr /\ TagOf(host_req.addr) \in Tag /\ IdxOf(host_req.addr) \in Index
  BY AddrSplit, AddrJoin DEF TypeInv, HostTypeOK, bus_req_t

LEMMA Counters ==
  /\ \A o \in Offset : (o + 1) % BLOCK_WORDS \in Offset
  /\ \A o \in Offset : o # BLOCK_WORDS - 1 => (o + 1) % BLOCK_WORDS = o + 1
  /\ (BLOCK_WORDS - 1 + 1) % BLOCK_WORDS = 0
  /\ \A o \in 0..2 * BLOCK_WORDS - 1 : NextOfs(o) \in 0..2 * BLOCK_WORDS - 1
  /\ \A o \in 0..2 * BLOCK_WORDS - 2 : NextOfs(o) = o + 1
  /\ \A i \in Index : (i + 1) % NUM_BLOCKS \in Index
  /\ \A i \in Index : i # NUM_BLOCKS - 1 => (i + 1) % NUM_BLOCKS = i + 1
  /\ 0 \in Offset /\ 0 \in Index /\ 0 \in Tag /\ 0 \in 0..2 * BLOCK_WORDS - 1
  BY CacheAssumption DEF Offset, Index, Tag, NextOfs

-----------------------------------------------------------------------------
(* What each state's step does to the registers. *)

\* The registers that only the check and the fence's own states change.
Carried ==
  /\ ctrl' \in ctrl_t
  /\ (ctrl'.pnd_req = 1 <=> ctrl.pnd_req = 1 \/ host_req.stb = 1)
  /\ (ctrl'.pnd_syn = 1 <=> ctrl.pnd_syn = 1 \/ sync_i = 1)
  /\ ctrl'.sync = ctrl.sync /\ ctrl'.pnd_bp = ctrl.pnd_bp /\ ctrl'.bp_req = 0
  /\ (ctrl'.hit = 1 <=> ctrl.state = "S_READ_DONE")
  /\ (ctrl'.cln = 1 <=> ctrl.state = "S_WRITE_DONE")
  /\ ctrl'.idx = ctrl.idx /\ ctrl'.ofs_buf = ctrl.ofs_ext

Moved(s, t, e, i, x) ==
  /\ Carried
  /\ ctrl'.state = s /\ ctrl'.tag = t /\ ctrl'.bus_err = e
  /\ ctrl'.ofs_int = i /\ ctrl'.ofs_ext = x

LEMMA StartSteps ==
  ASSUME TypeInv
  PROVE  /\ ReadStart(host_req, sync_i) =>
              Moved("S_READ_WAIT", ctrl.tag, ctrl.bus_err, ctrl.ofs_int, ctrl.ofs_ext)
         /\ WriteReq(host_req, sync_i) =>
              Moved("S_WRITE_RSP", ctrl.tag, ctrl.bus_err, ctrl.ofs_int, ctrl.ofs_ext)
         /\ WriteStart(host_req, sync_i) =>
              Moved("S_WRITE_REQ", IF ctrl.ofs_int = 0 THEN rd.tag ELSE ctrl.tag, ctrl.bus_err,
                    ctrl.ofs_int, ctrl.ofs_ext)
         /\ WriteWait(host_req, sync_i) =>
              Moved("S_WRITE_BURST", ctrl.tag, ctrl.bus_err, ctrl.ofs_int, NextOfs(ctrl.ofs_ext))
         /\ SyncDelay(host_req, sync_i) =>
              Moved("S_SYNC_CHECK", ctrl.tag, ctrl.bus_err, ctrl.ofs_int, ctrl.ofs_ext)
         /\ SyncCheck(host_req, sync_i) =>
              Moved(IF BlockDirty THEN "S_WRITE_START" ELSE "S_SYNC_NEXT", ctrl.tag, 0, 0, 0)
<1> DEFINE n == CtrlNext(host_req, sync_i)
<1>1. /\ n \in ctrl_t
      /\ n.state = ctrl.state /\ n.sync = ctrl.sync /\ n.bus_err = ctrl.bus_err
      /\ (n.pnd_req = 1 <=> ctrl.pnd_req = 1 \/ host_req.stb = 1)
      /\ (n.pnd_syn = 1 <=> ctrl.pnd_syn = 1 \/ sync_i = 1)
      /\ n.pnd_bp = ctrl.pnd_bp /\ n.bp_req = 0 /\ n.hit = 0 /\ n.cln = 0
      /\ n.tag = ctrl.tag /\ n.idx = ctrl.idx
      /\ n.ofs_int = ctrl.ofs_int /\ n.ofs_ext = ctrl.ofs_ext /\ n.ofs_buf = ctrl.ofs_ext
  BY NextFields DEF TypeInv, CacheTypeOK
<1>2. rd.tag \in Tag /\ NextOfs(ctrl.ofs_ext) \in 0..2 * BLOCK_WORDS - 1
  BY Counters DEF TypeInv, CacheTypeOK, ctrl_t
<1>3. BitOf(FALSE) = 0 /\ 0 \in Bit
  BY DEF BitOf, Bit
<1> USE <1>1, <1>2, <1>3
<1> HIDE DEF n
<1>4. ReadStart(host_req, sync_i) =>
        Moved("S_READ_WAIT", ctrl.tag, ctrl.bus_err, ctrl.ofs_int, ctrl.ofs_ext)
  BY DEF ReadStart, Moved, Carried, ctrl_t, state_t, n
<1>5. WriteReq(host_req, sync_i) =>
        Moved("S_WRITE_RSP", ctrl.tag, ctrl.bus_err, ctrl.ofs_int, ctrl.ofs_ext)
  BY DEF WriteReq, Moved, Carried, ctrl_t, state_t, n
<1>6. WriteStart(host_req, sync_i) =>
        Moved("S_WRITE_REQ", IF ctrl.ofs_int = 0 THEN rd.tag ELSE ctrl.tag, ctrl.bus_err,
              ctrl.ofs_int, ctrl.ofs_ext)
  <2> SUFFICES ASSUME WriteStart(host_req, sync_i)
               PROVE  Moved("S_WRITE_REQ", IF ctrl.ofs_int = 0 THEN rd.tag ELSE ctrl.tag, ctrl.bus_err,
                            ctrl.ofs_int, ctrl.ofs_ext)
    OBVIOUS
  <2> DEFINE t == IF ctrl.ofs_int = 0 THEN rd.tag ELSE ctrl.tag
  <2>1. /\ ctrl' = [n EXCEPT !.tag = t, !.state = "S_WRITE_REQ"] /\ t \in Tag
        /\ ctrl.state = "S_WRITE_START"
    BY DEF WriteStart, ctrl_t, n
  <2> HIDE DEF t
  <2>2. ctrl' \in ctrl_t
    BY <2>1 DEF ctrl_t, state_t
  <2>3. Moved("S_WRITE_REQ", t, ctrl.bus_err, ctrl.ofs_int, ctrl.ofs_ext)
    BY <2>1, <2>2 DEF Moved, Carried, ctrl_t
  <2> QED BY <2>3 DEF t
<1>7. WriteWait(host_req, sync_i) =>
        Moved("S_WRITE_BURST", ctrl.tag, ctrl.bus_err, ctrl.ofs_int, NextOfs(ctrl.ofs_ext))
  <2> SUFFICES ASSUME WriteWait(host_req, sync_i)
               PROVE  Moved("S_WRITE_BURST", ctrl.tag, ctrl.bus_err, ctrl.ofs_int, NextOfs(ctrl.ofs_ext))
    OBVIOUS
  <2>1. /\ ctrl' = [n EXCEPT !.ofs_ext = NextOfs(@), !.state = "S_WRITE_BURST"]
        /\ ctrl.state = "S_WRITE_WAIT"
    BY DEF WriteWait, n
  <2>2. ctrl' \in ctrl_t
    BY <2>1 DEF ctrl_t, state_t
  <2> QED BY <2>1, <2>2 DEF Moved, Carried, ctrl_t
<1>8. SyncDelay(host_req, sync_i) =>
        Moved("S_SYNC_CHECK", ctrl.tag, ctrl.bus_err, ctrl.ofs_int, ctrl.ofs_ext)
  BY DEF SyncDelay, Moved, Carried, ctrl_t, state_t, n
<1>9. SyncCheck(host_req, sync_i) =>
        Moved(IF BlockDirty THEN "S_WRITE_START" ELSE "S_SYNC_NEXT", ctrl.tag, 0, 0, 0)
  <2> SUFFICES ASSUME SyncCheck(host_req, sync_i)
               PROVE  Moved(IF BlockDirty THEN "S_WRITE_START" ELSE "S_SYNC_NEXT", ctrl.tag, 0, 0, 0)
    OBVIOUS
  <2> DEFINE s == IF BlockDirty THEN "S_WRITE_START" ELSE "S_SYNC_NEXT"
  <2>1. /\ ctrl' = [n EXCEPT !.ofs_ext = 0, !.ofs_int = 0, !.bus_err = 0, !.state = s]
        /\ ctrl.state = "S_SYNC_CHECK" /\ s \in state_t
    BY DEF SyncCheck, state_t, n
  <2> HIDE DEF s
  <2>2. ctrl' \in ctrl_t
    BY <2>1, Counters DEF ctrl_t
  <2>3. Moved(s, ctrl.tag, 0, 0, 0)
    BY <2>1, <2>2 DEF Moved, Carried, ctrl_t
  <2> QED BY <2>3 DEF s
<1> QED BY <1>4, <1>5, <1>6, <1>7, <1>8, <1>9

\* A word is received: its error counts, the counter goes on.
ErrNext == IF ctrl.bus_err = 1 \/ bus_rsp.err = 1 THEN 1 ELSE 0
IntNext == (ctrl.ofs_int + 1) % BLOCK_WORDS

LEMMA WordSteps ==
  ASSUME TypeInv
  PROVE  /\ ReadWait(host_req, sync_i, bus_rsp) =>
              IF bus_rsp.ack = 0
              THEN Moved("S_READ_WAIT", ctrl.tag, ctrl.bus_err, ctrl.ofs_int, ctrl.ofs_ext)
              ELSE Moved(IF BURSTS_EN THEN "S_READ_BURST" ELSE IF LastWord THEN "S_READ_DONE" ELSE "S_READ_START",
                         ctrl.tag, ErrNext, IntNext, NextOfs(ctrl.ofs_ext))
         /\ WriteRsp(host_req, sync_i, bus_rsp) =>
              IF bus_rsp.ack = 0
              THEN Moved("S_WRITE_RSP", ctrl.tag, ctrl.bus_err, ctrl.ofs_int, ctrl.ofs_ext)
              ELSE Moved(IF BURSTS_EN THEN "S_WRITE_WAIT" ELSE IF LastWord THEN "S_WRITE_DONE" ELSE "S_WRITE_START",
                         ctrl.tag, ErrNext, IntNext, NextOfs(ctrl.ofs_ext))
         /\ ReadBurst(host_req, sync_i, bus_rsp) =>
              LET x == IF ctrl.ofs_ext < BLOCK_WORDS THEN NextOfs(ctrl.ofs_ext) ELSE ctrl.ofs_ext
              IN IF bus_rsp.ack = 0
                 THEN Moved("S_READ_BURST", ctrl.tag, ctrl.bus_err, ctrl.ofs_int, x)
                 ELSE Moved(IF LastWord THEN "S_READ_DONE" ELSE "S_READ_BURST", ctrl.tag, ErrNext, IntNext, x)
         /\ WriteBurst(host_req, sync_i, bus_rsp) =>
              LET x == IF ctrl.ofs_buf < BLOCK_WORDS THEN NextOfs(ctrl.ofs_ext) ELSE ctrl.ofs_ext
              IN IF bus_rsp.ack = 0
                 THEN Moved("S_WRITE_BURST", ctrl.tag, ctrl.bus_err, ctrl.ofs_int, x)
                 ELSE Moved(IF LastWord THEN "S_WRITE_DONE" ELSE "S_WRITE_BURST", ctrl.tag, ErrNext, IntNext, x)
<1> DEFINE n == CtrlNext(host_req, sync_i)
<1>1. /\ n \in ctrl_t
      /\ n.state = ctrl.state /\ n.sync = ctrl.sync /\ n.bus_err = ctrl.bus_err
      /\ (n.pnd_req = 1 <=> ctrl.pnd_req = 1 \/ host_req.stb = 1)
      /\ (n.pnd_syn = 1 <=> ctrl.pnd_syn = 1 \/ sync_i = 1)
      /\ n.pnd_bp = ctrl.pnd_bp /\ n.bp_req = 0 /\ n.hit = 0 /\ n.cln = 0
      /\ n.tag = ctrl.tag /\ n.idx = ctrl.idx
      /\ n.ofs_int = ctrl.ofs_int /\ n.ofs_ext = ctrl.ofs_ext /\ n.ofs_buf = ctrl.ofs_ext
  BY NextFields DEF TypeInv, CacheTypeOK
<1>2. ctrl \in ctrl_t /\ rd.tag \in Tag /\ bus_rsp.ack \in Bit /\ bus_rsp.err \in Bit
  BY DEF TypeInv, CacheTypeOK, bus_rsp_t
<1>3. 0 \in Bit /\ 1 \in Bit
  BY DEF Bit
<1> USE <1>1, <1>2, <1>3
<1> HIDE DEF n
<1>4. ErrNext \in Bit /\ IntNext \in Offset /\ NextOfs(ctrl.ofs_ext) \in 0..2 * BLOCK_WORDS - 1
  BY Counters DEF ErrNext, IntNext, ctrl_t
<1>5. ASSUME NEW m, m \in ctrl_t, m.bus_err = ctrl.bus_err, m.ofs_int = ctrl.ofs_int
      PROVE  Received(m, bus_rsp) = [m EXCEPT !.bus_err = ErrNext, !.ofs_int = IntNext]
  BY <1>5 DEF Received, BitOf, ErrNext, IntNext, ctrl_t
<1>6. ASSUME ReadWait(host_req, sync_i, bus_rsp)
      PROVE  IF bus_rsp.ack = 0
             THEN Moved("S_READ_WAIT", ctrl.tag, ctrl.bus_err, ctrl.ofs_int, ctrl.ofs_ext)
             ELSE Moved(IF BURSTS_EN THEN "S_READ_BURST" ELSE IF LastWord THEN "S_READ_DONE" ELSE "S_READ_START",
                        ctrl.tag, ErrNext, IntNext, NextOfs(ctrl.ofs_ext))
  <2> DEFINE s == IF BURSTS_EN THEN "S_READ_BURST" ELSE IF LastWord THEN "S_READ_DONE" ELSE "S_READ_START"
             x == NextOfs(ctrl.ofs_ext)
  <2>1. /\ ctrl.state = "S_READ_WAIT" /\ s \in state_t /\ x \in 0..2 * BLOCK_WORDS - 1
        /\ ctrl' = IF bus_rsp.ack = 0 THEN n
                   ELSE [Received(n, bus_rsp) EXCEPT !.ofs_ext = NextOfs(@), !.state = s]
    BY <1>4, <1>6 DEF ReadWait, state_t, n
  <2> HIDE DEF s
  <2>2. CASE bus_rsp.ack = 0
    BY <2>1, <2>2 DEF Moved, Carried, ctrl_t
  <2>3. CASE bus_rsp.ack # 0
    <3>1. Received(n, bus_rsp) = [n EXCEPT !.bus_err = ErrNext, !.ofs_int = IntNext]
      BY <1>5
    <3>2. Received(n, bus_rsp).ofs_ext = ctrl.ofs_ext
      BY <3>1 DEF ctrl_t
    <3>3. ctrl' = [Received(n, bus_rsp) EXCEPT !.ofs_ext = x, !.state = s]
      BY <2>1, <2>3, <3>2
    <3> HIDE DEF x
    <3>4. ctrl' = [n EXCEPT !.bus_err = ErrNext, !.ofs_int = IntNext, !.ofs_ext = x, !.state = s]
      BY <3>1, <3>3 DEF ctrl_t
    <3>5. ctrl' \in ctrl_t
      BY <1>4, <2>1, <3>4 DEF ctrl_t
    <3>6. /\ ctrl'.state = s /\ ctrl'.bus_err = ErrNext /\ ctrl'.ofs_int = IntNext /\ ctrl'.ofs_ext = x
          /\ ctrl'.tag = n.tag /\ ctrl'.sync = n.sync /\ ctrl'.idx = n.idx /\ ctrl'.ofs_buf = n.ofs_buf
      BY <3>4 DEF ctrl_t
    <3>7. /\ ctrl'.pnd_req = n.pnd_req /\ ctrl'.pnd_syn = n.pnd_syn /\ ctrl'.pnd_bp = n.pnd_bp
          /\ ctrl'.bp_req = n.bp_req /\ ctrl'.hit = n.hit /\ ctrl'.cln = n.cln
      BY <3>4 DEF ctrl_t
    <3>8. Moved(s, ctrl.tag, ErrNext, IntNext, x)
      BY <2>1, <3>5, <3>6, <3>7 DEF Moved, Carried
    <3> QED BY <2>3, <3>8 DEF s, x
  <2> QED BY <2>2, <2>3
<1>7. ASSUME WriteRsp(host_req, sync_i, bus_rsp)
      PROVE  IF bus_rsp.ack = 0
             THEN Moved("S_WRITE_RSP", ctrl.tag, ctrl.bus_err, ctrl.ofs_int, ctrl.ofs_ext)
             ELSE Moved(IF BURSTS_EN THEN "S_WRITE_WAIT" ELSE IF LastWord THEN "S_WRITE_DONE" ELSE "S_WRITE_START",
                        ctrl.tag, ErrNext, IntNext, NextOfs(ctrl.ofs_ext))
  <2> DEFINE s == IF BURSTS_EN THEN "S_WRITE_WAIT" ELSE IF LastWord THEN "S_WRITE_DONE" ELSE "S_WRITE_START"
             x == NextOfs(ctrl.ofs_ext)
  <2>1. /\ ctrl.state = "S_WRITE_RSP" /\ s \in state_t /\ x \in 0..2 * BLOCK_WORDS - 1
        /\ ctrl' = IF bus_rsp.ack = 0 THEN n
                   ELSE [Received(n, bus_rsp) EXCEPT !.ofs_ext = NextOfs(@), !.state = s]
    BY <1>4, <1>7 DEF WriteRsp, state_t, n
  <2> HIDE DEF s
  <2>2. CASE bus_rsp.ack = 0
    BY <2>1, <2>2 DEF Moved, Carried, ctrl_t
  <2>3. CASE bus_rsp.ack # 0
    <3>1. Received(n, bus_rsp) = [n EXCEPT !.bus_err = ErrNext, !.ofs_int = IntNext]
      BY <1>5
    <3>2. Received(n, bus_rsp).ofs_ext = ctrl.ofs_ext
      BY <3>1 DEF ctrl_t
    <3>3. ctrl' = [Received(n, bus_rsp) EXCEPT !.ofs_ext = x, !.state = s]
      BY <2>1, <2>3, <3>2
    <3> HIDE DEF x
    <3>4. ctrl' = [n EXCEPT !.bus_err = ErrNext, !.ofs_int = IntNext, !.ofs_ext = x, !.state = s]
      BY <3>1, <3>3 DEF ctrl_t
    <3>5. ctrl' \in ctrl_t
      BY <1>4, <2>1, <3>4 DEF ctrl_t
    <3>6. /\ ctrl'.state = s /\ ctrl'.bus_err = ErrNext /\ ctrl'.ofs_int = IntNext /\ ctrl'.ofs_ext = x
          /\ ctrl'.tag = n.tag /\ ctrl'.sync = n.sync /\ ctrl'.idx = n.idx /\ ctrl'.ofs_buf = n.ofs_buf
      BY <3>4 DEF ctrl_t
    <3>7. /\ ctrl'.pnd_req = n.pnd_req /\ ctrl'.pnd_syn = n.pnd_syn /\ ctrl'.pnd_bp = n.pnd_bp
          /\ ctrl'.bp_req = n.bp_req /\ ctrl'.hit = n.hit /\ ctrl'.cln = n.cln
      BY <3>4 DEF ctrl_t
    <3>8. Moved(s, ctrl.tag, ErrNext, IntNext, x)
      BY <2>1, <3>5, <3>6, <3>7 DEF Moved, Carried
    <3> QED BY <2>3, <3>8 DEF s, x
  <2> QED BY <2>2, <2>3
<1>8. ASSUME ReadBurst(host_req, sync_i, bus_rsp)
      PROVE  LET x == IF ctrl.ofs_ext < BLOCK_WORDS THEN NextOfs(ctrl.ofs_ext) ELSE ctrl.ofs_ext
             IN IF bus_rsp.ack = 0
                THEN Moved("S_READ_BURST", ctrl.tag, ctrl.bus_err, ctrl.ofs_int, x)
                ELSE Moved(IF LastWord THEN "S_READ_DONE" ELSE "S_READ_BURST", ctrl.tag, ErrNext, IntNext, x)
  <2> DEFINE s == IF LastWord THEN "S_READ_DONE" ELSE "S_READ_BURST"
             x == IF ctrl.ofs_ext < BLOCK_WORDS THEN NextOfs(ctrl.ofs_ext) ELSE ctrl.ofs_ext
             m == [n EXCEPT !.ofs_ext = x]
  <2>1. /\ ctrl.state = "S_READ_BURST" /\ s \in state_t /\ x \in 0..2 * BLOCK_WORDS - 1
        /\ m = [n EXCEPT !.ofs_ext = IF ctrl.ofs_ext < BLOCK_WORDS THEN NextOfs(@) ELSE @]
        /\ ctrl' = IF bus_rsp.ack = 0 THEN m
                   ELSE [Received(m, bus_rsp) EXCEPT !.state = IF LastWord THEN "S_READ_DONE" ELSE @]
    BY <1>4, <1>8 DEF ReadBurst, state_t, ctrl_t, n
  <2> HIDE DEF x
  <2>2. m \in ctrl_t /\ m.bus_err = ctrl.bus_err /\ m.ofs_int = ctrl.ofs_int /\ m.state = ctrl.state
    BY <2>1 DEF ctrl_t
  <2>3. CASE bus_rsp.ack = 0
    BY <2>1, <2>2, <2>3 DEF Moved, Carried, ctrl_t, x
  <2>4. CASE bus_rsp.ack # 0
    <3>1. Received(m, bus_rsp) = [m EXCEPT !.bus_err = ErrNext, !.ofs_int = IntNext]
      BY <1>5, <2>2
    <3>2. Received(m, bus_rsp).state = "S_READ_BURST"
      BY <2>1, <2>2, <3>1 DEF ctrl_t
    <3>3. ctrl' = [Received(m, bus_rsp) EXCEPT !.state = s]
      BY <2>1, <2>4, <3>2
    <3> HIDE DEF s
    <3>4. ctrl' = [n EXCEPT !.ofs_ext = x, !.bus_err = ErrNext, !.ofs_int = IntNext, !.state = s]
      BY <3>1, <3>3 DEF ctrl_t
    <3>5. ctrl' \in ctrl_t
      BY <1>4, <2>1, <3>4 DEF ctrl_t
    <3>6. /\ ctrl'.state = s /\ ctrl'.bus_err = ErrNext /\ ctrl'.ofs_int = IntNext /\ ctrl'.ofs_ext = x
          /\ ctrl'.tag = n.tag /\ ctrl'.sync = n.sync /\ ctrl'.idx = n.idx /\ ctrl'.ofs_buf = n.ofs_buf
      BY <3>4 DEF ctrl_t
    <3>7. /\ ctrl'.pnd_req = n.pnd_req /\ ctrl'.pnd_syn = n.pnd_syn /\ ctrl'.pnd_bp = n.pnd_bp
          /\ ctrl'.bp_req = n.bp_req /\ ctrl'.hit = n.hit /\ ctrl'.cln = n.cln
      BY <3>4 DEF ctrl_t
    <3>8. Moved(s, ctrl.tag, ErrNext, IntNext, x)
      BY <2>1, <3>5, <3>6, <3>7 DEF Moved, Carried
    <3> QED BY <2>4, <3>8 DEF s, x
  <2> QED BY <2>3, <2>4 DEF x
<1>9. ASSUME WriteBurst(host_req, sync_i, bus_rsp)
      PROVE  LET x == IF ctrl.ofs_buf < BLOCK_WORDS THEN NextOfs(ctrl.ofs_ext) ELSE ctrl.ofs_ext
             IN IF bus_rsp.ack = 0
                THEN Moved("S_WRITE_BURST", ctrl.tag, ctrl.bus_err, ctrl.ofs_int, x)
                ELSE Moved(IF LastWord THEN "S_WRITE_DONE" ELSE "S_WRITE_BURST", ctrl.tag, ErrNext, IntNext, x)
  <2> DEFINE s == IF LastWord THEN "S_WRITE_DONE" ELSE "S_WRITE_BURST"
             x == IF ctrl.ofs_buf < BLOCK_WORDS THEN NextOfs(ctrl.ofs_ext) ELSE ctrl.ofs_ext
             m == [n EXCEPT !.ofs_ext = x]
  <2>1. /\ ctrl.state = "S_WRITE_BURST" /\ s \in state_t /\ x \in 0..2 * BLOCK_WORDS - 1
        /\ m = [n EXCEPT !.ofs_ext = IF ctrl.ofs_buf < BLOCK_WORDS THEN NextOfs(@) ELSE @]
        /\ ctrl' = IF bus_rsp.ack = 0 THEN m
                   ELSE [Received(m, bus_rsp) EXCEPT !.state = IF LastWord THEN "S_WRITE_DONE" ELSE @]
    BY <1>4, <1>9 DEF WriteBurst, state_t, ctrl_t, n
  <2> HIDE DEF x
  <2>2. m \in ctrl_t /\ m.bus_err = ctrl.bus_err /\ m.ofs_int = ctrl.ofs_int /\ m.state = ctrl.state
    BY <2>1 DEF ctrl_t
  <2>3. CASE bus_rsp.ack = 0
    BY <2>1, <2>2, <2>3 DEF Moved, Carried, ctrl_t, x
  <2>4. CASE bus_rsp.ack # 0
    <3>1. Received(m, bus_rsp) = [m EXCEPT !.bus_err = ErrNext, !.ofs_int = IntNext]
      BY <1>5, <2>2
    <3>2. Received(m, bus_rsp).state = "S_WRITE_BURST"
      BY <2>1, <2>2, <3>1 DEF ctrl_t
    <3>3. ctrl' = [Received(m, bus_rsp) EXCEPT !.state = s]
      BY <2>1, <2>4, <3>2
    <3> HIDE DEF s
    <3>4. ctrl' = [n EXCEPT !.ofs_ext = x, !.bus_err = ErrNext, !.ofs_int = IntNext, !.state = s]
      BY <3>1, <3>3 DEF ctrl_t
    <3>5. ctrl' \in ctrl_t
      BY <1>4, <2>1, <3>4 DEF ctrl_t
    <3>6. /\ ctrl'.state = s /\ ctrl'.bus_err = ErrNext /\ ctrl'.ofs_int = IntNext /\ ctrl'.ofs_ext = x
          /\ ctrl'.tag = n.tag /\ ctrl'.sync = n.sync /\ ctrl'.idx = n.idx /\ ctrl'.ofs_buf = n.ofs_buf
      BY <3>4 DEF ctrl_t
    <3>7. /\ ctrl'.pnd_req = n.pnd_req /\ ctrl'.pnd_syn = n.pnd_syn /\ ctrl'.pnd_bp = n.pnd_bp
          /\ ctrl'.bp_req = n.bp_req /\ ctrl'.hit = n.hit /\ ctrl'.cln = n.cln
      BY <3>4 DEF ctrl_t
    <3>8. Moved(s, ctrl.tag, ErrNext, IntNext, x)
      BY <2>1, <3>5, <3>6, <3>7 DEF Moved, Carried
    <3> QED BY <2>4, <3>8 DEF s, x
  <2> QED BY <2>3, <2>4 DEF x
<1> QED BY <1>6, <1>7, <1>8, <1>9

LEMMA EndSteps ==
  ASSUME TypeInv
  PROVE  /\ ReadDone(host_req, sync_i) =>
              Moved(IF ctrl.bus_err = 1 THEN "S_IDLE" ELSE "S_CHECK", ctrl.tag, ctrl.bus_err,
                    ctrl.ofs_int, ctrl.ofs_ext)
         /\ WriteDone(host_req, sync_i) =>
              Moved(IF ctrl.sync = 1 THEN "S_SYNC_NEXT"
                    ELSE IF ctrl.bus_err = 1 THEN "S_IDLE" ELSE "S_CHECK", ctrl.tag, ctrl.bus_err,
                    ctrl.ofs_int, ctrl.ofs_ext)
         /\ Bypass(host_req, sync_i, bus_rsp) =>
              Moved(IF bus_rsp.ack = 1 THEN "S_IDLE" ELSE "S_BYPASS", ctrl.tag, ctrl.bus_err,
                    ctrl.ofs_int, ctrl.ofs_ext)
<1> DEFINE n == CtrlNext(host_req, sync_i)
<1>1. /\ n \in ctrl_t
      /\ n.state = ctrl.state /\ n.sync = ctrl.sync /\ n.bus_err = ctrl.bus_err
      /\ (n.pnd_req = 1 <=> ctrl.pnd_req = 1 \/ host_req.stb = 1)
      /\ (n.pnd_syn = 1 <=> ctrl.pnd_syn = 1 \/ sync_i = 1)
      /\ n.pnd_bp = ctrl.pnd_bp /\ n.bp_req = 0 /\ n.hit = 0 /\ n.cln = 0
      /\ n.tag = ctrl.tag /\ n.idx = ctrl.idx
      /\ n.ofs_int = ctrl.ofs_int /\ n.ofs_ext = ctrl.ofs_ext /\ n.ofs_buf = ctrl.ofs_ext
  BY NextFields DEF TypeInv, CacheTypeOK
<1>2. ctrl \in ctrl_t /\ bus_rsp.ack \in Bit
  BY DEF TypeInv, CacheTypeOK, bus_rsp_t
<1>3. 0 \in Bit /\ 1 \in Bit
  BY DEF Bit
<1> USE <1>1, <1>2, <1>3
<1> HIDE DEF n
<1>4. ASSUME ReadDone(host_req, sync_i)
      PROVE  Moved(IF ctrl.bus_err = 1 THEN "S_IDLE" ELSE "S_CHECK", ctrl.tag, ctrl.bus_err,
                   ctrl.ofs_int, ctrl.ofs_ext)
  <2> DEFINE s == IF ctrl.bus_err = 1 THEN "S_IDLE" ELSE "S_CHECK"
  <2>1. /\ ctrl.state = "S_READ_DONE" /\ s \in state_t
        /\ ctrl' = [n EXCEPT !.hit = 1, !.state = s]
    BY <1>4 DEF ReadDone, state_t, n
  <2> HIDE DEF s
  <2>2. ctrl' \in ctrl_t
    BY <2>1 DEF ctrl_t
  <2>3. Moved(s, ctrl.tag, ctrl.bus_err, ctrl.ofs_int, ctrl.ofs_ext)
    BY <2>1, <2>2 DEF Moved, Carried, ctrl_t
  <2> QED BY <2>3 DEF s
<1>5. ASSUME WriteDone(host_req, sync_i)
      PROVE  Moved(IF ctrl.sync = 1 THEN "S_SYNC_NEXT"
                   ELSE IF ctrl.bus_err = 1 THEN "S_IDLE" ELSE "S_CHECK", ctrl.tag, ctrl.bus_err,
                   ctrl.ofs_int, ctrl.ofs_ext)
  <2> DEFINE s == IF ctrl.sync = 1 THEN "S_SYNC_NEXT" ELSE IF ctrl.bus_err = 1 THEN "S_IDLE" ELSE "S_CHECK"
  <2>1. /\ ctrl.state = "S_WRITE_DONE" /\ s \in state_t
        /\ ctrl' = [n EXCEPT !.cln = 1, !.state = s]
    BY <1>5 DEF WriteDone, state_t, n
  <2> HIDE DEF s
  <2>2. ctrl' \in ctrl_t
    BY <2>1 DEF ctrl_t
  <2>3. Moved(s, ctrl.tag, ctrl.bus_err, ctrl.ofs_int, ctrl.ofs_ext)
    BY <2>1, <2>2 DEF Moved, Carried, ctrl_t
  <2> QED BY <2>3 DEF s
<1>6. ASSUME Bypass(host_req, sync_i, bus_rsp)
      PROVE  Moved(IF bus_rsp.ack = 1 THEN "S_IDLE" ELSE "S_BYPASS", ctrl.tag, ctrl.bus_err,
                   ctrl.ofs_int, ctrl.ofs_ext)
  <2> DEFINE s == IF bus_rsp.ack = 1 THEN "S_IDLE" ELSE "S_BYPASS"
  <2>1. /\ ctrl.state = "S_BYPASS" /\ s \in state_t
        /\ ctrl' = [n EXCEPT !.state = s]
    BY <1>6 DEF Bypass, state_t, n
  <2> HIDE DEF s
  <2>2. ctrl' \in ctrl_t
    BY <2>1 DEF ctrl_t
  <2>3. Moved(s, ctrl.tag, ctrl.bus_err, ctrl.ofs_int, ctrl.ofs_ext)
    BY <2>1, <2>2 DEF Moved, Carried, ctrl_t
  <2> QED BY <2>3 DEF s
<1> QED BY <1>4, <1>5, <1>6

\* The idle engine takes an access unless a fence is pending.
Taken == ctrl.pnd_syn = 0 /\ (host_req.stb = 1 \/ ctrl.pnd_req = 1)

LEMMA IdleStep ==
  ASSUME TypeInv, Idle(host_req, sync_i)
  PROVE  /\ ctrl' \in ctrl_t /\ ctrl'.bus_err = 0 /\ ctrl'.sync = 0
         /\ ctrl'.hit = 0 /\ ctrl'.cln = 0 /\ ctrl'.bp_req = 0
         /\ (ctrl'.pnd_req = 1 <=> ctrl.pnd_req = 1 \/ host_req.stb = 1)
         /\ (ctrl'.pnd_syn = 1 <=> ctrl.pnd_syn = 1 \/ sync_i = 1)
         /\ (ctrl'.pnd_bp = 1 <=> Taken /\ (TagOf(host_req.addr) >= UC_BEGIN \/ host_req.amo = 1))
         /\ ctrl'.state = IF Taken THEN "S_CHECK" ELSE IF ctrl.pnd_syn = 1 THEN "S_SYNC_START" ELSE "S_IDLE"
<1> DEFINE n == CtrlNext(host_req, sync_i)
<1>1. /\ n \in ctrl_t
      /\ n.state = ctrl.state /\ n.sync = ctrl.sync /\ n.bus_err = ctrl.bus_err
      /\ (n.pnd_req = 1 <=> ctrl.pnd_req = 1 \/ host_req.stb = 1)
      /\ (n.pnd_syn = 1 <=> ctrl.pnd_syn = 1 \/ sync_i = 1)
      /\ n.pnd_bp = ctrl.pnd_bp /\ n.bp_req = 0 /\ n.hit = 0 /\ n.cln = 0
      /\ n.tag = ctrl.tag /\ n.idx = ctrl.idx
      /\ n.ofs_int = ctrl.ofs_int /\ n.ofs_ext = ctrl.ofs_ext /\ n.ofs_buf = ctrl.ofs_ext
  BY NextFields DEF TypeInv, CacheTypeOK
<1>2. ctrl \in ctrl_t /\ bus_rsp.ack \in Bit
  BY DEF TypeInv, CacheTypeOK, bus_rsp_t
<1>3. 0 \in Bit /\ 1 \in Bit
  BY DEF Bit
<1> USE <1>1, <1>2, <1>3
<1> HIDE DEF n
<1> DEFINE s == IF Taken THEN "S_CHECK" ELSE IF ctrl.pnd_syn = 1 THEN "S_SYNC_START" ELSE "S_IDLE"
           b == IF Taken /\ (TagOf(host_req.addr) >= UC_BEGIN \/ host_req.amo = 1) THEN 1 ELSE 0
<1>4. /\ s \in state_t /\ b \in Bit
      /\ ctrl' = [n EXCEPT !.bus_err = 0, !.sync = 0, !.pnd_bp = b, !.state = s]
  BY DEF Idle, Taken, BitOf, state_t, ctrl_t, n
<1> HIDE DEF s, b
<1>5. ctrl' \in ctrl_t
  BY <1>4 DEF ctrl_t
<1>6. /\ ctrl'.bus_err = 0 /\ ctrl'.sync = 0 /\ ctrl'.pnd_bp = b /\ ctrl'.state = s
      /\ ctrl'.hit = n.hit /\ ctrl'.cln = n.cln /\ ctrl'.bp_req = n.bp_req
      /\ ctrl'.pnd_req = n.pnd_req /\ ctrl'.pnd_syn = n.pnd_syn
  BY <1>4 DEF ctrl_t
<1> QED BY <1>5, <1>6 DEF s, b

LEMMA CheckStep ==
  ASSUME TypeInv, NEW s \in state_t, CheckTo(host_req, sync_i, s)
  PROVE  /\ ctrl' \in ctrl_t /\ ctrl.state = "S_CHECK" /\ ctrl'.state = s
         /\ ctrl'.bus_err = ctrl.bus_err /\ ctrl'.sync = ctrl.sync /\ ctrl'.pnd_bp = ctrl.pnd_bp
         /\ ctrl'.hit = 0 /\ ctrl'.cln = 0 /\ ctrl'.bp_req = 1 /\ ctrl'.pnd_req = 0
         /\ (ctrl'.pnd_syn = 1 <=> ctrl.pnd_syn = 1 \/ sync_i = 1)
         /\ ctrl'.tag = TagOf(host_req.addr) /\ ctrl'.idx = IdxOf(host_req.addr)
         /\ ctrl'.ofs_int = 0 /\ ctrl'.ofs_ext = 0
<1> DEFINE n == CtrlNext(host_req, sync_i)
<1>1. /\ n \in ctrl_t
      /\ n.state = ctrl.state /\ n.sync = ctrl.sync /\ n.bus_err = ctrl.bus_err
      /\ (n.pnd_req = 1 <=> ctrl.pnd_req = 1 \/ host_req.stb = 1)
      /\ (n.pnd_syn = 1 <=> ctrl.pnd_syn = 1 \/ sync_i = 1)
      /\ n.pnd_bp = ctrl.pnd_bp /\ n.bp_req = 0 /\ n.hit = 0 /\ n.cln = 0
      /\ n.tag = ctrl.tag /\ n.idx = ctrl.idx
      /\ n.ofs_int = ctrl.ofs_int /\ n.ofs_ext = ctrl.ofs_ext /\ n.ofs_buf = ctrl.ofs_ext
  BY NextFields DEF TypeInv, CacheTypeOK
<1>2. ctrl \in ctrl_t /\ bus_rsp.ack \in Bit
  BY DEF TypeInv, CacheTypeOK, bus_rsp_t
<1>3. 0 \in Bit /\ 1 \in Bit
  BY DEF Bit
<1> USE <1>1, <1>2, <1>3
<1> HIDE DEF n
<1> DEFINE t == TagOf(host_req.addr)
           i == IdxOf(host_req.addr)
<1>4. /\ t \in Tag /\ i \in Index /\ ctrl.state = "S_CHECK"
      /\ ctrl' = [n EXCEPT !.tag = t, !.idx = i, !.ofs_ext = 0, !.ofs_int = 0,
                           !.pnd_req = 0, !.bp_req = 1, !.state = s]
  BY HostAddr DEF CheckTo, n
<1> HIDE DEF t, i
<1>5. ctrl' \in ctrl_t
  BY <1>4, Counters DEF ctrl_t
<1>6. /\ ctrl'.state = s /\ ctrl'.tag = t /\ ctrl'.idx = i /\ ctrl'.ofs_int = 0 /\ ctrl'.ofs_ext = 0
      /\ ctrl'.bp_req = 1 /\ ctrl'.pnd_req = 0
      /\ ctrl'.bus_err = n.bus_err /\ ctrl'.sync = n.sync /\ ctrl'.pnd_bp = n.pnd_bp
      /\ ctrl'.hit = n.hit /\ ctrl'.cln = n.cln /\ ctrl'.pnd_syn = n.pnd_syn
  BY <1>4 DEF ctrl_t
<1> QED BY <1>4, <1>5, <1>6 DEF t, i

LEMMA SyncSteps ==
  ASSUME TypeInv
  PROVE  /\ SyncStart(host_req, sync_i) =>
              /\ ctrl' \in ctrl_t /\ ctrl'.state = "S_SYNC_DELAY"
              /\ ctrl'.pnd_syn = 0 /\ ctrl'.sync = 1 /\ ctrl'.idx = 0
              /\ (ctrl'.pnd_req = 1 <=> ctrl.pnd_req = 1 \/ host_req.stb = 1)
         /\ SyncNext(host_req, sync_i) =>
              /\ ctrl' \in ctrl_t
              /\ ctrl'.state = IF ctrl.idx = NUM_BLOCKS - 1 THEN "S_IDLE" ELSE "S_SYNC_DELAY"
              /\ ctrl'.sync = ctrl.sync /\ ctrl'.idx = (ctrl.idx + 1) % NUM_BLOCKS
              /\ (ctrl'.pnd_req = 1 <=> ctrl.pnd_req = 1 \/ host_req.stb = 1)
              /\ (ctrl'.pnd_syn = 1 <=> ctrl.pnd_syn = 1 \/ sync_i = 1)
<1> DEFINE n == CtrlNext(host_req, sync_i)
<1>1. /\ n \in ctrl_t
      /\ n.state = ctrl.state /\ n.sync = ctrl.sync /\ n.bus_err = ctrl.bus_err
      /\ (n.pnd_req = 1 <=> ctrl.pnd_req = 1 \/ host_req.stb = 1)
      /\ (n.pnd_syn = 1 <=> ctrl.pnd_syn = 1 \/ sync_i = 1)
      /\ n.pnd_bp = ctrl.pnd_bp /\ n.bp_req = 0 /\ n.hit = 0 /\ n.cln = 0
      /\ n.tag = ctrl.tag /\ n.idx = ctrl.idx
      /\ n.ofs_int = ctrl.ofs_int /\ n.ofs_ext = ctrl.ofs_ext /\ n.ofs_buf = ctrl.ofs_ext
  BY NextFields DEF TypeInv, CacheTypeOK
<1>2. ctrl \in ctrl_t /\ bus_rsp.ack \in Bit
  BY DEF TypeInv, CacheTypeOK, bus_rsp_t
<1>3. 0 \in Bit /\ 1 \in Bit
  BY DEF Bit
<1> USE <1>1, <1>2, <1>3
<1> HIDE DEF n
<1>4. ASSUME SyncStart(host_req, sync_i)
      PROVE  /\ ctrl' \in ctrl_t /\ ctrl'.state = "S_SYNC_DELAY"
             /\ ctrl'.pnd_syn = 0 /\ ctrl'.sync = 1 /\ ctrl'.idx = 0
             /\ (ctrl'.pnd_req = 1 <=> ctrl.pnd_req = 1 \/ host_req.stb = 1)
  <2>1. ctrl' = [n EXCEPT !.pnd_syn = 0, !.sync = 1, !.idx = 0, !.state = "S_SYNC_DELAY"]
    BY <1>4 DEF SyncStart, n
  <2>2. ctrl' \in ctrl_t
    BY <2>1, Counters DEF ctrl_t, state_t
  <2> QED BY <2>1, <2>2 DEF ctrl_t
<1>5. ASSUME SyncNext(host_req, sync_i)
      PROVE  /\ ctrl' \in ctrl_t
             /\ ctrl'.state = IF ctrl.idx = NUM_BLOCKS - 1 THEN "S_IDLE" ELSE "S_SYNC_DELAY"
             /\ ctrl'.sync = ctrl.sync /\ ctrl'.idx = (ctrl.idx + 1) % NUM_BLOCKS
             /\ (ctrl'.pnd_req = 1 <=> ctrl.pnd_req = 1 \/ host_req.stb = 1)
             /\ (ctrl'.pnd_syn = 1 <=> ctrl.pnd_syn = 1 \/ sync_i = 1)
  <2> DEFINE s == IF ctrl.idx = NUM_BLOCKS - 1 THEN "S_IDLE" ELSE "S_SYNC_DELAY"
             i == (ctrl.idx + 1) % NUM_BLOCKS
  <2>1. /\ ctrl' = [n EXCEPT !.idx = i, !.state = s] /\ s \in state_t /\ i \in Index
    BY <1>5, Counters DEF SyncNext, ctrl_t, state_t, n
  <2> HIDE DEF s, i
  <2>2. ctrl' \in ctrl_t
    BY <2>1 DEF ctrl_t
  <2>3. /\ ctrl'.state = s /\ ctrl'.sync = n.sync /\ ctrl'.idx = i
        /\ ctrl'.pnd_req = n.pnd_req /\ ctrl'.pnd_syn = n.pnd_syn
    BY <2>1 DEF ctrl_t
  <2> QED BY <2>2, <2>3 DEF s, i
<1> QED BY <1>4, <1>5

-----------------------------------------------------------------------------
(* Every step keeps the types. *)

LEMMA CtrlType ==
  ASSUME TypeInv, CacheTick(host_req, sync_i, bus_rsp)
  PROVE  ctrl' \in ctrl_t
<1>1. CASE Idle(host_req, sync_i)
  BY <1>1, IdleStep
<1>2. CASE \/ CheckBypassUncached(host_req, sync_i) \/ CheckBypassDirty(host_req, sync_i)
           \/ CheckBypassClean(host_req, sync_i) \/ CheckHit(host_req, sync_i) \/ CheckMiss(host_req, sync_i)
  <2>1. PICK s \in state_t : CheckTo(host_req, sync_i, s)
    BY <1>2 DEF CheckBypassUncached, CheckBypassDirty, CheckBypassClean, CheckHit, CheckMiss, state_t
  <2> QED BY <2>1, CheckStep
<1>3. CASE SyncStart(host_req, sync_i) \/ SyncNext(host_req, sync_i)
  BY <1>3, SyncSteps
<1>4. CASE \/ SyncDelay(host_req, sync_i) \/ SyncCheck(host_req, sync_i) \/ ReadStart(host_req, sync_i)
           \/ WriteStart(host_req, sync_i) \/ WriteReq(host_req, sync_i) \/ WriteWait(host_req, sync_i)
  BY <1>4, StartSteps DEF Moved, Carried
<1>5. CASE \/ ReadWait(host_req, sync_i, bus_rsp) \/ WriteRsp(host_req, sync_i, bus_rsp)
           \/ ReadBurst(host_req, sync_i, bus_rsp) \/ WriteBurst(host_req, sync_i, bus_rsp)
  BY <1>5, WordSteps DEF Moved, Carried
<1>6. CASE \/ Bypass(host_req, sync_i, bus_rsp) \/ ReadDone(host_req, sync_i) \/ WriteDone(host_req, sync_i)
  BY <1>6, EndSteps DEF Moved, Carried
<1> QED BY <1>1, <1>2, <1>3, <1>4, <1>5, <1>6 DEF CacheTick

\* What the engine does to the memories is always one command.
LEMMA Commands ==
  ASSUME TypeInv, CacheTick(host_req, sync_i, bus_rsp)
  PROVE  \E c \in Command : CacheRam(c)
<1> DEFINE h == Look(host_req.addr)
           a == Look(CtrlAddr)
           r == ReadAhead
<1>1. /\ h \in Command /\ a \in Command /\ r \in Command
  BY HostAddr, CtrlAddrParts, LookCommand, AddrWrap DEF ReadAhead, TypeInv, CacheTypeOK, ctrl_t
<1>0. /\ ctrl.bus_err \in Bit /\ 1 - ctrl.bus_err \in Bit /\ 1 \in Bit
      /\ host_req.ben \in WordBE /\ host_req.data \in Word
  BY DEF Bit, TypeInv, CacheTypeOK, HostTypeOK, ctrl_t, bus_req_t
<1> HIDE DEF h, a
<1>2. /\ [h EXCEPT !.set = 1] \in Command
      /\ [h EXCEPT !.set = 1, !.vld = 1 - ctrl.bus_err] \in Command
      /\ [h EXCEPT !.we = host_req.ben, !.data = host_req.data, !.drt = 1] \in Command
  BY <1>0, <1>1 DEF Command
<1>3. /\ [a EXCEPT !.set = 1, !.drt = ctrl.bus_err, !.vld = ctrl.bus_err] \in Command
      /\ [a EXCEPT !.set = 1, !.vld = 1 - ctrl.bus_err] \in Command
  BY <1>0, <1>1 DEF Command
<1>4. Fill(bus_rsp) \in Command
  <2>1. bus_rsp.data \in Word /\ ByteSel \in WordBE
    BY DEF TypeInv, bus_rsp_t, WordBE
  <2>2. Fill(bus_rsp) = [a EXCEPT !.we = ByteSel, !.data = bus_rsp.data]
    BY DEF Fill, a
  <2> QED BY <1>1, <2>1, <2>2 DEF Command
<1> USE <1>1, <1>2, <1>3, <1>4
<1> HIDE DEF r
<1>5. CASE Idle(host_req, sync_i)
  BY <1>5 DEF Idle, h
<1>6. CASE \/ CheckBypassUncached(host_req, sync_i) \/ CheckBypassDirty(host_req, sync_i)
           \/ CheckBypassClean(host_req, sync_i) \/ CheckHit(host_req, sync_i) \/ CheckMiss(host_req, sync_i)
  BY <1>6 DEF CheckBypassUncached, CheckBypassDirty, CheckBypassClean, CheckHit, CheckMiss, h
<1>7. CASE SyncStart(host_req, sync_i) \/ SyncDelay(host_req, sync_i) \/ SyncCheck(host_req, sync_i) \/ SyncNext(host_req, sync_i)
  BY <1>7 DEF SyncStart, SyncDelay, SyncCheck, SyncNext, h, a
<1>8. CASE \/ Bypass(host_req, sync_i, bus_rsp) \/ ReadStart(host_req, sync_i)
           \/ ReadWait(host_req, sync_i, bus_rsp) \/ ReadBurst(host_req, sync_i, bus_rsp) \/ ReadDone(host_req, sync_i)
  BY <1>8 DEF Bypass, ReadStart, ReadWait, ReadBurst, ReadDone, h
<1>9. CASE \/ WriteStart(host_req, sync_i) \/ WriteReq(host_req, sync_i) \/ WriteRsp(host_req, sync_i, bus_rsp)
           \/ WriteWait(host_req, sync_i) \/ WriteBurst(host_req, sync_i, bus_rsp) \/ WriteDone(host_req, sync_i)
  BY <1>9 DEF WriteStart, WriteReq, WriteRsp, WriteWait, WriteBurst, WriteDone, a, r
<1> QED BY <1>5, <1>6, <1>7, <1>8, <1>9 DEF CacheTick

LEMMA CacheReqType ==
  ASSUME TypeInv
  PROVE  CacheReq \in bus_req_t
<1>1. AddrOf(ctrl.tag, ctrl.idx, ctrl.ofs_buf) \in Addr /\ AddrOf(ctrl.tag, ctrl.idx, ctrl.ofs_ext) \in Addr
  BY AddrWrap DEF TypeInv, CacheTypeOK, ctrl_t
<1>2. rd.data \in Word /\ ByteSel \in WordBE /\ ctrl.bp_req \in Bit /\ host_req \in bus_req_t
  BY DEF TypeInv, CacheTypeOK, HostTypeOK, ctrl_t, WordBE
<1>3. BitOf(Uploading) \in Bit /\ BitOf(BlockStrobe) \in Bit /\ 0 \in Bit
  BY DEF BitOf, Bit
<1>4. CASE ctrl.state = "S_BYPASS"
  BY <1>2, <1>4 DEF CacheReq, cache_req, bus_req_t
<1>5. CASE ctrl.state # "S_BYPASS"
  BY <1>1, <1>2, <1>3, <1>5, ZeroType DEF CacheReq, cache_req, bus_req_t
<1> QED BY <1>4, <1>5

LEMMA QueueType ==
  ASSUME TypeInv
  PROVE  Queue \in Seq(bus_req_t) /\ (Queue # <<>> => Head(Queue) \in bus_req_t /\ Tail(Queue) \in Seq(bus_req_t))
  BY CacheReqType DEF Queue, TypeInv

LEMMA BusType ==
  ASSUME TypeInv, BusAnswer \/ BusStall
  PROVE  bus_rsp' \in bus_rsp_t /\ pend' \in Seq(bus_req_t) /\ main' \in [Addr -> Word]
<1>1. CASE BusStall
  BY <1>1, QueueType, ZeroType DEF BusStall, RspIdle, bus_rsp_t, Bit, TypeInv
<1>2. CASE BusAnswer
  <2> DEFINE q == Head(Queue)
  <2>1. q \in bus_req_t /\ pend' \in Seq(bus_req_t)
    BY <1>2, QueueType DEF BusAnswer
  <2>2. q.addr \in Addr /\ q.data \in Word
    BY <2>1 DEF bus_req_t
  <2>3. main \in [Addr -> Word] /\ main[q.addr] \in Word
    BY <2>2 DEF TypeInv
  <2>4. MergeWord(main[q.addr], q.data, q.ben) \in Word
    BY <2>2, <2>3, MergeType
  <2>5. PICK err \in Bit :
          /\ bus_rsp' = [ack |-> 1, err |-> err, data |-> IF err = 0 THEN main[q.addr] ELSE ZeroWord]
          /\ main' = IF err = 0 /\ (q.rw = 1 \/ q.amo = 1)
                     THEN [main EXCEPT ![q.addr] = MergeWord(@, q.data, q.ben)] ELSE main
    BY <1>2 DEF BusAnswer, Bit
  <2> HIDE DEF q
  <2>6. main' \in [Addr -> Word]
    BY <2>2, <2>3, <2>4, <2>5
  <2> QED BY <2>1, <2>3, <2>5, <2>6, ZeroType DEF bus_rsp_t, Bit
<1> QED BY <1>1, <1>2

\* The CPU issues an access, rests, or waits for its answer.
LEMMA HostStep ==
  ASSUME TypeInv, HostTick(Answered), generics' = generics
  PROVE  /\ host_req' \in bus_req_t /\ sync_i' \in Bit
         /\ ~READ_ONLY /\ host_state' = "wait" => sync_i' = 0
         /\ \/ /\ host_state = "ready" \/ Answered
               /\ host_state' = "wait" /\ host_req'.stb = 1 /\ host_req' \in HostReqs[generics]
            \/ /\ host_state = "ready" \/ Answered
               /\ host_state' = "ready" /\ host_req' = [host_req EXCEPT !.stb = 0] /\ host_req'.stb = 0
            \/ /\ host_state = "wait" /\ ~Answered
               /\ host_state' = "wait" /\ host_req' = [host_req EXCEPT !.stb = 0] /\ host_req'.stb = 0
<1>1. /\ HostReqs[generics] \subseteq {r \in bus_req_t : r.stb = 1}
      /\ host_req \in bus_req_t /\ 0 \in Bit
  BY HostAssumption DEF TypeInv, CacheTypeOK, HostTypeOK, Bit
<1>2. [host_req EXCEPT !.stb = 0] \in bus_req_t /\ [host_req EXCEPT !.stb = 0].stb = 0
  BY <1>1 DEF bus_req_t
<1>3. sync_i' \in Bit /\ (~READ_ONLY /\ host_state' = "wait" => sync_i' = 0)
  BY DEF HostTick, Bit
<1> QED BY <1>1, <1>2, <1>3 DEF HostTick, HostIssue, HostRest, HostWait

LEMMA TypeStep ==
  ASSUME TypeInv, [Next]_vars
  PROVE  TypeInv'
<1>1. CASE TickWith(BusAnswer) \/ TickWith(BusStall)
  <2>1. CacheTick(host_req, sync_i, bus_rsp) /\ HostTick(Answered) /\ (BusAnswer \/ BusStall) /\ History
    BY <1>1 DEF TickWith
  <2>2. generics' = generics
    BY <2>1 DEF CacheTick
  <2>3. PICK c \in Command : CacheRam(c)
    BY <2>1, Commands
  <2>4. ram' \in ram_t /\ rd' \in [valid : Bit, dirty : Bit, tag : Tag, data : Word]
    BY <2>3, RamStep
  <2>5. CacheTypeOK'
    BY <2>1, <2>2, <2>4, CtrlType DEF CacheTypeOK, TypeInv, ctrl_t, ram_t
  <2>6. host_state' \in {"ready", "wait"} /\ host_req' \in bus_req_t /\ sync_i' \in Bit
    BY <2>1, <2>2, HostStep
  <2>7. failed' \in BOOLEAN
    BY <2>1 DEF History, TypeInv
  <2> QED BY <2>1, <2>5, <2>6, <2>7, BusType DEF TypeInv, HostTypeOK
<1>2. CASE OtherWrite
  <2>1. main' \in [Addr -> Word]
    BY <1>2, CacheSystemAssumption DEF OtherWrite, TypeInv, CacheTypeOK
  <2> QED BY <1>2, <2>1 DEF OtherWrite, TypeInv, CacheTypeOK, HostTypeOK, cacheVars, hostVars
<1>3. CASE UNCHANGED vars
  BY <1>3 DEF vars, cacheVars, hostVars, busVars, histVars, TypeInv, CacheTypeOK, HostTypeOK
<1> QED BY <1>1, <1>2, <1>3 DEF Next, Tick

-----------------------------------------------------------------------------
(* The engine's course: it takes an access, serves it, finishes it, or works *)
(* for a fence.                                                              *)

\* The access is answered in this cycle.
Finishing ==
  \/ ctrl.state = "S_CHECK" /\ ctrl.pnd_bp = 0 /\ BlockHit(host_req)
  \/ ctrl.state = "S_BYPASS" /\ bus_rsp.ack = 1
  \/ ctrl.bus_err = 1 /\ (ctrl.state = "S_READ_DONE" \/ (ctrl.state = "S_WRITE_DONE" /\ ctrl.sync = 0))

LEMMA AnsweredIs ==
  ASSUME TypeInv
  PROVE  Answered <=> host_state = "wait" /\ Finishing
<1>1. bus_rsp.ack \in Bit
  BY DEF TypeInv, bus_rsp_t
<1>2. CASE ctrl.state = "S_BYPASS"
  BY <1>2 DEF Answered, HostRsp, cache_rsp, Finishing
<1>3. CASE ctrl.state # "S_BYPASS"
  <2>1. HostRsp.ack = 1 <=> TransferFailed \/ (ctrl.state = "S_CHECK" /\ ctrl.pnd_bp = 0 /\ BlockHit(host_req))
    BY <1>3 DEF HostRsp, cache_rsp, BitOf
  <2> QED BY <1>3, <2>1 DEF Answered, TransferFailed, Finishing
<1> QED BY <1>2, <1>3

Takes ==
  /\ ctrl.state = "S_IDLE" /\ Taken
  /\ ctrl'.state = "S_CHECK" /\ ctrl'.sync = 0 /\ ctrl'.bus_err = 0
  /\ (ctrl'.pnd_bp = 1 <=> TagOf(host_req.addr) >= UC_BEGIN \/ host_req.amo = 1)
  /\ (ctrl'.pnd_req = 1 <=> ctrl.pnd_req = 1 \/ host_req.stb = 1)
  /\ (ctrl'.pnd_syn = 1 <=> ctrl.pnd_syn = 1 \/ sync_i = 1)

Rests ==
  /\ ctrl.state = "S_IDLE" /\ ~Taken
  /\ ctrl'.state = IF ctrl.pnd_syn = 1 THEN "S_SYNC_START" ELSE "S_IDLE"
  /\ ctrl'.sync = 0
  /\ (ctrl'.pnd_req = 1 <=> ctrl.pnd_req = 1 \/ host_req.stb = 1)
  /\ (ctrl'.pnd_syn = 1 <=> ctrl.pnd_syn = 1 \/ sync_i = 1)

Serves ==
  /\ Serving /\ ~Finishing
  /\ ctrl'.state \in {"S_CHECK", "S_BYPASS"} \cup Reading \cup Writing
  /\ ctrl'.sync = 0 /\ ctrl'.pnd_bp = ctrl.pnd_bp /\ ctrl'.pnd_req = 0
  /\ (ctrl'.pnd_syn = 1 <=> ctrl.pnd_syn = 1 \/ sync_i = 1)

Finishes ==
  /\ Serving /\ Finishing
  /\ ctrl'.state = "S_IDLE" /\ ctrl'.sync = 0 /\ ctrl'.pnd_req = 0
  /\ (ctrl'.pnd_syn = 1 <=> ctrl.pnd_syn = 1 \/ sync_i = 1)

Fences ==
  /\ ~Serving /\ ~Finishing /\ ctrl.state \in Syncing \cup Writing
  /\ ctrl'.state \in (Syncing \ {"S_SYNC_START"}) \cup Writing \cup {"S_IDLE"}
  /\ ctrl'.sync = 1
  /\ (ctrl'.pnd_req = 1 <=> ctrl.pnd_req = 1 \/ host_req.stb = 1)

LEMMA EngineStep ==
  ASSUME TypeInv, HostSide, FenceSide, CacheTick(host_req, sync_i, bus_rsp)
  PROVE  Takes \/ Rests \/ Serves \/ Finishes \/ Fences
<1>1. ctrl \in ctrl_t /\ ctrl' \in ctrl_t /\ bus_rsp.ack \in Bit
  BY CtrlType DEF TypeInv, CacheTypeOK, bus_rsp_t
<1>2. Serving => ctrl.sync = 0 /\ host_req.stb # 1 /\ (ctrl.state # "S_CHECK" => ctrl.pnd_req # 1)
  BY <1>1 DEF Serving, HostSide, FenceSide, ctrl_t, Bit
<1>3. \A v \in Bit : v # 1 => v = 0
  BY DEF Bit
<1>4. CASE Idle(host_req, sync_i)
  <2>1. ctrl.state = "S_IDLE"
    BY <1>4 DEF Idle
  <2> QED BY <1>4, <2>1, IdleStep DEF Takes, Rests
<1>5. ASSUME NEW s \in {"S_BYPASS", "S_WRITE_START", "S_READ_START"},
             CheckTo(host_req, sync_i, s), ~(ctrl.pnd_bp = 0 /\ BlockHit(host_req))
      PROVE  Serves
  <2>1. /\ ctrl.state = "S_CHECK" /\ ctrl'.state = s /\ ctrl'.sync = ctrl.sync /\ ctrl'.pnd_bp = ctrl.pnd_bp
        /\ ctrl'.pnd_req = 0 /\ (ctrl'.pnd_syn = 1 <=> ctrl.pnd_syn = 1 \/ sync_i = 1)
    BY <1>5, CheckStep DEF state_t
  <2>2. Serving /\ ~Finishing
    BY <1>5, <2>1 DEF Serving, Finishing
  <2> QED BY <1>2, <2>1, <2>2 DEF Serves, Reading, Writing
<1>6. CASE CheckHit(host_req, sync_i)
  <2>1. CheckTo(host_req, sync_i, "S_IDLE") /\ ctrl.pnd_bp = 0 /\ BlockHit(host_req) /\ "S_IDLE" \in state_t
    BY <1>6 DEF CheckHit, state_t
  <2>2. /\ ctrl.state = "S_CHECK" /\ ctrl'.state = "S_IDLE" /\ ctrl'.sync = ctrl.sync
        /\ ctrl'.pnd_req = 0 /\ (ctrl'.pnd_syn = 1 <=> ctrl.pnd_syn = 1 \/ sync_i = 1)
    BY <2>1, CheckStep
  <2>3. Serving /\ Finishing
    BY <2>1, <2>2 DEF Serving, Finishing
  <2> QED BY <1>2, <2>2, <2>3 DEF Finishes
<1>7. CASE \/ CheckBypassUncached(host_req, sync_i) \/ CheckBypassDirty(host_req, sync_i)
           \/ CheckBypassClean(host_req, sync_i) \/ CheckMiss(host_req, sync_i)
  <2>1. ctrl.pnd_bp = 1 => ctrl.pnd_bp # 0
    OBVIOUS
  <2>2. PICK s \in {"S_BYPASS", "S_WRITE_START", "S_READ_START"} :
          CheckTo(host_req, sync_i, s) /\ ~(ctrl.pnd_bp = 0 /\ BlockHit(host_req))
    BY <1>7, <2>1 DEF CheckBypassUncached, CheckBypassDirty, CheckBypassClean, CheckMiss
  <2> QED BY <1>5, <2>2
<1>8. CASE SyncStart(host_req, sync_i) \/ SyncNext(host_req, sync_i)
  <2>1. ctrl.state \in {"S_SYNC_START", "S_SYNC_NEXT"} /\ (SyncNext(host_req, sync_i) => ctrl.state = "S_SYNC_NEXT")
    BY <1>8 DEF SyncStart, SyncNext
  <2>2. ~Serving /\ ~Finishing /\ (ctrl.state = "S_SYNC_NEXT" => ctrl.sync = 1)
    BY <2>1 DEF Serving, Reading, Writing, Finishing, FenceSide, Syncing
  <2> QED BY <1>8, <2>1, <2>2, SyncSteps DEF Fences, Syncing
<1>9. CASE SyncDelay(host_req, sync_i) \/ SyncCheck(host_req, sync_i)
  <2>1. ctrl.state \in {"S_SYNC_DELAY", "S_SYNC_CHECK"}
    BY <1>9 DEF SyncDelay, SyncCheck
  <2>2. ~Serving /\ ~Finishing /\ ctrl.sync = 1
    BY <2>1 DEF Serving, Reading, Writing, Finishing, FenceSide, Syncing
  <2>3. Carried /\ ctrl'.state \in {"S_SYNC_CHECK", "S_WRITE_START", "S_SYNC_NEXT"}
    BY <1>9, StartSteps DEF Moved
  <2> QED BY <2>1, <2>2, <2>3 DEF Fences, Syncing, Writing, Carried
<1>10. ASSUME Carried, ctrl.state \in Reading \cup (Writing \ {"S_WRITE_DONE"}), ctrl.state # "S_READ_DONE",
              ctrl'.state \in Reading \cup Writing,
              ctrl.state \in Reading => ctrl'.state \in Reading,
              ctrl.state \in Writing => ctrl'.state \in Writing
       PROVE  Serves \/ Fences
  <2>1. ~Finishing
    BY <1>10 DEF Finishing, Reading, Writing
  <2>2. CASE Serving
    BY <1>1, <1>2, <1>3, <1>10, <2>1, <2>2 DEF Serves, Carried, Reading, Writing, ctrl_t
  <2>3. CASE ~Serving
    <3>1. ctrl.state \in Writing /\ ctrl.sync = 1
      BY <1>1, <1>10, <2>3 DEF Serving, ctrl_t, Bit
    <3> QED BY <1>10, <2>1, <2>3, <3>1 DEF Fences, Carried
  <2> QED BY <2>2, <2>3
<1>11. CASE ReadStart(host_req, sync_i) \/ WriteStart(host_req, sync_i) \/ WriteReq(host_req, sync_i) \/ WriteWait(host_req, sync_i)
  <2>1. Carried /\ ctrl.state \in {"S_READ_START", "S_WRITE_START", "S_WRITE_REQ", "S_WRITE_WAIT"}
    BY <1>11, StartSteps DEF ReadStart, WriteStart, WriteReq, WriteWait, Moved
  <2>2. /\ ctrl.state = "S_READ_START" => ctrl'.state = "S_READ_WAIT"
        /\ ctrl.state # "S_READ_START" => ctrl'.state \in {"S_WRITE_REQ", "S_WRITE_RSP", "S_WRITE_BURST"}
    BY <1>11, StartSteps DEF ReadStart, WriteStart, WriteReq, WriteWait, Moved
  <2> QED BY <1>10, <2>1, <2>2 DEF Reading, Writing
<1>12. CASE ReadWait(host_req, sync_i, bus_rsp) \/ ReadBurst(host_req, sync_i, bus_rsp)
  <2>1. Carried /\ ctrl.state \in {"S_READ_WAIT", "S_READ_BURST"} /\ ctrl'.state \in Reading
    BY <1>12, WordSteps DEF ReadWait, ReadBurst, Moved, Reading
  <2> QED BY <1>10, <2>1 DEF Reading, Writing
<1>13. CASE WriteRsp(host_req, sync_i, bus_rsp) \/ WriteBurst(host_req, sync_i, bus_rsp)
  <2>1. Carried /\ ctrl.state \in {"S_WRITE_RSP", "S_WRITE_BURST"} /\ ctrl'.state \in Writing
    BY <1>13, WordSteps DEF WriteRsp, WriteBurst, Moved, Writing
  <2> QED BY <1>10, <2>1 DEF Reading, Writing
<1>14. CASE ReadDone(host_req, sync_i)
  <2>1. Carried /\ ctrl.state = "S_READ_DONE" /\ ctrl'.state = IF ctrl.bus_err = 1 THEN "S_IDLE" ELSE "S_CHECK"
    BY <1>14, EndSteps DEF ReadDone, Moved
  <2>2. Serving /\ (Finishing <=> ctrl.bus_err = 1)
    BY <2>1 DEF Serving, Reading, Finishing
  <2> QED BY <1>1, <1>2, <1>3, <2>1, <2>2 DEF Serves, Finishes, Carried, ctrl_t
<1>15. CASE WriteDone(host_req, sync_i)
  <2>1. /\ Carried /\ ctrl.state = "S_WRITE_DONE"
        /\ ctrl'.state = IF ctrl.sync = 1 THEN "S_SYNC_NEXT" ELSE IF ctrl.bus_err = 1 THEN "S_IDLE" ELSE "S_CHECK"
    BY <1>15, EndSteps DEF WriteDone, Moved
  <2>2. CASE ctrl.sync = 1
    <3>1. ~Serving /\ ~Finishing
      <4>1. ctrl.sync # 0
        BY <2>2
      <4> QED BY <2>1, <4>1 DEF Serving, Reading, Finishing
    <3> QED BY <2>1, <2>2, <3>1 DEF Fences, Carried, Syncing, Writing
  <2>3. CASE ctrl.sync # 1
    <3>1. ctrl.sync = 0
      BY <1>1, <1>3, <2>3 DEF ctrl_t
    <3>2. Serving /\ (Finishing <=> ctrl.bus_err = 1)
      BY <2>1, <3>1 DEF Serving, Writing, Finishing
    <3> QED BY <1>1, <1>2, <1>3, <2>1, <2>3, <3>2 DEF Serves, Finishes, Carried, ctrl_t
  <2> QED BY <2>2, <2>3
<1>16. CASE Bypass(host_req, sync_i, bus_rsp)
  <2>1. /\ Carried /\ ctrl.state = "S_BYPASS"
        /\ ctrl'.state = IF bus_rsp.ack = 1 THEN "S_IDLE" ELSE "S_BYPASS"
    BY <1>16, EndSteps DEF Bypass, Moved
  <2>2. Serving /\ (Finishing <=> bus_rsp.ack = 1)
    BY <2>1 DEF Serving, Finishing
  <2> QED BY <1>1, <1>2, <1>3, <2>1, <2>2 DEF Serves, Finishes, Carried, ctrl_t
<1> QED BY <1>4, <1>6, <1>7, <1>8, <1>9, <1>11, <1>12, <1>13, <1>14, <1>15, <1>16 DEF CacheTick

-----------------------------------------------------------------------------
(* The access and the fence, step by step. *)

\* A clock edge, seen from the engine, the CPU and the bus.
Edge ==
  /\ CacheTick(host_req, sync_i, bus_rsp) /\ HostTick(Answered)
  /\ BusAnswer \/ BusStall
  /\ History

LEMMA ServingNext ==
  ASSUME TypeInv, TypeInv'
  PROVE  /\ Takes => Serving'
         /\ Rests => ~Serving'
         /\ Serves => Serving'
         /\ Finishes => ~Serving'
         /\ Fences => ~Serving'
<1>1. ctrl'.sync = 1 => ctrl'.sync # 0
  OBVIOUS
<1> QED BY <1>1 DEF Takes, Rests, Serves, Finishes, Fences, Serving, Syncing, Reading, Writing

LEMMA FinishServes ==
  ASSUME Finishing
  PROVE  Serving
  BY DEF Finishing, Serving, Reading, Writing

LEMMA GenuineStep ==
  ASSUME TypeInv, HostSide, Edge, host_state' = "wait"
  PROVE  Genuine'
<1>1. generics' = generics
  BY DEF Edge, CacheTick
<1>2. HostReqs[generics] \subseteq {r \in bus_req_t : r.stb = 1}
  BY HostAssumption DEF TypeInv, CacheTypeOK
<1>3. CASE host_req' \in HostReqs[generics]
  <2>1. host_req' = [host_req' EXCEPT !.stb = host_req'.stb]
    BY <1>2, <1>3 DEF bus_req_t
  <2> QED BY <1>1, <1>3, <2>1 DEF Genuine
<1>4. CASE host_state = "wait" /\ host_req' = [host_req EXCEPT !.stb = 0] /\ host_req'.stb = 0
  <2>1. PICK r \in HostReqs[generics] : host_req = [r EXCEPT !.stb = host_req.stb]
    BY <1>4 DEF HostSide, Genuine
  <2>2. host_req' = [r EXCEPT !.stb = host_req'.stb]
    BY <1>2, <1>4, <2>1 DEF bus_req_t
  <2> QED BY <1>1, <2>2 DEF Genuine
<1> QED BY <1>1, <1>3, <1>4, HostStep DEF Edge

LEMMA HostSideStep ==
  ASSUME TypeInv, TypeInv', HostSide, FenceSide, Edge
  PROVE  HostSide'
<1>1. generics' = generics /\ (Takes \/ Rests \/ Serves \/ Finishes \/ Fences)
  BY EngineStep DEF Edge, CacheTick
<1>2. Answered <=> host_state = "wait" /\ Finishing
  BY AnsweredIs
<1>3. \/ /\ host_state = "ready" \/ Answered
         /\ host_state' = "wait" /\ host_req'.stb = 1
      \/ /\ host_state = "ready" \/ Answered
         /\ host_state' = "ready" /\ host_req'.stb = 0
      \/ /\ host_state = "wait" /\ ~Answered
         /\ host_state' = "wait" /\ host_req'.stb = 0
  BY <1>1, HostStep DEF Edge
<1>4. host_state' = "wait" => Genuine'
  BY GenuineStep
<1>5. /\ ctrl.pnd_req \in Bit /\ ctrl'.pnd_req \in Bit /\ host_req.stb \in Bit
      /\ \A v \in Bit : v = 0 <=> v # 1
  BY DEF TypeInv, CacheTypeOK, HostTypeOK, ctrl_t, bus_req_t, Bit
<1>6. /\ host_state = "ready" => host_req.stb = 0 /\ ctrl.pnd_req = 0 /\ ~Serving
      /\ host_req.stb = 1 => ctrl.pnd_req = 0 /\ ~Serving
      /\ host_state = "wait" /\ ~Serving => host_req.stb = 1 \/ ctrl.pnd_req = 1
      /\ ctrl.pnd_req = 1 => ctrl.state = "S_CHECK" \/ ~Serving
      /\ host_state \in {"ready", "wait"}
  BY DEF HostSide, TypeInv, HostTypeOK
<1>7. Finishing => Serving
  BY FinishServes
<1>8. CASE Takes
  <2>1. ~Serving /\ Serving' /\ ctrl'.state = "S_CHECK" /\ (host_req.stb = 1 \/ ctrl.pnd_req = 1)
    BY <1>8, ServingNext DEF Takes, Taken, Serving, Reading, Writing
  <2>2. host_state = "wait" /\ ~Answered
    BY <1>2, <1>5, <1>6, <1>7, <2>1
  <2> QED BY <1>3, <1>4, <2>1, <2>2 DEF HostSide
<1>9. CASE Rests \/ Fences
  <2>1. ~Serving /\ ~Serving' /\ (ctrl'.pnd_req = 1 <=> ctrl.pnd_req = 1 \/ host_req.stb = 1)
    BY <1>9, ServingNext DEF Rests, Fences, Serving, Reading, Writing
  <2>2. ~Answered
    BY <1>2, <1>7, <2>1
  <2> QED BY <1>3, <1>4, <1>5, <1>6, <2>1, <2>2 DEF HostSide
<1>10. CASE Serves
  <2>1. Serving /\ ~Finishing /\ Serving' /\ ctrl'.pnd_req = 0
    BY <1>10, ServingNext DEF Serves
  <2>2. host_state = "wait" /\ ~Answered
    BY <1>2, <1>6, <2>1
  <2> QED BY <1>3, <1>4, <1>5, <2>1, <2>2 DEF HostSide
<1>11. CASE Finishes
  <2>1. Serving /\ Finishing /\ ~Serving' /\ ctrl'.pnd_req = 0
    BY <1>11, ServingNext DEF Finishes
  <2>2. host_state = "wait" /\ Answered
    BY <1>2, <1>6, <2>1
  <2> QED BY <1>3, <1>4, <1>5, <2>1, <2>2 DEF HostSide
<1> QED BY <1>1, <1>8, <1>9, <1>10, <1>11

LEMMA FenceSideStep ==
  ASSUME TypeInv, TypeInv', HostSide, FenceSide, Edge
  PROVE  FenceSide'
<1>1. generics' = generics /\ (Takes \/ Rests \/ Serves \/ Finishes \/ Fences)
  BY EngineStep DEF Edge, CacheTick
<1>2. ~READ_ONLY /\ host_state' = "wait" => sync_i' = 0
  BY <1>1, HostStep DEF Edge
<1>3. /\ ctrl'.pnd_syn \in Bit /\ sync_i \in Bit /\ ctrl.pnd_syn \in Bit
      /\ \A v \in Bit : v = 0 <=> v # 1
  BY DEF TypeInv, CacheTypeOK, HostTypeOK, ctrl_t, Bit
<1>4. /\ ctrl'.state \in Syncing \ {"S_SYNC_START"} => ctrl'.sync = 1
      /\ ctrl'.state \in {"S_CHECK", "S_BYPASS"} \cup Reading => ctrl'.sync = 0
  BY <1>1 DEF Takes, Rests, Serves, Finishes, Fences, Syncing, Reading, Writing
<1>5. ASSUME ~READ_ONLY, Serving'
      PROVE  ctrl'.pnd_syn = 0
  <2>1. Takes \/ Serves
    BY <1>1, <1>5, ServingNext
  <2>2. CASE Serves
    <3>1. host_state = "wait" /\ ctrl.pnd_syn = 0 /\ sync_i = 0
      BY <1>5, <2>2 DEF Serves, HostSide, FenceSide, TypeInv, HostTypeOK
    <3> QED BY <1>3, <2>2, <3>1 DEF Serves
  <2>3. CASE Takes
    <3>1. host_state = "wait" /\ ctrl.pnd_syn = 0
      BY <1>3, <2>3 DEF Takes, Taken, HostSide, TypeInv, HostTypeOK
    <3>2. sync_i = 0
      BY <1>5, <3>1 DEF FenceSide
    <3> QED BY <1>3, <2>3, <3>1, <3>2 DEF Takes
  <2> QED BY <2>1, <2>2, <2>3
<1>6. READ_ONLY' <=> READ_ONLY
  BY <1>1 DEF READ_ONLY
<1> QED BY <1>2, <1>4, <1>5, <1>6 DEF FenceSide

-----------------------------------------------------------------------------
(* What the service of an access knows of it, and its errors. *)

\* The check's outcome.
LEMMA CheckOutcome ==
  ASSUME TypeInv, ctrl.state = "S_CHECK", CacheTick(host_req, sync_i, bus_rsp)
  PROVE  \E s \in {"S_BYPASS", "S_WRITE_START", "S_READ_START", "S_IDLE"} :
           /\ CheckTo(host_req, sync_i, s)
           /\ s = "S_BYPASS" => ctrl.pnd_bp = 1
           /\ s = "S_READ_START" => ctrl.pnd_bp = 0
<1>1. \/ CheckBypassUncached(host_req, sync_i) \/ CheckBypassDirty(host_req, sync_i)
      \/ CheckBypassClean(host_req, sync_i) \/ CheckHit(host_req, sync_i) \/ CheckMiss(host_req, sync_i)
  BY DEF CacheTick, Idle, Bypass, SyncStart, SyncDelay, SyncCheck, SyncNext, ReadStart, ReadWait,
         ReadBurst, ReadDone, WriteStart, WriteReq, WriteRsp, WriteWait, WriteBurst, WriteDone
<1> QED BY <1>1 DEF CheckBypassUncached, CheckBypassDirty, CheckBypassClean, CheckHit, CheckMiss


\* The service of an access beyond its check.
LEMMA ServiceOutcome ==
  ASSUME TypeInv, TransferSide, OffsetSide, Serving, ~Finishing, ctrl.state # "S_CHECK",
         CacheTick(host_req, sync_i, bus_rsp)
  PROVE  /\ ctrl'.pnd_bp = ctrl.pnd_bp /\ ctrl'.idx = ctrl.idx
         /\ ctrl'.state = "S_BYPASS" => ctrl.state = "S_BYPASS"
         /\ ctrl'.state \in Reading => ctrl.state \in Reading /\ ctrl'.tag = ctrl.tag
         /\ ctrl'.state \in Writing => ctrl.state \in Writing
         /\ (ctrl'.bus_err = 1 <=> ctrl.bus_err = 1 \/ bus_rsp.err = 1)
         /\ ctrl'.state = "S_CHECK" => ctrl'.bus_err # 1
<1>1. \/ Bypass(host_req, sync_i, bus_rsp)
      \/ ReadStart(host_req, sync_i) \/ ReadWait(host_req, sync_i, bus_rsp)
      \/ ReadBurst(host_req, sync_i, bus_rsp) \/ ReadDone(host_req, sync_i)
      \/ WriteStart(host_req, sync_i) \/ WriteReq(host_req, sync_i) \/ WriteRsp(host_req, sync_i, bus_rsp)
      \/ WriteWait(host_req, sync_i) \/ WriteBurst(host_req, sync_i, bus_rsp) \/ WriteDone(host_req, sync_i)
  BY DEF Serving, Reading, Writing, CacheTick, Idle, SyncStart, SyncDelay, SyncCheck, SyncNext, CheckTo,
         CheckBypassUncached, CheckBypassDirty, CheckBypassClean, CheckHit, CheckMiss
<1>2. bus_rsp.ack \in Bit /\ (bus_rsp.err = 1 => bus_rsp.ack = 1) /\ (bus_rsp.ack = 1 => bus_rsp.ack # 0)
  BY DEF TransferSide, TypeInv, bus_rsp_t
<1>3. ctrl.state \in {"S_READ_START", "S_READ_DONE", "S_WRITE_START", "S_WRITE_REQ", "S_WRITE_WAIT", "S_WRITE_DONE"}
        => bus_rsp.err # 1
  BY <1>2 DEF TransferSide, OffsetSide, Quiet, Downloading, Uploading
<1>4. CASE Bypass(host_req, sync_i, bus_rsp)
  <2>1. ctrl.state = "S_BYPASS" /\ bus_rsp.ack # 1
    BY <1>4 DEF Bypass, Finishing
  <2> QED BY <1>2, <1>4, <2>1, EndSteps DEF Moved, Carried, Reading, Writing
<1>5. CASE ReadDone(host_req, sync_i)
  <2>1. ctrl.state = "S_READ_DONE" /\ ctrl.bus_err # 1
    BY <1>5 DEF ReadDone, Finishing
  <2> QED BY <1>3, <1>5, <2>1, EndSteps DEF Moved, Carried, Reading, Writing
<1>6. CASE WriteDone(host_req, sync_i)
  <2>1. ctrl.state = "S_WRITE_DONE" /\ ctrl.sync = 0 /\ ctrl.bus_err # 1
    BY <1>6 DEF WriteDone, Finishing, Serving, Reading
  <2> QED BY <1>3, <1>6, <2>1, EndSteps DEF Moved, Carried, Reading, Writing
<1>7. CASE ReadStart(host_req, sync_i)
  BY <1>3, <1>7, StartSteps DEF ReadStart, Moved, Carried, Reading, Writing
<1>8. CASE WriteStart(host_req, sync_i) \/ WriteReq(host_req, sync_i) \/ WriteWait(host_req, sync_i)
  <2>1. ctrl.state \in {"S_WRITE_START", "S_WRITE_REQ", "S_WRITE_WAIT"}
    BY <1>8 DEF WriteStart, WriteReq, WriteWait
  <2>2. /\ Carried /\ ctrl'.bus_err = ctrl.bus_err
        /\ ctrl'.state \in {"S_WRITE_REQ", "S_WRITE_RSP", "S_WRITE_BURST"}
    BY <1>8, StartSteps DEF Moved
  <2> QED BY <1>3, <2>1, <2>2 DEF Carried, Reading, Writing
<1>9. CASE ReadWait(host_req, sync_i, bus_rsp) \/ ReadBurst(host_req, sync_i, bus_rsp)
  <2>1. ctrl.state \in Reading
    BY <1>9 DEF ReadWait, ReadBurst, Reading
  <2>2. /\ Carried /\ ctrl'.tag = ctrl.tag /\ ctrl'.state \in Reading
        /\ IF bus_rsp.ack = 0 THEN ctrl'.bus_err = ctrl.bus_err ELSE ctrl'.bus_err = ErrNext
    BY <1>9, WordSteps DEF Moved, Reading
  <2> QED BY <1>2, <2>1, <2>2 DEF Carried, Reading, Writing, ErrNext
<1>10. CASE WriteRsp(host_req, sync_i, bus_rsp) \/ WriteBurst(host_req, sync_i, bus_rsp)
  <2>1. ctrl.state \in Writing
    BY <1>10 DEF WriteRsp, WriteBurst, Writing
  <2>2. /\ Carried /\ ctrl'.state \in Writing
        /\ IF bus_rsp.ack = 0 THEN ctrl'.bus_err = ctrl.bus_err ELSE ctrl'.bus_err = ErrNext
    BY <1>10, WordSteps DEF Moved, Writing
  <2> QED BY <1>2, <2>1, <2>2 DEF Carried, Reading, Writing, ErrNext
<1> QED BY <1>1, <1>4, <1>5, <1>6, <1>7, <1>8, <1>9, <1>10

\* The access that is served stays on the signals.
LEMMA ServedHeld ==
  ASSUME TypeInv, HostSide, FenceSide, Edge, Takes \/ Serves
  PROVE  /\ host_state = "wait" /\ host_state' = "wait" /\ host_req'.stb = 0
         /\ host_req' = [host_req EXCEPT !.stb = 0]
         /\ host_req'.addr = host_req.addr /\ host_req'.amo = host_req.amo
<1>1. generics' = generics
  BY DEF Edge, CacheTick
<1>2. host_state = "wait"
  BY DEF Takes, Taken, Serves, HostSide, TypeInv, HostTypeOK
<1>3. ~Finishing
  BY DEF Takes, Serves, Finishing
<1>4. ~Answered
  BY <1>3, AnsweredIs
<1> QED BY <1>1, <1>2, <1>4, HostStep DEF Edge, TypeInv, HostTypeOK, bus_req_t

LEMMA AccessSideStep ==
  ASSUME TypeInv, TypeInv', HostSide, FenceSide, AccessSide, TransferSide, OffsetSide, Edge
  PROVE  AccessSide'
<1>1. generics' = generics /\ (Takes \/ Rests \/ Serves \/ Finishes \/ Fences)
  BY EngineStep DEF Edge, CacheTick
<1> SUFFICES ASSUME Serving' PROVE AccessSide'
  BY DEF AccessSide
<1>2. Takes \/ Serves
  BY <1>1, ServingNext
<1>3. host_req'.addr = host_req.addr /\ host_req'.amo = host_req.amo
  BY <1>2, ServedHeld
<1>4. CASE Takes
  BY <1>3, <1>4 DEF Takes, AccessSide, Reading, Writing
<1>5. CASE Serves
  <2>1. CASE ctrl.state = "S_CHECK"
    <3>1. PICK s \in {"S_BYPASS", "S_WRITE_START", "S_READ_START", "S_IDLE"} :
            /\ CheckTo(host_req, sync_i, s)
            /\ s = "S_BYPASS" => ctrl.pnd_bp = 1
            /\ s = "S_READ_START" => ctrl.pnd_bp = 0
      BY <2>1, CheckOutcome DEF Edge
    <3>2. /\ ctrl'.state = s /\ ctrl'.pnd_bp = ctrl.pnd_bp
          /\ ctrl'.tag = TagOf(host_req.addr) /\ ctrl'.idx = IdxOf(host_req.addr)
      BY <3>1, CheckStep DEF state_t
    <3>3. Serving
      BY <1>5 DEF Serves
    <3> QED BY <1>3, <3>1, <3>2, <3>3 DEF AccessSide, Reading
  <2>2. CASE ctrl.state # "S_CHECK"
    <3>1. Serving /\ ~Finishing
      BY <1>5 DEF Serves
    <3>2. /\ ctrl'.pnd_bp = ctrl.pnd_bp /\ ctrl'.idx = ctrl.idx
          /\ ctrl'.state = "S_BYPASS" => ctrl.state = "S_BYPASS"
          /\ ctrl'.state \in Reading => ctrl.state \in Reading /\ ctrl'.tag = ctrl.tag
          /\ ctrl'.state \in Writing => ctrl.state \in Writing
      BY <2>2, <3>1, ServiceOutcome DEF Edge
    <3> QED BY <1>3, <3>1, <3>2 DEF AccessSide
  <2> QED BY <2>1, <2>2
<1> QED BY <1>2, <1>4, <1>5

LEMMA ErrorSideStep ==
  ASSUME TypeInv, TypeInv', HostSide, FenceSide, TransferSide, OffsetSide, ErrorSide, Edge
  PROVE  ErrorSide'
<1>1. generics' = generics /\ (Takes \/ Rests \/ Serves \/ Finishes \/ Fences)
  BY EngineStep DEF Edge, CacheTick
<1>2. failed' = IF host_req'.stb = 1 THEN FALSE ELSE failed \/ (bus_rsp.err = 1 /\ ctrl.sync = 0)
  BY DEF Edge, History
<1>3. /\ ctrl \in ctrl_t /\ ctrl' \in ctrl_t /\ \A v \in Bit : v = 0 <=> v # 1
      /\ bus_rsp.err = 1 => bus_rsp.ack # 0
      /\ failed \in BOOLEAN
  BY DEF TypeInv, CacheTypeOK, Bit, TransferSide
<1>4. CASE Takes
  <2>1. host_state = "wait" /\ ~Serving /\ ctrl.state = "S_IDLE"
    BY <1>4, ServedHeld DEF Takes, Serving, Reading, Writing
  <2>2. ~failed /\ bus_rsp.err # 1
    BY <1>3, <2>1 DEF ErrorSide, TransferSide, Quiet, Downloading, Uploading
  <2>3. ~failed'
    BY <1>2, <2>2
  <2> QED BY <1>3, <1>4, <2>3, ServingNext DEF Takes, ErrorSide
<1>5. CASE Serves
  <2>1. host_req'.stb # 1 /\ Serving /\ ~Finishing /\ Serving'
    BY <1>5, ServedHeld, ServingNext DEF Serves
  <2>2. ctrl.sync = 0
    BY <2>1 DEF Serving, FenceSide
  <2>3. failed' <=> failed \/ bus_rsp.err = 1
    BY <1>2, <2>1, <2>2
  <2>4. failed <=> ctrl.bus_err = 1
    BY <2>1 DEF ErrorSide
  <2>5. CASE ctrl.state = "S_CHECK"
    <3>1. PICK s \in {"S_BYPASS", "S_WRITE_START", "S_READ_START", "S_IDLE"} : CheckTo(host_req, sync_i, s)
      BY <2>5, CheckOutcome DEF Edge
    <3>2. ctrl'.bus_err = ctrl.bus_err
      BY <3>1, CheckStep DEF state_t
    <3>3. bus_rsp.err # 1 /\ ctrl.bus_err = 0
      BY <1>3, <2>5 DEF TransferSide, ErrorSide, Quiet, Downloading, Uploading
    <3> QED BY <2>1, <2>3, <2>4, <3>2, <3>3 DEF ErrorSide
  <2>6. CASE ctrl.state # "S_CHECK"
    <3>1. /\ (ctrl'.bus_err = 1 <=> ctrl.bus_err = 1 \/ bus_rsp.err = 1)
          /\ ctrl'.state = "S_CHECK" => ctrl'.bus_err # 1
          /\ ctrl'.state = "S_BYPASS" => ctrl.state = "S_BYPASS"
      BY <2>1, <2>6, ServiceOutcome DEF Edge
    <3>2. ctrl'.state = "S_BYPASS" => ctrl.bus_err = 0 /\ bus_rsp.err # 1
      BY <1>3, <2>1, <3>1 DEF ErrorSide, Finishing, TransferSide
    <3>3. ctrl'.state \in {"S_CHECK", "S_BYPASS"} => ctrl'.bus_err = 0
      BY <1>3, <3>1, <3>2 DEF ctrl_t
    <3> QED BY <2>1, <2>3, <2>4, <3>1, <3>3 DEF ErrorSide
  <2> QED BY <2>5, <2>6
<1>6. CASE Rests \/ Fences
  <2>1. ~Serving /\ ~Finishing /\ ~Serving' /\ ctrl'.state \notin {"S_CHECK", "S_BYPASS"}
    BY <1>6, ServingNext DEF Rests, Fences, Serving, Finishing, Reading, Writing, Syncing
  <2>2. bus_rsp.err = 1 => ctrl.sync = 1
    <3>1. CASE ctrl.state \in Writing
      <4>1. ctrl.sync # 0
        BY <2>1, <3>1 DEF Serving
      <4> QED BY <1>3, <4>1 DEF ctrl_t
    <3>2. CASE ctrl.state \notin Writing
      BY <1>3, <1>6, <3>2 DEF Rests, Fences, TransferSide, Quiet, Downloading, Uploading, Syncing, Writing
    <3> QED BY <3>1, <3>2
  <2>3. ~Answered
    BY <2>1, AnsweredIs
  <2>4. host_state' = "wait" => host_req'.stb = 1 \/ host_state = "wait"
    BY <1>1, <2>3, HostStep DEF Edge
  <2>5. bus_rsp.err = 1 => ctrl.sync # 0
    BY <2>2
  <2>6. host_state' = "wait" => ~failed'
    BY <1>2, <2>1, <2>4, <2>5 DEF ErrorSide
  <2> QED BY <2>1, <2>6 DEF ErrorSide
<1>7. CASE Finishes
  <2>1. Finishing /\ ~Serving' /\ ctrl'.state = "S_IDLE"
    BY <1>7, ServingNext DEF Finishes
  <2>2. host_state = "wait" => Answered
    BY <2>1, AnsweredIs
  <2>3. host_state' = "wait" => host_req'.stb = 1
    BY <1>1, <2>2, HostStep DEF Edge, TypeInv, HostTypeOK
  <2> QED BY <1>2, <2>1, <2>3 DEF ErrorSide
<1> QED BY <1>1, <1>4, <1>5, <1>6, <1>7

-----------------------------------------------------------------------------
(* A transfer's requests and responses, step by step. *)

LEMMA RunEmpty ==
  ASSUME NEW w, NEW lo \in Int
  PROVE  Run(w, lo, lo) = <<>>
  BY DEF Run

LEMMA RunAppend ==
  ASSUME NEW S, NEW w \in [Offset -> S], NEW lo \in Offset, NEW hi \in Offset, lo <= hi
  PROVE  Append(Run(w, lo, hi), w[hi]) = Run(w, lo, hi + 1)
<1>1. /\ hi - lo \in Nat /\ hi + 1 - lo = (hi - lo) + 1
      /\ \A n \in 1..hi - lo : lo + n - 1 \in Offset
  BY CacheAssumption DEF Offset
<1>2. Run(w, lo, hi) \in Seq(S) /\ Len(Run(w, lo, hi)) = hi - lo
  BY <1>1 DEF Run
<1> QED BY <1>1, <1>2, CacheAssumption DEF Run, Offset

LEMMA RunHead ==
  ASSUME NEW S, NEW w \in [Offset -> S], NEW lo \in Offset, NEW hi \in 0..BLOCK_WORDS, lo < hi
  PROVE  /\ Run(w, lo, hi) # <<>> /\ Head(Run(w, lo, hi)) = w[lo]
         /\ Tail(Run(w, lo, hi)) = Run(w, lo + 1, hi)
<1>1. /\ hi - lo \in Nat \ {0} /\ hi - (lo + 1) = (hi - lo) - 1
      /\ \A n \in 1..hi - lo : lo + n - 1 \in Offset
  BY CacheAssumption DEF Offset
<1>2. Run(w, lo, hi) \in Seq(S) /\ Len(Run(w, lo, hi)) = hi - lo
  BY <1>1 DEF Run
<1> DEFINE r == Run(w, lo, hi)
           t == Run(w, lo + 1, hi)
<1>3. /\ \A n \in 1..hi - lo : r[n] = w[lo + n - 1]
      /\ \A n \in 1..hi - (lo + 1) : t[n] = w[lo + 1 + n - 1]
      /\ t = [n \in 1..hi - (lo + 1) |-> t[n]]
  BY DEF Run
<1> HIDE DEF r, t
<1>4. r \in Seq(S) /\ Len(r) = hi - lo
  BY <1>2 DEF r
<1>5. r # <<>> /\ Head(r) = w[lo]
  BY <1>1, <1>3, <1>4, CacheAssumption DEF Offset
<1>6. /\ Tail(r) \in Seq(S) /\ Len(Tail(r)) = (hi - lo) - 1
      /\ \A n \in 1..(hi - lo) - 1 : Tail(r)[n] = r[n + 1]
  BY <1>1, <1>4, <1>5, HeadTailProperties
<1>7. \A n \in 1..(hi - lo) - 1 : r[n + 1] = t[n]
  <2> SUFFICES ASSUME NEW n \in 1..(hi - lo) - 1 PROVE r[n + 1] = t[n]
    OBVIOUS
  <2>1. lo \in Nat /\ hi \in Nat
    BY CacheAssumption DEF Offset
  <2>2. n + 1 \in 1..hi - lo /\ lo + (n + 1) - 1 = lo + n /\ lo + 1 + n - 1 = lo + n
    BY <2>1
  <2>3. r[n + 1] = w[lo + n] /\ t[n] = w[lo + n]
    BY <1>1, <1>3, <2>2
  <2> QED BY <2>3
<1>8. t \in Seq(S) /\ Len(t) = (hi - lo) - 1
  <2>1. \A n \in 1..(hi - lo) - 1 : lo + 1 + n - 1 \in Offset
    BY <1>1, CacheAssumption DEF Offset
  <2> QED BY <1>1, <2>1 DEF t, Run
<1>9. Tail(r) = t
  BY <1>6, <1>7, <1>8, SeqEqual
<1> QED BY <1>5, <1>9 DEF r, t

\* The bus takes the request of this cycle, if there is one, and answers the
\* oldest one or none.
LEMMA RunStep ==
  ASSUME TypeInv, BusAnswer \/ BusStall,
         NEW w \in [Offset -> bus_req_t], NEW got \in 0..BLOCK_WORDS, NEW sent \in 0..BLOCK_WORDS,
         got <= sent, pend = Run(w, got, sent),
         CacheReq.stb = 1 => sent < BLOCK_WORDS /\ CacheReq = w[sent]
  PROVE  LET s == IF CacheReq.stb = 1 THEN sent + 1 ELSE sent
         IN /\ got + bus_rsp'.ack <= s /\ s \in 0..BLOCK_WORDS
            /\ pend' = Run(w, got + bus_rsp'.ack, s)
            /\ bus_rsp'.err = 1 => bus_rsp'.ack = 1
            /\ bus_rsp'.ack \in Bit
            /\ BusAnswer => got < s /\ Head(Queue) = w[got]
<1> DEFINE s == IF CacheReq.stb = 1 THEN sent + 1 ELSE sent
<1>1. s \in 0..BLOCK_WORDS /\ got <= s
  BY CacheAssumption
<1>2. Queue = Run(w, got, s)
  <2>1. CASE CacheReq.stb = 1
    <3>1. got \in Offset /\ sent \in Offset
      BY <2>1, CacheAssumption DEF Offset
    <3> QED BY <2>1, <3>1, RunAppend DEF Queue
  <2> QED BY <2>1 DEF Queue
<1> HIDE DEF s
<1>3. CASE BusStall
  <2>1. bus_rsp'.ack = 0 /\ bus_rsp'.err = 0 /\ pend' = Queue /\ got + bus_rsp'.ack = got
    BY <1>3 DEF BusStall, RspIdle
  <2>2. ~BusAnswer
    BY <2>1 DEF BusAnswer
  <2> QED BY <1>1, <1>2, <2>1, <2>2 DEF Bit, s
<1>4. CASE BusAnswer
  <2>1. Queue # <<>> /\ bus_rsp'.ack = 1 /\ pend' = Tail(Queue)
    BY <1>4 DEF BusAnswer
  <2>2. got # s
    BY <1>2, <2>1, RunEmpty
  <2>3. got < s /\ got \in Offset
    BY <1>1, <2>2, CacheAssumption DEF Offset
  <2>4. Head(Queue) = w[got] /\ Tail(Queue) = Run(w, got + 1, s)
    BY <1>1, <1>2, <2>3, RunHead
  <2>5. got + bus_rsp'.ack = got + 1 /\ got + 1 <= s
    BY <1>1, <2>1, <2>3
  <2> QED BY <1>1, <2>1, <2>3, <2>4, <2>5 DEF Bit, s
<1> QED BY <1>3, <1>4

\* Nothing outstanding, nothing requested: nothing arrives.
LEMMA QuietStep ==
  ASSUME TypeInv, BusAnswer \/ BusStall, pend = <<>>, CacheReq.stb # 1
  PROVE  pend' = <<>> /\ bus_rsp'.ack = 0 /\ bus_rsp'.err = 0 /\ main' = main
  BY DEF BusAnswer, BusStall, Queue, RspIdle

\* The word that is requested is the next one of the block.
LEMMA WordsType ==
  ASSUME TypeInv
  PROVE  Words \in [Offset -> bus_req_t]
<1>1. ctrl.tag \in Tag /\ ctrl.idx \in Index /\ ram \in ram_t
  BY DEF TypeInv, CacheTypeOK, ctrl_t
<1>2. \A k \in Offset : AddrOf(ctrl.tag, ctrl.idx, k) \in Addr
  BY <1>1, AddrJoin
<1>3. \A k \in Offset : (IF Uploading THEN ram.data[ctrl.idx][k] ELSE ZeroWord) \in Word
  BY <1>1, ZeroType DEF ram_t
<1>4. ByteSel \in WordBE /\ BitOf(Uploading) \in Bit /\ 0 \in Bit /\ 1 \in Bit
  BY DEF WordBE, BitOf, Bit
<1> QED BY <1>2, <1>3, <1>4 DEF Words, bus_req_t

LEMMA Strobes ==
  ASSUME TypeInv
  PROVE  /\ ctrl.state # "S_BYPASS" => (CacheReq.stb = 1 <=> BlockStrobe)
         /\ ctrl.state = "S_BYPASS" => CacheReq = [host_req EXCEPT !.stb = ctrl.bp_req] /\ CacheReq.stb = ctrl.bp_req
  BY DEF CacheReq, cache_req, BitOf, TypeInv, HostTypeOK, bus_req_t

LEMMA NextWord ==
  ASSUME TypeInv, OffsetSide, TransferSide, ReadSide, BlockStrobe
  PROVE  /\ Sent \in Offset /\ CacheReq = Words[Sent] /\ Got \in 0..BLOCK_WORDS
<1>1. /\ ctrl.ofs_int \in Offset /\ bus_rsp.ack \in Bit
      /\ ctrl.ofs_ext \in 0..2 * BLOCK_WORDS - 1 /\ ctrl.ofs_buf \in 0..2 * BLOCK_WORDS - 1
  BY DEF TypeInv, CacheTypeOK, ctrl_t, bus_rsp_t
<1>2. Downloading \/ Uploading
  BY DEF BlockStrobe, Downloading, Uploading
<1>3. Got <= Sent /\ Sent <= BLOCK_WORDS
  BY <1>2 DEF TransferSide, Outstanding
<1>4. CASE ctrl.state \in {"S_READ_START", "S_WRITE_REQ"}
  <2>1. Sent = ctrl.ofs_ext /\ ctrl.ofs_ext = ctrl.ofs_int
    BY <1>4 DEF Sent, OffsetSide
  <2>2. Uploading => rd.data = ram.data[ctrl.idx][ctrl.ofs_int]
    BY <1>4 DEF Uploading, ReadSide
  <2>3. CacheReq = [addr |-> AddrOf(ctrl.tag, ctrl.idx, ctrl.ofs_ext),
                    data |-> IF Uploading THEN rd.data ELSE ZeroWord,
                    ben |-> ByteSel, rw |-> BitOf(Uploading), amo |-> 0, stb |-> 1]
    BY <1>4 DEF CacheReq, cache_req, BitOf, BlockStrobe
  <2> QED BY <1>1, <1>3, <2>1, <2>2, <2>3, CacheAssumption DEF Words, Got, Offset, Bit
<1>5. CASE ctrl.state = "S_READ_BURST"
  <2>1. Sent = ctrl.ofs_ext /\ ctrl.ofs_ext < BLOCK_WORDS /\ ~Uploading
    BY <1>5 DEF Sent, BlockStrobe, Uploading
  <2>2. CacheReq = [addr |-> AddrOf(ctrl.tag, ctrl.idx, ctrl.ofs_ext),
                    data |-> ZeroWord,
                    ben |-> ByteSel, rw |-> BitOf(Uploading), amo |-> 0, stb |-> 1]
    BY <1>5, <2>1 DEF CacheReq, cache_req, BitOf, BlockStrobe
  <2> QED BY <1>1, <1>3, <2>1, <2>2, CacheAssumption DEF Words, Got, Offset, Bit
<1>6. CASE ctrl.state = "S_WRITE_BURST"
  <2>1. Sent = ctrl.ofs_buf /\ ctrl.ofs_buf < BLOCK_WORDS /\ Uploading
    BY <1>1, <1>6, CacheAssumption DEF Sent, BlockStrobe, Uploading
  <2>2. rd.data = ram.data[ctrl.idx][ctrl.ofs_buf]
    BY <1>6, <2>1 DEF ReadSide
  <2>3. CacheReq = [addr |-> AddrOf(ctrl.tag, ctrl.idx, ctrl.ofs_buf),
                    data |-> rd.data,
                    ben |-> ByteSel, rw |-> BitOf(Uploading), amo |-> 0, stb |-> 1]
    BY <1>6, <2>1 DEF CacheReq, cache_req, BitOf, BlockStrobe
  <2> QED BY <1>1, <1>3, <2>1, <2>2, <2>3, CacheAssumption DEF Words, Got, Offset, Bit
<1> QED BY <1>4, <1>5, <1>6 DEF BlockStrobe

LEMMA TransferFlow ==
  ASSUME TypeInv, OffsetSide, TransferSide, ReadSide, Downloading \/ Uploading, BusAnswer \/ BusStall
  PROVE  LET s == IF BlockStrobe THEN Sent + 1 ELSE Sent
         IN /\ Got + bus_rsp'.ack <= s /\ s \in 0..BLOCK_WORDS /\ Got \in 0..BLOCK_WORDS
            /\ pend' = Run(Words, Got + bus_rsp'.ack, s)
            /\ bus_rsp'.err = 1 => bus_rsp'.ack = 1
            /\ bus_rsp'.ack \in Bit
            /\ BusAnswer => Got < s /\ Head(Queue) = Words[Got]
<1>1. CacheReq.stb = 1 <=> BlockStrobe
  BY Strobes DEF Downloading, Uploading
<1>2. Outstanding
  BY DEF TransferSide
<1>3. /\ ctrl.ofs_int \in Offset /\ bus_rsp.ack \in Bit
      /\ ctrl.ofs_ext \in 0..2 * BLOCK_WORDS - 1 /\ ctrl.ofs_buf \in 0..2 * BLOCK_WORDS - 1
  BY DEF TypeInv, CacheTypeOK, ctrl_t, bus_rsp_t
<1>4. Got \in 0..BLOCK_WORDS /\ Sent \in 0..BLOCK_WORDS
  BY <1>2, <1>3, CacheAssumption DEF Got, Sent, Outstanding, Offset, Bit
<1>5. CacheReq.stb = 1 => Sent < BLOCK_WORDS /\ CacheReq = Words[Sent]
  BY <1>1, <1>4, NextWord, CacheAssumption DEF Offset
<1>6. Words \in [Offset -> bus_req_t]
  BY WordsType
<1>7. LET s == IF CacheReq.stb = 1 THEN Sent + 1 ELSE Sent
      IN /\ Got + bus_rsp'.ack <= s /\ s \in 0..BLOCK_WORDS
         /\ pend' = Run(Words, Got + bus_rsp'.ack, s)
         /\ bus_rsp'.err = 1 => bus_rsp'.ack = 1
         /\ bus_rsp'.ack \in Bit
         /\ BusAnswer => Got < s /\ Head(Queue) = Words[Got]
  <2> DEFINE w == Words
             g == Got
             h == Sent
  <2>1. /\ w \in [Offset -> bus_req_t] /\ g \in 0..BLOCK_WORDS /\ h \in 0..BLOCK_WORDS
        /\ g <= h /\ pend = Run(w, g, h)
        /\ CacheReq.stb = 1 => h < BLOCK_WORDS /\ CacheReq = w[h]
    BY <1>2, <1>4, <1>5, <1>6 DEF Outstanding
  <2> HIDE DEF w, g, h
  <2>2. LET s == IF CacheReq.stb = 1 THEN h + 1 ELSE h
        IN /\ g + bus_rsp'.ack <= s /\ s \in 0..BLOCK_WORDS
           /\ pend' = Run(w, g + bus_rsp'.ack, s)
           /\ bus_rsp'.err = 1 => bus_rsp'.ack = 1
           /\ bus_rsp'.ack \in Bit
           /\ BusAnswer => g < s /\ Head(Queue) = w[g]
    BY <2>1, RunStep
  <2> QED BY <2>2 DEF w, g, h
<1> QED BY <1>1, <1>4, <1>7

-----------------------------------------------------------------------------
(* The transfers, state by state. *)

TransferPart == OffsetSide /\ TransferSide /\ ReadSide

\* The block stays the one that is moved.
LEMMA WordsKept ==
  ASSUME TypeInv, ctrl'.tag = ctrl.tag, ctrl'.idx = ctrl.idx,
         \/ Downloading /\ Downloading'
         \/ Uploading /\ Uploading' /\ ram' = ram
  PROVE  Words' = Words
<1>1. CASE Downloading /\ Downloading'
  <2>1. ~Uploading /\ ~Uploading'
    BY <1>1 DEF Downloading, Uploading
  <2>2. BitOf(Uploading)' = BitOf(Uploading)
    BY <2>1 DEF BitOf
  <2>3. /\ Words = [k \in Offset |-> [addr |-> AddrOf(ctrl.tag, ctrl.idx, k), data |-> ZeroWord,
                       ben |-> ByteSel, rw |-> BitOf(Uploading), amo |-> 0, stb |-> 1]]
        /\ Words' = [k \in Offset |-> [addr |-> AddrOf(ctrl'.tag, ctrl'.idx, k), data |-> ZeroWord,
                       ben |-> ByteSel, rw |-> BitOf(Uploading)', amo |-> 0, stb |-> 1]]
    BY <2>1 DEF Words
  <2> QED BY <2>2, <2>3
<1>2. CASE Uploading /\ Uploading' /\ ram' = ram
  <2>2. BitOf(Uploading)' = BitOf(Uploading)
    BY <1>2 DEF BitOf
  <2>3. /\ Words = [k \in Offset |-> [addr |-> AddrOf(ctrl.tag, ctrl.idx, k), data |-> ram.data[ctrl.idx][k],
                       ben |-> ByteSel, rw |-> BitOf(Uploading), amo |-> 0, stb |-> 1]]
        /\ Words' = [k \in Offset |-> [addr |-> AddrOf(ctrl'.tag, ctrl'.idx, k), data |-> ram'.data[ctrl'.idx][k],
                       ben |-> ByteSel, rw |-> BitOf(Uploading)', amo |-> 0, stb |-> 1]]
    BY <1>2 DEF Words
  <2> QED BY <1>2, <2>2, <2>3
<1> QED BY <1>1, <1>2

Next1Sent == IF BlockStrobe THEN Sent + 1 ELSE Sent

LEMMA StillMoving ==
  ASSUME TypeInv, TransferPart, Downloading \/ Uploading, BusAnswer \/ BusStall,
         Words' = Words, ctrl'.ofs_int = Got, Sent' = Next1Sent
  PROVE  Outstanding' /\ (bus_rsp'.err = 1 => bus_rsp'.ack = 1)
<1>1. /\ Got + bus_rsp'.ack <= Next1Sent /\ Next1Sent \in 0..BLOCK_WORDS
      /\ pend' = Run(Words, Got + bus_rsp'.ack, Next1Sent)
      /\ bus_rsp'.err = 1 => bus_rsp'.ack = 1
  BY TransferFlow DEF TransferPart, Next1Sent
<1>2. Got' = Got + bus_rsp'.ack
  BY DEF Got
<1> QED BY <1>1, <1>2, CacheAssumption DEF Outstanding

\* All that was requested has arrived.
LEMMA NothingMore ==
  ASSUME TypeInv, TransferPart, Downloading \/ Uploading, BusAnswer \/ BusStall,
         ~BlockStrobe \/ Got = BLOCK_WORDS, Got >= Sent \/ Got = BLOCK_WORDS
  PROVE  pend' = <<>> /\ bus_rsp'.ack = 0 /\ bus_rsp'.err # 1
<1>1. /\ Got + bus_rsp'.ack <= Next1Sent /\ Next1Sent \in 0..BLOCK_WORDS /\ Got \in 0..BLOCK_WORDS
      /\ pend' = Run(Words, Got + bus_rsp'.ack, Next1Sent)
      /\ bus_rsp'.err = 1 => bus_rsp'.ack = 1
      /\ bus_rsp'.ack \in Bit
  BY TransferFlow DEF TransferPart, Next1Sent
<1>2. Got >= Next1Sent
  BY <1>1, CacheAssumption DEF Next1Sent
<1>3. bus_rsp'.ack = 0 /\ Got + bus_rsp'.ack = Next1Sent
  BY <1>1, <1>2, CacheAssumption DEF Bit
<1> QED BY <1>1, <1>3, RunEmpty, CacheAssumption

LEMMA Tally ==
  ASSUME TypeInv
  PROVE  /\ ctrl.ofs_int \in Offset /\ bus_rsp.ack \in Bit
         /\ ctrl.ofs_ext \in 0..2 * BLOCK_WORDS - 1 /\ ctrl.ofs_buf \in 0..2 * BLOCK_WORDS - 1
         /\ BURSTS_EN => BLOCK_WORDS >= 2
         /\ bus_rsp.ack = 0 => Got = ctrl.ofs_int
         /\ bus_rsp.ack # 0 => Got = ctrl.ofs_int + 1
         /\ LastWord => IntNext = 0
         /\ ~LastWord => IntNext = ctrl.ofs_int + 1
         /\ ctrl.ofs_ext < 2 * BLOCK_WORDS - 1 => NextOfs(ctrl.ofs_ext) = ctrl.ofs_ext + 1
<1>1. /\ ctrl.ofs_int \in Offset /\ bus_rsp.ack \in Bit
      /\ ctrl.ofs_ext \in 0..2 * BLOCK_WORDS - 1 /\ ctrl.ofs_buf \in 0..2 * BLOCK_WORDS - 1
  BY DEF TypeInv, CacheTypeOK, ctrl_t, bus_rsp_t
<1>2. BURSTS_EN => BLOCK_WORDS >= 2
  BY CacheAssumption DEF BURSTS_EN, TypeInv, CacheTypeOK
<1>3. bus_rsp.ack = 0 \/ bus_rsp.ack = 1
  BY <1>1 DEF Bit
<1>4. /\ LastWord => IntNext = 0
      /\ ~LastWord => IntNext = ctrl.ofs_int + 1
  BY <1>1, Counters DEF LastWord, IntNext
<1>5. ctrl.ofs_ext < 2 * BLOCK_WORDS - 1 => NextOfs(ctrl.ofs_ext) = ctrl.ofs_ext + 1
  BY <1>1, Counters, CacheAssumption
<1> QED BY <1>1, <1>2, <1>3, <1>4, <1>5, CacheAssumption DEF Got, Offset

\* A step from a state without a transfer.
LEMMA RestStep ==
  ASSUME TypeInv, TypeInv', TransferPart, BusAnswer \/ BusStall,
         ~Downloading, ~Uploading, ctrl.state # "S_BYPASS"
  PROVE  /\ pend' = <<>> /\ bus_rsp'.ack = 0 /\ bus_rsp'.err = 0 /\ main' = main
         /\ ctrl'.state \notin {"S_READ_DONE", "S_WRITE_DONE", "S_BYPASS"} /\ ~Downloading' /\ ~Uploading'
              => TransferPart'
         /\ ctrl'.state = "S_BYPASS" /\ ctrl'.bp_req = 1 => TransferPart'
         /\ ctrl'.state \in {"S_READ_START", "S_WRITE_START"} /\ ctrl'.ofs_int = 0 /\ ctrl'.ofs_ext = 0
              => TransferPart'
<1>1. Quiet
  BY DEF TransferPart, TransferSide
<1>2. ~BlockStrobe
  BY DEF BlockStrobe, Downloading, Uploading
<1>3. pend' = <<>> /\ bus_rsp'.ack = 0 /\ bus_rsp'.err = 0 /\ main' = main
  BY <1>1, <1>2, Strobes, QuietStep DEF Quiet
<1>4. ASSUME ctrl'.state \notin {"S_READ_DONE", "S_WRITE_DONE", "S_BYPASS"}, ~Downloading', ~Uploading'
      PROVE  TransferPart'
  BY <1>3, <1>4 DEF TransferPart, TransferSide, OffsetSide, ReadSide, Quiet, Downloading, Uploading
<1>5. ASSUME ctrl'.state = "S_BYPASS", ctrl'.bp_req = 1
      PROVE  TransferPart'
  BY <1>3, <1>5 DEF TransferPart, TransferSide, OffsetSide, ReadSide, Quiet, Downloading, Uploading
<1>6. ASSUME ctrl'.state \in {"S_READ_START", "S_WRITE_START"}, ctrl'.ofs_int = 0, ctrl'.ofs_ext = 0
      PROVE  TransferPart'
  <2>1. Got' = 0 /\ Sent' = 0
    BY <1>3, <1>6 DEF Got, Sent
  <2>2. Run(Words, Got, Sent)' = <<>>
    BY <2>1, RunEmpty
  <2>3. Outstanding'
    BY <1>3, <2>1, <2>2, CacheAssumption DEF Outstanding
  <2> QED BY <1>3, <1>6, <2>3 DEF TransferPart, TransferSide, OffsetSide, ReadSide, Downloading, Uploading
<1> QED BY <1>3, <1>4, <1>5, <1>6

LEMMA BypassPart ==
  ASSUME TypeInv, TypeInv', HostSide, FenceSide, TransferPart, Edge, Bypass(host_req, sync_i, bus_rsp)
  PROVE  TransferPart'
<1>1. /\ Carried /\ ctrl.state = "S_BYPASS"
      /\ ctrl'.state = IF bus_rsp.ack = 1 THEN "S_IDLE" ELSE "S_BYPASS"
  BY EndSteps DEF Bypass, Moved
<1>2. CacheReq = [host_req EXCEPT !.stb = ctrl.bp_req] /\ CacheReq.stb = ctrl.bp_req
  BY <1>1, Strobes
<1>3. bus_rsp.ack \in Bit /\ host_req \in bus_req_t /\ (bus_rsp.ack = 0 => bus_rsp.ack # 1)
  BY DEF TypeInv, HostTypeOK, bus_rsp_t
<1>4. CASE bus_rsp.ack = 1
  <2>1. ctrl.bp_req = 0 /\ pend = <<>>
    BY <1>1, <1>3, <1>4 DEF TransferPart, TransferSide, Quiet
  <2>2. CacheReq.stb # 1
    BY <1>2, <2>1
  <2>3. pend' = <<>> /\ bus_rsp'.ack = 0 /\ bus_rsp'.err = 0
    BY <2>1, <2>2, QuietStep DEF Edge
  <2> QED BY <1>1, <1>4, <2>3 DEF TransferPart, TransferSide, OffsetSide, ReadSide, Quiet, Downloading, Uploading
<1>5. CASE bus_rsp.ack # 1
  <2>1. Queue = <<[host_req EXCEPT !.stb = 1]>>
    <3>1. CASE ctrl.bp_req = 1 /\ pend = <<>>
      <4>1. Queue = Append(<<>>, [host_req EXCEPT !.stb = 1])
        BY <1>2, <3>1 DEF Queue
      <4> QED BY <4>1
    <3>2. CASE ctrl.bp_req = 0 /\ pend = <<[host_req EXCEPT !.stb = 1]>>
      BY <1>2, <3>2 DEF Queue
    <3> QED BY <1>1, <1>5, <3>1, <3>2 DEF TransferPart, TransferSide, Quiet
  <2>2. ctrl.state = "S_BYPASS" /\ ~Finishing /\ ctrl'.state = "S_BYPASS" /\ ctrl'.bp_req = 0
    BY <1>1, <1>5 DEF Finishing, Carried
  <2>3. Serves
    <3>1. Takes \/ Rests \/ Serves \/ Finishes \/ Fences
      BY EngineStep DEF Edge
    <3> QED BY <2>2, <3>1 DEF Takes, Rests, Finishes, Fences, Syncing, Writing
  <2>4. host_req' = [host_req EXCEPT !.stb = 0]
    BY <2>3, ServedHeld
  <2>5. [host_req' EXCEPT !.stb = 1] = [host_req EXCEPT !.stb = 1]
    BY <1>3, <2>4 DEF bus_req_t
  <2>6. CASE BusStall
    <3>1. pend' = <<[host_req' EXCEPT !.stb = 1]>> /\ bus_rsp'.ack = 0 /\ bus_rsp'.err = 0
      BY <2>1, <2>5, <2>6 DEF BusStall, RspIdle
    <3> QED BY <2>2, <3>1 DEF TransferPart, TransferSide, OffsetSide, ReadSide, Downloading, Uploading
  <2>7. CASE BusAnswer
    <3>1. pend' = <<>> /\ bus_rsp'.ack = 1
      BY <2>1, <2>7 DEF BusAnswer
    <3> QED BY <2>2, <3>1 DEF TransferPart, TransferSide, OffsetSide, ReadSide, Downloading, Uploading
  <2> QED BY <2>6, <2>7 DEF Edge
<1> QED BY <1>4, <1>5

LEMMA ReadStartPart ==
  ASSUME TypeInv, TypeInv', TransferPart, BusAnswer \/ BusStall, generics' = generics,
         ReadStart(host_req, sync_i)
  PROVE  TransferPart'
<1>1. ctrl.state = "S_READ_START" /\ Moved("S_READ_WAIT", ctrl.tag, ctrl.bus_err, ctrl.ofs_int, ctrl.ofs_ext)
  BY StartSteps DEF ReadStart
<1>2. Downloading /\ Downloading' /\ ~Uploading' /\ BlockStrobe
  BY <1>1 DEF Downloading, Uploading, BlockStrobe, Moved
<1>3. Words' = Words
  BY <1>1, <1>2, WordsKept DEF Moved, Carried
<1>4. bus_rsp.ack = 0 /\ ctrl.ofs_ext = ctrl.ofs_int /\ (BURSTS_EN => ctrl.ofs_int = 0)
  BY <1>1 DEF TransferPart, OffsetSide
<1>5. ctrl'.ofs_int = Got /\ Sent' = Next1Sent
  BY <1>1, <1>2, <1>4, Tally DEF Moved, Sent, Next1Sent
<1>6. Outstanding' /\ (bus_rsp'.err = 1 => bus_rsp'.ack = 1)
  BY <1>2, <1>3, <1>5, StillMoving
<1>7. BURSTS_EN' <=> BURSTS_EN
  BY DEF BURSTS_EN
<1> QED BY <1>1, <1>2, <1>4, <1>6, <1>7 DEF Moved, TransferPart, TransferSide, OffsetSide, ReadSide

\* The download is over, or the next single word is due.
LEMMA ReadEnds ==
  ASSUME TypeInv, TypeInv', pend' = <<>>, bus_rsp'.ack = 0, bus_rsp'.err # 1,
         ctrl'.state = "S_READ_DONE", ctrl'.ofs_int = 0
  PROVE  TransferPart'
  BY DEF TransferPart, TransferSide, OffsetSide, ReadSide, Quiet, Downloading, Uploading

LEMMA ReadWaitPart ==
  ASSUME TypeInv, TypeInv', TransferPart, BusAnswer \/ BusStall, generics' = generics,
         ReadWait(host_req, sync_i, bus_rsp)
  PROVE  TransferPart'
<1>1. /\ ctrl.state = "S_READ_WAIT"
      /\ IF bus_rsp.ack = 0
         THEN Moved("S_READ_WAIT", ctrl.tag, ctrl.bus_err, ctrl.ofs_int, ctrl.ofs_ext)
         ELSE Moved(IF BURSTS_EN THEN "S_READ_BURST" ELSE IF LastWord THEN "S_READ_DONE" ELSE "S_READ_START",
                    ctrl.tag, ErrNext, IntNext, NextOfs(ctrl.ofs_ext))
  BY WordSteps DEF ReadWait
<1>2. Downloading /\ ~BlockStrobe /\ Next1Sent = Sent /\ Sent = ctrl.ofs_ext + 1
  BY <1>1 DEF Downloading, BlockStrobe, Next1Sent, Sent
<1>3. ctrl.ofs_ext = ctrl.ofs_int /\ (BURSTS_EN => ctrl.ofs_int = 0)
  BY <1>1 DEF TransferPart, OffsetSide
<1>4. BURSTS_EN' <=> BURSTS_EN
  BY DEF BURSTS_EN
<1>5. CASE bus_rsp.ack = 0
  <2>1. Moved("S_READ_WAIT", ctrl.tag, ctrl.bus_err, ctrl.ofs_int, ctrl.ofs_ext)
    BY <1>1, <1>5
  <2>2. Downloading' /\ Words' = Words
    BY <1>2, <2>1, WordsKept DEF Moved, Carried, Downloading
  <2>3. ctrl'.ofs_int = Got /\ Sent' = Next1Sent
    BY <1>2, <1>5, <2>1, Tally DEF Moved, Sent
  <2>4. Outstanding' /\ (bus_rsp'.err = 1 => bus_rsp'.ack = 1)
    BY <1>2, <2>2, <2>3, StillMoving
  <2> QED BY <1>3, <1>4, <2>1, <2>2, <2>4
        DEF Moved, TransferPart, TransferSide, OffsetSide, ReadSide, Downloading, Uploading
<1>6. CASE bus_rsp.ack # 0
  <2> DEFINE s == IF BURSTS_EN THEN "S_READ_BURST" ELSE IF LastWord THEN "S_READ_DONE" ELSE "S_READ_START"
  <2>1. Moved(s, ctrl.tag, ErrNext, IntNext, NextOfs(ctrl.ofs_ext))
    BY <1>1, <1>6
  <2>2. NextOfs(ctrl.ofs_ext) = ctrl.ofs_ext + 1 /\ Got = Sent
    BY <1>2, <1>3, <1>6, Tally, CacheAssumption DEF Offset
  <2>3. CASE LastWord /\ ~BURSTS_EN
    <3>1. pend' = <<>> /\ bus_rsp'.ack = 0 /\ bus_rsp'.err # 1
      BY <1>2, <2>2, Tally, NothingMore, CacheAssumption DEF Offset
    <3>2. ctrl'.state = "S_READ_DONE" /\ ctrl'.ofs_int = 0
      BY <2>1, <2>3, Tally DEF Moved
    <3> QED BY <3>1, <3>2, ReadEnds
  <2>4. CASE ~LastWord \/ BURSTS_EN
    <3>1. ~LastWord
      BY <1>3, <2>4, Tally, CacheAssumption DEF LastWord
    <3>2. ctrl'.state \in {"S_READ_BURST", "S_READ_START"} /\ (ctrl'.state = "S_READ_BURST" <=> BURSTS_EN)
      BY <2>1, <3>1 DEF Moved
    <3>3. Downloading' /\ ~Uploading' /\ Words' = Words
      BY <1>2, <2>1, <3>2, WordsKept DEF Moved, Carried, Downloading, Uploading
    <3>4. ctrl'.ofs_int = Got /\ ctrl'.ofs_ext = Sent /\ Sent' = Next1Sent /\ Got = ctrl.ofs_int + 1
      BY <1>2, <1>6, <2>1, <2>2, <3>1, <3>2, Tally DEF Moved, Sent
    <3>5. Outstanding' /\ (bus_rsp'.err = 1 => bus_rsp'.ack = 1)
      BY <1>2, <3>3, <3>4, StillMoving
    <3>6. bus_rsp'.ack = 0
      BY <1>2, <2>2, Tally, NothingMore, CacheAssumption DEF Offset
    <3> QED BY <1>3, <1>4, <2>2, <3>2, <3>3, <3>4, <3>5, <3>6, Tally, CacheAssumption
          DEF TransferPart, TransferSide, OffsetSide, ReadSide, Offset
  <2> QED BY <2>3, <2>4
<1> QED BY <1>5, <1>6

LEMMA ReadBurstPart ==
  ASSUME TypeInv, TypeInv', TransferPart, BusAnswer \/ BusStall, generics' = generics,
         ReadBurst(host_req, sync_i, bus_rsp)
  PROVE  TransferPart'
<1> DEFINE x == IF ctrl.ofs_ext < BLOCK_WORDS THEN NextOfs(ctrl.ofs_ext) ELSE ctrl.ofs_ext
<1>1. /\ ctrl.state = "S_READ_BURST"
      /\ IF bus_rsp.ack = 0
         THEN Moved("S_READ_BURST", ctrl.tag, ctrl.bus_err, ctrl.ofs_int, x)
         ELSE Moved(IF LastWord THEN "S_READ_DONE" ELSE "S_READ_BURST", ctrl.tag, ErrNext, IntNext, x)
  BY WordSteps DEF ReadBurst
<1>2. Downloading /\ Sent = ctrl.ofs_ext /\ (BlockStrobe <=> ctrl.ofs_ext < BLOCK_WORDS)
  BY <1>1 DEF Downloading, BlockStrobe, Sent
<1>3. BURSTS_EN /\ ctrl.ofs_int >= 1 /\ Outstanding
  BY <1>1, <1>2 DEF TransferPart, OffsetSide, TransferSide
<1>4. BURSTS_EN' <=> BURSTS_EN
  BY DEF BURSTS_EN
<1>5. x = Next1Sent
  BY <1>2, Tally, CacheAssumption DEF Next1Sent
<1> HIDE DEF x
<1>6. CASE bus_rsp.ack # 0 /\ LastWord
  <2>1. ctrl'.state = "S_READ_DONE" /\ ctrl'.ofs_int = 0
    BY <1>1, <1>6, Tally DEF Moved
  <2>2. Got = BLOCK_WORDS
    BY <1>6, Tally, CacheAssumption DEF LastWord
  <2>3. pend' = <<>> /\ bus_rsp'.ack = 0 /\ bus_rsp'.err # 1
    BY <1>2, <2>2, NothingMore
  <2> QED BY <2>1, <2>3, ReadEnds
<1>7. CASE bus_rsp.ack = 0 \/ ~LastWord
  <2>1. /\ ctrl'.state = "S_READ_BURST" /\ ctrl'.tag = ctrl.tag /\ ctrl'.idx = ctrl.idx
        /\ ctrl'.ofs_int = Got /\ ctrl'.ofs_ext = x
    BY <1>1, <1>7, Tally DEF Moved, Carried
  <2>2. Downloading' /\ ~Uploading' /\ Words' = Words
    BY <1>2, <2>1, WordsKept DEF Downloading, Uploading
  <2>3. Sent' = Next1Sent
    BY <1>5, <2>1 DEF Sent
  <2>4. Outstanding' /\ (bus_rsp'.err = 1 => bus_rsp'.ack = 1)
    BY <1>2, <2>1, <2>2, <2>3, StillMoving
  <2>5. Got >= 1
    BY <1>3, Tally, CacheAssumption DEF Offset, Bit
  <2> QED BY <1>3, <1>4, <2>1, <2>2, <2>4, <2>5 DEF TransferPart, TransferSide, OffsetSide, ReadSide
<1> QED BY <1>6, <1>7

\* While a block is written back the memories are only read.
LEMMA UploadLooks ==
  ASSUME TypeInv,
         \/ WriteStart(host_req, sync_i) \/ WriteReq(host_req, sync_i) \/ WriteRsp(host_req, sync_i, bus_rsp)
         \/ WriteWait(host_req, sync_i) \/ WriteBurst(host_req, sync_i, bus_rsp)
  PROVE  /\ Uploading /\ ram' = ram
         /\ ctrl.state \in {"S_WRITE_START", "S_WRITE_REQ", "S_WRITE_RSP"} =>
              rd'.data = ram.data[ctrl.idx][ctrl.ofs_int]
         /\ ctrl.state \in {"S_WRITE_WAIT", "S_WRITE_BURST"} /\ ctrl.ofs_ext < BLOCK_WORDS =>
              rd'.data = ram.data[ctrl.idx][ctrl.ofs_ext]
<1> DEFINE r == AddrOf(ctrl.tag, ctrl.idx, ctrl.ofs_ext)
<1>1. /\ CtrlAddr \in Addr /\ IdxOf(CtrlAddr) = ctrl.idx /\ OfsOf(CtrlAddr) = ctrl.ofs_int
      /\ r \in Addr /\ IdxOf(r) = ctrl.idx /\ (ctrl.ofs_ext < BLOCK_WORDS => OfsOf(r) = ctrl.ofs_ext)
  BY CtrlAddrParts, AddrWrap DEF TypeInv, CacheTypeOK, ctrl_t
<1> HIDE DEF r
<1>2. CASE WriteStart(host_req, sync_i) \/ WriteReq(host_req, sync_i) \/ WriteRsp(host_req, sync_i, bus_rsp)
  <2>1. CacheRam(Look(CtrlAddr)) /\ ctrl.state \in {"S_WRITE_START", "S_WRITE_REQ", "S_WRITE_RSP"}
    BY <1>2 DEF WriteStart, WriteReq, WriteRsp
  <2>2. ram' = ram /\ rd'.data = ram.data[IdxOf(CtrlAddr)][OfsOf(CtrlAddr)]
    BY <1>1, <2>1, LookStep
  <2> QED BY <1>1, <2>1, <2>2 DEF Uploading
<1>3. CASE WriteWait(host_req, sync_i) \/ WriteBurst(host_req, sync_i, bus_rsp)
  <2>1. CacheRam(Look(r)) /\ ctrl.state \in {"S_WRITE_WAIT", "S_WRITE_BURST"}
    BY <1>3 DEF WriteWait, WriteBurst, ReadAhead, r
  <2>2. ram' = ram /\ rd'.data = ram.data[IdxOf(r)][OfsOf(r)]
    BY <1>1, <2>1, LookStep
  <2> QED BY <1>1, <2>1, <2>2 DEF Uploading
<1> QED BY <1>2, <1>3

LEMMA WriteStartPart ==
  ASSUME TypeInv, TypeInv', TransferPart, BusAnswer \/ BusStall, generics' = generics,
         WriteStart(host_req, sync_i)
  PROVE  TransferPart'
<1>1. /\ ctrl.state = "S_WRITE_START" /\ Carried /\ ctrl'.state = "S_WRITE_REQ"
      /\ ctrl'.ofs_int = ctrl.ofs_int /\ ctrl'.ofs_ext = ctrl.ofs_ext
  BY StartSteps DEF WriteStart, Moved
<1>2. Uploading /\ ~BlockStrobe /\ Sent = ctrl.ofs_ext /\ ctrl.ofs_ext = ctrl.ofs_int /\ bus_rsp.ack = 0
      /\ (BURSTS_EN => ctrl.ofs_int = 0)
  BY <1>1 DEF Uploading, BlockStrobe, Sent, TransferPart, OffsetSide
<1>3. pend' = <<>> /\ bus_rsp'.ack = 0 /\ bus_rsp'.err # 1
  BY <1>2, Tally, NothingMore, CacheAssumption DEF Offset
<1>4. Got' = ctrl.ofs_int /\ Sent' = ctrl.ofs_int /\ ctrl.ofs_int \in Offset
  BY <1>1, <1>2, <1>3, Tally, CacheAssumption DEF Got, Sent, Offset
<1>5. Run(Words, Got, Sent)' = <<>>
  BY <1>4, RunEmpty, CacheAssumption DEF Offset
<1>6. Outstanding'
  BY <1>3, <1>4, <1>5, CacheAssumption DEF Outstanding, Offset
<1>7. rd'.data = ram'.data[ctrl'.idx][ctrl'.ofs_int]
  BY <1>1, UploadLooks DEF Carried
<1>8. BURSTS_EN' <=> BURSTS_EN
  BY DEF BURSTS_EN
<1> QED BY <1>1, <1>2, <1>3, <1>6, <1>7, <1>8
      DEF TransferPart, TransferSide, OffsetSide, ReadSide, Downloading, Uploading

LEMMA WriteReqPart ==
  ASSUME TypeInv, TypeInv', TransferPart, BusAnswer \/ BusStall, generics' = generics,
         WriteReq(host_req, sync_i)
  PROVE  TransferPart'
<1>1. ctrl.state = "S_WRITE_REQ" /\ Moved("S_WRITE_RSP", ctrl.tag, ctrl.bus_err, ctrl.ofs_int, ctrl.ofs_ext)
  BY StartSteps DEF WriteReq
<1>2. Uploading /\ Uploading' /\ ~Downloading' /\ BlockStrobe
  BY <1>1 DEF Downloading, Uploading, BlockStrobe, Moved
<1>3. Words' = Words
  BY <1>1, <1>2, UploadLooks, WordsKept DEF Moved, Carried
<1>4. bus_rsp.ack = 0 /\ ctrl.ofs_ext = ctrl.ofs_int /\ (BURSTS_EN => ctrl.ofs_int = 0)
  BY <1>1 DEF TransferPart, OffsetSide
<1>5. ctrl'.ofs_int = Got /\ Sent' = Next1Sent
  BY <1>1, <1>2, <1>4, Tally DEF Moved, Sent, Next1Sent
<1>6. Outstanding' /\ (bus_rsp'.err = 1 => bus_rsp'.ack = 1)
  BY <1>2, <1>3, <1>5, StillMoving
<1>7. BURSTS_EN' <=> BURSTS_EN
  BY DEF BURSTS_EN
<1> QED BY <1>1, <1>2, <1>4, <1>6, <1>7 DEF Moved, TransferPart, TransferSide, OffsetSide, ReadSide

\* The write-back is over.
LEMMA WriteEnds ==
  ASSUME TypeInv, TypeInv', pend' = <<>>, bus_rsp'.ack = 0, bus_rsp'.err # 1,
         ctrl'.state = "S_WRITE_DONE", ctrl'.ofs_int = 0
  PROVE  TransferPart'
  BY DEF TransferPart, TransferSide, OffsetSide, ReadSide, Quiet, Downloading, Uploading

LEMMA WriteRspPart ==
  ASSUME TypeInv, TypeInv', TransferPart, BusAnswer \/ BusStall, generics' = generics,
         WriteRsp(host_req, sync_i, bus_rsp)
  PROVE  TransferPart'
<1>1. /\ ctrl.state = "S_WRITE_RSP"
      /\ IF bus_rsp.ack = 0
         THEN Moved("S_WRITE_RSP", ctrl.tag, ctrl.bus_err, ctrl.ofs_int, ctrl.ofs_ext)
         ELSE Moved(IF BURSTS_EN THEN "S_WRITE_WAIT" ELSE IF LastWord THEN "S_WRITE_DONE" ELSE "S_WRITE_START",
                    ctrl.tag, ErrNext, IntNext, NextOfs(ctrl.ofs_ext))
  BY WordSteps DEF WriteRsp
<1>2. Uploading /\ ~BlockStrobe /\ Next1Sent = Sent /\ Sent = ctrl.ofs_ext + 1 /\ ram' = ram
  BY <1>1, UploadLooks DEF BlockStrobe, Next1Sent, Sent
<1>3. ctrl.ofs_ext = ctrl.ofs_int /\ (BURSTS_EN => ctrl.ofs_int = 0)
  BY <1>1 DEF TransferPart, OffsetSide
<1>4. BURSTS_EN' <=> BURSTS_EN
  BY DEF BURSTS_EN
<1>5. CASE bus_rsp.ack = 0
  <2>1. Moved("S_WRITE_RSP", ctrl.tag, ctrl.bus_err, ctrl.ofs_int, ctrl.ofs_ext)
    BY <1>1, <1>5
  <2>2. Uploading' /\ Words' = Words
    BY <1>2, <2>1, WordsKept DEF Moved, Carried, Uploading
  <2>3. ctrl'.ofs_int = Got /\ Sent' = Next1Sent
    BY <1>2, <1>5, <2>1, Tally DEF Moved, Sent
  <2>4. Outstanding' /\ (bus_rsp'.err = 1 => bus_rsp'.ack = 1)
    BY <1>2, <2>2, <2>3, StillMoving
  <2> QED BY <1>3, <1>4, <2>1, <2>2, <2>4
        DEF Moved, TransferPart, TransferSide, OffsetSide, ReadSide, Downloading, Uploading
<1>6. CASE bus_rsp.ack # 0
  <2> DEFINE s == IF BURSTS_EN THEN "S_WRITE_WAIT" ELSE IF LastWord THEN "S_WRITE_DONE" ELSE "S_WRITE_START"
  <2>1. Moved(s, ctrl.tag, ErrNext, IntNext, NextOfs(ctrl.ofs_ext))
    BY <1>1, <1>6
  <2>2. NextOfs(ctrl.ofs_ext) = ctrl.ofs_ext + 1 /\ Got = Sent
    BY <1>2, <1>3, <1>6, Tally, CacheAssumption DEF Offset
  <2>3. pend' = <<>> /\ bus_rsp'.ack = 0 /\ bus_rsp'.err # 1
    BY <1>2, <2>2, Tally, NothingMore, CacheAssumption DEF Offset
  <2>4. CASE LastWord /\ ~BURSTS_EN
    <3>1. ctrl'.state = "S_WRITE_DONE" /\ ctrl'.ofs_int = 0
      BY <2>1, <2>4, Tally DEF Moved
    <3> QED BY <2>3, <3>1, WriteEnds
  <2>5. CASE ~LastWord \/ BURSTS_EN
    <3>1. ~LastWord
      BY <1>3, <2>5, Tally, CacheAssumption DEF LastWord
    <3>2. ctrl'.state \in {"S_WRITE_WAIT", "S_WRITE_START"} /\ (ctrl'.state = "S_WRITE_WAIT" <=> BURSTS_EN)
      BY <2>1, <3>1 DEF Moved
    <3>3. Uploading' /\ ~Downloading' /\ Words' = Words
      BY <1>2, <2>1, <3>2, WordsKept DEF Moved, Carried, Downloading, Uploading
    <3>4. ctrl'.ofs_int = Got /\ ctrl'.ofs_ext = Sent /\ Sent' = Next1Sent /\ Got = ctrl.ofs_int + 1
      BY <1>2, <1>6, <2>1, <2>2, <3>1, <3>2, Tally DEF Moved, Sent
    <3>5. Outstanding' /\ (bus_rsp'.err = 1 => bus_rsp'.ack = 1)
      BY <1>2, <3>3, <3>4, StillMoving
    <3> QED BY <1>3, <1>4, <2>2, <2>3, <3>2, <3>3, <3>4, <3>5, Tally, CacheAssumption
          DEF TransferPart, TransferSide, OffsetSide, ReadSide, Offset
  <2> QED BY <2>4, <2>5
<1> QED BY <1>5, <1>6

LEMMA WriteWaitPart ==
  ASSUME TypeInv, TypeInv', TransferPart, BusAnswer \/ BusStall, generics' = generics,
         WriteWait(host_req, sync_i)
  PROVE  TransferPart'
<1>1. ctrl.state = "S_WRITE_WAIT"
      /\ Moved("S_WRITE_BURST", ctrl.tag, ctrl.bus_err, ctrl.ofs_int, NextOfs(ctrl.ofs_ext))
  BY StartSteps DEF WriteWait
<1>2. /\ Uploading /\ ~BlockStrobe /\ Next1Sent = Sent /\ Sent = ctrl.ofs_ext
      /\ Uploading' /\ ~Downloading' /\ ram' = ram
  BY <1>1, UploadLooks DEF BlockStrobe, Next1Sent, Sent, Moved, Uploading, Downloading
<1>3. BURSTS_EN /\ ctrl.ofs_ext = 1 /\ ctrl.ofs_int = 1 /\ bus_rsp.ack = 0
  BY <1>1 DEF TransferPart, OffsetSide
<1>4. Words' = Words
  BY <1>1, <1>2, WordsKept DEF Moved, Carried
<1>5. BLOCK_WORDS >= 2 /\ NextOfs(ctrl.ofs_ext) = 2
  BY <1>3, Tally, CacheAssumption
<1>6. ctrl'.ofs_int = 1 /\ ctrl'.ofs_ext = 2 /\ ctrl'.ofs_buf = 1 /\ ctrl'.state = "S_WRITE_BURST"
  BY <1>1, <1>3, <1>5 DEF Moved, Carried
<1>7. ctrl'.ofs_int = Got /\ Sent' = Next1Sent
  BY <1>2, <1>3, <1>5, <1>6, Tally, CacheAssumption DEF Sent
<1>8. Outstanding' /\ (bus_rsp'.err = 1 => bus_rsp'.ack = 1)
  BY <1>2, <1>4, <1>7, StillMoving
<1>9. 1 < BLOCK_WORDS => rd'.data = ram'.data[ctrl'.idx][1]
  BY <1>1, <1>3, UploadLooks DEF Moved, Carried
<1>10. BURSTS_EN' <=> BURSTS_EN
  BY DEF BURSTS_EN
<1>11. OffsetSide'
  BY <1>3, <1>5, <1>6, <1>10, CacheAssumption DEF OffsetSide
<1> QED BY <1>2, <1>6, <1>8, <1>9, <1>11 DEF TransferPart, TransferSide, ReadSide

LEMMA WriteBurstPart ==
  ASSUME TypeInv, TypeInv', TransferPart, BusAnswer \/ BusStall, generics' = generics,
         WriteBurst(host_req, sync_i, bus_rsp)
  PROVE  TransferPart'
<1> DEFINE x == IF ctrl.ofs_buf < BLOCK_WORDS THEN NextOfs(ctrl.ofs_ext) ELSE ctrl.ofs_ext
<1>1. /\ ctrl.state = "S_WRITE_BURST"
      /\ IF bus_rsp.ack = 0
         THEN Moved("S_WRITE_BURST", ctrl.tag, ctrl.bus_err, ctrl.ofs_int, x)
         ELSE Moved(IF LastWord THEN "S_WRITE_DONE" ELSE "S_WRITE_BURST", ctrl.tag, ErrNext, IntNext, x)
  BY WordSteps DEF WriteBurst
<1>2. Uploading /\ (BlockStrobe <=> ctrl.ofs_buf < BLOCK_WORDS) /\ ram' = ram
      /\ Sent = IF ctrl.ofs_buf <= BLOCK_WORDS THEN ctrl.ofs_buf ELSE BLOCK_WORDS
  BY <1>1, UploadLooks DEF BlockStrobe, Sent
<1>3. /\ BURSTS_EN /\ ctrl.ofs_int >= 1 /\ ctrl.ofs_buf >= 1
      /\ ctrl.ofs_ext = IF ctrl.ofs_buf <= BLOCK_WORDS THEN ctrl.ofs_buf + 1 ELSE ctrl.ofs_buf
      /\ ctrl.ofs_buf <= BLOCK_WORDS + 1
  BY <1>1 DEF TransferPart, OffsetSide
<1>4. BURSTS_EN' <=> BURSTS_EN
  BY DEF BURSTS_EN
<1>5. x = IF ctrl.ofs_buf < BLOCK_WORDS THEN ctrl.ofs_ext + 1 ELSE ctrl.ofs_ext
  BY <1>3, Tally, CacheAssumption
<1> HIDE DEF x
<1>6. CASE bus_rsp.ack # 0 /\ LastWord
  <2>1. ctrl'.state = "S_WRITE_DONE" /\ ctrl'.ofs_int = 0
    BY <1>1, <1>6, Tally DEF Moved
  <2>2. Got = BLOCK_WORDS
    BY <1>6, Tally, CacheAssumption DEF LastWord
  <2>3. pend' = <<>> /\ bus_rsp'.ack = 0 /\ bus_rsp'.err # 1
    BY <1>2, <2>2, NothingMore
  <2> QED BY <2>1, <2>3, WriteEnds
<1>7. CASE bus_rsp.ack = 0 \/ ~LastWord
  <2>1. /\ ctrl'.state = "S_WRITE_BURST" /\ ctrl'.tag = ctrl.tag /\ ctrl'.idx = ctrl.idx
        /\ ctrl'.ofs_int = Got /\ ctrl'.ofs_ext = x /\ ctrl'.ofs_buf = ctrl.ofs_ext
    BY <1>1, <1>7, Tally DEF Moved, Carried
  <2>2. Uploading' /\ ~Downloading' /\ Words' = Words
    BY <1>2, <2>1, WordsKept DEF Downloading, Uploading
  <2>3. Sent' = Next1Sent
    BY <1>2, <1>3, <2>1, Tally, CacheAssumption DEF Sent, Next1Sent
  <2>4. Outstanding' /\ (bus_rsp'.err = 1 => bus_rsp'.ack = 1)
    BY <1>2, <2>1, <2>2, <2>3, StillMoving
  <2>5. Got >= 1
    BY <1>3, Tally, CacheAssumption DEF Offset, Bit
  <2>6. ctrl'.ofs_buf < BLOCK_WORDS => rd'.data = ram'.data[ctrl'.idx][ctrl'.ofs_buf]
    BY <1>1, <2>1, UploadLooks
  <2>7. /\ ctrl'.ofs_buf >= 1 /\ ctrl'.ofs_buf <= BLOCK_WORDS + 1
        /\ ctrl'.ofs_ext = IF ctrl'.ofs_buf <= BLOCK_WORDS THEN ctrl'.ofs_buf + 1 ELSE ctrl'.ofs_buf
    BY <1>3, <1>5, <2>1, Tally, CacheAssumption
  <2>8. OffsetSide'
    BY <1>3, <1>4, <2>1, <2>5, <2>7 DEF OffsetSide
  <2> QED BY <2>1, <2>2, <2>4, <2>6, <2>8 DEF TransferPart, TransferSide, ReadSide
<1> QED BY <1>6, <1>7

-----------------------------------------------------------------------------
(* The invariant. *)

LEMMA TransferPartStep ==
  ASSUME TypeInv, TypeInv', HostSide, FenceSide, TransferPart, Edge
  PROVE  TransferPart'
<1>1. (BusAnswer \/ BusStall) /\ generics' = generics
  BY DEF Edge, CacheTick
<1>2. CASE Idle(host_req, sync_i)
  <2>1. ctrl.state = "S_IDLE"
    BY <1>2 DEF Idle
  <2>2. ctrl'.state \in {"S_CHECK", "S_SYNC_START", "S_IDLE"}
    BY <1>2, IdleStep
  <2> QED BY <1>1, <2>1, <2>2, RestStep DEF Downloading, Uploading
<1>3. CASE ctrl.state = "S_CHECK"
  <2>1. PICK s \in {"S_BYPASS", "S_WRITE_START", "S_READ_START", "S_IDLE"} : CheckTo(host_req, sync_i, s)
    BY <1>3, CheckOutcome DEF Edge
  <2>2. ctrl'.state = s /\ ctrl'.bp_req = 1 /\ ctrl'.ofs_int = 0 /\ ctrl'.ofs_ext = 0
    BY <2>1, CheckStep DEF state_t
  <2> QED BY <1>1, <1>3, <2>2, RestStep DEF Downloading, Uploading
<1>4. CASE SyncStart(host_req, sync_i) \/ SyncNext(host_req, sync_i) \/ SyncDelay(host_req, sync_i) \/ SyncCheck(host_req, sync_i)
  <2>1. ctrl.state \in Syncing
    BY <1>4 DEF SyncStart, SyncNext, SyncDelay, SyncCheck, Syncing
  <2>2. \/ ctrl'.state \in {"S_SYNC_DELAY", "S_IDLE", "S_SYNC_CHECK", "S_SYNC_NEXT"}
        \/ ctrl'.state = "S_WRITE_START" /\ ctrl'.ofs_int = 0 /\ ctrl'.ofs_ext = 0
    BY <1>4, SyncSteps, StartSteps DEF Moved
  <2> QED BY <1>1, <2>1, <2>2, RestStep DEF Downloading, Uploading, Syncing
<1>5. CASE ReadDone(host_req, sync_i) \/ WriteDone(host_req, sync_i)
  <2>1. ctrl.state \in {"S_READ_DONE", "S_WRITE_DONE"}
    BY <1>5 DEF ReadDone, WriteDone
  <2>2. ctrl'.state \in {"S_IDLE", "S_CHECK", "S_SYNC_NEXT"}
    BY <1>5, EndSteps DEF Moved
  <2> QED BY <1>1, <2>1, <2>2, RestStep DEF Downloading, Uploading
<1>6. CASE \/ ReadStart(host_req, sync_i) \/ ReadWait(host_req, sync_i, bus_rsp)
           \/ ReadBurst(host_req, sync_i, bus_rsp)
  BY <1>1, <1>6, ReadStartPart, ReadWaitPart, ReadBurstPart
<1>7. CASE \/ WriteStart(host_req, sync_i) \/ WriteReq(host_req, sync_i) \/ WriteRsp(host_req, sync_i, bus_rsp)
           \/ WriteWait(host_req, sync_i) \/ WriteBurst(host_req, sync_i, bus_rsp)
  BY <1>1, <1>7, WriteStartPart, WriteReqPart, WriteRspPart, WriteWaitPart, WriteBurstPart
<1>8. CASE Bypass(host_req, sync_i, bus_rsp)
  BY <1>8, BypassPart
<1>9. CASE \/ CheckBypassUncached(host_req, sync_i) \/ CheckBypassDirty(host_req, sync_i)
           \/ CheckBypassClean(host_req, sync_i) \/ CheckHit(host_req, sync_i) \/ CheckMiss(host_req, sync_i)
  <2>1. ctrl.state = "S_CHECK"
    BY <1>9 DEF CheckBypassUncached, CheckBypassDirty, CheckBypassClean, CheckHit, CheckMiss, CheckTo
  <2> QED BY <1>3, <2>1
<1> QED BY <1>2, <1>4, <1>5, <1>6, <1>7, <1>8, <1>9 DEF Edge, CacheTick

LEMMA ControlInit ==
  ASSUME Init
  PROVE  ControlInv
<1>1. ctrl \in ctrl_t
  BY Counters DEF Init, CacheInit, ctrl_reset, ctrl_t, state_t, Bit
<1>2. ram \in ram_t /\ rd \in [valid : Bit, dirty : Bit, tag : Tag, data : Word]
  BY Counters, ZeroType DEF Init, CacheInit, ram_t, Bit
<1>3. host_req \in bus_req_t
  <2>1. 0 \in Addr
    BY Counters, AddrJoin, CacheAssumption, Below DEF Addr
  <2> QED BY <2>1, ZeroType DEF Init, HostInit, ReqIdle, bus_req_t, WordBE, Bit
<1>4. TypeInv
  <2>1. generics \in Generics /\ host_state = "ready" /\ sync_i \in Bit /\ pend = <<>> /\ failed = FALSE
    BY DEF Init, CacheInit, HostInit, Bit
  <2>2. bus_rsp \in bus_rsp_t
    BY ZeroType DEF Init, RspIdle, bus_rsp_t, Bit
  <2>3. main \in [Addr -> Word]
    BY ZeroType DEF Init
  <2>4. pend \in Seq(bus_req_t)
    BY <2>1
  <2> QED BY <1>1, <1>2, <1>3, <2>1, <2>2, <2>3, <2>4 DEF TypeInv, CacheTypeOK, HostTypeOK
<1>5. ctrl.state = "S_IDLE" /\ ctrl.pnd_req = 0 /\ ctrl.pnd_syn = 0 /\ ctrl.sync = 0
  BY DEF Init, CacheInit, ctrl_reset
<1>6. ~Serving
  BY <1>5 DEF Serving, Reading, Writing
<1>7. host_state = "ready" /\ host_req.stb = 0 /\ sync_i = 0 /\ pend = <<>> /\ bus_rsp.ack = 0 /\ bus_rsp.err = 0 /\ failed = FALSE
  BY DEF Init, HostInit, ReqIdle, RspIdle
<1>8. HostSide /\ FenceSide /\ AccessSide /\ ErrorSide
  BY <1>5, <1>6, <1>7 DEF HostSide, FenceSide, AccessSide, ErrorSide, Syncing, Reading
<1>9. TransferPart
  BY <1>5, <1>7 DEF TransferPart, TransferSide, OffsetSide, ReadSide, Quiet, Downloading, Uploading
<1> QED BY <1>4, <1>8, <1>9 DEF ControlInv, TransferPart

\* The other master's writes touch only main memory and the history.
LEMMA ControlFrame ==
  ASSUME ControlInv, TypeInv',
         UNCHANGED <<cacheVars, hostVars, bus_rsp, pend, failed>>
  PROVE  ControlInv'
<1> USE DEF cacheVars, hostVars
<1>1. /\ ctrl' = ctrl /\ ram' = ram /\ rd' = rd /\ generics' = generics /\ host_state' = host_state
      /\ host_req' = host_req /\ sync_i' = sync_i /\ bus_rsp' = bus_rsp /\ pend' = pend /\ failed' = failed
  OBVIOUS
<1>2. Serving' = Serving /\ READ_ONLY' = READ_ONLY /\ BURSTS_EN' = BURSTS_EN
  BY <1>1 DEF Serving, READ_ONLY, BURSTS_EN
<1>3. HostSide' /\ FenceSide' /\ AccessSide' /\ ErrorSide'
  BY <1>1, <1>2 DEF ControlInv, HostSide, FenceSide, AccessSide, ErrorSide, Genuine
<1>4. Words' = Words /\ Got' = Got /\ Sent' = Sent /\ Downloading' = Downloading /\ Uploading' = Uploading
  BY <1>1 DEF Words, Got, Sent, Downloading, Uploading
<1>5. TransferSide' /\ OffsetSide' /\ ReadSide'
  BY <1>1, <1>2, <1>4 DEF ControlInv, TransferSide, OffsetSide, ReadSide, Outstanding, Quiet
<1> QED BY <1>3, <1>5 DEF ControlInv

LEMMA ControlStep ==
  ASSUME ControlInv, [Next]_vars
  PROVE  ControlInv'
<1>1. TypeInv /\ TypeInv' /\ HostSide /\ FenceSide /\ AccessSide /\ OffsetSide /\ TransferSide
      /\ ReadSide /\ ErrorSide
  BY TypeStep DEF ControlInv
<1>2. CASE TickWith(BusAnswer) \/ TickWith(BusStall)
  <2>1. Edge
    BY <1>2 DEF TickWith, Edge
  <2>2. HostSide' /\ FenceSide' /\ AccessSide' /\ ErrorSide'
    BY <1>1, <2>1, HostSideStep, FenceSideStep, AccessSideStep, ErrorSideStep
  <2>3. TransferPart'
    BY <1>1, <2>1, TransferPartStep DEF TransferPart
  <2> QED BY <1>1, <2>2, <2>3 DEF ControlInv, TransferPart
<1>3. CASE OtherWrite
  BY <1>1, <1>3, ControlFrame DEF OtherWrite
<1>4. CASE UNCHANGED vars
  BY <1>1, <1>4, ControlFrame DEF vars, busVars, histVars
<1> QED BY <1>2, <1>3, <1>4 DEF Next, Tick

\* The control engine, the CPU and the bus stay in step: an access is waiting,
\* remembered or served; every word of a block transfer is requested once,
\* answered once and counted; the word on the bus is the word of the block.
THEOREM EngineInStep == Spec => []ControlInv
<1>1. Init => ControlInv
  BY ControlInit
<1>2. ControlInv /\ [Next]_vars => ControlInv'
  BY ControlStep
<1> QED BY <1>1, <1>2, PTL DEF Spec

-----------------------------------------------------------------------------
(* What follows from it. *)

LEMMA RunLen ==
  ASSUME NEW w, NEW lo \in Int, NEW hi \in Int, lo <= hi
  PROVE  Len(Run(w, lo, hi)) = hi - lo
  BY DEF Run

\* Every signal, register and memory word of the cache and its bus always has
\* a value of its VHDL type, and never more requests are outstanding than a
\* block has words.
THEOREM TypesKept == Spec => []TypeOK
<1>1. ASSUME ControlInv PROVE TypeOK
  <2>1. TypeInv /\ TransferSide
    BY <1>1 DEF ControlInv
  <2>2. Len(pend) <= BLOCK_WORDS
    <3>1. CASE Downloading \/ Uploading
      <4>1. Outstanding
        BY <2>1, <3>1 DEF TransferSide
      <4>2. Got \in Nat /\ Sent \in Int
        BY <2>1, Tally, CacheAssumption DEF Got, Sent, Offset, Bit
      <4> QED BY <4>1, <4>2, RunLen, CacheAssumption DEF Outstanding
    <3>2. CASE ctrl.state = "S_BYPASS"
      <4>1. pend = <<>> \/ pend = <<[host_req EXCEPT !.stb = 1]>>
        BY <2>1, <3>2 DEF TransferSide, Quiet
      <4> DEFINE r == [host_req EXCEPT !.stb = 1]
      <4> HIDE DEF r
      <4>2. Len(<<>>) = 0 /\ Len(<<r>>) = 1
        OBVIOUS
      <4>3. pend = <<>> \/ pend = <<r>>
        BY <4>1 DEF r
      <4>4. Len(pend) = 0 \/ Len(pend) = 1
        BY <4>2, <4>3
      <4>5. BLOCK_WORDS \in Nat /\ BLOCK_WORDS >= 1
        BY CacheAssumption
      <4> QED BY <4>4, <4>5
    <3>3. CASE ~Downloading /\ ~Uploading /\ ctrl.state # "S_BYPASS"
      BY <2>1, <3>3, CacheAssumption DEF TransferSide, Quiet
    <3> QED BY <3>1, <3>2, <3>3
  <2> QED BY <2>1, <2>2 DEF TypeOK, TypeInv
<1> QED BY <1>1, EngineInStep, PTL

\* Whenever a request of a block transfer is on the bus, unanswered or being
\* answered, the cache holds the bus lock: the bus switch cannot give the bus
\* to the other host before the last word is acknowledged.
THEOREM LockHeld == Spec => []LockCoversTransfer
<1>1. ASSUME ControlInv PROVE LockCoversTransfer
  <2>1. ~Downloading /\ ~Uploading /\ ctrl.state # "S_BYPASS" => pend = <<>> /\ bus_rsp.ack = 0
    BY <1>1 DEF ControlInv, TransferSide, Quiet
  <2>2. bus_rsp.ack = 0 => bus_rsp.ack # 1
    OBVIOUS
  <2>3. Downloading \/ Uploading => cache_lock = 1
    BY DEF cache_lock, BitOf
  <2> QED BY <2>1, <2>2, <2>3 DEF LockCoversTransfer
<1> QED BY <1>1, EngineInStep, PTL

\* The answer to an access carries an error exactly if a bus transfer made for
\* that access failed: no error is lost, none is invented, and the error of a
\* fence's write-back is not blamed on the access that waits for the fence.
THEOREM ErrorsAnswered == Spec => []ErrorsReported
<1>1. ASSUME ControlInv, Answered PROVE HostRsp.err = 1 <=> failed \/ (bus_rsp.err = 1 /\ ctrl.sync = 0)
  <2>1. TypeInv /\ HostSide /\ FenceSide /\ TransferSide /\ ErrorSide
    BY <1>1 DEF ControlInv
  <2>2. Finishing /\ Serving
    BY <1>1, <2>1, AnsweredIs, FinishServes
  <2>3. ctrl.sync = 0 /\ (failed <=> ctrl.bus_err = 1) /\ failed \in BOOLEAN
    BY <2>1, <2>2 DEF Serving, FenceSide, ErrorSide, TypeInv
  <2>4. CASE ctrl.state = "S_BYPASS"
    <3>1. HostRsp.err = bus_rsp.err
      BY <2>4 DEF HostRsp, cache_rsp
    <3>2. ctrl.bus_err # 1
      BY <2>1, <2>4 DEF ErrorSide
    <3> QED BY <2>3, <3>1, <3>2
  <2>5. CASE ctrl.state # "S_BYPASS"
    <3>1. HostRsp.err = 1 <=> TransferFailed
      BY <2>5 DEF HostRsp, cache_rsp, BitOf
    <3>2. ctrl.state \in {"S_CHECK", "S_READ_DONE", "S_WRITE_DONE"}
      BY <2>2, <2>5 DEF Finishing
    <3>3. bus_rsp.ack = 0 /\ (bus_rsp.err = 1 => bus_rsp.ack = 1)
      BY <2>1, <3>2 DEF TransferSide, Quiet, Downloading, Uploading
    <3>4. bus_rsp.err # 1
      BY <3>3
    <3>5. ctrl.state = "S_CHECK" => ctrl.bus_err # 1 /\ ~TransferFailed
      BY <2>1 DEF ErrorSide, TransferFailed
    <3> QED BY <2>2, <2>3, <3>1, <3>2, <3>4, <3>5 DEF Finishing, TransferFailed
  <2> QED BY <2>4, <2>5
<1>2. ControlInv => ErrorsReported
  BY <1>1 DEF ErrorsReported
<1> QED BY <1>2, EngineInStep, PTL

-----------------------------------------------------------------------------
(* What the cache and main memory hold. *)

Word0(a) == ram.data[IdxOf(a)][OfsOf(a)]

\* A block that main memory does not have yet.
Dirty(i) == ~READ_ONLY /\ ram.valid[i] = 1 /\ ram.dirty[i] = 1
Held(a)  == InBlock(a) /\ Dirty(IdxOf(a))

\* A fence will still reach block i.
Passing == ctrl.state \in Syncing \/ (ctrl.state \in Writing /\ ctrl.sync = 1)
FenceDue == sync_i = 1 \/ ctrl.pnd_syn = 1 \/ ctrl.state = "S_SYNC_START"
FenceAhead(i) == FenceDue \/ (Passing /\ ctrl.idx <= i)

Filling(i) == ctrl.state \in Reading /\ ctrl.idx = i

\* A write that bypasses the cache is in memory but not answered yet.
Performed(a) ==
  /\ ctrl.state = "S_BYPASS" /\ bus_rsp.ack = 1 /\ bus_rsp.err = 0
  /\ IsWrite(host_req) /\ a = host_req.addr
  /\ main[a] = MergeWord(ref[a], host_req.data, host_req.ben)

HistType ==
  /\ ref \in [Addr -> Word] /\ stale \subseteq OtherAddrs[generics] /\ lost \subseteq Addr
  /\ flushed \in BOOLEAN /\ void \in BOOLEAN

\* A dirty block holds the words as last written, none of them shared.
DirtyHolds(a) ==
  Held(a) => (a \in lost \/ Word0(a) = ref[a]) /\ a \notin OtherAddrs[generics]

\* Main memory holds every other word as last written.
MainCurrent(a) ==
  a \in lost \/ main[a] = ref[a] \/ Held(a) \/ Performed(a)

\* A clean block is a copy of main memory, up to what a fence will drop.
CleanHolds(a) ==
  InBlock(a) /\ ~Dirty(IdxOf(a)) /\ ~Filling(IdxOf(a)) =>
    Word0(a) = main[a] \/ a \in stale \/ FenceAhead(IdxOf(a))

GlobalAt(a) == DirtyHolds(a) /\ MainCurrent(a) /\ CleanHolds(a)

FetchedWord(k) == AddrOf(ctrl.tag, ctrl.idx, k)

FillSide ==
  ctrl.state \in Reading =>
    /\ ~Dirty(ctrl.idx)
    /\ ctrl.bus_err = 1 \/ FenceDue \/
         \A k \in Offset : k < ctrl.ofs_int \/ ctrl.state = "S_READ_DONE" =>
            ram.data[ctrl.idx][k] = main[FetchedWord(k)] \/ FetchedWord(k) \in stale
    /\ bus_rsp.ack = 1 /\ bus_rsp.err = 0 =>
         bus_rsp.data = main[FetchedWord(ctrl.ofs_int)] \/ FetchedWord(ctrl.ofs_int) \in stale \/ FenceDue

OwnWord(k) == AddrOf(ram.tag[ctrl.idx], ctrl.idx, k)
WriteSide ==
  ctrl.state \in Writing =>
    /\ Dirty(ctrl.idx)
    /\ IF ctrl.state = "S_WRITE_START" /\ ctrl.ofs_int = 0
       THEN rd.tag = ram.tag[ctrl.idx] ELSE ctrl.tag = ram.tag[ctrl.idx]
    /\ ctrl.sync = 0 /\ ctrl.pnd_bp = 0 => ram.tag[ctrl.idx] # TagOf(host_req.addr)
    /\ ctrl.bus_err = 1 \/ bus_rsp.err = 1 \/
         \A k \in Offset : k < Got \/ ctrl.state = "S_WRITE_DONE" =>
            main[OwnWord(k)] = ram.data[ctrl.idx][k]

SyncSide ==
  /\ ctrl.state = "S_SYNC_CHECK" =>
       /\ ctrl.cln = 0
       /\ rd.valid = ram.valid[ctrl.idx]
       /\ ~READ_ONLY => rd.dirty = ram.dirty[ctrl.idx]
  /\ ctrl.state = "S_SYNC_NEXT" =>
       \/ ~Dirty(ctrl.idx) /\ ctrl.bus_err = 0
       \/ /\ Dirty(ctrl.idx) /\ ctrl.tag = ram.tag[ctrl.idx]
          /\ ctrl.bus_err = 1 \/ \A k \in Offset : main[OwnWord(k)] = ram.data[ctrl.idx][k]

CheckSide ==
  ctrl.state = "S_CHECK" =>
    LET i == IdxOf(host_req.addr) IN
    /\ ctrl.hit = 1 => ctrl.cln = 0 /\ ctrl.pnd_bp = 0 /\ InBlock(host_req.addr) /\ ~Dirty(i)
    /\ ctrl.hit # 1 => rd.valid = ram.valid[i] /\ rd.tag = ram.tag[i]
    /\ ctrl.hit # 1 /\ ctrl.cln # 1 /\ ~READ_ONLY => rd.dirty = ram.dirty[i]
    /\ ctrl.cln = 1 => ~Dirty(i) /\ (ctrl.pnd_bp = 0 => rd.tag # TagOf(host_req.addr))
    /\ ctrl.cln # 1 => rd.data = Word0(host_req.addr)

BypassSide ==
  ctrl.state = "S_BYPASS" =>
    /\ ~InBlock(host_req.addr)
    /\ bus_rsp.ack = 1 /\ bus_rsp.err = 0 =>
         /\ bus_rsp.data = ref[host_req.addr] \/ host_req.addr \in stale \cup lost \/ void
         /\ ~IsWrite(host_req) => bus_rsp.data = main[host_req.addr] \/ host_req.addr \in stale \/ void
         /\ IsWrite(host_req) => host_req.addr \in lost \/ Performed(host_req.addr)

VoidSide ==
  /\ host_state = "wait" /\ sync_i = 1 => void
  /\ Serving /\ ctrl.pnd_syn = 1 => void

FlushSide ==
  flushed =>
    /\ \A i \in Index : FenceAhead(i) \/ ~Dirty(i)
    /\ ctrl.state \in Writing \cup {"S_SYNC_NEXT"} /\ ctrl.sync = 1 /\ ctrl.bus_err = 1 => sync_i = 1 \/ ctrl.pnd_syn = 1

GlobalPart == \A a \in Addr : GlobalAt(a)
LocalPart  == FillSide /\ WriteSide /\ SyncSide /\ CheckSide /\ BypassSide

DataInv == ControlInv /\ HistType /\ GlobalPart /\ LocalPart /\ VoidSide /\ FlushSide

-----------------------------------------------------------------------------
(* Addresses and steps. *)

LEMMA AddrParts ==
  ASSUME NEW a \in Addr
  PROVE  /\ TagOf(a) \in Tag /\ IdxOf(a) \in Index /\ OfsOf(a) \in Offset
         /\ a = AddrOf(TagOf(a), IdxOf(a), OfsOf(a))
  BY AddrSplit, AddrJoin

LEMMA CtrlParts ==
  ASSUME TypeInv
  PROVE  /\ ctrl.tag \in Tag /\ ctrl.idx \in Index /\ ctrl.ofs_int \in Offset
         /\ ram \in ram_t /\ rd \in [valid : Bit, dirty : Bit, tag : Tag, data : Word]
         /\ host_req.addr \in Addr /\ host_req.data \in Word /\ host_req \in bus_req_t
         /\ bus_rsp.ack \in Bit /\ bus_rsp.err \in Bit /\ bus_rsp.data \in Word
         /\ \A v \in Bit : v = 0 <=> v # 1
         /\ main \in [Addr -> Word] /\ generics \in Generics
  BY DEF TypeInv, CacheTypeOK, HostTypeOK, ctrl_t, bus_req_t, bus_rsp_t, Bit

\* The access is answered exactly when the engine finishes it.
LEMMA AnswerIsFinish ==
  ASSUME ControlInv
  PROVE  Answered <=> Finishing
<1>1. TypeInv /\ HostSide
  BY DEF ControlInv
<1>2. Finishing => host_state = "wait"
  BY <1>1, FinishServes DEF HostSide, TypeInv, HostTypeOK
<1> QED BY <1>1, <1>2, AnsweredIs

LEMMA NoAnswer ==
  ASSUME ControlInv, Edge, ~Finishing
  PROVE  ref' = ref /\ lost' = lost
  BY AnswerIsFinish DEF Edge, History

LEMMA StaleStep ==
  ASSUME Edge
  PROVE  stale' = stale \/ (stale' = {} /\ sync_i' = 1)
  BY DEF Edge, History, Fenced

\* A fence that is still to reach a block reaches it.
LEMMA FenceStep ==
  ASSUME ControlInv, Edge, NEW i \in Index
  PROVE  /\ sync_i' = 1 => FenceDue' /\ FenceAhead(i)'
         /\ FenceAhead(i) => FenceAhead(i)' \/ (ctrl.state = "S_SYNC_NEXT" /\ ctrl.idx = i)
         /\ FenceDue => FenceDue' \/ ctrl.state = "S_SYNC_START"
         /\ (sync_i = 1 \/ ctrl.pnd_syn = 1) /\ ctrl.state # "S_SYNC_START" => ctrl'.pnd_syn = 1
<1>1. TypeInv /\ HostSide /\ FenceSide
  BY DEF ControlInv
<1>2. CacheTick(host_req, sync_i, bus_rsp)
  BY DEF Edge
<1>3. sync_i' = 1 => FenceDue' /\ FenceAhead(i)'
  BY DEF FenceDue, FenceAhead
<1>4. CASE SyncStart(host_req, sync_i)
  <2>1. ctrl.state = "S_SYNC_START" /\ ctrl'.state = "S_SYNC_DELAY" /\ ctrl'.idx = 0
    BY <1>1, <1>4, SyncSteps DEF SyncStart
  <2> QED BY <1>3, <2>1, CacheAssumption DEF FenceAhead, Passing, Syncing, Index
<1>5. ASSUME ctrl.state # "S_SYNC_START",
             ctrl'.pnd_syn = 1 <=> ctrl.pnd_syn = 1 \/ sync_i = 1,
             Passing /\ ctrl.idx <= i =>
               \/ Passing' /\ ctrl'.idx <= i
               \/ ctrl.state = "S_SYNC_NEXT" /\ ctrl.idx = i
      PROVE  /\ FenceAhead(i) => FenceAhead(i)' \/ (ctrl.state = "S_SYNC_NEXT" /\ ctrl.idx = i)
             /\ FenceDue => FenceDue'
             /\ (sync_i = 1 \/ ctrl.pnd_syn = 1) => ctrl'.pnd_syn = 1
  BY <1>5 DEF FenceAhead, FenceDue
<1>6. CASE SyncNext(host_req, sync_i)
  <2>1. /\ ctrl.state = "S_SYNC_NEXT" /\ ctrl'.idx = (ctrl.idx + 1) % NUM_BLOCKS
        /\ ctrl'.state = IF ctrl.idx = NUM_BLOCKS - 1 THEN "S_IDLE" ELSE "S_SYNC_DELAY"
        /\ (ctrl'.pnd_syn = 1 <=> ctrl.pnd_syn = 1 \/ sync_i = 1)
    BY <1>1, <1>6, SyncSteps DEF SyncNext
  <2>2. ctrl.idx \in Index
    BY <1>1, CtrlParts
  <2>3. ASSUME ctrl.idx <= i, ctrl.idx # i PROVE Passing' /\ ctrl'.idx <= i
    <3>1. ctrl.idx # NUM_BLOCKS - 1
      BY <2>2, <2>3, CacheAssumption DEF Index
    <3>2. ctrl'.idx = ctrl.idx + 1 /\ ctrl'.state = "S_SYNC_DELAY"
      BY <2>1, <2>2, <3>1, Counters
    <3> QED BY <2>2, <2>3, <3>2, CacheAssumption DEF Passing, Syncing, Index
  <2> QED BY <1>3, <1>5, <2>1, <2>3
<1>7. CASE Takes \/ Rests
  <2>1. /\ ctrl.state = "S_IDLE" /\ (ctrl'.pnd_syn = 1 <=> ctrl.pnd_syn = 1 \/ sync_i = 1)
    BY <1>7 DEF Takes, Rests
  <2> QED BY <1>3, <1>5, <2>1 DEF Passing, Syncing, Writing
<1>8. CASE Serves \/ Finishes
  <2>1. /\ Serving /\ (ctrl'.pnd_syn = 1 <=> ctrl.pnd_syn = 1 \/ sync_i = 1)
    BY <1>8 DEF Serves, Finishes
  <2>2. ctrl.state \notin Syncing /\ (ctrl.state \in Writing => ctrl.sync = 0)
    BY <2>1 DEF Serving, Reading, Writing, Syncing
  <2>3. ctrl.sync = 0 => ctrl.sync # 1
    OBVIOUS
  <2> QED BY <1>3, <1>5, <2>1, <2>2, <2>3 DEF Passing, Syncing
<1>9. CASE Fences /\ ~SyncStart(host_req, sync_i) /\ ~SyncNext(host_req, sync_i)
  <2>1. ctrl.state \in Syncing \cup Writing
    BY <1>9 DEF Fences
  <2>2. Carried /\ ctrl.state # "S_SYNC_START" /\ ctrl'.state \in Syncing \cup Writing
    <3>1. CASE SyncDelay(host_req, sync_i) \/ SyncCheck(host_req, sync_i)
      BY <1>1, <3>1, StartSteps DEF SyncDelay, SyncCheck, Moved, Syncing, Writing
    <3>2. CASE WriteStart(host_req, sync_i) \/ WriteReq(host_req, sync_i) \/ WriteWait(host_req, sync_i)
      BY <1>1, <3>2, StartSteps DEF WriteStart, WriteReq, WriteWait, Moved, Writing
    <3>3. CASE WriteRsp(host_req, sync_i, bus_rsp) \/ WriteBurst(host_req, sync_i, bus_rsp)
      BY <1>1, <3>3, WordSteps DEF WriteRsp, WriteBurst, Moved, Writing
    <3>4. CASE WriteDone(host_req, sync_i)
      <4>1. ctrl.state = "S_WRITE_DONE"
        BY <3>4 DEF WriteDone
      <4>2. ctrl.sync = 1
        BY <1>1, <1>9, <4>1, CtrlParts DEF Fences, Serving, Writing, TypeInv, CacheTypeOK, ctrl_t
      <4> QED BY <1>1, <3>4, <4>1, <4>2, EndSteps DEF Moved, Syncing
    <3>5. \/ SyncDelay(host_req, sync_i) \/ SyncCheck(host_req, sync_i)
          \/ WriteStart(host_req, sync_i) \/ WriteReq(host_req, sync_i) \/ WriteWait(host_req, sync_i)
          \/ WriteRsp(host_req, sync_i, bus_rsp) \/ WriteBurst(host_req, sync_i, bus_rsp)
          \/ WriteDone(host_req, sync_i)
      BY <1>2, <1>9, <2>1 DEF CacheTick, Syncing, Writing, Idle, CheckTo, CheckBypassUncached, CheckBypassDirty,
           CheckBypassClean, CheckHit, CheckMiss, Bypass, ReadStart, ReadWait, ReadBurst, ReadDone
    <3> QED BY <3>1, <3>2, <3>3, <3>4, <3>5
  <2>3. ctrl'.sync = 1 /\ ctrl'.idx = ctrl.idx /\ (ctrl'.pnd_syn = 1 <=> ctrl.pnd_syn = 1 \/ sync_i = 1)
    BY <1>9, <2>2 DEF Fences, Carried
  <2>4. Passing'
    BY <2>2, <2>3 DEF Passing
  <2> QED BY <1>3, <1>5, <2>2, <2>3, <2>4
<1> QED BY <1>1, <1>2, <1>4, <1>6, <1>7, <1>8, <1>9, EngineStep

\* Which words the bus changes.
LEMMA MainStep ==
  ASSUME ControlInv, Edge
  PROVE  /\ ~Uploading /\ ctrl.state # "S_BYPASS" => main' = main
         /\ Uploading => \/ main' = main /\ (bus_rsp'.ack = 1 => bus_rsp'.err = 1)
                         \/ /\ bus_rsp'.ack = 1 /\ Got \in Offset
                            /\ main' = [main EXCEPT ![FetchedWord(Got)] = ram.data[ctrl.idx][Got]]
         /\ Downloading /\ bus_rsp'.ack = 1 /\ bus_rsp'.err = 0 =>
              Got \in Offset /\ bus_rsp'.data = main[FetchedWord(Got)]
<1>1. TypeInv /\ TransferPart
  BY DEF ControlInv, TransferPart
<1>2. BusAnswer \/ BusStall
  BY DEF Edge
<1>3. CASE ~Downloading /\ ~Uploading /\ ctrl.state # "S_BYPASS"
  <2>1. pend = <<>> /\ CacheReq.stb # 1
    BY <1>1, <1>3, Strobes DEF TransferPart, TransferSide, Quiet, BlockStrobe, Downloading, Uploading
  <2> QED BY <1>1, <1>2, <1>3, <2>1, QuietStep
<1>4. CASE ctrl.state = "S_BYPASS"
  BY <1>4 DEF Downloading, Uploading
<1>5. CASE Downloading \/ Uploading
  <2>1. CASE BusStall
    <3>1. main' = main /\ bus_rsp'.ack # 1
      BY <2>1 DEF BusStall, RspIdle
    <3> QED BY <1>5, <3>1 DEF Downloading, Uploading
  <2>2. CASE BusAnswer
    <3> DEFINE w == Words[Got]
    <3>1. Head(Queue) = w /\ Got \in Offset
      <4>1. /\ Got < IF BlockStrobe THEN Sent + 1 ELSE Sent
            /\ (IF BlockStrobe THEN Sent + 1 ELSE Sent) \in 0..BLOCK_WORDS
            /\ Got \in 0..BLOCK_WORDS /\ Head(Queue) = w
        BY <1>1, <1>2, <1>5, <2>2, TransferFlow DEF TransferPart
      <4> QED BY <4>1, CacheAssumption DEF Offset
    <3>2. /\ w.addr = FetchedWord(Got) /\ w.amo = 0 /\ w.ben = ByteSel
          /\ w.rw = BitOf(Uploading) /\ (Uploading => w.data = ram.data[ctrl.idx][Got])
      BY <3>1 DEF Words, FetchedWord
    <3>3. w.addr \in Addr
      BY <1>1, <3>1, <3>2, CtrlParts, AddrJoin DEF FetchedWord
    <3>4. PICK err \in Bit :
            /\ bus_rsp' = [ack |-> 1, err |-> err, data |-> IF err = 0 THEN main[w.addr] ELSE ZeroWord]
            /\ main' = IF err = 0 /\ (w.rw = 1 \/ w.amo = 1)
                       THEN [main EXCEPT ![w.addr] = MergeWord(@, w.data, w.ben)] ELSE main
      BY <2>2, <3>1 DEF BusAnswer, Bit
    <3> HIDE DEF w
    <3>5. CASE Downloading
      <4>1. ~Uploading
        BY <3>5 DEF Downloading, Uploading
      <4>2. w.rw # 1
        BY <3>2, <4>1 DEF BitOf
      <4> QED BY <3>1, <3>2, <3>4, <3>5, <4>1, <4>2
    <3>6. CASE Uploading
      <4>1. ~Downloading /\ ctrl.state # "S_BYPASS"
        BY <3>6 DEF Downloading, Uploading
      <4>2. w.rw = 1
        BY <3>2, <3>6 DEF BitOf
      <4>3. MergeWord(main[w.addr], w.data, w.ben) = w.data
        <5>1. w.data \in Word
          BY <1>1, <3>1, <3>2, <3>6, CtrlParts DEF ram_t
        <5> QED BY <3>2, <5>1 DEF MergeWord, Word
      <4>4. err = 0 => main' = [main EXCEPT ![w.addr] = w.data]
        BY <3>4, <4>2, <4>3
      <4>5. err = 0 \/ err = 1
        BY DEF Bit
      <4> QED BY <3>1, <3>2, <3>4, <3>6, <4>1, <4>4, <4>5
    <3> QED BY <1>5, <3>5, <3>6
  <2> QED BY <1>2, <2>1, <2>2
<1> QED BY <1>3, <1>4, <1>5

-----------------------------------------------------------------------------
(* Steps that change no word and answer nothing. *)

LEMMA Unchanging ==
  ASSUME Edge
  PROVE  generics' = generics /\ READ_ONLY' = READ_ONLY
  BY DEF Edge, CacheTick, READ_ONLY

\* Word a is not touched, and neither is its block's status.
StillThere(a) ==
  LET i == IdxOf(a) IN
  /\ ram'.valid[i] = ram.valid[i] /\ ram'.dirty[i] = ram.dirty[i] /\ ram'.tag[i] = ram.tag[i]
  /\ ram'.data[i][OfsOf(a)] = ram.data[i][OfsOf(a)]
  /\ ~(ctrl.state = "S_SYNC_NEXT" /\ ctrl.idx = i)
  /\ Filling(i) => Filling(i)'
  /\ main'[a] = main[a]

LEMMA CleanKept ==
  ASSUME DataInv, Edge, NEW a \in Addr, StillThere(a)
  PROVE  /\ CleanHolds(a)'
         /\ (InBlock(a)' <=> InBlock(a)) /\ Word0(a)' = Word0(a) /\ (Held(a)' <=> Held(a))
<1>1. ControlInv /\ CleanHolds(a)
  BY DEF DataInv, GlobalPart, GlobalAt
<1>2. generics' = generics /\ READ_ONLY' = READ_ONLY
  BY Unchanging
<1>3. (InBlock(a)' <=> InBlock(a)) /\ Word0(a)' = Word0(a) /\ (Dirty(IdxOf(a))' <=> Dirty(IdxOf(a)))
  BY <1>2 DEF InBlock, Word0, Dirty, StillThere
<1>4. Held(a)' <=> Held(a)
  BY <1>3 DEF Held
<1>5. CleanHolds(a)'
  <2>1. IdxOf(a) \in Index
    BY AddrParts
  <2>2. /\ sync_i' = 1 => FenceAhead(IdxOf(a))'
        /\ FenceAhead(IdxOf(a)) => FenceAhead(IdxOf(a))'
    BY <1>1, <2>1, FenceStep DEF StillThere
  <2> QED BY <1>1, <1>3, <2>2, StaleStep DEF CleanHolds, StillThere
<1> QED BY <1>3, <1>4, <1>5

LEMMA KeptAt ==
  ASSUME DataInv, Edge, NEW a \in Addr, StillThere(a),
         ref'[a] = ref[a], a \in lost => a \in lost', ~Performed(a)
  PROVE  GlobalAt(a)'
<1>1. DirtyHolds(a) /\ MainCurrent(a)
  BY DEF DataInv, GlobalPart, GlobalAt
<1>2. Word0(a)' = Word0(a) /\ (Held(a)' <=> Held(a)) /\ CleanHolds(a)'
  BY CleanKept
<1>3. DirtyHolds(a)'
  BY <1>1, <1>2, Unchanging DEF DirtyHolds
<1>4. MainCurrent(a)'
  BY <1>1, <1>2 DEF MainCurrent, StillThere
<1> QED BY <1>2, <1>3, <1>4 DEF GlobalAt

LEMMA GlobalKept ==
  ASSUME DataInv, Edge, ram' = ram, main' = main, ref' = ref, lost' = lost,
         ctrl.state # "S_SYNC_NEXT",
         \A i \in Index : Filling(i) => Filling(i)',
         \A a \in Addr : ~Performed(a)
  PROVE  GlobalPart'
<1>1. ASSUME NEW a \in Addr PROVE GlobalAt(a)'
  <2>1. IdxOf(a) \in Index
    BY AddrParts
  <2>2. StillThere(a)
    BY <2>1 DEF StillThere
  <2> QED BY <2>2, KeptAt
<1> QED BY <1>1 DEF GlobalPart

\* States without a claim on the memories.
LEMMA LocalRest ==
  ASSUME ctrl'.state \in {"S_IDLE", "S_SYNC_START", "S_SYNC_DELAY"}
  PROVE  LocalPart'
  BY DEF LocalPart, FillSide, WriteSide, SyncSide, CheckSide, BypassSide, Reading, Writing

LEMMA IdleData ==
  ASSUME DataInv, Edge, Idle(host_req, sync_i)
  PROVE  GlobalPart' /\ LocalPart'
<1>1. ControlInv /\ TypeInv /\ HostSide /\ FenceSide
  BY DEF DataInv, ControlInv
<1>2. ctrl.state = "S_IDLE" /\ CacheRam(Look(host_req.addr))
  BY DEF Idle
<1>3. ~Finishing
  BY <1>2 DEF Finishing
<1>4. /\ ram' = ram
      /\ rd'.valid = ram.valid[IdxOf(host_req.addr)] /\ rd'.tag = ram.tag[IdxOf(host_req.addr)]
      /\ rd'.data = ram.data[IdxOf(host_req.addr)][OfsOf(host_req.addr)]
      /\ ~READ_ONLY => rd'.dirty = ram.dirty[IdxOf(host_req.addr)]
  BY <1>1, <1>2, LookStep, CtrlParts
<1>5. main' = main /\ ref' = ref /\ lost' = lost
  BY <1>1, <1>2, <1>3, MainStep, NoAnswer DEF Uploading
<1>6. GlobalPart'
  BY <1>2, <1>4, <1>5, GlobalKept DEF Filling, Reading, Performed
<1>7. CASE Takes
  <2>1. host_req'.addr = host_req.addr
    BY <1>1, <1>7, ServedHeld
  <2>2. ctrl'.state = "S_CHECK" /\ ctrl'.hit = 0 /\ ctrl'.cln = 0
    BY <1>1, <1>7, IdleStep DEF Takes
  <2>3. CheckSide'
    BY <1>4, <2>1, <2>2, Unchanging DEF CheckSide, Word0
  <2> QED BY <1>6, <2>2, <2>3 DEF LocalPart, FillSide, WriteSide, SyncSide, BypassSide, Reading, Writing
<1>8. CASE Rests
  BY <1>6, <1>8, LocalRest DEF Rests
<1>9. Takes \/ Rests
  <2>1. Takes \/ Rests \/ Serves \/ Finishes \/ Fences
    BY <1>1, EngineStep DEF Edge
  <2> QED BY <1>2, <2>1 DEF Serves, Finishes, Fences, Serving, Reading, Writing, Syncing
<1> QED BY <1>7, <1>8, <1>9

LEMMA SyncStartData ==
  ASSUME DataInv, Edge, SyncStart(host_req, sync_i)
  PROVE  GlobalPart' /\ LocalPart'
<1>1. ControlInv /\ TypeInv
  BY DEF DataInv, ControlInv
<1>2. ctrl.state = "S_SYNC_START" /\ CacheRam(Look(host_req.addr)) /\ ctrl'.state = "S_SYNC_DELAY"
  BY <1>1, SyncSteps DEF SyncStart
<1>3. ~Finishing
  BY <1>2 DEF Finishing
<1>4. ram' = ram
  BY <1>1, <1>2, LookStep, CtrlParts
<1>5. main' = main /\ ref' = ref /\ lost' = lost
  BY <1>1, <1>2, <1>3, MainStep, NoAnswer DEF Uploading
<1>6. GlobalPart'
  BY <1>2, <1>4, <1>5, GlobalKept DEF Filling, Reading, Performed
<1> QED BY <1>2, <1>6, LocalRest

LEMMA SyncDelayData ==
  ASSUME DataInv, TypeInv', Edge, SyncDelay(host_req, sync_i)
  PROVE  GlobalPart' /\ LocalPart'
<1>1. ControlInv /\ TypeInv
  BY DEF DataInv, ControlInv
<1>2. /\ ctrl.state = "S_SYNC_DELAY" /\ CacheRam(Look(CtrlAddr)) /\ ctrl'.state = "S_SYNC_CHECK"
      /\ Carried
  BY <1>1, StartSteps DEF SyncDelay, Moved
<1>3. ~Finishing
  BY <1>2 DEF Finishing
<1>4. ram' = ram /\ rd'.valid = ram.valid[ctrl.idx] /\ (~READ_ONLY => rd'.dirty = ram.dirty[ctrl.idx])
  BY <1>1, <1>2, LookStep, CtrlAddrParts
<1>5. main' = main /\ ref' = ref /\ lost' = lost
  BY <1>1, <1>2, <1>3, MainStep, NoAnswer DEF Uploading
<1>6. GlobalPart'
  BY <1>2, <1>4, <1>5, GlobalKept DEF Filling, Reading, Performed
<1>7. ctrl'.cln = 0 /\ ctrl'.idx = ctrl.idx
  BY <1>2 DEF Carried, ctrl_t, Bit
<1>8. SyncSide'
  BY <1>2, <1>4, <1>7, Unchanging DEF SyncSide
<1> QED BY <1>2, <1>6, <1>8 DEF LocalPart, FillSide, WriteSide, CheckSide, BypassSide, Reading, Writing

LEMMA SyncCheckData ==
  ASSUME DataInv, ControlInv', Edge, SyncCheck(host_req, sync_i)
  PROVE  GlobalPart' /\ LocalPart'
<1>1. ControlInv /\ TypeInv /\ FenceSide /\ SyncSide /\ OffsetSide'
  BY DEF DataInv, ControlInv, LocalPart
<1>2. /\ ctrl.state = "S_SYNC_CHECK" /\ CacheRam(Look(CtrlAddr))
      /\ Moved(IF BlockDirty THEN "S_WRITE_START" ELSE "S_SYNC_NEXT", ctrl.tag, 0, 0, 0)
  BY <1>1, StartSteps DEF SyncCheck
<1>3. ~Finishing
  BY <1>2 DEF Finishing
<1>4. ram' = ram /\ rd'.tag = ram.tag[ctrl.idx]
  BY <1>1, <1>2, LookStep, CtrlAddrParts
<1>5. main' = main /\ ref' = ref /\ lost' = lost
  BY <1>1, <1>2, <1>3, MainStep, NoAnswer DEF Uploading
<1>6. GlobalPart'
  BY <1>2, <1>4, <1>5, GlobalKept DEF Filling, Reading, Performed
<1>7. BlockDirty <=> Dirty(ctrl.idx)
  BY <1>1, <1>2 DEF SyncSide, BlockDirty, Dirty
<1>8. ctrl'.idx = ctrl.idx /\ ctrl'.sync = 1 /\ ctrl'.bus_err = 0 /\ ctrl'.ofs_int = 0
  BY <1>1, <1>2 DEF Moved, Carried, FenceSide, Syncing
<1>9. Dirty(ctrl.idx)' <=> Dirty(ctrl.idx)
  BY <1>4, <1>8, Unchanging DEF Dirty
<1>10. CASE BlockDirty
  <2>1. ctrl'.state = "S_WRITE_START"
    BY <1>2, <1>10 DEF Moved
  <2>2. Got' = 0
    BY <1>1, <1>8, <2>1 DEF OffsetSide, Got
  <2>3. \A k \in Offset : ~(k < Got')
    BY <2>2, CacheAssumption DEF Offset
  <2>4. WriteSide'
    BY <1>4, <1>7, <1>8, <1>9, <1>10, <2>1, <2>3 DEF WriteSide
  <2> QED BY <1>6, <2>1, <2>4 DEF LocalPart, FillSide, SyncSide, CheckSide, BypassSide, Reading, Writing
<1>11. CASE ~BlockDirty
  <2>1. ctrl'.state = "S_SYNC_NEXT"
    BY <1>2, <1>11 DEF Moved
  <2>2. SyncSide'
    BY <1>7, <1>8, <1>9, <1>11, <2>1 DEF SyncSide
  <2> QED BY <1>6, <2>1, <2>2 DEF LocalPart, FillSide, WriteSide, CheckSide, BypassSide, Reading, Writing
<1> QED BY <1>10, <1>11

-----------------------------------------------------------------------------
(* The check. *)

\* A check that does not answer the access.
LEMMA CheckFrame ==
  ASSUME DataInv, ControlInv', Edge, NEW s \in {"S_BYPASS", "S_WRITE_START", "S_READ_START"},
         CheckTo(host_req, sync_i, s), ~(ctrl.pnd_bp = 0 /\ BlockHit(host_req))
  PROVE  /\ main' = main /\ ref' = ref /\ lost' = lost /\ bus_rsp'.ack = 0
         /\ host_req'.addr = host_req.addr
         /\ ctrl.state = "S_CHECK" /\ ctrl'.state = s /\ ctrl'.idx = IdxOf(host_req.addr)
         /\ ctrl'.ofs_int = 0 /\ ctrl'.pnd_bp = ctrl.pnd_bp
         /\ BlockDirty <=> Dirty(IdxOf(host_req.addr))
         /\ BlockHit(host_req) <=> InBlock(host_req.addr)
<1>1. ControlInv /\ TypeInv /\ HostSide /\ FenceSide /\ TransferPart /\ TypeInv' /\ CheckSide
  BY DEF DataInv, ControlInv, LocalPart, TransferPart
<1>2. /\ ctrl.state = "S_CHECK" /\ ctrl'.state = s /\ ctrl'.idx = IdxOf(host_req.addr)
      /\ ctrl'.ofs_int = 0 /\ ctrl'.pnd_bp = ctrl.pnd_bp
  BY <1>1, CheckStep DEF state_t
<1>3. ~Finishing
  BY <1>2 DEF Finishing
<1>4. main' = main /\ ref' = ref /\ lost' = lost
  BY <1>1, <1>2, <1>3, MainStep, NoAnswer DEF Uploading
<1>5. bus_rsp'.ack = 0
  BY <1>1, <1>2, RestStep DEF Edge, Downloading, Uploading
<1>6. Serves
  <2>1. Takes \/ Rests \/ Serves \/ Finishes \/ Fences
    BY <1>1, EngineStep DEF Edge
  <2> QED BY <1>2, <1>3, <2>1 DEF Takes, Rests, Finishes, Fences, Syncing, Writing
<1>7. host_req'.addr = host_req.addr
  BY <1>1, <1>6, ServedHeld
<1>8. ctrl.hit # 1
  BY <1>1, <1>2 DEF CheckSide, BlockHit
<1>9. BlockHit(host_req) <=> InBlock(host_req.addr)
  BY <1>1, <1>2, <1>8 DEF CheckSide, BlockHit, InBlock
<1>10. ctrl.cln \in Bit
  BY <1>1 DEF TypeInv, CacheTypeOK, ctrl_t
<1>11. BlockDirty <=> Dirty(IdxOf(host_req.addr))
  BY <1>1, <1>2, <1>8, <1>10 DEF CheckSide, BlockDirty, Dirty, Bit
<1> QED BY <1>2, <1>4, <1>5, <1>7, <1>9, <1>11

\* A dirty block in the way, or one to be bypassed, is written back.
LEMMA CheckWriteData ==
  ASSUME DataInv, ControlInv', Edge, CheckTo(host_req, sync_i, "S_WRITE_START"),
         ~(ctrl.pnd_bp = 0 /\ BlockHit(host_req)), BlockDirty, CacheRam(Look(host_req.addr))
  PROVE  GlobalPart' /\ LocalPart'
<1>1. ControlInv /\ TypeInv /\ OffsetSide'
  BY DEF DataInv, ControlInv
<1>2. /\ main' = main /\ ref' = ref /\ lost' = lost /\ bus_rsp'.ack = 0
      /\ host_req'.addr = host_req.addr
      /\ ctrl.state = "S_CHECK" /\ ctrl'.state = "S_WRITE_START" /\ ctrl'.idx = IdxOf(host_req.addr)
      /\ ctrl'.ofs_int = 0 /\ ctrl'.pnd_bp = ctrl.pnd_bp
      /\ Dirty(IdxOf(host_req.addr))
      /\ BlockHit(host_req) <=> InBlock(host_req.addr)
  BY CheckFrame
<1>3. ram' = ram /\ rd'.tag = ram.tag[IdxOf(host_req.addr)]
  BY <1>1, LookStep, CtrlParts
<1>4. GlobalPart'
  BY <1>2, <1>3, GlobalKept DEF Filling, Reading, Performed
<1>5. Dirty(ctrl.idx)'
  BY <1>2, <1>3, Unchanging DEF Dirty
<1>6. \A k \in Offset : ~(k < Got')
  BY <1>2, CacheAssumption DEF Got, Offset
<1>7. ctrl'.sync = 0 /\ ctrl'.pnd_bp = 0 => ram'.tag[ctrl'.idx] # TagOf(host_req'.addr)
  BY <1>2, <1>3 DEF InBlock, Dirty
<1>8. WriteSide'
  BY <1>2, <1>3, <1>5, <1>6, <1>7 DEF WriteSide
<1> QED BY <1>2, <1>4, <1>8 DEF LocalPart, FillSide, SyncSide, CheckSide, BypassSide, Reading, Writing

LEMMA CheckMissData ==
  ASSUME DataInv, ControlInv', Edge, CheckMiss(host_req, sync_i)
  PROVE  GlobalPart' /\ LocalPart'
<1>1. ControlInv /\ TypeInv
  BY DEF DataInv, ControlInv
<1>2. /\ CheckTo(host_req, sync_i, IF BlockDirty THEN "S_WRITE_START" ELSE "S_READ_START")
      /\ ~BlockHit(host_req) /\ CacheRam(Look(host_req.addr))
  BY DEF CheckMiss
<1>3. CASE BlockDirty
  BY <1>2, <1>3, CheckWriteData
<1>4. CASE ~BlockDirty
  <2>1. CheckTo(host_req, sync_i, "S_READ_START")
    BY <1>2, <1>4
  <2>2. /\ main' = main /\ ref' = ref /\ lost' = lost /\ bus_rsp'.ack = 0
        /\ host_req'.addr = host_req.addr
        /\ ctrl.state = "S_CHECK" /\ ctrl'.state = "S_READ_START" /\ ctrl'.idx = IdxOf(host_req.addr)
        /\ ctrl'.ofs_int = 0
        /\ ~Dirty(IdxOf(host_req.addr))
    BY <1>2, <1>4, <2>1, CheckFrame
  <2>3. ram' = ram
    BY <1>1, <1>2, LookStep, CtrlParts
  <2>4. GlobalPart'
    BY <2>2, <2>3, GlobalKept DEF Filling, Reading, Performed
  <2>5. ~Dirty(ctrl.idx)'
    BY <2>2, <2>3, Unchanging DEF Dirty
  <2>6. \A k \in Offset : ~(k < ctrl'.ofs_int)
    BY <2>2, CacheAssumption DEF Offset
  <2>7. FillSide'
    BY <2>2, <2>5, <2>6 DEF FillSide
  <2> QED BY <2>2, <2>4, <2>7 DEF LocalPart, WriteSide, SyncSide, CheckSide, BypassSide, Writing
<1> QED BY <1>3, <1>4

LEMMA CheckBypassDirtyData ==
  ASSUME DataInv, ControlInv', Edge, CheckBypassDirty(host_req, sync_i)
  PROVE  GlobalPart' /\ LocalPart'
<1>1. ctrl.pnd_bp = 1 => ctrl.pnd_bp # 0
  OBVIOUS
<1> QED BY <1>1, CheckWriteData DEF CheckBypassDirty

LEMMA CheckBypassUncachedData ==
  ASSUME DataInv, ControlInv', Edge, CheckBypassUncached(host_req, sync_i)
  PROVE  GlobalPart' /\ LocalPart'
<1>1. ControlInv /\ TypeInv
  BY DEF DataInv, ControlInv
<1>2. /\ main' = main /\ ref' = ref /\ lost' = lost /\ bus_rsp'.ack = 0
      /\ host_req'.addr = host_req.addr
      /\ ctrl.state = "S_CHECK" /\ ctrl'.state = "S_BYPASS" /\ ~InBlock(host_req.addr)
  BY CheckFrame DEF CheckBypassUncached
<1>3. ram' = ram
  BY <1>1, LookStep, CtrlParts DEF CheckBypassUncached
<1>4. GlobalPart'
  BY <1>2, <1>3, GlobalKept DEF Filling, Reading, Performed
<1>5. ~InBlock(host_req.addr)'
  BY <1>2, <1>3 DEF InBlock
<1>6. BypassSide'
  BY <1>2, <1>5 DEF BypassSide
<1> QED BY <1>2, <1>4, <1>6 DEF LocalPart, FillSide, WriteSide, SyncSide, CheckSide, Reading, Writing

LEMMA CheckBypassCleanData ==
  ASSUME DataInv, ControlInv', Edge, CheckBypassClean(host_req, sync_i)
  PROVE  GlobalPart' /\ LocalPart'
<1> DEFINE h == host_req.addr
           i == IdxOf(h)
           c == [Look(h) EXCEPT !.set = 1]
<1>1. ControlInv /\ TypeInv
  BY DEF DataInv, ControlInv
<1>2. /\ main' = main /\ ref' = ref /\ lost' = lost /\ bus_rsp'.ack = 0
      /\ host_req'.addr = h
      /\ ctrl.state = "S_CHECK" /\ ctrl'.state = "S_BYPASS" /\ InBlock(h) /\ ~Dirty(i)
  <2>1. ctrl.pnd_bp = 1 => ctrl.pnd_bp # 0
    OBVIOUS
  <2> QED BY <2>1, CheckFrame DEF CheckBypassClean
<1>3. h \in Addr /\ i \in Index
  BY <1>1, CtrlParts, AddrParts
<1>4. c \in Command /\ c.addr = h /\ c.set = 1 /\ c.vld = 0 /\ c.we = {} /\ CacheRam(c)
  BY <1>3, ZeroType DEF CheckBypassClean, Look, Command, Bit, WordBE
<1>5. ram \in ram_t
  BY <1>1, CtrlParts
<1> HIDE DEF c
<1>6. /\ ram'.valid = [ram.valid EXCEPT ![i] = 0]
      /\ ram'.dirty = IF ~READ_ONLY /\ (c.set = 1 \/ c.drt = 1) THEN [ram.dirty EXCEPT ![i] = c.drt] ELSE ram.dirty
      /\ ram'.tag = [ram.tag EXCEPT ![i] = TagOf(h)]
      /\ ram'.data = [ram.data EXCEPT ![i][OfsOf(h)] = MergeWord(@, c.data, c.we)]
  BY <1>1, <1>4, RamStep
<1> HIDE DEF h, i
<1>7. ~InBlock(h)' /\ \A a \in Addr : IdxOf(a) = i => ~InBlock(a)'
  <2>1. ram'.valid[i] # 1
    BY <1>3, <1>5, <1>6 DEF ram_t
  <2> QED BY <1>2, <2>1 DEF InBlock, i, h
<1>8. ASSUME NEW a \in Addr PROVE GlobalAt(a)'
  <2>1. IdxOf(a) \in Index
    BY AddrParts
  <2>2. ~Performed(a) /\ ~Filling(IdxOf(a))
    BY <1>2 DEF Performed, Filling, Reading
  <2>3. CASE IdxOf(a) = i
    <3>1. ~InBlock(a)' /\ ~Held(a)' /\ ~Held(a)
      BY <1>2, <1>7, <2>3 DEF Held
    <3>2. a \in lost \/ main[a] = ref[a]
      BY <2>2, <3>1 DEF DataInv, GlobalPart, GlobalAt, MainCurrent
    <3> QED BY <1>2, <3>1, <3>2 DEF GlobalAt, DirtyHolds, MainCurrent, CleanHolds
  <2>4. CASE IdxOf(a) # i
    <3>1. StillThere(a)
      BY <1>2, <1>3, <1>5, <1>6, <2>1, <2>2, <2>4 DEF ram_t, StillThere
    <3> QED BY <1>2, <2>2, <3>1, KeptAt
  <2> QED BY <2>3, <2>4
<1>9. BypassSide'
  BY <1>2, <1>7 DEF BypassSide, h
<1>10. GlobalPart'
  BY <1>8 DEF GlobalPart
<1> QED BY <1>2, <1>9, <1>10 DEF LocalPart, FillSide, WriteSide, SyncSide, CheckSide, Reading, Writing

\* A check that answers the access.
LEMMA CheckHitFacts ==
  ASSUME DataInv, Edge, CheckHit(host_req, sync_i)
  PROVE  LET h == host_req.addr IN
         /\ main' = main /\ ctrl.state = "S_CHECK" /\ ctrl'.state = "S_IDLE"
         /\ Answered /\ HostRsp.err # 1 /\ HostRsp.data = Word0(h)
         /\ h \in Addr /\ InBlock(h)
         /\ host_req.amo # 1 /\ TagOf(h) < UC_BEGIN
         /\ ~void => \A i : ~FenceAhead(i)
         /\ IsWrite(host_req) <=> host_req.rw = 1 /\ ~READ_ONLY
         /\ \A a : ~Performed(a) /\ (\A i : ~Filling(i))
<1> DEFINE h == host_req.addr
<1>1. ControlInv /\ TypeInv /\ HostSide /\ FenceSide /\ AccessSide /\ TransferPart /\ CheckSide /\ VoidSide
  BY DEF DataInv, ControlInv, LocalPart, TransferPart
<1>2. /\ ctrl.state = "S_CHECK" /\ ctrl'.state = "S_IDLE" /\ ctrl.pnd_bp = 0 /\ BlockHit(host_req)
  BY <1>1, CheckStep DEF CheckHit, state_t
<1>3. Finishing /\ Serving
  BY <1>2 DEF Finishing, Serving
<1>4. Answered
  BY <1>1, <1>3, AnswerIsFinish
<1>5. main' = main
  BY <1>1, <1>2, MainStep DEF Uploading
<1>6. ctrl.cln # 1 /\ InBlock(h)
  BY <1>1, <1>2 DEF CheckSide, BlockHit, InBlock
<1>7. HostRsp.err # 1 /\ HostRsp.data = Word0(h)
  BY <1>1, <1>2, <1>6 DEF HostRsp, cache_rsp, TransferFailed, BitOf, CheckSide
<1>8. h \in Addr /\ TagOf(h) \in Tag
  BY <1>1, CtrlParts, AddrParts
<1>9. host_req.amo # 1 /\ TagOf(h) < UC_BEGIN
  <2>1. ctrl.pnd_bp # 1
    BY <1>2
  <2> QED BY <1>1, <1>3, <1>8, <2>1, CacheAssumption DEF AccessSide, Tag
<1>10. host_state = "wait"
  BY <1>4 DEF Answered
<1>11. ~void => sync_i # 1 /\ ctrl.pnd_syn # 1
  BY <1>1, <1>3, <1>10 DEF VoidSide
<1>12. ~void => \A i : ~FenceAhead(i)
  BY <1>2, <1>11 DEF FenceAhead, FenceDue, Passing, Syncing, Writing
<1>13. READ_ONLY => host_req.rw # 1
  <2>1. PICK r \in HostReqs[generics] : host_req = [r EXCEPT !.stb = host_req.stb]
    BY <1>1, <1>10 DEF HostSide, Genuine
  <2>2. generics \in Generics
    BY <1>1, CtrlParts
  <2>3. r \in bus_req_t /\ (READ_ONLY => r.rw = 0)
    BY <2>2, HostAssumption DEF READ_ONLY
  <2>4. host_req.rw = r.rw
    BY <2>1, <2>3 DEF bus_req_t
  <2> QED BY <2>3, <2>4
<1>14. \A a : ~Performed(a) /\ (\A i : ~Filling(i))
  BY <1>2 DEF Performed, Filling, Reading
<1> QED BY <1>2, <1>4, <1>5, <1>6, <1>7, <1>8, <1>9, <1>12, <1>13, <1>14 DEF IsWrite

LEMMA CheckHitReadData ==
  ASSUME DataInv, Edge, CheckHit(host_req, sync_i), ~IsWrite(host_req)
  PROVE  GlobalPart' /\ LocalPart'
<1> DEFINE h == host_req.addr
<1>1. ControlInv /\ TypeInv
  BY DEF DataInv, ControlInv
<1>2. /\ main' = main /\ ctrl.state = "S_CHECK" /\ ctrl'.state = "S_IDLE"
      /\ Answered /\ HostRsp.err # 1 /\ HostRsp.data = Word0(h) /\ h \in Addr /\ InBlock(h)
      /\ ~void => \A i : ~FenceAhead(i)
      /\ ~(host_req.rw = 1 /\ ~READ_ONLY)
      /\ \A a : ~Performed(a) /\ (\A i : ~Filling(i))
  BY CheckHitFacts
<1>3. ram' = ram
  <2>1. CacheRam(Look(h))
    BY <1>2 DEF CheckHit
  <2> QED BY <1>1, <2>1, LookStep, CtrlParts
<1>4. /\ ref' = IF h \in Open THEN [ref EXCEPT ![h] = Word0(h)] ELSE ref
      /\ lost' = lost \ ({h} \cap Open)
  BY <1>2 DEF Edge, History, RefAfter, LostAfter
<1>5. ref \in [Addr -> Word]
  BY DEF DataInv, HistType
<1> HIDE DEF h
<1>6. ASSUME NEW a \in Addr PROVE GlobalAt(a)'
  <2>1. IdxOf(a) \in Index
    BY AddrParts
  <2>2. StillThere(a)
    BY <1>2, <1>3, <2>1 DEF StillThere
  <2>3. CASE a = h /\ h \in Open
    <3>1. CleanHolds(a)' /\ Word0(a)' = Word0(a) /\ (Held(a)' <=> Held(a))
      BY <2>2, CleanKept
    <3>2. h \notin stale /\ ~void
      BY <2>3 DEF Open
    <3>3. main[a] = Word0(a) \/ Held(a)
      <4>1. CleanHolds(a) /\ InBlock(a)
        BY <1>2, <2>3 DEF DataInv, GlobalPart, GlobalAt
      <4> QED BY <1>2, <2>3, <3>2, <4>1 DEF CleanHolds, Held
    <3>4. ref'[a] = Word0(a)
      BY <1>4, <1>5, <2>3
    <3>5. Held(a) => a \notin OtherAddrs[generics]
      BY DEF DataInv, GlobalPart, GlobalAt, DirtyHolds
    <3> QED BY <1>2, <3>1, <3>3, <3>4, <3>5, Unchanging DEF GlobalAt, DirtyHolds, MainCurrent
  <2>4. CASE ~(a = h /\ h \in Open)
    <3>1. ref'[a] = ref[a] /\ (a \in lost => a \in lost')
      BY <1>4, <1>5, <2>4
    <3> QED BY <1>2, <2>2, <3>1, KeptAt
  <2> QED BY <2>3, <2>4
<1> QED BY <1>2, <1>6, LocalRest DEF GlobalPart

\* The access under way, if it writes a block, keeps the other master out.
LEMMA BlockUnshared ==
  ASSUME TypeInv, Genuine, IsWrite(host_req), NEW a \in OtherAddrs[generics]
  PROVE  /\ a # host_req.addr
         /\ host_req.amo # 1 /\ TagOf(host_req.addr) < UC_BEGIN =>
              TagOf(a) # TagOf(host_req.addr) \/ IdxOf(a) # IdxOf(host_req.addr)
<1>1. PICK r \in HostReqs[generics] : host_req = [r EXCEPT !.stb = host_req.stb]
  BY DEF Genuine
<1>2. generics \in Generics
  BY CtrlParts
<1>3. r \in bus_req_t
  BY <1>2, HostAssumption
<1>4. host_req.addr = r.addr /\ host_req.amo = r.amo /\ host_req.rw = r.rw /\ (r.amo # 1 => r.amo = 0)
  BY <1>1, <1>3 DEF bus_req_t, Bit
<1>5. IsWrite(r)
  BY <1>4 DEF IsWrite
<1> QED BY <1>2, <1>4, <1>5, SharingAssumption

LEMMA CheckHitWriteData ==
  ASSUME DataInv, Edge, CheckHit(host_req, sync_i), IsWrite(host_req)
  PROVE  GlobalPart' /\ LocalPart'
<1> DEFINE h == host_req.addr
           i == IdxOf(h)
           c == [Look(h) EXCEPT !.we = host_req.ben, !.data = host_req.data, !.drt = 1]
<1>1. ControlInv /\ TypeInv /\ HostSide /\ FenceSide /\ HistType
  BY DEF DataInv, ControlInv
<1>2. /\ main' = main /\ ctrl.state = "S_CHECK" /\ ctrl'.state = "S_IDLE"
      /\ Answered /\ HostRsp.err # 1 /\ h \in Addr /\ InBlock(h)
      /\ host_req.amo # 1 /\ TagOf(h) < UC_BEGIN
      /\ host_req.rw = 1 /\ ~READ_ONLY
      /\ \A a : ~Performed(a) /\ (\A j : ~Filling(j))
  BY CheckHitFacts
<1>3. host_state = "wait" /\ Genuine /\ \A j : ~FenceAhead(j)
  <2>1. host_state = "wait" /\ Serving
    BY <1>2 DEF Answered, Serving
  <2>2. sync_i # 1 /\ ctrl.pnd_syn # 1
    BY <1>1, <1>2, <2>1 DEF FenceSide
  <2> QED BY <1>1, <1>2, <2>1, <2>2 DEF HostSide, FenceAhead, FenceDue, Passing, Syncing, Writing
<1>4. \A a \in OtherAddrs[generics] : TagOf(a) # TagOf(h) \/ IdxOf(a) # i
  BY <1>1, <1>2, <1>3, BlockUnshared
<1>5. /\ ref' = [ref EXCEPT ![h] = MergeWord(ref[h], host_req.data, host_req.ben)] /\ lost' = lost
      /\ ref \in [Addr -> Word]
  BY <1>1, <1>2 DEF Edge, History, RefAfter, LostAfter, HistType
<1>6. /\ c \in Command /\ c.addr = h /\ c.set # 1 /\ c.drt = 1 /\ c.we = host_req.ben /\ c.data = host_req.data
      /\ CacheRam(c)
  <2>1. host_req.ben \in WordBE /\ host_req.data \in Word
    BY <1>1 DEF TypeInv, HostTypeOK, bus_req_t
  <2> QED BY <1>2, <2>1, LookCommand DEF CheckHit, Look, Command, Bit
<1>7. ram \in ram_t /\ i \in Index /\ OfsOf(h) \in Offset
  BY <1>1, <1>2, CtrlParts, AddrParts
<1> HIDE DEF c
<1>8. /\ ram'.valid = ram.valid /\ ram'.dirty = [ram.dirty EXCEPT ![i] = 1] /\ ram'.tag = ram.tag
      /\ ram'.data = [ram.data EXCEPT ![i][OfsOf(h)] = MergeWord(@, host_req.data, host_req.ben)]
  BY <1>1, <1>2, <1>6, RamStep
<1>9. READ_ONLY' = READ_ONLY /\ generics' = generics
  BY Unchanging
<1> DEFINE d == host_req.data
           b == host_req.ben
<1>10. ram'.dirty[i] = 1 /\ ram.valid[i] = 1 /\ ram.tag[i] = TagOf(h)
  BY <1>2, <1>7, <1>8 DEF ram_t, InBlock
<1> HIDE DEF h, i, d, b
<1>11. ASSUME NEW a \in Addr, IdxOf(a) # i PROVE GlobalAt(a)'
  <2>1. IdxOf(a) \in Index /\ a # h
    BY <1>11, AddrParts DEF i
  <2>2. StillThere(a)
    BY <1>2, <1>7, <1>8, <1>11, <2>1 DEF ram_t, StillThere
  <2> QED BY <1>2, <1>5, <2>1, <2>2, KeptAt
<1>12. ASSUME NEW a \in Addr, IdxOf(a) = i, InBlock(a) PROVE GlobalAt(a)'
  <2>1. a \notin OtherAddrs[generics] /\ TagOf(a) = TagOf(h)
    BY <1>4, <1>10, <1>12 DEF InBlock
  <2>2. InBlock(a)' /\ Dirty(IdxOf(a))' /\ Held(a)'
    BY <1>2, <1>8, <1>9, <1>10, <1>12 DEF InBlock, Dirty, Held
  <2>3. a \in lost \/ Word0(a) = ref[a]
    <3>1. DirtyHolds(a) /\ MainCurrent(a) /\ CleanHolds(a) /\ stale \subseteq OtherAddrs[generics]
      BY DEF DataInv, GlobalPart, GlobalAt, HistType
    <3> QED BY <1>2, <1>3, <1>12, <2>1, <3>1 DEF DirtyHolds, MainCurrent, CleanHolds, Held
  <2>4. a \in lost \/ Word0(a)' = ref'[a]
    <3>1. CASE a = h
      <4>1. Word0(a) = ram.data[i][OfsOf(h)] /\ Word0(a)' = ram'.data[i][OfsOf(h)]
        BY <3>1, <1>12 DEF Word0
      <4>2. Word0(a)' = MergeWord(Word0(a), host_req.data, host_req.ben)
        BY <1>7, <1>8, <4>1 DEF ram_t
      <4> QED BY <1>2, <1>5, <2>3, <3>1, <4>2
    <3>2. CASE a # h
      <4>1. OfsOf(a) # OfsOf(h) /\ OfsOf(a) \in Offset
        BY <1>2, <1>12, <2>1, <3>2, AddrParts DEF i
      <4>2. Word0(a)' = Word0(a)
        BY <1>7, <1>8, <1>12, <4>1 DEF Word0, ram_t
      <4> QED BY <1>5, <2>3, <3>2, <4>2
    <3> QED BY <3>1, <3>2
  <2> QED BY <1>5, <1>9, <2>1, <2>2, <2>4 DEF GlobalAt, DirtyHolds, MainCurrent, CleanHolds
<1>13. ASSUME NEW a \in Addr, IdxOf(a) = i, ~InBlock(a) PROVE GlobalAt(a)'
  <2>1. ~InBlock(a)' /\ ~Held(a) /\ ~Held(a)'
    BY <1>8, <1>13 DEF InBlock, Held
  <2>2. a # h /\ MainCurrent(a)
    BY <1>2, <1>13 DEF DataInv, GlobalPart, GlobalAt
  <2>3. a \in lost \/ main[a] = ref[a]
    BY <1>2, <2>1, <2>2 DEF MainCurrent
  <2> QED BY <1>2, <1>5, <2>1, <2>2, <2>3 DEF GlobalAt, DirtyHolds, MainCurrent, CleanHolds
<1> QED BY <1>2, <1>11, <1>12, <1>13, LocalRest DEF GlobalPart

-----------------------------------------------------------------------------
(* The access that bypasses the cache. *)

\* On the bus there is this access only.
LEMMA BypassBus ==
  ASSUME ControlInv, Edge, Bypass(host_req, sync_i, bus_rsp)
  PROVE  LET h == host_req.addr IN
         /\ bus_rsp.ack = 1 => main' = main /\ Finishing /\ ctrl'.state = "S_IDLE"
         /\ bus_rsp.ack # 1 =>
              /\ ~Finishing /\ ctrl'.state = "S_BYPASS" /\ host_req' = [host_req EXCEPT !.stb = 0]
              /\ \/ main' = main /\ (bus_rsp'.ack # 1 \/ bus_rsp'.err = 1)
                 \/ /\ bus_rsp'.ack = 1 /\ bus_rsp'.err = 0 /\ bus_rsp'.data = main[h]
                    /\ main' = IF IsWrite(host_req)
                               THEN [main EXCEPT ![h] = MergeWord(main[h], host_req.data, host_req.ben)] ELSE main
<1>0. TypeInv /\ HostSide /\ FenceSide /\ TransferSide
  BY DEF ControlInv
<1>1. /\ ctrl.state = "S_BYPASS"
      /\ ctrl'.state = IF bus_rsp.ack = 1 THEN "S_IDLE" ELSE "S_BYPASS"
  BY <1>0, EndSteps DEF Bypass, Moved
<1>2. CacheReq = [host_req EXCEPT !.stb = ctrl.bp_req] /\ CacheReq.stb = ctrl.bp_req
  BY <1>0, <1>1, Strobes
<1>3. bus_rsp.ack \in Bit /\ host_req \in bus_req_t /\ (bus_rsp.ack = 0 => bus_rsp.ack # 1)
  BY <1>0 DEF TypeInv, HostTypeOK, bus_rsp_t
<1>4. CASE bus_rsp.ack = 1
  <2>1. ctrl.bp_req = 0 /\ pend = <<>>
    BY <1>0, <1>1, <1>3, <1>4 DEF TransferSide, Quiet
  <2>2. CacheReq.stb # 1
    BY <1>2, <2>1
  <2>3. main' = main
    BY <1>0, <2>1, <2>2, QuietStep DEF Edge
  <2> QED BY <1>1, <1>4, <2>3 DEF Finishing
<1>5. CASE bus_rsp.ack # 1
  <2> DEFINE r == [host_req EXCEPT !.stb = 1]
  <2>1. Queue = <<r>>
    <3>1. CASE ctrl.bp_req = 1 /\ pend = <<>>
      <4>1. Queue = Append(<<>>, r)
        BY <1>2, <3>1 DEF Queue
      <4> QED BY <4>1
    <3>2. CASE ctrl.bp_req = 0 /\ pend = <<r>>
      BY <1>2, <3>2 DEF Queue
    <3> QED BY <1>0, <1>1, <1>5, <3>1, <3>2 DEF TransferSide, Quiet
  <2>2. ~Finishing /\ ctrl'.state = "S_BYPASS"
    BY <1>1, <1>5 DEF Finishing
  <2>3. Serves
    <3>1. Takes \/ Rests \/ Serves \/ Finishes \/ Fences
      BY <1>0, EngineStep DEF Edge
    <3> QED BY <1>1, <2>2, <3>1 DEF Takes, Rests, Finishes, Fences, Syncing, Writing
  <2>4. host_req' = [host_req EXCEPT !.stb = 0]
    BY <1>0, <2>3, ServedHeld
  <2>5. /\ r.addr = host_req.addr /\ r.data = host_req.data /\ r.ben = host_req.ben
        /\ r.rw = host_req.rw /\ r.amo = host_req.amo
    BY <1>3 DEF bus_req_t
  <2> HIDE DEF r
  <2>6. CASE BusStall
    <3>1. main' = main /\ bus_rsp'.ack # 1
      BY <2>6 DEF BusStall, RspIdle
    <3> QED BY <1>5, <2>2, <2>4, <3>1
  <2>7. CASE BusAnswer
    <3>1. Head(Queue) = r
      BY <2>1
    <3>2. PICK err \in Bit :
            /\ bus_rsp' = [ack |-> 1, err |-> err, data |-> IF err = 0 THEN main[r.addr] ELSE ZeroWord]
            /\ main' = IF err = 0 /\ (r.rw = 1 \/ r.amo = 1)
                       THEN [main EXCEPT ![r.addr] = MergeWord(@, r.data, r.ben)] ELSE main
      BY <2>7, <3>1 DEF BusAnswer, Bit
    <3>3. CASE err = 0
      BY <1>5, <2>2, <2>4, <2>5, <3>2, <3>3 DEF IsWrite
    <3>4. CASE err = 1
      BY <1>5, <2>2, <2>4, <3>2, <3>4
    <3> QED BY <3>3, <3>4 DEF Bit
  <2> QED BY <2>6, <2>7 DEF Edge
<1> QED BY <1>4, <1>5

\* The access is on its way.
LEMMA BypassWaitData ==
  ASSUME DataInv, Edge, Bypass(host_req, sync_i, bus_rsp), bus_rsp.ack # 1
  PROVE  GlobalPart' /\ LocalPart'
<1> DEFINE h == host_req.addr
           m == MergeWord(main[h], host_req.data, host_req.ben)
<1>1. ControlInv /\ TypeInv /\ ~InBlock(h)
  BY DEF DataInv, ControlInv, LocalPart, BypassSide, Bypass
<1>2. /\ ctrl.state = "S_BYPASS" /\ ctrl'.state = "S_BYPASS" /\ host_req' = [host_req EXCEPT !.stb = 0]
      /\ \/ main' = main /\ (bus_rsp'.ack # 1 \/ bus_rsp'.err = 1)
         \/ /\ bus_rsp'.ack = 1 /\ bus_rsp'.err = 0 /\ bus_rsp'.data = main[h]
            /\ main' = IF IsWrite(host_req) THEN [main EXCEPT ![h] = m] ELSE main
  BY <1>1, BypassBus DEF Bypass
<1>3. ram' = ram
  BY <1>1, LookStep, CtrlParts DEF Bypass
<1>4. ref' = ref /\ lost' = lost
  BY <1>1, BypassBus, NoAnswer
<1>5. /\ host_req'.addr = h /\ host_req'.data = host_req.data /\ host_req'.ben = host_req.ben
      /\ (IsWrite(host_req') <=> IsWrite(host_req)) /\ h \in Addr /\ main \in [Addr -> Word]
  BY <1>1, <1>2, CtrlParts DEF bus_req_t, IsWrite
<1>6. ~InBlock(h)' /\ ~Held(h)'
  BY <1>1, <1>3, <1>5 DEF InBlock, Held
<1> DEFINE ben == host_req.ben
           dat == host_req.data
<1>7. h \in lost \/ main[h] = ref[h]
  <2>1. MainCurrent(h) /\ ~Held(h)
    BY <1>1, <1>5 DEF DataInv, GlobalPart, GlobalAt, Held
  <2> QED BY <2>1 DEF MainCurrent, Performed
<1>8. bus_rsp'.ack = 1 /\ bus_rsp'.err = 0 /\ IsWrite(host_req) => h \in lost \/ Performed(h)'
  <2> SUFFICES ASSUME bus_rsp'.ack = 1, bus_rsp'.err = 0, IsWrite(host_req), h \notin lost PROVE Performed(h)'
    OBVIOUS
  <2>1. main' = [main EXCEPT ![h] = m]
    BY <1>2
  <2>2. main'[h] = MergeWord(ref'[h], host_req.data, host_req.ben)
    BY <1>4, <1>5, <1>7, <2>1
  <2> QED BY <1>2, <1>5, <2>2 DEF Performed
<1>9. ASSUME NEW a \in Addr PROVE GlobalAt(a)'
  <2>1. IdxOf(a) \in Index /\ ~Performed(a)
    BY AddrParts DEF Performed
  <2>2. CASE main'[a] = main[a]
    <3>1. StillThere(a)
      BY <1>2, <1>3, <2>1, <2>2 DEF StillThere, Filling, Reading
    <3> QED BY <1>4, <2>1, <3>1, KeptAt
  <2>3. CASE main'[a] # main[a]
    <3>1. a = h /\ IsWrite(host_req) /\ bus_rsp'.ack = 1 /\ bus_rsp'.err = 0
      BY <1>2, <1>5, <2>3
    <3>2. ~InBlock(a)' /\ ~Held(a)'
      BY <1>5, <1>6, <3>1
    <3>3. a \in lost' \/ Performed(a)'
      BY <1>4, <1>5, <1>8, <3>1
    <3> QED BY <3>2, <3>3 DEF GlobalAt, DirtyHolds, MainCurrent, CleanHolds
  <2> QED BY <2>2, <2>3
<1>10. BypassSide'
  <2>1. ASSUME bus_rsp'.ack = 1, bus_rsp'.err = 0
        PROVE  /\ bus_rsp'.data = ref'[h] \/ h \in lost'
               /\ ~IsWrite(host_req') => bus_rsp'.data = main'[h]
               /\ IsWrite(host_req') => h \in lost' \/ Performed(h)'
    BY <1>2, <1>4, <1>5, <1>7, <1>8, <2>1
  <2> HIDE DEF m
  <2> QED BY <1>5, <1>6, <2>1 DEF BypassSide
<1>11. GlobalPart'
  BY <1>9 DEF GlobalPart
<1> QED BY <1>2, <1>10, <1>11 DEF LocalPart, FillSide, WriteSide, SyncSide, CheckSide, Reading, Writing

\* The access is answered.
LEMMA BypassDoneData ==
  ASSUME DataInv, Edge, Bypass(host_req, sync_i, bus_rsp), bus_rsp.ack = 1
  PROVE  GlobalPart' /\ LocalPart'
<1> DEFINE h == host_req.addr
<1>1. ControlInv /\ TypeInv /\ BypassSide /\ ctrl.state = "S_BYPASS"
  BY DEF DataInv, ControlInv, LocalPart, Bypass
<1>2. main' = main /\ Finishing /\ ctrl'.state = "S_IDLE"
  BY <1>1, BypassBus
<1>3. ram' = ram
  BY <1>1, LookStep, CtrlParts DEF Bypass
<1>4. Answered /\ HostRsp = bus_rsp
  BY <1>1, <1>2, AnswerIsFinish DEF HostRsp, cache_rsp
<1>5. /\ ref' = RefAfter(ref, Open, bus_rsp) /\ lost' = LostAfter(lost, Open, bus_rsp)
      /\ h \in Addr /\ ref \in [Addr -> Word] /\ ~InBlock(h)
      /\ bus_rsp.err = 0 \/ bus_rsp.err = 1
  BY <1>1, <1>4, CtrlParts DEF Edge, History, DataInv, HistType, BypassSide, Bit
<1>6. ASSUME NEW a \in Addr PROVE GlobalAt(a)'
  <2>1. IdxOf(a) \in Index
    BY AddrParts
  <2>2. StillThere(a)
    BY <1>1, <1>2, <1>3, <2>1 DEF StillThere, Filling, Reading
  <2>3. CASE a # h
    <3>1. ref'[a] = ref[a] /\ (a \in lost => a \in lost')
      BY <1>5, <2>3 DEF RefAfter, LostAfter
    <3> QED BY <2>2, <2>3, <3>1, KeptAt DEF Performed
  <2>4. CASE a = h
    <3>1. CleanHolds(a)' /\ ~Held(a)' /\ ~Held(a)
      BY <1>5, <2>2, <2>4, CleanKept DEF Held
    <3>2. a \in lost \/ main[a] = ref[a] \/ Performed(a)
      BY <3>1 DEF DataInv, GlobalPart, GlobalAt, MainCurrent
    <3>3. a \in lost' \/ main'[a] = ref'[a]
      <4>1. CASE bus_rsp.err = 1
        BY <1>5, <2>4, <4>1 DEF LostAfter, SameIndex
      <4>2. CASE bus_rsp.err # 1 /\ IsWrite(host_req)
        <5>1. lost' = lost /\ ref'[a] = MergeWord(ref[a], host_req.data, host_req.ben)
          BY <1>5, <2>4, <4>2 DEF RefAfter, LostAfter
        <5>2. a \in lost \/ Performed(a)
          BY <1>1, <1>4, <1>5, <2>4, <4>2 DEF BypassSide, Answered
        <5> QED BY <1>2, <5>1, <5>2 DEF Performed
      <4>3. CASE bus_rsp.err # 1 /\ ~IsWrite(host_req)
        <5>1. a \in lost \/ main[a] = ref[a]
          BY <3>2, <4>3 DEF Performed
        <5>2. a \in Open => bus_rsp.data = main[a]
          BY <1>1, <1>5, <2>4, <4>3 DEF BypassSide, Open
        <5>3. a \in Open => ref'[a] = bus_rsp.data
          BY <1>5, <2>4, <4>3 DEF RefAfter
        <5>4. a \notin Open => ref'[a] = ref[a] /\ (a \in lost => a \in lost')
          BY <1>5, <2>4, <4>3 DEF RefAfter, LostAfter
        <5> QED BY <1>2, <5>1, <5>2, <5>3, <5>4
      <4> QED BY <4>1, <4>2, <4>3
    <3> QED BY <3>1, <3>3 DEF GlobalAt, DirtyHolds, MainCurrent
  <2> QED BY <2>3, <2>4
<1> QED BY <1>2, <1>6, LocalRest DEF GlobalPart

-----------------------------------------------------------------------------
(* A block is fetched. *)

\* Meanwhile nothing is claimed of the block's words in the cache.
LEMMA FillGlobal ==
  ASSUME DataInv, Edge, ctrl.state \in Reading, ctrl'.state \in Reading, ctrl'.idx = ctrl.idx,
         ram'.valid = ram.valid, ram'.dirty = ram.dirty, ram'.tag = ram.tag,
         \A j \in Index : j # ctrl.idx => ram'.data[j] = ram.data[j],
         main' = main, ref' = ref, lost' = lost
  PROVE  GlobalPart' /\ ~Dirty(ctrl.idx)'
<1>1. ControlInv /\ TypeInv /\ FillSide
  BY DEF DataInv, ControlInv, LocalPart
<1>2. ~Dirty(ctrl.idx) /\ ~Dirty(ctrl.idx)'
  BY <1>1, Unchanging DEF FillSide, Dirty
<1>3. ASSUME NEW a \in Addr PROVE GlobalAt(a)'
  <2>1. IdxOf(a) \in Index /\ ~Performed(a)
    BY AddrParts DEF Performed, Reading
  <2>2. CASE IdxOf(a) = ctrl.idx
    <3>1. ~Held(a) /\ ~Held(a)' /\ Filling(IdxOf(a))'
      BY <1>2, <2>2 DEF Held, Filling
    <3>2. a \in lost \/ main[a] = ref[a]
      BY <2>1, <3>1 DEF DataInv, GlobalPart, GlobalAt, MainCurrent
    <3> QED BY <3>1, <3>2 DEF GlobalAt, DirtyHolds, MainCurrent, CleanHolds
  <2>3. CASE IdxOf(a) # ctrl.idx
    <3>1. StillThere(a)
      BY <2>1, <2>3 DEF StillThere, Filling, Reading
    <3> QED BY <2>1, <3>1, KeptAt
  <2> QED BY <2>2, <2>3
<1> QED BY <1>2, <1>3 DEF GlobalPart

LEMMA FillLocal ==
  ASSUME DataInv, Edge, Downloading, ctrl'.state \in Reading, ctrl'.tag = ctrl.tag, ctrl'.idx = ctrl.idx,
         ~Dirty(ctrl.idx)', main' = main, Got \in Offset => ctrl'.ofs_int = Got,
         \/ ctrl'.bus_err = 1 \/ FenceDue
         \/ \A k \in Offset : k < ctrl'.ofs_int \/ ctrl'.state = "S_READ_DONE" =>
              ram'.data[ctrl.idx][k] = main[FetchedWord(k)] \/ FetchedWord(k) \in stale
  PROVE  LocalPart'
<1>1. ControlInv
  BY DEF DataInv
<1>2. /\ sync_i' = 1 => FenceDue'
      /\ FenceDue => FenceDue'
  <2>1. ctrl.idx \in Index /\ ctrl.state # "S_SYNC_START"
    BY <1>1, CtrlParts DEF ControlInv, Downloading
  <2> QED BY <1>1, <2>1, FenceStep
<1>3. stale' = stale \/ FenceDue'
  BY <1>2, StaleStep
<1>4. \A k : FetchedWord(k)' = FetchedWord(k)
  BY DEF FetchedWord
<1>5. bus_rsp'.ack = 1 /\ bus_rsp'.err = 0 => bus_rsp'.data = main[FetchedWord(ctrl'.ofs_int)]
  BY <1>1, MainStep
<1>6. FetchedWord(ctrl.ofs_int)' = FetchedWord(ctrl'.ofs_int)
  BY DEF FetchedWord
<1>7. FillSide'
  BY <1>2, <1>3, <1>4, <1>5, <1>6 DEF FillSide
<1> QED BY <1>7 DEF LocalPart, WriteSide, SyncSide, CheckSide, BypassSide, Reading, Writing

LEMMA ReadStartData ==
  ASSUME DataInv, Edge, ReadStart(host_req, sync_i)
  PROVE  GlobalPart' /\ LocalPart'
<1>1. ControlInv /\ TypeInv /\ OffsetSide /\ FillSide
  BY DEF DataInv, ControlInv, LocalPart
<1>2. /\ ctrl.state = "S_READ_START" /\ CacheRam(Look(host_req.addr))
      /\ Moved("S_READ_WAIT", ctrl.tag, ctrl.bus_err, ctrl.ofs_int, ctrl.ofs_ext)
  BY <1>1, StartSteps DEF ReadStart
<1>3. Downloading /\ ~Finishing /\ ~Uploading /\ ctrl.state \in Reading /\ ctrl'.state \in Reading
  BY <1>2 DEF Downloading, Finishing, Uploading, Reading, Moved
<1>4. ram' = ram
  BY <1>1, <1>2, LookStep, CtrlParts
<1>5. main' = main /\ ref' = ref /\ lost' = lost
  BY <1>1, <1>2, <1>3, MainStep, NoAnswer
<1>6. ctrl'.idx = ctrl.idx /\ ctrl'.tag = ctrl.tag /\ ctrl'.ofs_int = ctrl.ofs_int /\ ctrl'.bus_err = ctrl.bus_err
  BY <1>2 DEF Moved, Carried
<1>7. GlobalPart' /\ ~Dirty(ctrl.idx)'
  BY <1>3, <1>4, <1>5, <1>6, FillGlobal
<1>8. Got = ctrl'.ofs_int
  BY <1>1, <1>2, <1>6, Tally DEF OffsetSide
<1>9. \/ ctrl'.bus_err = 1 \/ FenceDue
      \/ \A k \in Offset : k < ctrl'.ofs_int \/ ctrl'.state = "S_READ_DONE" =>
           ram'.data[ctrl.idx][k] = main[FetchedWord(k)] \/ FetchedWord(k) \in stale
  BY <1>1, <1>2, <1>3, <1>4, <1>6 DEF FillSide, Moved
<1> QED BY <1>3, <1>5, <1>6, <1>7, <1>8, <1>9, FillLocal

\* A word arrives, or the engine waits for it.
LEMMA ReadWordData ==
  ASSUME DataInv, Edge, ReadWait(host_req, sync_i, bus_rsp) \/ ReadBurst(host_req, sync_i, bus_rsp)
  PROVE  GlobalPart' /\ LocalPart'
<1> DEFINE c == Fill(bus_rsp)
           i == ctrl.idx
           o == ctrl.ofs_int
<1>1. ControlInv /\ TypeInv /\ OffsetSide /\ FillSide
  BY DEF DataInv, ControlInv, LocalPart
<1>2. ctrl.state \in {"S_READ_WAIT", "S_READ_BURST"} /\ CacheRam(c)
  BY DEF ReadWait, ReadBurst
<1>3. Downloading /\ ~Finishing /\ ~Uploading /\ ctrl.state \in Reading
  BY <1>2 DEF Downloading, Finishing, Uploading, Reading
<1>4. main' = main /\ ref' = ref /\ lost' = lost
  BY <1>1, <1>2, <1>3, MainStep, NoAnswer
<1>5. /\ ctrl'.idx = ctrl.idx /\ ctrl'.tag = ctrl.tag /\ ctrl'.state \in Reading
      /\ bus_rsp.ack = 0 => ctrl'.ofs_int = o /\ ctrl'.bus_err = ctrl.bus_err /\ ctrl'.state # "S_READ_DONE"
      /\ bus_rsp.ack # 0 => ctrl'.ofs_int = IntNext /\ ctrl'.bus_err = ErrNext
                            /\ (ctrl'.state = "S_READ_DONE" => LastWord)
  BY <1>1, WordSteps DEF Moved, Carried, Reading
<1>6. i \in Index /\ o \in Offset /\ ram \in ram_t /\ bus_rsp.data \in Word
  BY <1>1, CtrlParts
<1>7. c \in Command /\ c.set # 1 /\ c.drt # 1 /\ c.we = ByteSel /\ c.data = bus_rsp.data /\ c.addr = CtrlAddr
  <2>1. CtrlAddr \in Addr /\ ByteSel \in WordBE
    BY <1>1, CtrlAddrParts DEF WordBE
  <2> DEFINE l == Look(CtrlAddr)
  <2>2. l \in Command /\ l.addr = CtrlAddr /\ l.set # 1 /\ l.drt # 1
    BY <2>1, LookCommand
  <2>3. c = [l EXCEPT !.we = ByteSel, !.data = bus_rsp.data]
    BY DEF Fill
  <2> HIDE DEF l, c
  <2> QED BY <1>6, <2>1, <2>2, <2>3 DEF Command
<1> HIDE DEF c
<1>8. /\ ram'.valid = ram.valid /\ ram'.dirty = ram.dirty /\ ram'.tag = ram.tag
      /\ ram'.data = [ram.data EXCEPT ![i][o] = MergeWord(@, bus_rsp.data, ByteSel)]
  <2>1. IdxOf(c.addr) = i /\ OfsOf(c.addr) = o
    BY <1>1, <1>7, CtrlAddrParts
  <2> QED BY <1>1, <1>2, <1>7, <2>1, RamStep
<1>9. MergeWord(ram.data[i][o], bus_rsp.data, ByteSel) = bus_rsp.data
  BY <1>6 DEF MergeWord, Word
<1> HIDE DEF i, o
<1>10. /\ ram'.data[i][o] = bus_rsp.data
       /\ \A k \in Offset : k # o => ram'.data[i][k] = ram.data[i][k]
       /\ \A j \in Index : j # i => ram'.data[j] = ram.data[j]
  BY <1>6, <1>8, <1>9 DEF ram_t
<1>11. GlobalPart' /\ ~Dirty(ctrl.idx)'
  BY <1>3, <1>4, <1>5, <1>8, <1>10, FillGlobal DEF i
<1>12. Got \in Offset => ctrl'.ofs_int = Got
  BY <1>1, <1>5, Tally, CacheAssumption DEF Offset, o, LastWord
<1>13. ASSUME ctrl'.bus_err # 1, ~FenceDue, NEW k \in Offset, k < ctrl'.ofs_int \/ ctrl'.state = "S_READ_DONE"
       PROVE  ram'.data[ctrl.idx][k] = main[FetchedWord(k)] \/ FetchedWord(k) \in stale
  <2>1. ctrl.bus_err # 1 /\ (bus_rsp.ack # 0 => bus_rsp.err # 1)
    BY <1>5, <1>13 DEF ErrNext
  <2>2. k < o => ram.data[ctrl.idx][k] = main[FetchedWord(k)] \/ FetchedWord(k) \in stale
    BY <1>1, <1>3, <1>13, <2>1 DEF FillSide, o
  <2>3. k < o \/ (k = o /\ bus_rsp.ack # 0)
    BY <1>1, <1>5, <1>6, <1>13, Tally, CacheAssumption DEF Offset, LastWord, o
  <2>4. CASE k < o
    BY <1>6, <1>10, <2>2, <2>4, CacheAssumption DEF Offset, i
  <2>5. CASE k = o /\ bus_rsp.ack # 0
    <3>1. bus_rsp.ack = 1 /\ bus_rsp.err = 0
      BY <1>1, <2>1, <2>5, CtrlParts DEF Bit
    <3>2. bus_rsp.data = main[FetchedWord(o)] \/ FetchedWord(o) \in stale
      BY <1>1, <1>3, <1>13, <3>1 DEF FillSide, o
    <3> QED BY <1>10, <2>5, <3>2 DEF i
  <2> QED BY <2>3, <2>4, <2>5
<1> QED BY <1>3, <1>4, <1>5, <1>11, <1>12, <1>13, FillLocal

\* A command that sets a block's status.
LEMMA SetStep ==
  ASSUME TypeInv, NEW c \in Command, CacheRam(c), c.set = 1, c.we = {}
  PROVE  LET i == IdxOf(c.addr) IN
         /\ ram'.valid = [ram.valid EXCEPT ![i] = c.vld]
         /\ ram'.dirty = IF READ_ONLY THEN ram.dirty ELSE [ram.dirty EXCEPT ![i] = c.drt]
         /\ ram'.tag = [ram.tag EXCEPT ![i] = TagOf(c.addr)]
         /\ ram'.data = ram.data
         /\ rd'.valid = ram.valid[i] /\ rd'.tag = ram.tag[i] /\ rd'.data = ram.data[i][OfsOf(c.addr)]
         /\ ~READ_ONLY => rd'.dirty = ram.dirty[i]
<1> DEFINE i == IdxOf(c.addr)
           o == OfsOf(c.addr)
<1>1. i \in Index /\ o \in Offset /\ ram \in ram_t
  BY CtrlParts, AddrParts DEF Command
<1> HIDE DEF i, o
<1>2. /\ ram'.valid = [ram.valid EXCEPT ![i] = c.vld]
      /\ ram'.dirty = IF ~READ_ONLY /\ (c.set = 1 \/ c.drt = 1) THEN [ram.dirty EXCEPT ![i] = c.drt] ELSE ram.dirty
      /\ ram'.tag = [ram.tag EXCEPT ![i] = TagOf(c.addr)]
      /\ ram'.data = [ram.data EXCEPT ![i][o] = MergeWord(@, c.data, c.we)]
      /\ rd'.valid = ram.valid[i] /\ rd'.tag = ram.tag[i] /\ rd'.data = ram.data[i][o]
      /\ ~READ_ONLY => rd'.dirty = ram.dirty[i]
  BY RamStep DEF i, o
<1>3. MergeWord(ram.data[i][o], c.data, c.we) = ram.data[i][o]
  <2>1. ram.data[i][o] \in Word
    BY <1>1 DEF ram_t
  <2> QED BY <2>1, MergeNone
<1>4. ram'.data = ram.data
  BY <1>1, <1>2, <1>3 DEF ram_t
<1> QED BY <1>2, <1>4 DEF i, o

\* A transfer that failed for the access is answered as an error.
LEMMA FailedAnswer ==
  ASSUME ControlInv, Edge, TransferFailed
  PROVE  ref' = ref /\ lost' = lost \cup SameIndex(host_req.addr)
<1>1. Finishing /\ ctrl.state # "S_BYPASS"
  BY DEF TransferFailed, Finishing
<1>2. Answered
  BY <1>1, AnswerIsFinish
<1>3. HostRsp.err = 1
  BY <1>1 DEF HostRsp, cache_rsp, BitOf
<1> QED BY <1>2, <1>3 DEF Edge, History, RefAfter, LostAfter

LEMMA ReadDoneData ==
  ASSUME DataInv, TypeInv', Edge, ReadDone(host_req, sync_i)
  PROVE  GlobalPart' /\ LocalPart'
<1>1. ControlInv /\ TypeInv /\ HostSide /\ FenceSide /\ AccessSide /\ FillSide
  BY DEF DataInv, ControlInv, LocalPart
<1>h. PICK h \in Addr : h = host_req.addr
  BY <1>1, CtrlParts
<1>i. PICK i \in Index : i = IdxOf(h)
  BY AddrParts
<1> DEFINE l == Look(h)
           c == [l EXCEPT !.set = 1, !.vld = 1 - ctrl.bus_err]
<1>2. /\ ctrl.state = "S_READ_DONE" /\ CacheRam(c)
      /\ Moved(IF ctrl.bus_err = 1 THEN "S_IDLE" ELSE "S_CHECK", ctrl.tag, ctrl.bus_err,
               ctrl.ofs_int, ctrl.ofs_ext)
  BY <1>1, <1>h, EndSteps DEF ReadDone
<1>3. ctrl.bus_err \in Bit /\ ram \in ram_t
  BY <1>1, CtrlParts DEF TypeInv, CacheTypeOK, ctrl_t
<1>4. ctrl.idx = i /\ ctrl.tag = TagOf(h) /\ ctrl.pnd_bp = 0 /\ ~Dirty(i)
  BY <1>1, <1>2, <1>h, <1>i DEF AccessSide, Serving, Reading, FillSide
<1>5. c \in Command /\ c.addr = h /\ c.set = 1 /\ c.we = {} /\ c.vld = 1 - ctrl.bus_err /\ c.drt = 0
  <2>1. l \in Command /\ l.addr = h /\ l.we = {} /\ l.drt = 0 /\ 1 - ctrl.bus_err \in Bit /\ 1 \in Bit
    BY <1>3, LookCommand DEF Look, Bit
  <2> HIDE DEF l
  <2> QED BY <2>1 DEF Command
<1> HIDE DEF c
<1>6. /\ ram'.valid = [ram.valid EXCEPT ![i] = 1 - ctrl.bus_err]
      /\ ram'.dirty = IF READ_ONLY THEN ram.dirty ELSE [ram.dirty EXCEPT ![i] = 0]
      /\ ram'.tag = [ram.tag EXCEPT ![i] = TagOf(h)]
      /\ ram'.data = ram.data /\ rd'.data = ram.data[i][OfsOf(h)]
  BY <1>1, <1>2, <1>5, <1>i, SetStep
<1>7. main' = main /\ ref' = ref /\ lost \subseteq lost'
  <2>1. main' = main
    BY <1>1, <1>2, MainStep DEF Uploading
  <2>2. CASE ctrl.bus_err = 1
    BY <1>1, <1>2, <2>1, <2>2, FailedAnswer DEF TransferFailed
  <2>3. CASE ctrl.bus_err # 1
    BY <1>1, <1>2, <2>1, <2>3, NoAnswer DEF Finishing
  <2> QED BY <2>2, <2>3
<1>8. /\ sync_i' = 1 => FenceDue'
      /\ FenceDue => FenceDue'
  BY <1>1, <1>2, FenceStep
<1>9. stale' = stale \/ FenceDue'
  BY <1>8, StaleStep
<1>10. /\ ram'.valid[i] = 1 - ctrl.bus_err /\ ram'.tag[i] = TagOf(h)
       /\ ~READ_ONLY => ram'.dirty[i] = 0
       /\ \A j \in Index : j # i => ram'.valid[j] = ram.valid[j] /\ ram'.dirty[j] = ram.dirty[j] /\ ram'.tag[j] = ram.tag[j]
  BY <1>3, <1>6 DEF ram_t
<1>11. ~Dirty(i)'
  <2>1. READ_ONLY' \/ ram'.dirty[i] # 1
    BY <1>10, Unchanging
  <2> QED BY <2>1 DEF Dirty
<1>12. ASSUME NEW a \in Addr PROVE GlobalAt(a)'
  <2>1. IdxOf(a) \in Index /\ OfsOf(a) \in Offset /\ ~Performed(a)
    BY <1>2, AddrParts DEF Performed
  <2>2. CASE IdxOf(a) # i
    <3>1. StillThere(a)
      BY <1>2, <1>4, <1>6, <1>7, <1>10, <2>1, <2>2 DEF StillThere, Filling
    <3> QED BY <1>7, <2>1, <3>1, KeptAt
  <2>3. CASE IdxOf(a) = i
    <3>1. ~Held(a) /\ ~Held(a)'
      BY <1>4, <1>11, <2>3 DEF Held
    <3>2. a \in lost' \/ main'[a] = ref'[a]
      BY <1>7, <2>1, <3>1 DEF DataInv, GlobalPart, GlobalAt, MainCurrent
    <3>3. CleanHolds(a)'
      <4> SUFFICES ASSUME InBlock(a)' PROVE Word0(a)' = main'[a] \/ a \in stale' \/ FenceDue'
        BY DEF CleanHolds, FenceAhead
      <4>1. ctrl.bus_err # 1 /\ TagOf(a) = TagOf(h)
        BY <1>10, <2>3 DEF InBlock
      <4>2. a = FetchedWord(OfsOf(a))
        BY <1>4, <2>3, <4>1, AddrParts DEF FetchedWord
      <4>3. FenceDue \/ ram.data[i][OfsOf(a)] = main[a] \/ a \in stale
        BY <1>1, <1>2, <1>4, <2>1, <4>1, <4>2 DEF FillSide, Reading
      <4>4. Word0(a)' = ram.data[i][OfsOf(a)]
        BY <1>6, <2>3 DEF Word0
      <4> QED BY <1>7, <1>8, <1>9, <4>3, <4>4
    <3> QED BY <3>1, <3>2, <3>3 DEF GlobalAt, DirtyHolds, MainCurrent
  <2> QED BY <2>2, <2>3
<1>13. LocalPart'
  <2>1. CASE ctrl.bus_err = 1
    BY <1>2, <2>1, LocalRest DEF Moved
  <2>2. CASE ctrl.bus_err # 1
    <3>1. ctrl'.state = "S_CHECK" /\ ctrl'.hit = 1 /\ ctrl'.cln = 0 /\ ctrl'.pnd_bp = 0
      BY <1>2, <1>4, <2>2 DEF Moved, Carried, ctrl_t, Bit
    <3>2. Serves
      <4>1. Takes \/ Rests \/ Serves \/ Finishes \/ Fences
        BY <1>1, EngineStep DEF Edge
      <4> QED BY <1>2, <2>2, <4>1 DEF Takes, Rests, Finishes, Finishing, Fences, Syncing, Writing
    <3>3. host_req'.addr = h
      BY <1>1, <1>h, <3>2, ServedHeld
    <3>4. InBlock(h)' /\ rd'.data = Word0(h)'
      BY <1>3, <1>6, <1>10, <1>i, <2>2 DEF InBlock, Word0, Bit
    <3>5. InBlock(host_req.addr)' /\ rd'.data = Word0(host_req.addr)' /\ ~Dirty(IdxOf(host_req.addr))'
      BY <1>11, <1>i, <3>3, <3>4 DEF InBlock, Word0, Dirty
    <3>6. CheckSide'
      BY <3>1, <3>5 DEF CheckSide
    <3> QED BY <3>1, <3>6 DEF LocalPart, FillSide, WriteSide, SyncSide, BypassSide, Reading, Writing
  <2> QED BY <2>1, <2>2
<1> QED BY <1>12, <1>13 DEF GlobalPart

-----------------------------------------------------------------------------
(* A block is written back. *)

LEMMA OwnParts ==
  ASSUME TypeInv, NEW k \in Offset
  PROVE  /\ OwnWord(k) \in Addr /\ TagOf(OwnWord(k)) = ram.tag[ctrl.idx]
         /\ IdxOf(OwnWord(k)) = ctrl.idx /\ OfsOf(OwnWord(k)) = k
<1>1. ram.tag[ctrl.idx] \in Tag /\ ctrl.idx \in Index
  BY CtrlParts DEF ram_t
<1> QED BY <1>1, AddrJoin DEF OwnWord

\* A word of the block may reach main memory in this cycle.
Sending ==
  \/ main' = main /\ (bus_rsp'.ack = 1 => bus_rsp'.err = 1)
  \/ /\ bus_rsp'.ack = 1 /\ Got \in Offset
     /\ main' = [main EXCEPT ![OwnWord(Got)] = ram.data[ctrl.idx][Got]]

\* The engine has counted the words it has got, and their errors.
Counted ==
  /\ ctrl'.state # "S_WRITE_DONE" => ctrl'.ofs_int = Got
  /\ ctrl'.state = "S_WRITE_DONE" => Got = BLOCK_WORDS
  /\ ctrl'.bus_err # 1 => ctrl.bus_err # 1 /\ bus_rsp.err # 1

LEMMA WriteGlobal ==
  ASSUME DataInv, Edge, Uploading, ram' = ram, Sending
  PROVE  GlobalPart'
<1>1. ControlInv /\ TypeInv /\ WriteSide /\ ctrl.state \in Writing /\ ctrl.state # "S_WRITE_DONE"
  BY DEF DataInv, ControlInv, LocalPart, Uploading, Writing
<1>2. ref' = ref /\ lost' = lost
  BY <1>1, NoAnswer DEF Finishing, Writing
<1>3. Dirty(ctrl.idx)
  BY <1>1 DEF WriteSide
<1>4. ASSUME NEW a \in Addr PROVE GlobalAt(a)'
  <2>1. IdxOf(a) \in Index /\ ~Performed(a) /\ ~Filling(IdxOf(a)) /\ ctrl.state # "S_SYNC_NEXT"
    BY <1>1, AddrParts DEF Performed, Filling, Reading, Writing
  <2>2. CASE main'[a] = main[a]
    <3>1. StillThere(a)
      BY <2>1, <2>2 DEF StillThere
    <3> QED BY <1>2, <2>1, <3>1, KeptAt
  <2>3. CASE main'[a] # main[a]
    <3>1. a = OwnWord(Got) /\ Got \in Offset
      BY <1>1, <2>3, CtrlParts DEF Sending
    <3>2. IdxOf(a) = ctrl.idx /\ TagOf(a) = ram.tag[ctrl.idx]
      BY <1>1, <3>1, OwnParts
    <3>3. Held(a)
      BY <1>3, <3>2 DEF Held, InBlock, Dirty
    <3>4. Held(a)' /\ Dirty(IdxOf(a))' /\ Word0(a)' = Word0(a)
      BY <3>3, Unchanging DEF Held, InBlock, Dirty, Word0
    <3>5. DirtyHolds(a)
      BY DEF DataInv, GlobalPart, GlobalAt
    <3> QED BY <1>2, <3>3, <3>4, <3>5, Unchanging DEF GlobalAt, DirtyHolds, MainCurrent, CleanHolds
  <2> QED BY <2>2, <2>3
<1> QED BY <1>4 DEF GlobalPart

LEMMA WriteLocal ==
  ASSUME DataInv, TypeInv', Edge, Uploading, ram' = ram, Sending, Counted,
         ctrl'.state \in Writing, ctrl'.idx = ctrl.idx, ctrl'.sync = ctrl.sync, ctrl'.pnd_bp = ctrl.pnd_bp,
         ctrl'.tag = ram.tag[ctrl.idx], ctrl'.state = "S_WRITE_START" => ctrl'.ofs_int # 0
  PROVE  LocalPart'
<1>1. ControlInv /\ TypeInv /\ HostSide /\ FenceSide /\ WriteSide /\ ctrl.state \in Writing /\ ~Finishing
  BY DEF DataInv, ControlInv, LocalPart, Uploading, Writing, Finishing
<1>2. PICK i \in Index : i = ctrl.idx
  BY <1>1, CtrlParts
<1>3. Dirty(i)'
  BY <1>1, <1>2, Unchanging DEF WriteSide, Dirty
<1>4. ctrl'.sync = 0 /\ ctrl'.pnd_bp = 0 => ram'.tag[i] # TagOf(host_req'.addr)
  <2> SUFFICES ASSUME ctrl.sync = 0, ctrl.pnd_bp = 0 PROVE ram.tag[i] # TagOf(host_req'.addr)
    OBVIOUS
  <2>1. Serving
    BY <1>1 DEF Serving
  <2>2. Serves
    <3>1. Takes \/ Rests \/ Serves \/ Finishes \/ Fences
      BY <1>1, EngineStep DEF Edge
    <3> QED BY <1>1, <2>1, <3>1 DEF Takes, Rests, Finishes, Fences, Writing
  <2>3. host_req'.addr = host_req.addr
    BY <1>1, <2>2, ServedHeld
  <2> QED BY <1>1, <1>2, <2>3 DEF WriteSide
<1>5. Got \in Nat /\ bus_rsp'.ack \in Bit
  <2>1. bus_rsp'.ack \in Bit
    BY DEF TypeInv, bus_rsp_t
  <2> QED BY <1>1, <2>1, Tally, CacheAssumption DEF Got, Offset, Bit
<1>6. ASSUME ctrl'.bus_err # 1, bus_rsp'.err # 1, NEW k \in Offset, k < Got' \/ ctrl'.state = "S_WRITE_DONE"
      PROVE  main'[OwnWord(k)] = ram.data[i][k]
  <2>1. k < Got \/ (k = Got /\ bus_rsp'.ack = 1)
    <3>1. CASE ctrl'.state = "S_WRITE_DONE"
      BY <3>1, CacheAssumption DEF Counted, Offset
    <3>2. CASE ctrl'.state # "S_WRITE_DONE"
      <4>1. Got' = Got + bus_rsp'.ack
        BY <3>2 DEF Counted, Got
      <4> QED BY <1>5, <1>6, <3>2, <4>1, CacheAssumption DEF Offset, Bit
    <3> QED BY <3>1, <3>2
  <2>2. k < Got => main[OwnWord(k)] = ram.data[i][k]
    BY <1>1, <1>2, <1>6 DEF Counted, WriteSide
  <2>3. OwnWord(k) \in Addr /\ OfsOf(OwnWord(k)) = k /\ \A g \in Offset : OfsOf(OwnWord(g)) = g
    BY <1>1, OwnParts
  <2>4. main \in [Addr -> Word]
    BY <1>1, CtrlParts
  <2>5. CASE main' = main /\ (bus_rsp'.ack = 1 => bus_rsp'.err = 1)
    BY <1>6, <2>1, <2>2, <2>5
  <2>6. CASE bus_rsp'.ack = 1 /\ Got \in Offset /\ main' = [main EXCEPT ![OwnWord(Got)] = ram.data[i][Got]]
    <3>1. CASE k = Got
      BY <2>3, <2>4, <2>6, <3>1
    <3>2. CASE k # Got
      <4>1. OwnWord(k) # OwnWord(Got)
        BY <2>3, <2>6, <3>2
      <4> QED BY <2>1, <2>2, <2>3, <2>4, <2>6, <3>2, <4>1
    <3> QED BY <3>1, <3>2
  <2> QED BY <1>2, <2>5, <2>6 DEF Sending
<1>7. \A k : OwnWord(k)' = OwnWord(k)
  BY DEF OwnWord
<1>8. WriteSide'
  <2>1. Dirty(ctrl.idx)'
    BY <1>2, <1>3 DEF Dirty
  <2>2. ctrl'.bus_err = 1 \/ bus_rsp'.err = 1 \/
          \A k \in Offset : k < Got' \/ ctrl'.state = "S_WRITE_DONE" => main'[OwnWord(k)'] = ram'.data[ctrl'.idx][k]
    BY <1>2, <1>6, <1>7
  <2> QED BY <1>2, <1>4, <2>1, <2>2 DEF WriteSide
<1> QED BY <1>8 DEF LocalPart, FillSide, SyncSide, CheckSide, BypassSide, Reading, Writing

\* Beyond its first step, the engine addresses the block by its own tag.
LEMMA SendingStep ==
  ASSUME ControlInv, WriteSide, Edge, Uploading, ctrl.state # "S_WRITE_START"
  PROVE  Sending
<1>1. ctrl.tag = ram.tag[ctrl.idx]
  BY DEF WriteSide, Uploading, Writing
<1>2. FetchedWord(Got) = OwnWord(Got)
  BY <1>1 DEF FetchedWord, OwnWord
<1> QED BY <1>2, MainStep DEF Sending

LEMMA WriteStartData ==
  ASSUME DataInv, ControlInv', Edge, WriteStart(host_req, sync_i)
  PROVE  GlobalPart' /\ LocalPart'
<1>1. ControlInv /\ TypeInv /\ OffsetSide /\ TransferSide /\ WriteSide /\ TypeInv' /\ OffsetSide'
  BY DEF DataInv, ControlInv, LocalPart
<1>2. /\ ctrl.state = "S_WRITE_START" /\ CacheRam(Look(CtrlAddr))
      /\ Moved("S_WRITE_REQ", IF ctrl.ofs_int = 0 THEN rd.tag ELSE ctrl.tag, ctrl.bus_err,
               ctrl.ofs_int, ctrl.ofs_ext)
  BY <1>1, StartSteps DEF WriteStart
<1>3. Uploading
  BY <1>2 DEF Uploading
<1>4. ram' = ram
  BY <1>1, <1>2, LookStep, CtrlAddrParts
<1>5. bus_rsp.ack = 0 /\ bus_rsp.err # 1 /\ bus_rsp'.ack = 0
  BY <1>1, <1>2 DEF OffsetSide, TransferSide, Moved
<1>6. Sending
  BY <1>1, <1>3, <1>5, MainStep DEF Sending
<1>7. Counted
  BY <1>1, <1>2, <1>5, Tally DEF Counted, Moved
<1>8. ctrl'.tag = ram.tag[ctrl.idx]
  BY <1>1, <1>2 DEF WriteSide, Moved, Writing
<1>9. /\ ctrl'.state \in Writing /\ ctrl'.idx = ctrl.idx /\ ctrl'.sync = ctrl.sync /\ ctrl'.pnd_bp = ctrl.pnd_bp
      /\ ctrl'.state # "S_WRITE_START"
  BY <1>2 DEF Moved, Carried, Writing
<1> QED BY <1>1, <1>3, <1>4, <1>6, <1>7, <1>8, <1>9, WriteGlobal, WriteLocal

LEMMA WriteReqData ==
  ASSUME DataInv, ControlInv', Edge, WriteReq(host_req, sync_i) \/ WriteWait(host_req, sync_i)
  PROVE  GlobalPart' /\ LocalPart'
<1>1. ControlInv /\ TypeInv /\ OffsetSide /\ TransferSide /\ WriteSide /\ TypeInv'
  BY DEF DataInv, ControlInv, LocalPart
<1>2. /\ ctrl.state \in {"S_WRITE_REQ", "S_WRITE_WAIT"}
      /\ Carried /\ ctrl'.state \in {"S_WRITE_RSP", "S_WRITE_BURST"} /\ ctrl'.tag = ctrl.tag
      /\ ctrl'.bus_err = ctrl.bus_err /\ ctrl'.ofs_int = ctrl.ofs_int
  BY <1>1, StartSteps DEF WriteReq, WriteWait, Moved
<1>3. Uploading
  BY <1>2 DEF Uploading
<1>4. ram' = ram
  BY <1>1, UploadLooks
<1>5. bus_rsp.ack = 0 /\ bus_rsp.err # 1
  BY <1>1, <1>2 DEF OffsetSide, TransferSide
<1>6. Sending
  BY <1>1, <1>2, <1>3, SendingStep
<1>7. Counted
  BY <1>1, <1>2, <1>5, Tally DEF Counted
<1>8. ctrl'.tag = ram.tag[ctrl.idx]
  BY <1>1, <1>2 DEF WriteSide, Writing
<1>9. /\ ctrl'.state \in Writing /\ ctrl'.idx = ctrl.idx /\ ctrl'.sync = ctrl.sync /\ ctrl'.pnd_bp = ctrl.pnd_bp
      /\ ctrl'.state # "S_WRITE_START"
  BY <1>2 DEF Carried, Writing
<1> QED BY <1>1, <1>3, <1>4, <1>6, <1>7, <1>8, <1>9, WriteGlobal, WriteLocal

\* A word is acknowledged, or the engine waits for it.
LEMMA WriteWordData ==
  ASSUME DataInv, ControlInv', Edge,
         WriteRsp(host_req, sync_i, bus_rsp) \/ WriteBurst(host_req, sync_i, bus_rsp)
  PROVE  GlobalPart' /\ LocalPart'
<1>1. ControlInv /\ TypeInv /\ OffsetSide /\ TransferSide /\ WriteSide /\ TypeInv'
  BY DEF DataInv, ControlInv, LocalPart
<1>2. /\ ctrl.state \in {"S_WRITE_RSP", "S_WRITE_BURST"}
      /\ Carried /\ ctrl'.state \in Writing /\ ctrl'.tag = ctrl.tag
      /\ bus_rsp.ack = 0 => /\ ctrl'.state = ctrl.state /\ ctrl'.bus_err = ctrl.bus_err
                            /\ ctrl'.ofs_int = ctrl.ofs_int
      /\ bus_rsp.ack # 0 => /\ ctrl'.bus_err = ErrNext /\ ctrl'.ofs_int = IntNext
                            /\ ctrl'.state = "S_WRITE_DONE" => LastWord
                            /\ ctrl'.state = "S_WRITE_START" => ~LastWord
                            /\ ctrl'.state # "S_WRITE_DONE" => ~LastWord \/ (ctrl.state = "S_WRITE_RSP" /\ BURSTS_EN)
  BY <1>1, WordSteps DEF WriteRsp, WriteBurst, Moved, Writing
<1>3. Uploading
  BY <1>2 DEF Uploading
<1>4. ram' = ram
  BY <1>1, UploadLooks
<1>5. bus_rsp.err = 1 => bus_rsp.ack # 0
  BY <1>1 DEF TransferSide
<1>6. Sending
  BY <1>1, <1>2, <1>3, SendingStep
<1>7. /\ bus_rsp.ack = 0 => Got = ctrl.ofs_int
      /\ bus_rsp.ack # 0 => Got = ctrl.ofs_int + 1
      /\ ~LastWord => IntNext = ctrl.ofs_int + 1
      /\ LastWord => ctrl.ofs_int + 1 = BLOCK_WORDS
      /\ ctrl.state = "S_WRITE_RSP" /\ BURSTS_EN => ~LastWord
      /\ ctrl.ofs_int + 1 # 0
  BY <1>1, Tally, CacheAssumption DEF OffsetSide, LastWord, Offset
<1>8. Counted
  <2>1. CASE bus_rsp.ack = 0
    BY <1>2, <1>5, <1>7, <2>1 DEF Counted
  <2>2. CASE bus_rsp.ack # 0
    BY <1>2, <1>7, <2>2 DEF Counted, ErrNext
  <2> QED BY <2>1, <2>2
<1>9. ctrl'.tag = ram.tag[ctrl.idx]
  BY <1>1, <1>2 DEF WriteSide, Writing
<1>10. /\ ctrl'.state \in Writing /\ ctrl'.idx = ctrl.idx /\ ctrl'.sync = ctrl.sync /\ ctrl'.pnd_bp = ctrl.pnd_bp
       /\ ctrl'.state = "S_WRITE_START" => ctrl'.ofs_int # 0
  BY <1>2, <1>7 DEF Carried
<1> QED BY <1>1, <1>3, <1>4, <1>6, <1>8, <1>9, <1>10, WriteGlobal, WriteLocal

\* The block is in main memory, for a fence or for the access.
LEMMA WriteDoneSyncData ==
  ASSUME DataInv, Edge, WriteDone(host_req, sync_i), ctrl.sync = 1
  PROVE  GlobalPart' /\ LocalPart'
<1>1. ControlInv /\ TypeInv /\ TransferSide /\ WriteSide
  BY DEF DataInv, ControlInv, LocalPart
<1>2. /\ ctrl.state = "S_WRITE_DONE" /\ CacheRam(Look(CtrlAddr))
      /\ Carried /\ ctrl'.state = "S_SYNC_NEXT" /\ ctrl'.tag = ctrl.tag /\ ctrl'.bus_err = ctrl.bus_err
  BY <1>1, EndSteps DEF WriteDone, Moved
<1>3. ~Finishing
  BY <1>2 DEF Finishing
<1>4. ram' = ram
  BY <1>1, <1>2, LookStep, CtrlAddrParts
<1>5. main' = main /\ ref' = ref /\ lost' = lost
  BY <1>1, <1>2, <1>3, MainStep, NoAnswer DEF Uploading
<1>6. GlobalPart'
  BY <1>2, <1>4, <1>5, GlobalKept DEF Filling, Reading, Performed
<1>7. ctrl'.idx = ctrl.idx /\ bus_rsp.err # 1
  BY <1>1, <1>2 DEF Carried, TransferSide, Quiet, Downloading, Uploading
<1>8. /\ Dirty(ctrl.idx) /\ ctrl.tag = ram.tag[ctrl.idx]
      /\ ctrl.bus_err = 1 \/ \A k \in Offset : main[OwnWord(k)] = ram.data[ctrl.idx][k]
  BY <1>1, <1>2, <1>7 DEF WriteSide, Writing
<1>9. (Dirty(ctrl.idx)' <=> Dirty(ctrl.idx)) /\ \A k : OwnWord(k)' = OwnWord(k)
  BY <1>4, <1>7, Unchanging DEF Dirty, OwnWord
<1>10. SyncSide'
  BY <1>2, <1>4, <1>5, <1>7, <1>8, <1>9 DEF SyncSide
<1> QED BY <1>2, <1>6, <1>10 DEF LocalPart, FillSide, WriteSide, CheckSide, BypassSide, Reading, Writing

LEMMA WriteDoneServeData ==
  ASSUME DataInv, TypeInv', Edge, WriteDone(host_req, sync_i), ctrl.sync # 1
  PROVE  GlobalPart' /\ LocalPart'
<1>1. ControlInv /\ TypeInv /\ HostSide /\ FenceSide /\ AccessSide /\ TransferSide /\ WriteSide
  BY DEF DataInv, ControlInv, LocalPart
<1>2. PICK h \in Addr : h = host_req.addr
  BY <1>1, CtrlParts
<1>3. PICK i \in Index : i = IdxOf(h)
  BY AddrParts
<1> DEFINE l == Look(CtrlAddr)
           c == [l EXCEPT !.set = 1, !.vld = 1 - ctrl.bus_err]
<1>4. /\ ctrl.state = "S_WRITE_DONE" /\ CacheRam(c)
      /\ Carried /\ ctrl'.state = IF ctrl.bus_err = 1 THEN "S_IDLE" ELSE "S_CHECK"
  BY <1>1, EndSteps DEF WriteDone, Moved
<1>5. ctrl.bus_err \in Bit /\ ram \in ram_t /\ ctrl.sync = 0
  BY <1>1, CtrlParts DEF TypeInv, CacheTypeOK, ctrl_t
<1>6. Serving /\ ctrl.idx = i /\ bus_rsp.err # 1
  BY <1>1, <1>2, <1>3, <1>4, <1>5 DEF AccessSide, Serving, Writing, TransferSide, Quiet, Downloading, Uploading
<1>7. /\ Dirty(i) /\ ctrl.tag = ram.tag[i] /\ ~READ_ONLY /\ ram.valid[i] = 1
      /\ ctrl.pnd_bp = 0 => ram.tag[i] # TagOf(h)
      /\ ctrl.bus_err = 1 \/ \A k \in Offset : main[OwnWord(k)] = ram.data[i][k]
  BY <1>1, <1>2, <1>4, <1>5, <1>6 DEF WriteSide, Writing, Dirty
<1>8. /\ c \in Command /\ c.addr = CtrlAddr /\ c.set = 1 /\ c.we = {} /\ c.vld = 1 - ctrl.bus_err /\ c.drt = 0
  <2>1. l \in Command /\ l.addr = CtrlAddr /\ l.we = {} /\ l.drt = 0 /\ 1 - ctrl.bus_err \in Bit /\ 1 \in Bit
    BY <1>1, <1>5, CtrlAddrParts, LookCommand DEF Look, Bit
  <2> HIDE DEF l
  <2> QED BY <2>1 DEF Command
<1> HIDE DEF c
<1>9. /\ ram'.valid = [ram.valid EXCEPT ![i] = 1 - ctrl.bus_err]
      /\ ram'.dirty = [ram.dirty EXCEPT ![i] = 0]
      /\ ram'.tag = [ram.tag EXCEPT ![i] = ram.tag[i]]
      /\ ram'.data = ram.data /\ rd'.valid = ram.valid[i] /\ rd'.tag = ram.tag[i]
  <2>1. IdxOf(c.addr) = i /\ TagOf(c.addr) = ram.tag[i]
    BY <1>1, <1>6, <1>7, <1>8, CtrlAddrParts
  <2> QED BY <1>1, <1>4, <1>7, <1>8, <2>1, SetStep
<1>10. /\ ram'.valid[i] = 1 - ctrl.bus_err /\ ram'.tag = ram.tag /\ ram'.dirty[i] = 0
       /\ \A j \in Index : j # i => ram'.valid[j] = ram.valid[j] /\ ram'.dirty[j] = ram.dirty[j]
  BY <1>5, <1>9 DEF ram_t
<1>11. ~Dirty(i)'
  <2>1. ram'.dirty[i] # 1
    BY <1>10
  <2> QED BY <2>1 DEF Dirty
<1>12. main' = main
  BY <1>1, <1>4, MainStep DEF Uploading
<1>13. CASE ctrl.bus_err = 1
  <2>1. ref' = ref /\ lost' = lost \cup SameIndex(h)
    BY <1>1, <1>2, <1>4, <1>5, <1>13, FailedAnswer DEF TransferFailed
  <2>2. ASSUME NEW a \in Addr PROVE GlobalAt(a)'
    <3>1. IdxOf(a) \in Index /\ ~Performed(a) /\ ~Filling(IdxOf(a))
      BY <1>4, AddrParts DEF Performed, Filling, Reading
    <3>2. CASE IdxOf(a) # i
      <4>1. StillThere(a)
        BY <1>4, <1>9, <1>10, <1>12, <3>1, <3>2 DEF StillThere
      <4> QED BY <2>1, <3>1, <4>1, KeptAt
    <3>3. CASE IdxOf(a) = i
      <4>1. ram'.valid[i] # 1
        BY <1>10, <1>13
      <4>2. ~InBlock(a)' /\ ~Held(a)'
        BY <3>3, <4>1 DEF InBlock, Held
      <4>3. a \in lost'
        BY <1>3, <2>1, <3>3 DEF SameIndex
      <4> QED BY <4>2, <4>3 DEF GlobalAt, DirtyHolds, MainCurrent, CleanHolds
    <3> QED BY <3>2, <3>3
  <2> QED BY <1>4, <1>13, <2>2, LocalRest DEF GlobalPart
<1>14. CASE ctrl.bus_err # 1
  <2>1. ref' = ref /\ lost' = lost /\ ~Finishing
    BY <1>1, <1>4, <1>14, NoAnswer DEF Finishing
  <2>2. ram'.valid[i] = 1
    BY <1>5, <1>10, <1>14 DEF Bit
  <2>3. ASSUME NEW a \in Addr PROVE GlobalAt(a)'
    <3>1. IdxOf(a) \in Index /\ OfsOf(a) \in Offset /\ ~Performed(a) /\ ~Filling(IdxOf(a))
      BY <1>4, AddrParts DEF Performed, Filling, Reading
    <3>2. CASE IdxOf(a) # i
      <4>1. StillThere(a)
        BY <1>4, <1>9, <1>10, <1>12, <3>1, <3>2 DEF StillThere
      <4> QED BY <2>1, <3>1, <4>1, KeptAt
    <3>3. CASE IdxOf(a) = i
      <4>1. ~Held(a)' /\ (InBlock(a)' <=> InBlock(a)) /\ (Held(a) <=> InBlock(a)) /\ Word0(a)' = Word0(a)
        BY <1>7, <1>9, <1>10, <1>11, <2>2, <3>3 DEF InBlock, Held, Word0
      <4>2. DirtyHolds(a) /\ MainCurrent(a)
        BY DEF DataInv, GlobalPart, GlobalAt
      <4>3. InBlock(a) => main[a] = Word0(a)
        <5> SUFFICES ASSUME InBlock(a) PROVE main[a] = Word0(a)
          OBVIOUS
        <5>1. a = OwnWord(OfsOf(a))
          BY <1>6, <3>3, AddrParts DEF OwnWord, InBlock
        <5> QED BY <1>7, <1>14, <3>1, <3>3, <5>1 DEF Word0
      <4> QED BY <1>12, <2>1, <3>1, <4>1, <4>2, <4>3 DEF GlobalAt, DirtyHolds, MainCurrent, CleanHolds
    <3> QED BY <3>2, <3>3
  <2>4. Serves
    <3>1. Takes \/ Rests \/ Serves \/ Finishes \/ Fences
      BY <1>1, EngineStep DEF Edge
    <3> QED BY <1>4, <1>6, <2>1, <3>1 DEF Takes, Rests, Finishes, Fences
  <2>5. host_req'.addr = h
    BY <1>1, <1>2, <2>4, ServedHeld
  <2>6. ctrl'.state = "S_CHECK" /\ ctrl'.hit # 1 /\ ctrl'.cln = 1 /\ ctrl'.pnd_bp = ctrl.pnd_bp
    BY <1>4, <1>14 DEF Carried
  <2>7. ~Dirty(IdxOf(host_req.addr))'
    BY <1>3, <1>11, <2>5 DEF Dirty
  <2>8. CheckSide'
    BY <1>3, <1>7, <1>9, <1>10, <2>2, <2>5, <2>6, <2>7 DEF CheckSide
  <2> QED BY <2>3, <2>6, <2>8 DEF GlobalPart, LocalPart, FillSide, WriteSide, SyncSide, BypassSide, Reading, Writing
<1> QED BY <1>13, <1>14

\* A fence leaves a block behind.
LEMMA SyncNextData ==
  ASSUME DataInv, Edge, SyncNext(host_req, sync_i)
  PROVE  GlobalPart' /\ LocalPart'
<1>1. ControlInv /\ TypeInv /\ SyncSide
  BY DEF DataInv, ControlInv, LocalPart
<1>2. PICK i \in Index : i = ctrl.idx
  BY <1>1, CtrlParts
<1> DEFINE l == Look(CtrlAddr)
           c == [l EXCEPT !.set = 1, !.drt = ctrl.bus_err, !.vld = ctrl.bus_err]
<1>3. /\ ctrl.state = "S_SYNC_NEXT" /\ CacheRam(c) /\ ctrl'.state \in {"S_IDLE", "S_SYNC_DELAY"}
  BY <1>1, SyncSteps DEF SyncNext
<1>4. ctrl.bus_err \in Bit /\ ram \in ram_t
  BY <1>1, CtrlParts DEF TypeInv, CacheTypeOK, ctrl_t
<1>5. /\ c \in Command /\ c.addr = CtrlAddr /\ c.set = 1 /\ c.we = {} /\ c.vld = ctrl.bus_err /\ c.drt = ctrl.bus_err
  <2>1. l \in Command /\ l.addr = CtrlAddr /\ l.we = {} /\ 1 \in Bit
    BY <1>1, CtrlAddrParts, LookCommand DEF Bit
  <2> HIDE DEF l
  <2> QED BY <1>4, <2>1 DEF Command
<1> HIDE DEF c
<1>6. /\ ram'.valid = [ram.valid EXCEPT ![i] = ctrl.bus_err]
      /\ ram'.dirty = IF READ_ONLY THEN ram.dirty ELSE [ram.dirty EXCEPT ![i] = ctrl.bus_err]
      /\ ram'.tag = [ram.tag EXCEPT ![i] = ctrl.tag]
      /\ ram'.data = ram.data
  <2>1. IdxOf(c.addr) = i /\ TagOf(c.addr) = ctrl.tag
    BY <1>1, <1>2, <1>5, CtrlAddrParts
  <2> QED BY <1>1, <1>3, <1>5, <2>1, SetStep
<1>7. /\ ram'.valid[i] = ctrl.bus_err /\ ram'.tag[i] = ctrl.tag /\ (~READ_ONLY => ram'.dirty[i] = ctrl.bus_err)
      /\ \A j \in Index : j # i => ram'.valid[j] = ram.valid[j] /\ ram'.dirty[j] = ram.dirty[j] /\ ram'.tag[j] = ram.tag[j]
  BY <1>4, <1>6 DEF ram_t
<1>8. ~Finishing
  BY <1>3 DEF Finishing
<1>9. main' = main /\ ref' = ref /\ lost' = lost
  BY <1>1, <1>3, <1>8, MainStep, NoAnswer DEF Uploading
<1>10. ASSUME NEW a \in Addr PROVE GlobalAt(a)'
  <2>1. IdxOf(a) \in Index /\ OfsOf(a) \in Offset /\ ~Performed(a) /\ ~Filling(IdxOf(a))
    BY <1>3, AddrParts DEF Performed, Filling, Reading
  <2>2. DirtyHolds(a) /\ MainCurrent(a)
    BY DEF DataInv, GlobalPart, GlobalAt
  <2>3. CASE IdxOf(a) # i
    <3>1. StillThere(a)
      BY <1>2, <1>6, <1>7, <1>9, <2>1, <2>3 DEF StillThere
    <3> QED BY <1>9, <2>1, <3>1, KeptAt
  <2>4. CASE IdxOf(a) = i /\ ctrl.bus_err # 1
    <3>1. ~InBlock(a)' /\ ~Held(a)'
      BY <1>7, <2>4 DEF InBlock, Held
    <3>2. Held(a) => main[a] = Word0(a)
      <4> SUFFICES ASSUME Held(a) PROVE main[a] = Word0(a)
        OBVIOUS
      <4>1. \A k \in Offset : main[OwnWord(k)] = ram.data[i][k]
        BY <1>1, <1>2, <1>3, <2>4 DEF SyncSide, Held, Dirty
      <4>2. a = OwnWord(OfsOf(a))
        BY <1>2, <2>4, AddrParts DEF OwnWord, Held, InBlock
      <4> QED BY <2>1, <2>4, <4>1, <4>2 DEF Word0
    <3> QED BY <1>9, <2>1, <2>2, <3>1, <3>2 DEF GlobalAt, DirtyHolds, MainCurrent, CleanHolds
  <2>5. CASE IdxOf(a) = i /\ ctrl.bus_err = 1
    <3>1. Dirty(i) /\ ctrl.tag = ram.tag[i]
      BY <1>1, <1>2, <1>3, <2>5 DEF SyncSide
    <3>2. Dirty(i)' /\ (InBlock(a)' <=> InBlock(a)) /\ Word0(a)' = Word0(a)
      BY <1>6, <1>7, <2>5, <3>1, Unchanging DEF Dirty, InBlock, Word0
    <3>3. Held(a)' <=> Held(a)
      BY <2>5, <3>1, <3>2 DEF Held
    <3> QED BY <1>9, <2>1, <2>2, <2>5, <3>2, <3>3, Unchanging DEF GlobalAt, DirtyHolds, MainCurrent, CleanHolds
  <2> QED BY <2>3, <2>4, <2>5
<1> QED BY <1>3, <1>10, LocalRest DEF GlobalPart

-----------------------------------------------------------------------------
(* The invariant. *)

LEMMA EdgeData ==
  ASSUME DataInv, ControlInv', Edge
  PROVE  GlobalPart' /\ LocalPart'
<1>1. TypeInv'
  BY DEF ControlInv
<1>2. CASE Idle(host_req, sync_i)
  BY <1>2, IdleData
<1>3. CASE CheckBypassUncached(host_req, sync_i) \/ CheckBypassDirty(host_req, sync_i)
  BY <1>3, CheckBypassUncachedData, CheckBypassDirtyData
<1>4. CASE CheckBypassClean(host_req, sync_i) \/ CheckMiss(host_req, sync_i)
  BY <1>4, CheckBypassCleanData, CheckMissData
<1>5. CASE CheckHit(host_req, sync_i)
  BY <1>5, CheckHitReadData, CheckHitWriteData
<1>6. CASE Bypass(host_req, sync_i, bus_rsp)
  BY <1>6, BypassWaitData, BypassDoneData
<1>7. CASE SyncStart(host_req, sync_i) \/ SyncDelay(host_req, sync_i)
  BY <1>1, <1>7, SyncStartData, SyncDelayData
<1>8. CASE SyncCheck(host_req, sync_i) \/ SyncNext(host_req, sync_i)
  BY <1>8, SyncCheckData, SyncNextData
<1>9. CASE \/ ReadStart(host_req, sync_i) \/ ReadWait(host_req, sync_i, bus_rsp)
           \/ ReadBurst(host_req, sync_i, bus_rsp) \/ ReadDone(host_req, sync_i)
  BY <1>1, <1>9, ReadStartData, ReadWordData, ReadDoneData
<1>10. CASE WriteStart(host_req, sync_i) \/ WriteReq(host_req, sync_i) \/ WriteWait(host_req, sync_i)
  BY <1>10, WriteStartData, WriteReqData
<1>11. CASE WriteRsp(host_req, sync_i, bus_rsp) \/ WriteBurst(host_req, sync_i, bus_rsp)
  BY <1>11, WriteWordData
<1>12. CASE WriteDone(host_req, sync_i)
  BY <1>1, <1>12, WriteDoneSyncData, WriteDoneServeData
<1> QED BY <1>2, <1>3, <1>4, <1>5, <1>6, <1>7, <1>8, <1>9, <1>10, <1>11, <1>12 DEF Edge, CacheTick

LEMMA HistTypeStep ==
  ASSUME DataInv, Edge
  PROVE  HistType'
<1>1. TypeInv /\ HistType
  BY DEF DataInv, ControlInv
<1>2. HostRsp.data \in Word
  BY <1>1 DEF HostRsp, cache_rsp, TypeInv, CacheTypeOK, bus_rsp_t
<1>3. ref' \in [Addr -> Word]
  <2>1. host_req.addr \in Addr /\ host_req.data \in Word
    BY <1>1, CtrlParts
  <2>2. MergeWord(ref[host_req.addr], host_req.data, host_req.ben) \in Word
    BY <1>1, <2>1, MergeType DEF HistType
  <2>3. RefAfter(ref, Open, HostRsp) \in [Addr -> Word]
    BY <1>1, <1>2, <2>1, <2>2 DEF RefAfter, HistType
  <2> QED BY <1>1, <2>3 DEF Edge, History, HistType
<1>4. lost' \subseteq Addr
  BY <1>1 DEF Edge, History, HistType, LostAfter, SameIndex
<1>5. stale' \subseteq OtherAddrs[generics']
  BY <1>1, StaleStep, Unchanging DEF HistType
<1>6. flushed' \in BOOLEAN /\ void' \in BOOLEAN
  BY <1>1 DEF Edge, History, HistType
<1> QED BY <1>3, <1>4, <1>5, <1>6 DEF HistType

LEMMA VoidStep ==
  ASSUME DataInv, TypeInv', Edge
  PROVE  VoidSide'
<1>1. TypeInv /\ HostSide /\ FenceSide /\ VoidSide
  BY DEF DataInv, ControlInv
<1>2. host_state' = "wait" /\ sync_i' = 1 => void'
  BY DEF Edge, History, Fenced
<1>3. ASSUME Serving', ctrl'.pnd_syn = 1 PROVE void'
  <2>1. Takes \/ Rests \/ Serves \/ Finishes \/ Fences
    BY <1>1, EngineStep DEF Edge
  <2>2. Takes \/ Serves
    BY <1>1, <1>3, <2>1, ServingNext
  <2>3. host_state = "wait" /\ host_req'.stb = 0
    BY <1>1, <2>2, ServedHeld
  <2>4. sync_i = 1 \/ (Serving /\ ctrl.pnd_syn = 1)
    BY <1>3, <2>2 DEF Takes, Taken, Serves
  <2>5. void
    BY <1>1, <2>3, <2>4 DEF VoidSide
  <2> QED BY <2>3, <2>5 DEF Edge, History
<1> QED BY <1>2, <1>3 DEF VoidSide

\* A block becomes dirty by a write that hits it, and stays dirty when a
\* fence fails to write it back.
LEMMA CleanStep ==
  ASSUME TypeInv, Edge, NEW c \in Command, CacheRam(c), c.drt # 1, NEW j \in Index, Dirty(j)'
  PROVE  Dirty(j)
<1> DEFINE i == IdxOf(c.addr)
<1>1. i \in Index /\ ram \in ram_t /\ c.set \in Bit
  BY CtrlParts, AddrParts DEF Command
<1>2. /\ ram'.valid = IF c.set = 1 THEN [ram.valid EXCEPT ![i] = c.vld] ELSE ram.valid
      /\ ram'.dirty = IF ~READ_ONLY /\ (c.set = 1 \/ c.drt = 1) THEN [ram.dirty EXCEPT ![i] = c.drt] ELSE ram.dirty
  BY RamStep
<1> HIDE DEF i
<1>3. ~READ_ONLY /\ ram'.valid[j] = 1 /\ ram'.dirty[j] = 1
  BY Unchanging DEF Dirty
<1>4. CASE c.set = 1
  <2>1. ram'.valid[j] = (IF j = i THEN c.vld ELSE ram.valid[j]) /\ ram'.dirty[j] = (IF j = i THEN c.drt ELSE ram.dirty[j])
    BY <1>1, <1>2, <1>3, <1>4 DEF ram_t
  <2> QED BY <1>3, <2>1 DEF Dirty
<1>5. CASE c.set # 1
  BY <1>2, <1>3, <1>5 DEF Dirty
<1> QED BY <1>4, <1>5

LEMMA DirtyStep ==
  ASSUME DataInv, Edge, NEW j \in Index, Dirty(j)'
  PROVE  \/ Dirty(j)
         \/ Answered /\ IsWrite(host_req)
         \/ ctrl.state = "S_SYNC_NEXT" /\ ctrl.bus_err = 1
<1>1. TypeInv /\ CacheTick(host_req, sync_i, bus_rsp)
  BY DEF DataInv, ControlInv, Edge
<1>2. CASE CheckHit(host_req, sync_i)
  <2>1. Answered /\ (IsWrite(host_req) <=> host_req.rw = 1 /\ ~READ_ONLY)
    BY <1>2, CheckHitFacts
  <2>2. ~IsWrite(host_req) => CacheRam(Look(host_req.addr))
    BY <1>2, <2>1 DEF CheckHit
  <2> QED BY <1>1, <2>1, <2>2, LookCommand, HostAddr, CleanStep
<1>3. CASE ~CheckHit(host_req, sync_i) /\ ~(ctrl.state = "S_SYNC_NEXT" /\ ctrl.bus_err = 1)
  <2> DEFINE h == Look(host_req.addr)
             a == Look(CtrlAddr)
             r == ReadAhead
  <2>1. /\ h \in Command /\ a \in Command /\ r \in Command /\ h.drt # 1 /\ a.drt # 1 /\ r.drt # 1
    BY <1>1, HostAddr, CtrlAddrParts, LookCommand, AddrWrap DEF ReadAhead, TypeInv, CacheTypeOK, ctrl_t
  <2>2. ctrl.bus_err \in Bit /\ 1 - ctrl.bus_err \in Bit /\ 1 \in Bit /\ bus_rsp.data \in Word /\ ByteSel \in WordBE
    BY <1>1 DEF Bit, TypeInv, CacheTypeOK, ctrl_t, bus_rsp_t, WordBE
  <2>3. Fill(bus_rsp) = [a EXCEPT !.we = ByteSel, !.data = bus_rsp.data]
    BY DEF Fill
  <2> HIDE DEF h, a, r
  <2> DEFINE c1 == [h EXCEPT !.set = 1]
             c2 == [h EXCEPT !.set = 1, !.vld = 1 - ctrl.bus_err]
             c3 == [a EXCEPT !.set = 1, !.vld = 1 - ctrl.bus_err]
             c4 == [a EXCEPT !.set = 1, !.drt = ctrl.bus_err, !.vld = ctrl.bus_err]
             c5 == [a EXCEPT !.we = ByteSel, !.data = bus_rsp.data]
  <2>4. /\ c1 \in Command /\ c1.drt # 1 /\ c2 \in Command /\ c2.drt # 1 /\ c3 \in Command /\ c3.drt # 1
        /\ c4 \in Command /\ c4.drt = ctrl.bus_err /\ c5 \in Command /\ c5.drt # 1
    BY <2>1, <2>2 DEF Command
  <2> HIDE DEF c1, c2, c3, c4, c5
  <2>5. \E c \in Command : CacheRam(c) /\ c.drt # 1
    <3>1. CASE \/ Idle(host_req, sync_i) \/ CheckBypassUncached(host_req, sync_i)
               \/ CheckBypassDirty(host_req, sync_i) \/ CheckMiss(host_req, sync_i)
               \/ Bypass(host_req, sync_i, bus_rsp) \/ SyncStart(host_req, sync_i) \/ ReadStart(host_req, sync_i)
      <4>1. CacheRam(h)
        BY <3>1 DEF Idle, CheckBypassUncached, CheckBypassDirty, CheckMiss, Bypass, SyncStart, ReadStart, h
      <4> QED BY <2>1, <4>1
    <3>2. CASE CheckBypassClean(host_req, sync_i) \/ ReadDone(host_req, sync_i)
      <4>1. CacheRam(c1) \/ CacheRam(c2)
        BY <3>2 DEF CheckBypassClean, ReadDone, c1, c2, h
      <4> QED BY <2>4, <4>1
    <3>3. CASE SyncNext(host_req, sync_i)
      <4>1. CacheRam(c4) /\ ctrl.bus_err # 1
        BY <1>3, <3>3 DEF SyncNext, c4, a
      <4> QED BY <2>4, <4>1
    <3>4. CASE ReadWait(host_req, sync_i, bus_rsp) \/ ReadBurst(host_req, sync_i, bus_rsp)
      <4>1. CacheRam(c5)
        BY <2>3, <3>4 DEF ReadWait, ReadBurst, c5
      <4> QED BY <2>4, <4>1
    <3>5. CASE \/ SyncDelay(host_req, sync_i) \/ SyncCheck(host_req, sync_i)
               \/ WriteStart(host_req, sync_i) \/ WriteReq(host_req, sync_i) \/ WriteRsp(host_req, sync_i, bus_rsp)
               \/ WriteWait(host_req, sync_i) \/ WriteBurst(host_req, sync_i, bus_rsp)
               \/ WriteDone(host_req, sync_i)
      <4>1. CacheRam(a) \/ CacheRam(r) \/ CacheRam(c3)
        BY <3>5 DEF SyncDelay, SyncCheck, WriteStart, WriteReq, WriteRsp, WriteWait, WriteBurst, WriteDone, c3, a, r
      <4> QED BY <2>1, <2>4, <4>1
    <3> QED BY <1>1, <1>3, <3>1, <3>2, <3>3, <3>4, <3>5 DEF CacheTick
  <2> QED BY <1>1, <2>5, CleanStep
<1> QED BY <1>2, <1>3

LEMMA SyncNextSets ==
  ASSUME TypeInv, SyncNext(host_req, sync_i)
  PROVE  ram'.valid[ctrl.idx] = ctrl.bus_err
<1> DEFINE l == Look(CtrlAddr)
           c == [l EXCEPT !.set = 1, !.drt = ctrl.bus_err, !.vld = ctrl.bus_err]
<1>1. CacheRam(c)
  BY DEF SyncNext
<1>2. ctrl.bus_err \in Bit /\ ram \in ram_t /\ ctrl.idx \in Index
  BY CtrlParts DEF TypeInv, CacheTypeOK, ctrl_t
<1>3. /\ c \in Command /\ c.addr = CtrlAddr /\ c.set = 1 /\ c.we = {} /\ c.vld = ctrl.bus_err
  <2>1. l \in Command /\ l.addr = CtrlAddr /\ l.we = {} /\ 1 \in Bit
    BY CtrlAddrParts, LookCommand DEF Bit
  <2> HIDE DEF l
  <2> QED BY <1>2, <2>1 DEF Command
<1> HIDE DEF c
<1>4. ram'.valid = [ram.valid EXCEPT ![ctrl.idx] = ctrl.bus_err]
  <2>1. IdxOf(c.addr) = ctrl.idx
    BY <1>3, CtrlAddrParts
  <2> QED BY <1>1, <1>3, <2>1, SetStep
<1> QED BY <1>2, <1>4 DEF ram_t

\* Since the fence nothing became dirty behind it.
LEMMA FlushStep ==
  ASSUME DataInv, TypeInv', Edge
  PROVE  FlushSide'
<1>1. /\ ControlInv /\ TypeInv /\ HostSide /\ FenceSide /\ FlushSide
      /\ CacheTick(host_req, sync_i, bus_rsp)
  BY DEF DataInv, ControlInv, Edge
<1>2. ASSUME flushed', sync_i' # 1
      PROVE  flushed /\ ~(Answered /\ IsWrite(host_req)) /\ bus_rsp.err # 1
  <2>1. flushed' = (flushed /\ ~(Answered /\ IsWrite(host_req)) /\ bus_rsp.err = 0)
    BY <1>2, Zenon DEF Edge, History, Fenced
  <2>2. flushed /\ ~(Answered /\ IsWrite(host_req)) /\ bus_rsp.err = 0
    BY <1>2, <2>1, Zenon
  <2> QED BY <2>2
<1>3. ASSUME flushed', sync_i' # 1, sync_i = 1 \/ ctrl.pnd_syn = 1, ctrl.state # "S_SYNC_START"
      PROVE  ctrl'.pnd_syn = 1
  <2>1. ctrl.idx \in Index
    BY <1>1, CtrlParts
  <2> QED BY <1>1, <1>3, <2>1, FenceStep
<1>4. ASSUME NEW i \in Index, flushed'
      PROVE  FenceAhead(i)' \/ ~Dirty(i)'
  <2>1. CASE sync_i' = 1
    BY <1>1, <2>1, FenceStep
  <2>2. CASE sync_i' # 1
    <3>1. flushed /\ ~(Answered /\ IsWrite(host_req))
      BY <1>2, <1>4, <2>2
    <3>2. FenceAhead(i) => FenceAhead(i)' \/ (ctrl.state = "S_SYNC_NEXT" /\ ctrl.idx = i)
      BY <1>1, FenceStep
    <3>3. CASE ctrl.state = "S_SYNC_NEXT" /\ ctrl.bus_err = 1
      <4>1. ctrl.sync = 1
        BY <1>1, <3>3 DEF FenceSide, Syncing
      <4>2. sync_i = 1 \/ ctrl.pnd_syn = 1
        BY <1>1, <3>1, <3>3, <4>1 DEF FlushSide
      <4>3. ctrl'.pnd_syn = 1
        BY <1>3, <1>4, <2>2, <3>3, <4>2
      <4> QED BY <4>3 DEF FenceAhead, FenceDue
    <3>4. CASE ctrl.state = "S_SYNC_NEXT" /\ ctrl.bus_err # 1 /\ ctrl.idx = i
      <4>1. SyncNext(host_req, sync_i)
        BY <1>1, <3>4 DEF CacheTick, Idle, CheckTo, CheckBypassUncached, CheckBypassDirty, CheckBypassClean, CheckHit,
             CheckMiss, Bypass, SyncStart, SyncDelay, SyncCheck, ReadStart, ReadWait, ReadBurst, ReadDone,
             WriteStart, WriteReq, WriteRsp, WriteWait, WriteBurst, WriteDone
      <4>2. ram'.valid[i] # 1
        BY <1>1, <3>4, <4>1, SyncNextSets
      <4> QED BY <4>2 DEF Dirty
    <3>5. CASE ~(ctrl.state = "S_SYNC_NEXT" /\ (ctrl.bus_err = 1 \/ ctrl.idx = i))
      <4>1. Dirty(i)' => Dirty(i)
        BY <3>1, <3>5, DirtyStep
      <4> QED BY <1>1, <3>1, <3>2, <3>5, <4>1 DEF FlushSide
    <3> QED BY <3>3, <3>4, <3>5
  <2> QED BY <2>1, <2>2
<1>5. ASSUME flushed', sync_i' # 1, ctrl'.state \in Writing \cup {"S_SYNC_NEXT"}, ctrl'.sync = 1, ctrl'.bus_err = 1
      PROVE  ctrl'.pnd_syn = 1
  <2>1. flushed /\ bus_rsp.err # 1
    BY <1>2, <1>5
  <2>2. Fences
    <3>1. Takes \/ Rests \/ Serves \/ Finishes \/ Fences
      BY <1>1, EngineStep
    <3>2. ctrl'.sync # 0
      BY <1>5
    <3> QED BY <3>1, <3>2 DEF Takes, Rests, Serves, Finishes
  <2>3. ErrNext = 1 => ctrl.bus_err = 1
    BY <2>1 DEF ErrNext
  <2>4. ctrl.state \in Writing /\ ctrl.sync = 1 /\ ctrl.bus_err = 1
    <3>1. CASE SyncDelay(host_req, sync_i) \/ SyncCheck(host_req, sync_i)
      <4>1. ctrl'.state = "S_SYNC_CHECK" \/ ctrl'.bus_err = 0
        BY <1>1, <3>1, StartSteps DEF Moved
      <4> QED BY <1>5, <4>1 DEF Writing
    <3>2. CASE WriteStart(host_req, sync_i) \/ WriteReq(host_req, sync_i) \/ WriteWait(host_req, sync_i)
      <4>1. ctrl'.sync = ctrl.sync /\ ctrl'.bus_err = ctrl.bus_err
        BY <1>1, <3>2, StartSteps DEF Moved, Carried
      <4>2. ctrl.state \in Writing
        BY <3>2 DEF WriteStart, WriteReq, WriteWait, Writing
      <4> QED BY <1>5, <4>1, <4>2
    <3>3. CASE WriteRsp(host_req, sync_i, bus_rsp) \/ WriteBurst(host_req, sync_i, bus_rsp)
      <4>1. ctrl'.sync = ctrl.sync /\ (ctrl'.bus_err = ctrl.bus_err \/ ctrl'.bus_err = ErrNext)
        BY <1>1, <3>3, WordSteps DEF Moved, Carried
      <4>2. ctrl.state \in Writing
        BY <3>3 DEF WriteRsp, WriteBurst, Writing
      <4> QED BY <1>5, <2>3, <4>1, <4>2
    <3>4. CASE WriteDone(host_req, sync_i)
      <4>1. ctrl'.sync = ctrl.sync /\ ctrl'.bus_err = ctrl.bus_err
        BY <1>1, <3>4, EndSteps DEF Moved, Carried
      <4>2. ctrl.state \in Writing
        BY <3>4 DEF WriteDone, Writing
      <4> QED BY <1>5, <4>1, <4>2
    <3>5. CASE SyncStart(host_req, sync_i) \/ SyncNext(host_req, sync_i)
      <4>1. ctrl'.state \in {"S_SYNC_DELAY", "S_IDLE"}
        BY <1>1, <3>5, SyncSteps
      <4> QED BY <1>5, <4>1 DEF Writing
    <3>6. \/ SyncDelay(host_req, sync_i) \/ SyncCheck(host_req, sync_i)
          \/ SyncStart(host_req, sync_i) \/ SyncNext(host_req, sync_i)
          \/ WriteStart(host_req, sync_i) \/ WriteReq(host_req, sync_i) \/ WriteWait(host_req, sync_i)
          \/ WriteRsp(host_req, sync_i, bus_rsp) \/ WriteBurst(host_req, sync_i, bus_rsp)
          \/ WriteDone(host_req, sync_i)
      <4>1. ctrl.state \in Syncing \cup Writing
        BY <2>2 DEF Fences
      <4> QED BY <1>1, <4>1 DEF CacheTick, Syncing, Writing, Idle, CheckTo, CheckBypassUncached, CheckBypassDirty,
           CheckBypassClean, CheckHit, CheckMiss, Bypass, ReadStart, ReadWait, ReadBurst, ReadDone
    <3> QED BY <3>1, <3>2, <3>3, <3>4, <3>5, <3>6
  <2>5. sync_i = 1 \/ ctrl.pnd_syn = 1
    BY <1>1, <2>1, <2>4 DEF FlushSide
  <2> QED BY <1>3, <1>5, <2>4, <2>5 DEF Writing
<1> QED BY <1>4, <1>5 DEF FlushSide

\* A write of the other master hits no word the cache still has to write back.
LEMMA OtherData ==
  ASSUME DataInv, TypeInv', OtherWrite
  PROVE  DataInv'
<1>1. /\ ControlInv /\ TypeInv /\ HostSide /\ HistType /\ GlobalPart /\ VoidSide /\ FlushSide
      /\ FillSide /\ WriteSide /\ SyncSide /\ CheckSide /\ BypassSide
  BY DEF DataInv, ControlInv, LocalPart
<1>2. PICK b \in OtherAddrs[generics], w \in OtherWords :
        main' = [main EXCEPT ![b] = w] /\ ref' = [ref EXCEPT ![b] = w] /\ stale' = stale \cup {b}
  BY DEF OtherWrite
<1>3. /\ ctrl' = ctrl /\ ram' = ram /\ rd' = rd /\ generics' = generics /\ host_state' = host_state
      /\ host_req' = host_req /\ sync_i' = sync_i /\ bus_rsp' = bus_rsp /\ pend' = pend /\ failed' = failed
      /\ lost' = lost /\ flushed' = flushed /\ void' = void
  BY DEF OtherWrite, cacheVars, hostVars
<1>4. b \in Addr /\ w \in Word
  BY <1>1, CtrlParts, CacheSystemAssumption
<1>5. main \in [Addr -> Word] /\ ref \in [Addr -> Word]
  BY <1>1 DEF TypeInv, HistType
<1>6. /\ main'[b] = w /\ ref'[b] = w /\ b \in stale'
      /\ \A a \in Addr : a # b => main'[a] = main[a] /\ ref'[a] = ref[a]
      /\ stale \subseteq stale'
  BY <1>2, <1>4, <1>5
<1>7. ControlInv'
  BY <1>1, ControlFrame DEF OtherWrite
<1>8. HistType'
  BY <1>1, <1>2, <1>3, <1>4, <1>5 DEF HistType
<1>9. /\ \A i : (Dirty(i)' <=> Dirty(i)) /\ (FenceAhead(i)' <=> FenceAhead(i)) /\ (Filling(i)' <=> Filling(i))
      /\ \A a : (InBlock(a)' <=> InBlock(a)) /\ Word0(a)' = Word0(a) /\ (Held(a)' <=> Held(a))
      /\ (FenceDue' <=> FenceDue) /\ (Serving' <=> Serving)
      /\ \A k : OwnWord(k)' = OwnWord(k) /\ FetchedWord(k)' = FetchedWord(k)
      /\ Got' = Got
  BY <1>3 DEF Dirty, FenceAhead, FenceDue, Passing, Filling, InBlock, Word0, Held, READ_ONLY, Serving,
     OwnWord, FetchedWord, Got
<1>10. \A a \in Addr : Held(a) => a # b
  BY <1>1 DEF GlobalPart, GlobalAt, DirtyHolds
<1>11. Dirty(ctrl.idx) => \A k \in Offset : OwnWord(k) \in Addr /\ OwnWord(k) # b
  <2>1. ctrl.idx \in Index /\ ram.tag[ctrl.idx] \in Tag
    BY <1>1, CtrlParts DEF ram_t
  <2>2. ASSUME NEW k \in Offset
        PROVE  OwnWord(k) \in Addr /\ IdxOf(OwnWord(k)) = ctrl.idx /\ TagOf(OwnWord(k)) = ram.tag[ctrl.idx]
    BY <2>1, AddrJoin DEF OwnWord
  <2> QED BY <1>10, <2>2 DEF Held, InBlock, Dirty
<1>12. \A k \in Offset : FetchedWord(k) \in Addr
  BY <1>1, CtrlParts, AddrJoin DEF FetchedWord
<1>13. ASSUME NEW a \in Addr PROVE GlobalAt(a)'
  <2>1. DirtyHolds(a) /\ MainCurrent(a) /\ CleanHolds(a)
    BY <1>1 DEF GlobalPart, GlobalAt
  <2>2. a # b => (Performed(a)' <=> Performed(a))
    BY <1>3, <1>6 DEF Performed, IsWrite
  <2>3. DirtyHolds(a)'
    BY <1>3, <1>6, <1>9, <1>10, <2>1 DEF DirtyHolds
  <2>4. MainCurrent(a)'
    BY <1>3, <1>6, <1>9, <2>1, <2>2 DEF MainCurrent
  <2>5. CleanHolds(a)'
    BY <1>6, <1>9, <2>1 DEF CleanHolds
  <2> QED BY <2>3, <2>4, <2>5 DEF GlobalAt
<1>14. FillSide'
  <2> SUFFICES ASSUME ctrl.state \in Reading PROVE FillSide'
    BY <1>3 DEF FillSide
  <2>1. ctrl.bus_err = 1 \/ FenceDue \/
          \A k \in Offset : k < ctrl.ofs_int \/ ctrl.state = "S_READ_DONE" =>
             ram.data[ctrl.idx][k] = main'[FetchedWord(k)] \/ FetchedWord(k) \in stale'
    BY <1>1, <1>6, <1>12 DEF FillSide
  <2>2. bus_rsp.ack = 1 /\ bus_rsp.err = 0 =>
          bus_rsp.data = main'[FetchedWord(ctrl.ofs_int)] \/ FetchedWord(ctrl.ofs_int) \in stale' \/ FenceDue
    BY <1>1, <1>6, <1>12, CtrlParts DEF FillSide
  <2>3. ~Dirty(ctrl.idx)
    BY <1>1 DEF FillSide
  <2>4. ~Dirty(ctrl.idx)' /\ FetchedWord(ctrl.ofs_int)' = FetchedWord(ctrl.ofs_int)
    BY <1>3, <2>3 DEF Dirty, READ_ONLY, FetchedWord
  <2> QED BY <1>3, <1>9, <2>1, <2>2, <2>4 DEF FillSide
<1>15. WriteSide' /\ SyncSide'
  <2>1. Dirty(ctrl.idx)' <=> Dirty(ctrl.idx)
    BY <1>3 DEF Dirty, READ_ONLY
  <2>2. Dirty(ctrl.idx) => \A k \in Offset : main'[OwnWord(k)'] = main[OwnWord(k)]
    BY <1>6, <1>9, <1>11
  <2>3. WriteSide'
    BY <1>1, <1>3, <1>9, <2>1, <2>2 DEF WriteSide
  <2>4. SyncSide'
    BY <1>1, <1>3, <1>9, <2>1, <2>2 DEF SyncSide, READ_ONLY
  <2> QED BY <2>3, <2>4
<1>16. CheckSide'
  BY <1>1, <1>3 DEF CheckSide, InBlock, Dirty, Word0, READ_ONLY
<1>17. BypassSide'
  <2> SUFFICES ASSUME ctrl.state = "S_BYPASS" PROVE BypassSide'
    BY <1>3 DEF BypassSide
  <2>1. Genuine /\ host_req.addr \in Addr
    BY <1>1, CtrlParts DEF HostSide, TypeInv, HostTypeOK, Serving
  <2>2. IsWrite(host_req) => host_req.addr # b
    BY <1>1, <2>1, BlockUnshared
  <2> DEFINE h == host_req.addr
  <2>3. h # b => (Performed(h)' <=> Performed(h))
    BY <1>3, <1>6, <2>1 DEF Performed, IsWrite
  <2>4. IsWrite(host_req)' <=> IsWrite(host_req)
    BY <1>3 DEF IsWrite
  <2>5. InBlock(host_req.addr)' <=> InBlock(host_req.addr)
    BY <1>3 DEF InBlock
  <2>6. CASE h = b
    <3>1. ~IsWrite(host_req)
      BY <2>2, <2>6
    <3> QED BY <1>1, <1>3, <1>6, <2>4, <2>5, <2>6, <3>1 DEF BypassSide
  <2>7. CASE h # b
    <3>1. main'[h] = main[h] /\ ref'[h] = ref[h]
      BY <1>6, <2>1, <2>7
    <3>2. Performed(host_req.addr)' <=> Performed(host_req.addr)
      BY <1>3, <3>1 DEF Performed, IsWrite
    <3> QED BY <1>1, <1>3, <1>6, <2>4, <2>5, <3>1, <3>2 DEF BypassSide
  <2> QED BY <2>6, <2>7
<1>18. VoidSide' /\ FlushSide'
  BY <1>1, <1>3, <1>9 DEF VoidSide, FlushSide
<1> QED BY <1>7, <1>8, <1>13, <1>14, <1>15, <1>16, <1>17, <1>18 DEF DataInv, GlobalPart, LocalPart

LEMMA StutterData ==
  ASSUME DataInv, UNCHANGED vars
  PROVE  DataInv'
<1> USE DEF vars, cacheVars, hostVars, busVars, histVars
<1>1. ControlInv'
  BY ControlStep DEF DataInv
<1>2. HistType' /\ GlobalPart' /\ VoidSide' /\ FlushSide'
  BY DEF DataInv, HistType, GlobalPart, GlobalAt, DirtyHolds, MainCurrent, CleanHolds, VoidSide, FlushSide, Held,
     InBlock, Dirty, Word0, Performed, Filling, FenceAhead, FenceDue, Passing, IsWrite, READ_ONLY, Serving
<1>3. LocalPart'
  BY DEF DataInv, LocalPart, FillSide, WriteSide, SyncSide, CheckSide, BypassSide, InBlock, Dirty, Word0,
     Performed, FenceDue, IsWrite, READ_ONLY, OwnWord, FetchedWord, Got
<1> QED BY <1>1, <1>2, <1>3 DEF DataInv

LEMMA DataInit ==
  ASSUME Init
  PROVE  DataInv
<1>1. ControlInv
  BY ControlInit
<1>2. /\ ctrl.state = "S_IDLE" /\ main \in [Addr -> Word] /\ ref = main /\ stale = {} /\ lost = {}
      /\ flushed = FALSE /\ void = FALSE /\ sync_i = 0 /\ host_state = "ready"
      /\ \A i \in Index : ram.valid[i] = 0
  BY <1>1, CtrlParts DEF ControlInv, Init, CacheInit, HostInit, ctrl_reset
<1>3. HistType /\ VoidSide /\ FlushSide
  BY <1>2 DEF HistType, VoidSide, FlushSide, Serving, Reading, Writing
<1>4. GlobalPart
  <2>1. ASSUME NEW a \in Addr PROVE ~InBlock(a)
    <3>1. IdxOf(a) \in Index
      BY AddrParts
    <3> QED BY <1>2, <3>1 DEF InBlock
  <2> QED BY <1>2, <2>1 DEF GlobalPart, GlobalAt, DirtyHolds, MainCurrent, CleanHolds, Held
<1>5. LocalPart
  BY <1>2 DEF LocalPart, FillSide, WriteSide, SyncSide, CheckSide, BypassSide, Reading, Writing
<1> QED BY <1>1, <1>3, <1>4, <1>5 DEF DataInv

LEMMA DataStep ==
  ASSUME DataInv, [Next]_vars
  PROVE  DataInv'
<1>1. ControlInv'
  BY ControlStep DEF DataInv
<1>2. TypeInv'
  BY <1>1 DEF ControlInv
<1>3. CASE TickWith(BusAnswer) \/ TickWith(BusStall)
  <2>1. Edge
    BY <1>3 DEF TickWith, Edge
  <2> QED BY <1>1, <1>2, <2>1, EdgeData, HistTypeStep, VoidStep, FlushStep DEF DataInv
<1>4. CASE OtherWrite
  BY <1>2, <1>4, OtherData
<1>5. CASE UNCHANGED vars
  BY <1>5, StutterData
<1> QED BY <1>3, <1>4, <1>5 DEF Next, Tick

\* A dirty block holds its words as last written and shares none with another
\* master; every other word is in main memory as last written; a clean block is
\* a copy of main memory, up to the words another master wrote or a fence on
\* its way will drop; and so is the part of a block that a transfer has moved.
THEOREM WordsInPlace == Spec => []DataInv
<1>1. Init => DataInv
  BY DataInit
<1>2. DataInv /\ [Next]_vars => DataInv'
  BY DataStep
<1> QED BY <1>1, <1>2, PTL DEF Spec

-----------------------------------------------------------------------------
(* What follows from it. *)

\* A read that succeeds returns the last value written to its word, whether it
\* hits, was fetched, evicted another block or went around the cache.
THEOREM ReadsLast == Spec => []ReadsCurrent
<1>1. ASSUME DataInv, Answered, HostRsp.err = 0, host_req.rw = 0, host_req.addr \notin stale \cup lost, ~void
      PROVE  HostRsp.data = ref[host_req.addr]
  <2> DEFINE h == host_req.addr
  <2>1. /\ ControlInv /\ TypeInv /\ GlobalPart /\ CheckSide /\ BypassSide /\ VoidSide
    BY <1>1 DEF DataInv, ControlInv, LocalPart
  <2>2. Finishing /\ Serving /\ host_state = "wait"
    BY <1>1, <2>1, AnswerIsFinish, FinishServes DEF Answered
  <2>3. h \in Addr /\ DirtyHolds(h) /\ MainCurrent(h) /\ CleanHolds(h)
    BY <2>1, CtrlParts DEF GlobalPart, GlobalAt
  <2>4. ~TransferFailed \/ ctrl.state = "S_BYPASS"
    BY <1>1 DEF HostRsp, cache_rsp, BitOf
  <2>5. CASE ctrl.state = "S_BYPASS"
    <3>1. bus_rsp.ack = 1 /\ bus_rsp.err = 0 /\ HostRsp.data = bus_rsp.data
      BY <1>1, <2>5 DEF Answered, HostRsp, cache_rsp
    <3> QED BY <1>1, <2>1, <2>5, <3>1 DEF BypassSide
  <2>6. CASE ctrl.state = "S_CHECK"
    <3>1. ctrl.pnd_bp = 0 /\ BlockHit(host_req)
      BY <2>2, <2>6 DEF Finishing
    <3>2. InBlock(h) /\ HostRsp.data = Word0(h)
      <4>1. ctrl.cln # 1 /\ InBlock(h)
        BY <2>1, <2>6, <3>1 DEF CheckSide, BlockHit, InBlock
      <4> QED BY <2>1, <2>6, <4>1 DEF HostRsp, cache_rsp, CheckSide
    <3>3. \A i : ~FenceAhead(i) /\ ~Filling(i)
      <4>1. sync_i # 1 /\ ctrl.pnd_syn # 1
        BY <1>1, <2>1, <2>2 DEF VoidSide
      <4> QED BY <2>6, <4>1 DEF FenceAhead, FenceDue, Passing, Syncing, Writing, Filling, Reading
    <3>4. ~Performed(h)
      BY <2>6 DEF Performed
    <3>5. CASE Held(h)
      BY <1>1, <2>3, <3>2, <3>5 DEF DirtyHolds
    <3>6. CASE ~Held(h)
      <4>1. Word0(h) = main[h]
        BY <1>1, <2>3, <3>2, <3>3, <3>6 DEF CleanHolds, Held
      <4>2. main[h] = ref[h]
        BY <1>1, <2>3, <3>4, <3>6 DEF MainCurrent
      <4> QED BY <3>2, <4>1, <4>2
    <3> QED BY <3>5, <3>6
  <2>7. ctrl.state = "S_BYPASS" \/ ctrl.state = "S_CHECK"
    BY <2>2, <2>4 DEF Finishing, TransferFailed
  <2> QED BY <2>5, <2>6, <2>7
<1>2. DataInv => ReadsCurrent
  BY <1>1 DEF ReadsCurrent
<1> QED BY <1>2, WordsInPlace, PTL

\* Between accesses every word is where it belongs: in its block if that is
\* cached, else in main memory; whatever was evicted, written back by a fence,
\* failed on the bus or was dropped by a bypassing access before.
THEOREM KeepsWords == Spec => []NothingLost
<1>1. ASSUME DataInv, ctrl.state = "S_IDLE", ctrl.pnd_syn = 0, sync_i = 0, NEW a \in Addr \ (stale \cup lost)
      PROVE  ref[a] = IF InBlock(a) THEN ram.data[IdxOf(a)][OfsOf(a)] ELSE main[a]
  <2>1. DirtyHolds(a) /\ MainCurrent(a) /\ CleanHolds(a)
    BY <1>1 DEF DataInv, GlobalPart, GlobalAt
  <2>2. ~FenceAhead(IdxOf(a)) /\ ~Filling(IdxOf(a)) /\ ~Performed(a)
    BY <1>1 DEF FenceAhead, FenceDue, Passing, Syncing, Writing, Filling, Reading, Performed
  <2>3. CASE Held(a)
    BY <2>1, <2>3 DEF DirtyHolds, Held, Word0
  <2>4. CASE ~Held(a)
    <3>1. ref[a] = main[a]
      BY <2>1, <2>2, <2>4 DEF MainCurrent
    <3>2. InBlock(a) => Word0(a) = main[a]
      BY <2>1, <2>2, <2>4 DEF CleanHolds, Held
    <3> QED BY <3>1, <3>2 DEF Word0
  <2> QED BY <2>3, <2>4
<1>2. DataInv => NothingLost
  BY <1>1 DEF NothingLost
<1> QED BY <1>2, WordsInPlace, PTL

\* When the request of an uncached access leaves the cache, everything written
\* before the last fence is in main memory, if nothing was written since and
\* no bus error was seen: the accelerator or the DMA it starts finds its data.
THEOREM FenceFirst == Spec => []FenceBeforeBypass
<1>1. ASSUME DataInv, ctrl.state = "S_BYPASS", ctrl.bp_req = 1, flushed, lost = {}
      PROVE  main = ref
  <2>1. /\ ControlInv /\ TypeInv /\ HostSide /\ FenceSide /\ TransferSide /\ GlobalPart /\ HistType /\ FlushSide
    BY <1>1 DEF DataInv, ControlInv
  <2>2. bus_rsp.ack # 1
    BY <1>1, <2>1 DEF TransferSide, Quiet
  <2>3. ASSUME NEW i \in Index PROVE ~Dirty(i)
    <3>1. CASE READ_ONLY
      BY <3>1 DEF Dirty
    <3>2. CASE ~READ_ONLY
      <4>1. host_state = "wait"
        BY <1>1, <2>1 DEF HostSide, TypeInv, HostTypeOK, Serving
      <4>2. sync_i # 1 /\ ctrl.pnd_syn # 1
        BY <1>1, <2>1, <3>2, <4>1 DEF FenceSide, Serving
      <4>3. ~FenceAhead(i)
        BY <1>1, <4>2 DEF FenceAhead, FenceDue, Passing, Syncing, Writing
      <4> QED BY <1>1, <2>1, <4>3 DEF FlushSide
    <3> QED BY <3>1, <3>2
  <2>4. ASSUME NEW a \in Addr PROVE main[a] = ref[a]
    <3>1. ~Performed(a) /\ ~Held(a)
      BY <2>2, <2>3, AddrParts DEF Performed, Held
    <3> QED BY <1>1, <2>1, <3>1 DEF GlobalPart, GlobalAt, MainCurrent
  <2>5. main \in [Addr -> Word] /\ ref \in [Addr -> Word]
    BY <2>1 DEF TypeInv, HistType
  <2> QED BY <2>4, <2>5
<1>2. DataInv => FenceBeforeBypass
  BY <1>1 DEF FenceBeforeBypass
<1> QED BY <1>2, WordsInPlace, PTL
=============================================================================
