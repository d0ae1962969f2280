------------------------------- MODULE Cache -------------------------------
(* neorv32_cache: a direct-mapped write-back, write-allocate cache between a *)
(* CPU port and the bus.  One action per state of its control engine; the    *)
(* RAMs and the status memories answer one clock after they are addressed.   *)
(* An address is a word address: tag, block index and offset in the block.   *)
EXTENDS WordTypes

CONSTANTS
  TAGS,         \* tags an address can have
  NUM_BLOCKS,   \* cache blocks, a power of two
  BLOCK_WORDS,  \* words of a block, a power of two
  UC_BEGIN,     \* the first tag of the uncached address space
  Generics      \* READ_ONLY and BURSTS_EN of the instances to check

ASSUME CacheAssumption ==
  /\ TAGS \in Nat \ {0} /\ UC_BEGIN \in 1..TAGS
  /\ NUM_BLOCKS \in Nat \ {0, 1}
  /\ BLOCK_WORDS \in Nat \ {0}
  /\ Generics \subseteq [READ_ONLY : BOOLEAN, BURSTS_EN : BOOLEAN]
  /\ \A g \in Generics : g.BURSTS_EN => BLOCK_WORDS >= 2

VARIABLES
  generics,  \* which instance this is: never changes
  ctrl,      \* the control engine's registers
  ram,       \* valid, dirty, tag and data memories
  rd         \* their read registers

cacheVars == <<generics, ctrl, ram, rd>>

READ_ONLY == generics.READ_ONLY   \* instruction cache: the host cannot modify a block
BURSTS_EN == generics.BURSTS_EN   \* blocks are moved by bursts

Tag    == 0..TAGS - 1
Index  == 0..NUM_BLOCKS - 1
Offset == 0..BLOCK_WORDS - 1
Addr   == 0..(TAGS * NUM_BLOCKS * BLOCK_WORDS) - 1

TagOf(addr) == addr \div (NUM_BLOCKS * BLOCK_WORDS)
IdxOf(addr) == (addr \div BLOCK_WORDS) % NUM_BLOCKS
OfsOf(addr) == addr % BLOCK_WORDS
\* tag & idx & ofs; an offset with an overflow bit loses it.
AddrOf(tag, idx, ofs) == ((tag * NUM_BLOCKS + idx) * BLOCK_WORDS) + (ofs % BLOCK_WORDS)

state_t == {"S_IDLE", "S_CHECK", "S_BYPASS",
            "S_SYNC_START", "S_SYNC_DELAY", "S_SYNC_CHECK", "S_SYNC_NEXT",
            "S_READ_START", "S_READ_WAIT", "S_READ_BURST", "S_READ_DONE",
            "S_WRITE_START", "S_WRITE_REQ", "S_WRITE_RSP", "S_WRITE_WAIT",
            "S_WRITE_BURST", "S_WRITE_DONE"}

\* Offsets towards the bus have one bit more than a block needs.
ctrl_t == [state : state_t, sync : Bit, bus_err : Bit,
           pnd_req : Bit, pnd_syn : Bit, pnd_bp : Bit, bp_req : Bit,
           hit : Bit, cln : Bit, tag : Tag, idx : Index,
           ofs_int : Offset, ofs_ext : 0..2 * BLOCK_WORDS - 1,
           ofs_buf : 0..2 * BLOCK_WORDS - 1]

ram_t == [valid : [Index -> Bit], dirty : [Index -> Bit], tag : [Index -> Tag],
          data : [Index -> [Offset -> Word]]]

\* Requests and responses of the processor bus; amo is an atomic access.
bus_req_t == [addr : Addr, data : Word, ben : WordBE, rw : Bit, amo : Bit, stb : Bit]
bus_rsp_t == [ack : Bit, err : Bit, data : Word]

CacheTypeOK ==
  /\ generics \in Generics
  /\ ctrl \in ctrl_t
  /\ ram \in ram_t
  /\ rd \in [valid : Bit, dirty : Bit, tag : Tag, data : Word]

\* The reset clears the engine and the valid bits; the RAMs hold anything
\* (the data RAM, for brevity, the same word everywhere).
ctrl_reset ==
  [state |-> "S_IDLE", sync |-> 0, bus_err |-> 0, pnd_req |-> 0, pnd_syn |-> 0,
   pnd_bp |-> 0, bp_req |-> 0, hit |-> 0, cln |-> 0, tag |-> 0, idx |-> 0,
   ofs_int |-> 0, ofs_ext |-> 0, ofs_buf |-> 0]

CacheInit ==
  /\ generics \in Generics
  /\ ctrl = ctrl_reset
  /\ \E d \in [Index -> Bit], t \in [Index -> Tag], w \in Word :
       ram = [valid |-> [i \in Index |-> 0], dirty |-> d, tag |-> t,
              data |-> [i \in Index |-> [o \in Offset |-> w]]]
  /\ rd = [valid |-> 0, dirty |-> 0, tag |-> 0, data |-> ZeroWord]

-----------------------------------------------------------------------------
(* The memories on a rising clock edge.  A command addresses them and may    *)
(* set a block's status (set, vld, drt) and write a word (we, data).  They   *)
(* return what they held before.                                             *)

Look(addr) == [addr |-> addr, set |-> 0, vld |-> 0, drt |-> 0, we |-> {}, data |-> ZeroWord]

CacheRam(c) ==
  LET i == IdxOf(c.addr)
      o == OfsOf(c.addr)
      dirty_we == ~READ_ONLY /\ (c.set = 1 \/ c.drt = 1)
  IN /\ ram' = [valid |-> IF c.set = 1 THEN [ram.valid EXCEPT ![i] = c.vld] ELSE ram.valid,
                dirty |-> IF dirty_we THEN [ram.dirty EXCEPT ![i] = c.drt] ELSE ram.dirty,
                tag   |-> IF c.set = 1 THEN [ram.tag EXCEPT ![i] = TagOf(c.addr)] ELSE ram.tag,
                data  |-> [ram.data EXCEPT ![i][o] = MergeWord(@, c.data, c.we)]]
     /\ rd' = [valid |-> ram.valid[i],
               dirty |-> IF READ_ONLY THEN 0 ELSE ram.dirty[i],
               tag   |-> ram.tag[i],
               data  |-> ram.data[i][o]]

\* The addressed block as the engine sees it in the next cycle.
BlockDirty == ctrl.cln = 0 /\ rd.dirty = 1 /\ rd.valid = 1 /\ ~READ_ONLY
BlockHit(host) == ctrl.hit = 1 \/ (rd.valid = 1 /\ rd.tag = TagOf(host.addr))

-----------------------------------------------------------------------------
(* The control engine on a rising clock edge: host is the CPU's request,     *)
(* sync the fence signal, bus the response of the bus.                       *)

\* What happens to the registers in every state.
CtrlNext(host, sync) ==
  [ctrl EXCEPT !.pnd_req = BitOf(@ = 1 \/ host.stb = 1),
               !.pnd_syn = BitOf(@ = 1 \/ sync = 1),
               !.bp_req = 0, !.hit = 0, !.cln = 0, !.ofs_buf = ctrl.ofs_ext]

CtrlAddr == AddrOf(ctrl.tag, ctrl.idx, ctrl.ofs_int)

\* Mutant: a pending fence does not go first.
IdleAccessFirst(host, sync) ==
  /\ ctrl.state = "S_IDLE"
  /\ ctrl' = [CtrlNext(host, sync) EXCEPT
       !.bus_err = 0, !.sync = 0,
       !.pnd_bp = BitOf((host.stb = 1 \/ ctrl.pnd_req = 1)
                          /\ (TagOf(host.addr) >= UC_BEGIN \/ host.amo = 1)),
       !.state = IF host.stb = 1 \/ ctrl.pnd_req = 1 THEN "S_CHECK"
                 ELSE IF ctrl.pnd_syn = 1 THEN "S_SYNC_START" ELSE @]
  /\ CacheRam(Look(host.addr))

\* A pending fence goes first; the access stays pending.
Idle(host, sync) ==
  /\ ctrl.state = "S_IDLE"
  /\ LET access == ctrl.pnd_syn = 0 /\ (host.stb = 1 \/ ctrl.pnd_req = 1)
     IN ctrl' = [CtrlNext(host, sync) EXCEPT
          !.bus_err = 0, !.sync = 0,
          !.pnd_bp = BitOf(access /\ (TagOf(host.addr) >= UC_BEGIN \/ host.amo = 1)),
          !.state = IF access THEN "S_CHECK"
                    ELSE IF ctrl.pnd_syn = 1 THEN "S_SYNC_START" ELSE @]
  /\ CacheRam(Look(host.addr))

\* The access check: the registers it sets whatever the outcome.
CheckTo(host, sync, next) ==
  /\ ctrl.state = "S_CHECK"
  /\ ctrl' = [CtrlNext(host, sync) EXCEPT
       !.tag = TagOf(host.addr), !.idx = IdxOf(host.addr), !.ofs_ext = 0, !.ofs_int = 0,
       !.pnd_req = 0, !.bp_req = 1, !.state = next]

CheckBypassUncached(host, sync) ==
  /\ ctrl.pnd_bp = 1 /\ ~BlockHit(host)
  /\ CheckTo(host, sync, "S_BYPASS")
  /\ CacheRam(Look(host.addr))

\* An atomic access to a cached word: first write the block back, then (the
\* check is repeated) drop it.
CheckBypassDirty(host, sync) ==
  /\ ctrl.pnd_bp = 1 /\ BlockHit(host) /\ BlockDirty
  /\ CheckTo(host, sync, "S_WRITE_START")
  /\ CacheRam(Look(host.addr))

\* Mutant: the cached copy survives the bypassing access.
CheckBypassKeep(host, sync) ==
  /\ ctrl.pnd_bp = 1 /\ BlockHit(host) /\ ~BlockDirty
  /\ CheckTo(host, sync, "S_BYPASS")
  /\ CacheRam(Look(host.addr))

CheckBypassClean(host, sync) ==
  /\ ctrl.pnd_bp = 1 /\ BlockHit(host) /\ ~BlockDirty
  /\ CheckTo(host, sync, "S_BYPASS")
  /\ CacheRam([Look(host.addr) EXCEPT !.set = 1])

CheckHit(host, sync) ==
  /\ ctrl.pnd_bp = 0 /\ BlockHit(host)
  /\ CheckTo(host, sync, "S_IDLE")
  /\ CacheRam(IF host.rw = 1 /\ ~READ_ONLY
              THEN [Look(host.addr) EXCEPT !.we = host.ben, !.data = host.data, !.drt = 1]
              ELSE Look(host.addr))

CheckMiss(host, sync) ==
  /\ ctrl.pnd_bp = 0 /\ ~BlockHit(host)
  /\ CheckTo(host, sync, IF BlockDirty THEN "S_WRITE_START" ELSE "S_READ_START")
  /\ CacheRam(Look(host.addr))

Bypass(host, sync, bus) ==
  /\ ctrl.state = "S_BYPASS"
  /\ ctrl' = [CtrlNext(host, sync) EXCEPT !.state = IF bus.ack = 1 THEN "S_IDLE" ELSE @]
  /\ CacheRam(Look(host.addr))

(* Synchronization: every block in turn, written back if it is dirty. *)

SyncStart(host, sync) ==
  /\ ctrl.state = "S_SYNC_START"
  /\ ctrl' = [CtrlNext(host, sync) EXCEPT
       !.pnd_syn = 0, !.sync = 1, !.idx = 0, !.state = "S_SYNC_DELAY"]
  /\ CacheRam(Look(host.addr))

SyncDelay(host, sync) ==
  /\ ctrl.state = "S_SYNC_DELAY"
  /\ ctrl' = [CtrlNext(host, sync) EXCEPT !.state = "S_SYNC_CHECK"]
  /\ CacheRam(Look(CtrlAddr))

SyncCheck(host, sync) ==
  /\ ctrl.state = "S_SYNC_CHECK"
  /\ ctrl' = [CtrlNext(host, sync) EXCEPT
       !.ofs_ext = 0, !.ofs_int = 0, !.bus_err = 0,
       !.state = IF BlockDirty THEN "S_WRITE_START" ELSE "S_SYNC_NEXT"]
  /\ CacheRam(Look(CtrlAddr))

\* Mutant: a failed write-back drops the block.
SyncNextDrop(host, sync) ==
  /\ ctrl.state = "S_SYNC_NEXT"
  /\ ctrl' = [CtrlNext(host, sync) EXCEPT
       !.idx = (@ + 1) % NUM_BLOCKS,
       !.state = IF ctrl.idx = NUM_BLOCKS - 1 THEN "S_IDLE" ELSE "S_SYNC_DELAY"]
  /\ CacheRam([Look(CtrlAddr) EXCEPT !.set = 1])

\* A block whose write-back failed stays valid and dirty.
SyncNext(host, sync) ==
  /\ ctrl.state = "S_SYNC_NEXT"
  /\ ctrl' = [CtrlNext(host, sync) EXCEPT
       !.idx = (@ + 1) % NUM_BLOCKS,
       !.state = IF ctrl.idx = NUM_BLOCKS - 1 THEN "S_IDLE" ELSE "S_SYNC_DELAY"]
  /\ CacheRam([Look(CtrlAddr) EXCEPT !.set = 1, !.drt = ctrl.bus_err, !.vld = ctrl.bus_err])

(* Block transfers.  ofs_int counts the words received or acknowledged,      *)
(* ofs_ext the words requested.                                              *)

NextOfs(ofs) == (ofs + 1) % (2 * BLOCK_WORDS)
LastWord     == ctrl.ofs_int = BLOCK_WORDS - 1

\* Mutant: only the last error counts.
ReceivedLastError(next, bus) ==
  [next EXCEPT !.bus_err = bus.err, !.ofs_int = (@ + 1) % BLOCK_WORDS]

\* The registers after a word's acknowledge.
Received(next, bus) ==
  [next EXCEPT !.bus_err = BitOf(@ = 1 \/ bus.err = 1),
               !.ofs_int = (@ + 1) % BLOCK_WORDS]

ReadStart(host, sync) ==
  /\ ctrl.state = "S_READ_START"
  /\ ctrl' = [CtrlNext(host, sync) EXCEPT !.state = "S_READ_WAIT"]
  /\ CacheRam(Look(host.addr))

\* The first word, or the next single one; the data RAM is written meanwhile.
Fill(bus) == [Look(CtrlAddr) EXCEPT !.we = ByteSel, !.data = bus.data]

ReadWait(host, sync, bus) ==
  /\ ctrl.state = "S_READ_WAIT"
  /\ ctrl' = IF bus.ack = 0 THEN CtrlNext(host, sync)
             ELSE [Received(CtrlNext(host, sync), bus) EXCEPT
                     !.ofs_ext = NextOfs(@),
                     !.state = IF BURSTS_EN THEN "S_READ_BURST"
                               ELSE IF LastWord THEN "S_READ_DONE" ELSE "S_READ_START"]
  /\ CacheRam(Fill(bus))

\* Mutant: the burst is over when the last word is requested.
ReadBurstEarly(host, sync, bus) ==
  /\ ctrl.state = "S_READ_BURST"
  /\ LET next == [CtrlNext(host, sync) EXCEPT
                    !.ofs_ext = IF @ < BLOCK_WORDS THEN NextOfs(@) ELSE @]
     IN ctrl' = [(IF bus.ack = 0 THEN next ELSE Received(next, bus)) EXCEPT
                   !.state = IF ctrl.ofs_ext = BLOCK_WORDS THEN "S_READ_DONE" ELSE @]
  /\ CacheRam(Fill(bus))

\* One request per cycle; the responses come in their own time.
ReadBurst(host, sync, bus) ==
  /\ ctrl.state = "S_READ_BURST"
  /\ LET next == [CtrlNext(host, sync) EXCEPT
                    !.ofs_ext = IF @ < BLOCK_WORDS THEN NextOfs(@) ELSE @]
     IN ctrl' = IF bus.ack = 0 THEN next
                ELSE [Received(next, bus) EXCEPT !.state = IF LastWord THEN "S_READ_DONE" ELSE @]
  /\ CacheRam(Fill(bus))

\* A block with a bus error is discarded; otherwise the check is repeated.
ReadDone(host, sync) ==
  /\ ctrl.state = "S_READ_DONE"
  /\ ctrl' = [CtrlNext(host, sync) EXCEPT
       !.hit = 1, !.state = IF ctrl.bus_err = 1 THEN "S_IDLE" ELSE "S_CHECK"]
  /\ CacheRam([Look(host.addr) EXCEPT !.set = 1, !.vld = 1 - ctrl.bus_err])

\* Mutant: the block is written to where the missing one comes from.
WriteStartHostTag(host, sync) ==
  /\ ctrl.state = "S_WRITE_START"
  /\ ctrl' = [CtrlNext(host, sync) EXCEPT !.state = "S_WRITE_REQ"]
  /\ CacheRam(Look(CtrlAddr))

\* The evicted block's own tag, from the tag RAM, is its address.
WriteStart(host, sync) ==
  /\ ctrl.state = "S_WRITE_START"
  /\ ctrl' = [CtrlNext(host, sync) EXCEPT
       !.tag = IF ctrl.ofs_int = 0 THEN rd.tag ELSE @, !.state = "S_WRITE_REQ"]
  /\ CacheRam(Look(CtrlAddr))

WriteReq(host, sync) ==
  /\ ctrl.state = "S_WRITE_REQ"
  /\ ctrl' = [CtrlNext(host, sync) EXCEPT !.state = "S_WRITE_RSP"]
  /\ CacheRam(Look(CtrlAddr))

WriteRsp(host, sync, bus) ==
  /\ ctrl.state = "S_WRITE_RSP"
  /\ ctrl' = IF bus.ack = 0 THEN CtrlNext(host, sync)
             ELSE [Received(CtrlNext(host, sync), bus) EXCEPT
                     !.ofs_ext = NextOfs(@),
                     !.state = IF BURSTS_EN THEN "S_WRITE_WAIT"
                               ELSE IF LastWord THEN "S_WRITE_DONE" ELSE "S_WRITE_START"]
  /\ CacheRam(Look(CtrlAddr))

\* In a burst the data RAM is read one word ahead of the request.
ReadAhead == Look(AddrOf(ctrl.tag, ctrl.idx, ctrl.ofs_ext))

WriteWait(host, sync) ==
  /\ ctrl.state = "S_WRITE_WAIT"
  /\ ctrl' = [CtrlNext(host, sync) EXCEPT !.ofs_ext = NextOfs(@), !.state = "S_WRITE_BURST"]
  /\ CacheRam(ReadAhead)

WriteBurst(host, sync, bus) ==
  /\ ctrl.state = "S_WRITE_BURST"
  /\ LET next == [CtrlNext(host, sync) EXCEPT
                    !.ofs_ext = IF ctrl.ofs_buf < BLOCK_WORDS THEN NextOfs(@) ELSE @]
     IN ctrl' = IF bus.ack = 0 THEN next
                ELSE [Received(next, bus) EXCEPT !.state = IF LastWord THEN "S_WRITE_DONE" ELSE @]
  /\ CacheRam(ReadAhead)

WriteDone(host, sync) ==
  /\ ctrl.state = "S_WRITE_DONE"
  /\ ctrl' = [CtrlNext(host, sync) EXCEPT
       !.cln = 1,
       !.state = IF ctrl.sync = 1 THEN "S_SYNC_NEXT"
                 ELSE IF ctrl.bus_err = 1 THEN "S_IDLE" ELSE "S_CHECK"]
  /\ CacheRam(IF ctrl.sync = 1 THEN Look(CtrlAddr)
              ELSE [Look(CtrlAddr) EXCEPT !.set = 1, !.vld = 1 - ctrl.bus_err])

CacheTick(host, sync, bus) ==
  /\ \/ Idle(host, sync)
     \/ CheckBypassUncached(host, sync) \/ CheckBypassDirty(host, sync) \/ CheckBypassClean(host, sync)
     \/ CheckHit(host, sync) \/ CheckMiss(host, sync)
     \/ Bypass(host, sync, bus)
     \/ SyncStart(host, sync) \/ SyncDelay(host, sync) \/ SyncCheck(host, sync) \/ SyncNext(host, sync)
     \/ ReadStart(host, sync) \/ ReadWait(host, sync, bus)
     \/ ReadBurst(host, sync, bus) \/ ReadDone(host, sync)
     \/ WriteStart(host, sync) \/ WriteReq(host, sync) \/ WriteRsp(host, sync, bus)
     \/ WriteWait(host, sync) \/ WriteBurst(host, sync, bus) \/ WriteDone(host, sync)
  /\ UNCHANGED generics

-----------------------------------------------------------------------------
(* The signals the engine drives in the current cycle. *)

Downloading == ctrl.state \in {"S_READ_START", "S_READ_WAIT", "S_READ_BURST"}
Uploading   == ctrl.state \in {"S_WRITE_START", "S_WRITE_REQ", "S_WRITE_RSP",
                               "S_WRITE_WAIT", "S_WRITE_BURST"}

BlockStrobe ==
  \/ ctrl.state \in {"S_READ_START", "S_WRITE_REQ"}
  \/ ctrl.state = "S_READ_BURST" /\ ctrl.ofs_ext < BLOCK_WORDS
  \/ ctrl.state = "S_WRITE_BURST" /\ ctrl.ofs_buf < BLOCK_WORDS

\* The request, the bus lock and the burst indicator.
cache_req(host) ==
  IF ctrl.state = "S_BYPASS" THEN [host EXCEPT !.stb = ctrl.bp_req]
  ELSE [addr |-> AddrOf(ctrl.tag, ctrl.idx,
                   IF ctrl.state \in {"S_WRITE_WAIT", "S_WRITE_BURST"}
                   THEN ctrl.ofs_buf ELSE ctrl.ofs_ext),
        data |-> IF Uploading THEN rd.data ELSE ZeroWord,
        ben  |-> ByteSel,
        rw   |-> BitOf(Uploading),
        amo  |-> 0,
        stb  |-> BitOf(BlockStrobe)]

\* Of its own transfers; on a bypass the hardware passes the lock of the host.
cache_lock == BitOf(Downloading \/ Uploading)

cache_burst ==
  BitOf(/\ BURSTS_EN
        /\ \/ ctrl.state \in {"S_READ_START", "S_READ_WAIT", "S_WRITE_START", "S_WRITE_REQ",
                              "S_WRITE_RSP", "S_WRITE_WAIT"}
           \/ ctrl.state = "S_READ_BURST" /\ ctrl.ofs_ext < BLOCK_WORDS - 1
           \/ ctrl.state = "S_WRITE_BURST" /\ ctrl.ofs_buf < BLOCK_WORDS - 1)

\* The answer to the CPU.
TransferFailed ==
  /\ ctrl.bus_err = 1
  /\ ctrl.state = "S_READ_DONE" \/ (ctrl.state = "S_WRITE_DONE" /\ ctrl.sync = 0)

cache_rsp(host, bus) ==
  IF ctrl.state = "S_BYPASS" THEN bus
  ELSE [ack  |-> BitOf(TransferFailed \/ (ctrl.state = "S_CHECK" /\ ctrl.pnd_bp = 0 /\ BlockHit(host))),
        err  |-> BitOf(TransferFailed),
        data |-> rd.data]
=============================================================================
