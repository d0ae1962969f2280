------------------------------ MODULE Bootloader ------------------------------
(* The bootloader: auto-boot sequence, user console, and the load and store  *)
(* routines over UART, TWI flash, SPI flash and SD card.  A step is a word   *)
(* of a stream, an erased sector, a device set up, or a key.  Addresses and  *)
(* sizes count words; flash addresses are relative to the device's base.     *)
(* The power may fail at any time, TWI and SD transfers may, the UART may    *)
(* mangle a word, and a flash that is written may stay busy forever.         *)
EXTENDS Integers, Sequences

CONSTANTS
  HALF_MOD,      \* values of half a word
  Cleared(_, _), \* half a word of SPI flash after programming: bits only clear
  SIGNATURE,     \* BIN_SIGNATURE
  SECTOR_SIZE,   \* words of an SPI flash sector
  RAM_WORDS,     \* words of the main memory; a store behind it traps
  FLASH_WORDS,   \* words of a flash; reads wrap
  Images,        \* the executables around: [base, data]
  SdFile,        \* the one on the SD card
  Factory,       \* Factory[d]: what flash d holds at first
  MaxUploads, MaxStores, MaxFaults, MaxCuts   \* bounds

Half     == 0..HALF_MOD - 1
WORD_MOD == HALF_MOD * HALF_MOD
Word     == 0..WORD_MOD - 1
Flash    == {"twi", "spi"}
Device   == Flash \cup {"sd", "uart"}
ERASED   == WORD_MOD - 1
BIN_OFFSET_DATA == 4

ASSUME BootloaderAssumption ==
  /\ HALF_MOD \in Nat \ {0, 1}
  /\ \A v, w \in Half : Cleared(v, w) \in Half
  /\ \A w \in Half : Cleared(HALF_MOD - 1, w) = w
  /\ SIGNATURE \in Word /\ SECTOR_SIZE \in Nat \ {0}
  /\ RAM_WORDS \in 0..WORD_MOD /\ FLASH_WORDS \in Nat \ 0..3
  /\ Images \subseteq [base : Word, data : Seq(Word)]
  /\ \A im \in Images : /\ im.base + Len(im.data) <= RAM_WORDS
                        /\ Len(im.data) \in Word \ {0}
  /\ SdFile \in Images
  /\ Factory \in [Flash -> [0..FLASH_WORDS - 1 -> Word]]

VARIABLES
  pc,                                    \* place in the program
  job,                                   \* locals of the load or store under way
  g_exe_base, g_exe_size, g_flash_addr,  \* the globals
  ram, media,                            \* main memory, contents of the flashes
  upload,                                \* the executable that is sent
  uploads, stores, faults, cuts,         \* counters of the bounds
  \* history
  asked,      \* the user was asked before the boot
  aborted,    \* the user stopped the auto-boot sequence
  reported,   \* reported[d]: what the last store on d was told to write, if "OK"
  misplaced   \* the base address of an upload was mangled

globals == <<g_exe_base, g_exe_size, g_flash_addr>>
counts  == <<uploads, stores, faults, cuts>>
hist    == <<asked, aborted, reported, misplaced>>
vars    == <<pc, job, globals, ram, media, upload, counts, hist>>

-----------------------------------------------------------------------------
(* Words and executables. *)

\* The running checksum, and that of f[1] to f[n].
Accumulate(sum, w) == (sum + w) % WORD_MOD
Sum(f, n) == LET S[k \in 0..n] == IF k = 0 THEN 0 ELSE Accumulate(S[k - 1], f[k]) IN S[n]

Complement(w) == WORD_MOD - 1 - w
FileOf(im) == <<SIGNATURE, im.base, Len(im.data), Complement(Sum(im.data, Len(im.data)))>> \o im.data
NoImage    == [base |-> 0, data |-> <<>>]

\* A word that the UART mangles, and an executable with such a base address.
Mangled(w)    == (w + 1) % WORD_MOD
Elsewhere(im) == [im EXCEPT !.base = Mangled(@)]

\* A word of two halves, and one half of which is another's.
Join(hi, lo)  == hi * HALF_MOD + lo
Mix(lo, hi)   == Join(hi \div HALF_MOD, lo % HALF_MOD)
Mixes(v, w)   == {v, w, Mix(v, w), Mix(w, v)}

\* Programming an SPI flash clears bits; a TWI EEPROM takes the new word.
Programmed(old, new) == Join(Cleared(old \div HALF_MOD, new \div HALF_MOD),
                             Cleared(old % HALF_MOD, new % HALF_MOD))
Written(d, old, new) == IF d = "spi" THEN Programmed(old, new) ELSE new

\* What loading from these contents amounts to.
Held(content) ==
  LET size == content[2]
      data == [k \in 1..size |-> content[(BIN_OFFSET_DATA + k - 1) % FLASH_WORDS]]
  IN IF /\ content[0] = SIGNATURE
        /\ size > 0 /\ content[1] + size <= RAM_WORDS
        /\ Sum(data, size) = Complement(content[3])
     THEN [base |-> content[1], data |-> data] ELSE NoImage
Overruns(content) == content[0] = SIGNATURE /\ content[1] + content[2] > RAM_WORDS

InRam(im) == \A k \in DOMAIN im.data : ram[im.base + k - 1] = im.data[k]
ExeInRam  == [base |-> g_exe_base, data |-> [k \in 1..g_exe_size |-> ram[g_exe_base + k - 1]]]

-----------------------------------------------------------------------------
NoHdr == [signature |-> 0, base_addr |-> 0, size |-> 0, checksum |-> 0]
Job(dev, auto) == [dev |-> dev, auto |-> auto, n |-> 0, rc |-> 0, hdr |-> NoHdr]
Idle == Job("uart", FALSE)

Init ==
  /\ pc = "countdown" /\ job = Idle
  /\ g_exe_base = 0 /\ g_exe_size = 0 /\ g_flash_addr = 0
  /\ ram = [a \in 0..RAM_WORDS - 1 |-> 0] /\ media = Factory
  /\ upload = NoImage
  /\ uploads = 0 /\ stores = 0 /\ faults = 0 /\ cuts = 0
  /\ asked = FALSE /\ aborted = FALSE /\ reported = [d \in Flash |-> NoImage]
  /\ misplaced = FALSE

Goto(place) == pc' = place

(* Auto-boot.  The last device is followed by the console. *)

\* Mutant: after the TWI flash nothing else is tried.
FollowingFew == [spi |-> "sd"]

Following == [twi |-> "spi", spi |-> "sd"]

\* Start to load from dev, or open the console.
BeginLoad(dev, auto) == Goto("load_setup") /\ job' = Job(dev, auto)
Console == Goto("console") /\ job' = Idle
NextSource ==
  IF job.auto /\ job.dev \in DOMAIN Following
  THEN BeginLoad(Following[job.dev], TRUE) ELSE Console

Timeout ==
  /\ pc = "countdown" /\ BeginLoad("twi", TRUE)
  /\ UNCHANGED <<globals, ram, media, upload, counts, hist>>

KeyPress ==
  /\ pc = "countdown" /\ Console /\ aborted' = TRUE
  /\ UNCHANGED <<globals, ram, media, upload, counts, asked, reported, misplaced>>

(* system_app_load. *)

\* A load that failed: next source, console, or halt after a failed upload.
LoadFails ==
  IF job.dev = "uart" THEN Goto("halted") /\ job' = Idle ELSE NextSource

SetupFails == job.dev # "uart" /\ faults < MaxFaults /\ faults' = faults + 1

\* Mutant: the size of the executable before remains.
LoadSetupKeeps ==
  /\ pc = "load_setup"
  /\ \/ SetupFails /\ LoadFails /\ UNCHANGED g_flash_addr
     \/ /\ Goto("load_head") /\ UNCHANGED <<job, faults>>
        /\ g_flash_addr' = IF job.dev \in Flash THEN 0 ELSE g_flash_addr
  /\ UNCHANGED <<g_exe_base, g_exe_size, ram, media, upload, uploads, stores, cuts, hist>>

LoadSetup ==
  /\ pc = "load_setup"
  /\ g_exe_size' = 0
  /\ \/ SetupFails /\ LoadFails /\ UNCHANGED g_flash_addr
     \/ /\ Goto("load_head") /\ UNCHANGED <<job, faults>>
        /\ g_flash_addr' = IF job.dev \in Flash THEN 0 ELSE g_flash_addr
  /\ UNCHANGED <<g_exe_base, ram, media, upload, uploads, stores, cuts, hist>>

\* The word that is next in the stream; after the last one of an upload
\* nothing comes, and the program waits for it.
Loading == job.n - 4 < job.hdr.size /\ job.rc = 0
AwaitsSender == job.dev = "uart" /\ (pc = "load_head" \/ (pc = "load_data" /\ Loading))
WordComes == job.dev = "uart" => job.n < Len(FileOf(upload))
StreamWord ==
  CASE job.dev \in Flash -> media[job.dev][g_flash_addr % FLASH_WORDS]
    [] job.dev = "sd"    -> FileOf(SdFile)[job.n + 1]
    [] job.dev = "uart"  -> FileOf(upload)[job.n + 1]

\* stream_get returns w and the error flag e.  Bytes a TWI flash does not
\* deliver read 0, and so does what the SD card does not; a word that the UART
\* mangles, of the header or the data, shows no error.
StreamGet(w, e) ==
  \/ e = 0 /\ w = StreamWord /\ UNCHANGED faults
  \/ /\ faults < MaxFaults /\ faults' = faults + 1
     /\ \/ job.dev = "twi" /\ e = 1 /\ w \in Mixes(0, StreamWord)
        \/ job.dev = "sd" /\ e = 1 /\ w = 0
        \/ job.dev = "uart" /\ e = 0 /\ w = Mangled(StreamWord)

\* The words that may come.
Readable == Mixes(0, StreamWord) \cup {Mangled(StreamWord)}

Advance == g_flash_addr' = IF job.dev \in Flash THEN g_flash_addr + 1 ELSE g_flash_addr

Field == <<"signature", "base_addr", "size", "checksum">>

\* Mutant: an error is forgotten when the next word arrives without one.
LoadHeadForgets ==
  /\ pc = "load_head"
  /\ \E w \in Readable, e \in {0, 1} :
       /\ StreamGet(w, e)
       /\ LET h == [job.hdr EXCEPT ![Field[job.n + 1]] = w]
              read == [job EXCEPT !.n = @ + 1, !.rc = e, !.hdr = h]
          IN \/ job.n < 3 /\ Goto("load_head") /\ job' = read /\ UNCHANGED g_exe_base
             \/ job.n = 3 /\ h.signature # SIGNATURE /\ LoadFails /\ g_exe_base' = h.base_addr
             \/ /\ job.n = 3 /\ h.signature = SIGNATURE
                /\ Goto("load_data") /\ job' = read /\ g_exe_base' = h.base_addr
       /\ misplaced' = (misplaced \/ (job.dev = "uart" /\ job.n = 1 /\ w # StreamWord))
  /\ Advance
  /\ UNCHANGED <<g_exe_size, ram, media, upload, uploads, stores, cuts, asked, aborted, reported>>

LoadHead ==
  /\ pc = "load_head"
  /\ \E w \in Readable, e \in {0, 1} :
       /\ StreamGet(w, e)
       /\ LET h == [job.hdr EXCEPT ![Field[job.n + 1]] = w]
              read == [job EXCEPT !.n = @ + 1, !.rc = IF e = 1 THEN 1 ELSE @, !.hdr = h]
          IN \/ job.n < 3 /\ Goto("load_head") /\ job' = read /\ UNCHANGED g_exe_base
             \/ job.n = 3 /\ h.signature # SIGNATURE /\ LoadFails /\ g_exe_base' = h.base_addr
             \/ /\ job.n = 3 /\ h.signature = SIGNATURE
                /\ Goto("load_data") /\ job' = read /\ g_exe_base' = h.base_addr
       /\ misplaced' = (misplaced \/ (job.dev = "uart" /\ job.n = 1 /\ w # StreamWord))
  /\ Advance
  /\ UNCHANGED <<g_exe_size, ram, media, upload, uploads, stores, cuts, asked, aborted, reported>>

LoadData ==
  /\ pc = "load_data" /\ Loading /\ WordComes
  /\ \E w \in Readable, e \in {0, 1} :
       /\ StreamGet(w, e)
       /\ LET a == job.hdr.base_addr + job.n - 4 IN
          IF a < RAM_WORDS
          THEN /\ ram' = [ram EXCEPT ![a] = w] /\ UNCHANGED pc
               /\ job' = [job EXCEPT !.n = @ + 1, !.rc = e,
                                     !.hdr.checksum = Accumulate(@, w)]
          ELSE Goto("halted") /\ job' = Idle /\ UNCHANGED ram
  /\ Advance
  /\ UNCHANGED <<g_exe_base, g_exe_size, media, upload, uploads, stores, cuts, hist>>

LoadCheck ==
  /\ pc = "load_data" /\ ~Loading
  /\ IF job.rc = 1 \/ (job.hdr.checksum + 1) % WORD_MOD # 0
     THEN LoadFails /\ UNCHANGED g_exe_size
     ELSE /\ g_exe_size' = job.hdr.size
          /\ IF job.auto THEN Goto("boot") /\ UNCHANGED job ELSE Console
  /\ UNCHANGED <<g_exe_base, g_flash_addr, ram, media, upload, counts, hist>>

(* system_app_boot. *)

Boot ==
  /\ pc = "boot"
  /\ Goto(IF g_exe_size = 0 THEN "boot_ask" ELSE "booted") /\ UNCHANGED job
  /\ UNCHANGED <<globals, ram, media, upload, counts, hist>>

BootAnswer ==
  /\ pc = "boot_ask"
  /\ \/ Goto("booted") /\ asked' = TRUE /\ UNCHANGED job
     \/ NextSource /\ UNCHANGED asked
  /\ UNCHANGED <<globals, ram, media, upload, counts, aborted, reported, misplaced>>

-----------------------------------------------------------------------------
(* system_app_store. *)

\* Back at the console with a result, "OK" or not.
StoreEnds(ok) ==
  /\ Console
  /\ reported' = [reported EXCEPT ![job.dev] = IF ok THEN ExeInRam ELSE NoImage]

\* Mutant: the header does not take over the base address.
StoreSetupNoBase ==
  /\ pc = "store_setup"
  /\ \/ SetupFails /\ Console /\ UNCHANGED g_flash_addr
     \/ /\ Goto("store_ask") /\ UNCHANGED faults /\ g_flash_addr' = 0
        /\ job' = [job EXCEPT !.hdr = [signature |-> SIGNATURE, base_addr |-> 0,
                                       size |-> g_exe_size, checksum |-> 0]]
  /\ UNCHANGED <<g_exe_base, g_exe_size, ram, media, upload, uploads, stores, cuts, hist>>

StoreSetup ==
  /\ pc = "store_setup"
  /\ \/ SetupFails /\ Console /\ UNCHANGED g_flash_addr
     \/ /\ Goto("store_ask") /\ UNCHANGED faults /\ g_flash_addr' = 0
        /\ job' = [job EXCEPT !.hdr = [signature |-> SIGNATURE, base_addr |-> g_exe_base,
                                       size |-> g_exe_size, checksum |-> 0]]
  /\ UNCHANGED <<g_exe_base, g_exe_size, ram, media, upload, uploads, stores, cuts, hist>>

StoreAnswer ==
  /\ pc = "store_ask"
  /\ \/ Goto("store_erase") /\ UNCHANGED job
     \/ Console
  /\ UNCHANGED <<globals, ram, media, upload, counts, hist>>

num_sectors == g_exe_size \div SECTOR_SIZE + 1

Sector(k) == k * SECTOR_SIZE..(k + 1) * SECTOR_SIZE - 1
ErasedFlash(k) == [a \in 0..FLASH_WORDS - 1 |-> IF a \in Sector(k) THEN ERASED ELSE media["spi"][a]]

\* The n-th sector; a TWI flash needs no erasure.
StoreErase ==
  /\ pc = "store_erase"
  /\ IF job.dev = "spi" /\ job.n < num_sectors
     THEN /\ media' = [media EXCEPT !["spi"] = ErasedFlash(job.n)]
          /\ job' = [job EXCEPT !.n = @ + 1]
          /\ g_flash_addr' = g_flash_addr + SECTOR_SIZE /\ UNCHANGED pc
     ELSE /\ Goto("store_data") /\ job' = [job EXCEPT !.n = 0]
          /\ g_flash_addr' = BIN_OFFSET_DATA /\ UNCHANGED media
  /\ reported' = [reported EXCEPT ![job.dev] = NoImage]
  /\ UNCHANGED <<g_exe_base, g_exe_size, ram, upload, counts, asked, aborted, misplaced>>

\* The word at the flash address, and what it becomes.
Old    == media[job.dev][g_flash_addr % FLASH_WORDS]
Put(v) == media' = [media EXCEPT ![job.dev][g_flash_addr % FLASH_WORDS] = v]

\* stream_put of w with error flag e: an unacknowledged byte is not written.
StreamPut(w, e) ==
  /\ \/ e = 0 /\ UNCHANGED faults /\ Put(Written(job.dev, Old, w))
     \/ e = 1 /\ job.dev = "twi" /\ faults < MaxFaults /\ faults' = faults + 1
        /\ \E v \in Mixes(Old, w) : Put(v)
  /\ Advance

Storing == job.n < job.hdr.size /\ job.rc = 0

\* The word that is being written, and what there is of it before its last byte.
Writing == pc = "store_head" \/ (pc = "store_data" /\ Storing)
NextOut == IF pc = "store_head" THEN job.hdr[Field[job.n + 1]] ELSE ram[job.hdr.base_addr + job.n]
Torn    == Mix(Written(job.dev, Old, NextOut), Old)

StoreData ==
  /\ pc = "store_data" /\ Storing
  /\ \E e \in {0, 1} :
       LET w == ram[job.hdr.base_addr + job.n] IN
       /\ StreamPut(w, e)
       /\ job' = [job EXCEPT !.n = @ + 1, !.rc = e, !.hdr.checksum = Accumulate(@, w)]
  /\ UNCHANGED <<pc, g_exe_base, g_exe_size, ram, upload, uploads, stores, cuts, hist>>

\* The header follows, whatever became of the data.
StoreRewind ==
  /\ pc = "store_data" /\ ~Storing
  /\ Goto("store_head") /\ g_flash_addr' = 0
  /\ job' = [job EXCEPT !.n = 0, !.hdr.checksum = Complement(@)]
  /\ UNCHANGED <<g_exe_base, g_exe_size, ram, media, upload, counts, hist>>

\* Mutant: only the last word counts for the result.
StoreHeadDeaf ==
  /\ pc = "store_head"
  /\ \E e \in {0, 1} :
       /\ StreamPut(job.hdr[Field[job.n + 1]], e)
       /\ IF job.n < 3
          THEN /\ job' = [job EXCEPT !.n = @ + 1, !.rc = IF e = 1 THEN 1 ELSE @]
               /\ UNCHANGED <<pc, reported>>
          ELSE StoreEnds(e = 0)
  /\ UNCHANGED <<g_exe_base, g_exe_size, ram, upload, uploads, stores, cuts, asked, aborted, misplaced>>

StoreHead ==
  /\ pc = "store_head"
  /\ \E e \in {0, 1} :
       /\ StreamPut(job.hdr[Field[job.n + 1]], e)
       /\ IF job.n < 3
          THEN /\ job' = [job EXCEPT !.n = @ + 1, !.rc = IF e = 1 THEN 1 ELSE @]
               /\ UNCHANGED <<pc, reported>>
          ELSE StoreEnds(job.rc = 0 /\ e = 0)
  /\ UNCHANGED <<g_exe_base, g_exe_size, ram, upload, uploads, stores, cuts, asked, aborted, misplaced>>

\* A flash that stays busy, or does not answer any more, after a byte or a
\* sector: it is polled without end.
FlashHangs ==
  /\ faults < MaxFaults /\ faults' = faults + 1
  /\ \/ pc = "store_erase" /\ job.dev = "spi" /\ UNCHANGED media
     \/ Writing /\ \E v \in {Old, Torn, Written(job.dev, Old, NextOut)} : Put(v)
  /\ Goto("polling") /\ job' = Idle
  /\ UNCHANGED <<globals, ram, upload, uploads, stores, cuts, hist>>

-----------------------------------------------------------------------------
(* The console.  Help and system information change nothing. *)

CmdUpload ==
  /\ pc = "console" /\ uploads < MaxUploads /\ uploads' = uploads + 1
  /\ upload' \in Images
  /\ BeginLoad("uart", FALSE)
  /\ UNCHANGED <<globals, ram, media, stores, faults, cuts, hist>>

CmdLoad ==
  /\ pc = "console"
  /\ \E dev \in Device \ {"uart"} : BeginLoad(dev, FALSE)
  /\ UNCHANGED <<globals, ram, media, upload, counts, hist>>

CmdStore ==
  /\ pc = "console" /\ g_exe_size # 0 /\ stores < MaxStores /\ stores' = stores + 1
  /\ Goto("store_setup") /\ \E dev \in Flash : job' = Job(dev, FALSE)
  /\ UNCHANGED <<globals, ram, media, upload, uploads, faults, cuts, hist>>

CmdExecute ==
  /\ pc = "console" /\ Goto("boot") /\ UNCHANGED job
  /\ UNCHANGED <<globals, ram, media, upload, counts, hist>>

\* The start-up code clears the globals; the memory keeps what it held.
Startup ==
  /\ Goto("countdown") /\ job' = Idle
  /\ g_exe_base' = 0 /\ g_exe_size' = 0 /\ g_flash_addr' = 0
  /\ asked' = FALSE /\ aborted' = FALSE
  /\ UNCHANGED <<ram, upload, uploads, stores, faults, reported, misplaced>>

CmdRestart == pc = "console" /\ Startup /\ UNCHANGED <<media, cuts>>

\* The reset button, when the bootloader has gone or would wait forever.
Reset ==
  /\ pc \in {"booted", "halted", "polling"} \/ AwaitsSender
  /\ Startup /\ UNCHANGED <<media, cuts>>

\* Power fails and returns.  A word that is being written may be torn; a
\* sector that is being erased is erased or not.
PowerLoss ==
  /\ cuts < MaxCuts /\ cuts' = cuts + 1
  /\ Startup
  /\ UNCHANGED media \/ (Writing /\ Put(Torn))

Work ==
  \/ LoadSetup \/ LoadHead \/ LoadData \/ LoadCheck \/ Boot
  \/ StoreSetup \/ StoreErase \/ StoreData \/ StoreRewind \/ StoreHead

Next ==
  \/ Timeout \/ KeyPress \/ Work \/ BootAnswer \/ StoreAnswer
  \/ CmdUpload \/ CmdLoad \/ CmdStore \/ CmdExecute \/ CmdRestart
  \/ FlashHangs \/ Reset \/ PowerLoss

Spec == Init /\ [][Next]_vars

\* The program runs, and so does the clock of the countdown; users need not act,
\* and the sender of an upload may stop.
FairSpec == Spec /\ WF_vars(~AwaitsSender /\ Work) /\ WF_vars(Timeout)

-----------------------------------------------------------------------------
(* Properties. *)

\* Globals, memories and locals are words where they should be.
TypeOK ==
  /\ g_exe_base \in Word /\ g_exe_size \in Word /\ g_flash_addr \in Nat
  /\ ram \in [0..RAM_WORDS - 1 -> Word]
  /\ media \in [Flash -> [0..FLASH_WORDS - 1 -> Word]]
  /\ job.dev \in Device /\ job.auto \in BOOLEAN /\ job.rc \in {0, 1}
  /\ \A f \in DOMAIN job.hdr : job.hdr[f] \in Word

\* Nothing but a whole executable is started without a question: not one whose
\* data were mangled, whose flash did not answer, or whose storing was cut short,
\* and not what a failed load left behind a successful one.  The checksum does
\* not cover the base address: a whole executable may start elsewhere once an
\* upload had its base address mangled.
Executables == Images \cup IF misplaced THEN {Elsewhere(im) : im \in Images} ELSE {}
OnlyWholeImagesBoot ==
  pc = "booted" /\ ~asked =>
    \E im \in Executables : g_exe_base = im.base /\ g_exe_size = Len(im.data) /\ InRam(im)

\* What a load takes for an executable is what its source holds or sends, from
\* the first word to the last (an upload perhaps elsewhere), whichever device
\* fails on the way.  Nothing but a load changes it, and nothing else is started
\* without a question.
Source == IF job.dev \in Flash THEN Held(media[job.dev]) ELSE IF job.dev = "sd" THEN SdFile ELSE upload
Taken == {Source} \cup IF job.dev = "uart" /\ misplaced THEN {Elsewhere(upload)} ELSE {}
TakesWhole ==
  /\ g_exe_size' # 0 =>
       \/ UNCHANGED <<g_exe_base, g_exe_size, ram>>
       \/ pc = "load_data" /\ ~Loading /\ ExeInRam' \in Taken
  /\ pc' = "booted" => asked' \/ g_exe_size' # 0
LoadsWhole == [][TakesWhole]_vars

\* Crash consistency: at every instant of storing, a flash holds a whole
\* executable or none, so neither a power failure nor a flash that hangs leaves
\* a mix that would boot.
CrashConsistent == \A d \in Flash : Held(media[d]) \in Executables \cup {NoImage}

\* "OK" means that the executable can be loaded from the flash; unless its
\* end lies in a sector that was not erased.
Fits(im) == BIN_OFFSET_DATA + Len(im.data) <= (Len(im.data) \div SECTOR_SIZE + 1) * SECTOR_SIZE
StoredLoads ==
  \A d \in Flash : reported[d] # NoImage /\ (d = "spi" => Fits(reported[d])) =>
    Held(media[d]) = reported[d]

\* Without that reservation, as the manual has it.
OkMeansStored == \A d \in Flash : reported[d] # NoImage => Held(media[d]) = reported[d]

\* If nobody interferes, and no header claims more than the memory can take,
\* the processor boots: the SD card always has an executable here, so the
\* console is only reached through faults or by a key.
Undisturbed == faults = 0 /\ ~aborted /\ \A d \in Flash : ~Overruns(media[d])
AutoBoots == (pc = "countdown") ~> (pc = "booted" \/ ~Undisturbed)
=============================================================================
