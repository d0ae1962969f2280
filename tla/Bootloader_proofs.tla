-------------------------- MODULE Bootloader_proofs --------------------------
(* What the bootloader stores can be loaded again, and what it loads is what *)
(* the source holds or sends: for any executables, sizes, numbers of faults  *)
(* and power failures.                                                       *)
EXTENDS Bootloader, SequenceTheorems, WellFoundedInduction, TLAPS

-----------------------------------------------------------------------------
(* The invariant. *)

Places == {"countdown", "console", "halted", "boot", "boot_ask", "booted", "load_setup", "load_head",
           "load_data", "store_setup", "store_ask", "store_erase", "store_data", "store_head", "polling"}
Headers == [signature : Word, base_addr : Word, size : Word, checksum : Word]
JobType == [dev : Device, auto : BOOLEAN, n : Nat, rc : {0, 1}, hdr : Headers]

Types ==
  /\ pc \in Places /\ job \in JobType
  /\ g_exe_base \in Word /\ g_exe_size \in Word /\ g_flash_addr \in Nat
  /\ ram \in [0..RAM_WORDS - 1 -> Word]
  /\ media \in [Flash -> [0..FLASH_WORDS - 1 -> Word]]
  /\ upload \in Images \cup {NoImage} /\ faults \in Nat
  /\ DOMAIN reported = Flash

\* An executable that was loaded lies in the memory.
ExeFits == g_exe_size # 0 => g_exe_base + g_exe_size <= RAM_WORDS

\* What the source of the load under way offers: its i-th word.
File == IF job.dev = "sd" THEN SdFile ELSE upload
Offered(i) ==
  IF job.dev \in Flash THEN media[job.dev][i % FLASH_WORDS] ELSE FileOf(File)[i + 1]

\* The i-th word of the header arrived as w.
Came(w, i) ==
  \/ w = Offered(i)
  \/ job.dev = "uart" /\ w = Mangled(Offered(i)) /\ (i = 1 => misplaced)

Loads  == {"load_setup", "load_head", "load_data"}
Stores == {"store_setup", "store_ask", "store_erase", "store_data", "store_head"}

\* While a header or data are read, no executable counts as loaded.
LoadSide ==
  /\ pc \in Loads /\ job.dev = "uart" => upload \in Images
  /\ pc = "load_setup" => job.n = 0 /\ job.rc = 0
  /\ pc \in {"load_head", "load_data"} /\ job.dev \in Flash => g_flash_addr = job.n
  /\ pc = "load_head" =>
       /\ g_exe_size = 0 /\ job.n \in 0..3
       /\ job.rc = 0 => \A i \in 0..job.n - 1 : Came(job.hdr[Field[i + 1]], i)
  /\ pc = "load_data" =>
       /\ g_exe_size = 0 /\ g_exe_base = job.hdr.base_addr
       /\ job.n - 4 \in 0..job.hdr.size
       /\ job.n > 4 => job.hdr.base_addr + (job.n - 4) <= RAM_WORDS
       /\ job.dev = "uart" => job.n <= Len(FileOf(upload))

\* The words that were read are those that were offered, except for faults that
\* the checksum shows.
Data(n) == [k \in 1..n |-> Offered(3 + k)]
Checked(mangled) ==
  /\ Came(job.hdr.signature, 0) /\ Came(job.hdr.base_addr, 1) /\ Came(job.hdr.size, 2)
  /\ job.hdr.signature = SIGNATURE
  /\ job.hdr.checksum = (Offered(3) + Sum(Data(job.n - 4), job.n - 4) + mangled) % WORD_MOD
  /\ job.dev # "uart" => mangled = 0
  /\ mangled = 0 =>
       \A k \in 1..job.n - 4 : ram[job.hdr.base_addr + (k - 1)] = Offered(3 + k)
DataSide == pc = "load_data" /\ job.rc = 0 => \E mangled \in 0..faults : Checked(mangled)

\* A store writes the executable in memory: the data so far, then the header,
\* all of it into erased words if it is to the SPI flash.
InErased(a) == a < num_sectors * SECTOR_SIZE
Sound == job.rc = 0 /\ (job.dev = "spi" => Fits(ExeInRam))
Blank(a) == job.dev = "spi" => media["spi"][a] = ERASED
Header(sum) == [signature |-> SIGNATURE, base_addr |-> g_exe_base, size |-> g_exe_size, checksum |-> sum]
DataStored(n) == \A k \in 1..n : media[job.dev][3 + k] = ExeInRam.data[k]

StoreSide ==
  /\ pc \in Stores => job.dev \in Flash /\ g_exe_size # 0
  /\ pc \in {"store_setup", "store_ask"} => job.n = 0
  /\ pc \in {"store_setup", "store_ask", "store_erase"} => job.rc = 0
  /\ pc \in {"store_ask", "store_erase"} => job.hdr = Header(0)
  /\ pc = "store_erase" => job.n \in 0..num_sectors
  /\ pc = "store_data" =>
       /\ job.n \in 0..g_exe_size /\ g_flash_addr = 4 + job.n
       /\ job.hdr = Header(Sum(ExeInRam.data, job.n))
  /\ pc = "store_head" =>
       /\ job.n \in 0..3 /\ g_flash_addr = job.n
       /\ \E sum \in Word : job.hdr = Header(sum)
MediaSide ==
  /\ pc \in {"store_data", "store_head"} => reported[job.dev] = NoImage
  /\ pc = "store_erase" =>
       \A a \in 0..FLASH_WORDS - 1 : a < job.n * SECTOR_SIZE => Blank(a)
  /\ pc = "store_data" /\ Sound =>
       /\ DataStored(job.n)
       /\ \A a \in 0..FLASH_WORDS - 1 : InErased(a) /\ (a < 4 \/ a >= 4 + job.n) => Blank(a)
  /\ pc = "store_head" /\ Sound =>
       /\ DataStored(g_exe_size)
       /\ job.hdr = Header(Complement(Sum(ExeInRam.data, g_exe_size)))
       /\ \A i \in 0..job.n - 1 : media[job.dev][i] = job.hdr[Field[i + 1]]
       /\ \A a \in job.n..3 : Blank(a)

\* Executables behind the end of the flash are none of this.
FlashLarge == RAM_WORDS + BIN_OFFSET_DATA <= FLASH_WORDS
LoadInv  == Types /\ ExeFits /\ LoadSide /\ DataSide
JobInv   == LoadInv /\ StoreSide
StoreInv == JobInv /\ MediaSide /\ StoredLoads

LoadsInv == JobInv /\ faults <= MaxFaults

-----------------------------------------------------------------------------
(* Words and their halves. *)

LEMMA Sizes == /\ HALF_MOD \in Nat \ {0, 1} /\ WORD_MOD \in Nat \ {0, 1}
               /\ \A w \in Word : w \in Nat /\ w < WORD_MOD
               /\ \A w \in Nat : w < WORD_MOD => w \in Word
               /\ 0 \in Word /\ ERASED \in Word /\ SIGNATURE \in Word
<1>1. HALF_MOD \in Nat \ {0, 1}
  BY BootloaderAssumption
<1>2. HALF_MOD * HALF_MOD \in Nat \ {0, 1}
  BY <1>1
<1>3. WORD_MOD \in Nat \ {0, 1}
  BY <1>2 DEF WORD_MOD
<1>4. \A w \in Word : w \in Nat /\ w < WORD_MOD
  BY <1>3 DEF Word
<1>5. \A w \in Nat : w < WORD_MOD => w \in Word
  BY <1>3 DEF Word
<1>6. SIGNATURE \in Word
  BY BootloaderAssumption
<1>7. 0 \in Word /\ ERASED \in Word
  BY <1>3 DEF Word, ERASED
<1> QED BY <1>1, <1>3, <1>4, <1>5, <1>6, <1>7

LEMMA Joins ==
  ASSUME NEW hi \in Half, NEW lo \in Half
  PROVE  Join(hi, lo) \in Word
<1> DEFINE h == HALF_MOD
<1>1. h \in Nat \ {0, 1} /\ hi \in Nat /\ lo \in Nat /\ hi <= h - 1 /\ lo <= h - 1
  BY Sizes DEF Half
<1>2. Word = 0..(h * h) - 1
  BY DEF Word, WORD_MOD
<1>3. Join(hi, lo) = (hi * h) + lo
  BY DEF Join
<1> HIDE DEF h
<1>4. hi * h <= (h - 1) * h
  BY <1>1
<1>5. (h - 1) * h = (h * h) - h
  BY <1>1
<1>6. hi * h \in Nat /\ h * h \in Nat
  BY <1>1
<1> QED BY <1>1, <1>2, <1>3, <1>4, <1>5, <1>6

LEMMA Halves ==
  ASSUME NEW w \in Word
  PROVE  /\ w \div HALF_MOD \in Half /\ w % HALF_MOD \in Half
         /\ Join(w \div HALF_MOD, w % HALF_MOD) = w
<1> DEFINE h == HALF_MOD
           q == w \div h
           r == w % h
<1>1. h \in Nat \ {0, 1} /\ w \in Nat /\ w < h * h /\ Half = 0..h - 1
  BY Sizes DEF WORD_MOD, Half
<1>2. Join(q, r) = (q * h) + r
  BY DEF Join
<1> HIDE DEF h
<1>3. q \in Nat /\ r \in 0..h - 1 /\ w = (q * h) + r
  BY <1>1
<1> HIDE DEF q, r
<1>4. q < h
  <2> SUFFICES ASSUME h <= q PROVE FALSE
    BY <1>1, <1>3
  <2>1. q - h \in Nat
    BY <1>1, <1>3
  <2>2. (q - h) * h \in Nat
    BY <1>1, <2>1
  <2>3. (q - h) * h = (q * h) - (h * h)
    BY <1>1, <1>3
  <2>4. q * h \in Nat /\ h * h \in Nat
    BY <1>1, <1>3
  <2> QED BY <1>1, <1>3, <2>2, <2>3, <2>4
<1>5. q \in Half /\ r \in Half /\ Join(q, r) = w
  BY <1>1, <1>2, <1>3, <1>4
<1> QED BY <1>5 DEF q, r, h

LEMMA Mixed ==
  ASSUME NEW v \in Word, NEW w \in Word
  PROVE  Mix(v, w) \in Word /\ Mixes(v, w) \subseteq Word
<1>1. Mix(v, w) \in Word /\ Mix(w, v) \in Word
  BY Halves, Joins DEF Mix
<1> QED BY <1>1 DEF Mixes

LEMMA WrittenWord ==
  ASSUME NEW d, NEW old \in Word, NEW new \in Word
  PROVE  Written(d, old, new) \in Word
<1>1. /\ Cleared(old \div HALF_MOD, new \div HALF_MOD) \in Half
      /\ Cleared(old % HALF_MOD, new % HALF_MOD) \in Half
  BY Halves, BootloaderAssumption
<1>2. Programmed(old, new) \in Word
  BY <1>1, Joins DEF Programmed
<1> QED BY <1>2 DEF Written

\* An erased word takes any value.
LEMMA ErasedTakes ==
  ASSUME NEW d, NEW old \in Word, NEW w \in Word, d = "spi" => old = ERASED
  PROVE  Written(d, old, w) = w
<1> SUFFICES ASSUME old = ERASED PROVE Programmed(old, w) = w
  BY DEF Written
<1> DEFINE h == HALF_MOD
<1>1. old \div HALF_MOD = HALF_MOD - 1 /\ old % HALF_MOD = HALF_MOD - 1
  <2>1. h \in Nat \ {0, 1} /\ old = (h * h) - 1
    BY Sizes DEF ERASED, WORD_MOD
  <2> HIDE DEF h
  <2>2. old = ((h - 1) * h) + (h - 1)
    BY <2>1
  <2> DEFINE q == h - 1
  <2>3. q \in Nat /\ q < h /\ old = (q * h) + q
    BY <2>1, <2>2
  <2> HIDE DEF q
  <2>4. old \div h = q /\ old % h = q
    BY <2>1, <2>3
  <2> QED BY <2>4 DEF q, h
<1>2. \A u \in Half : Cleared(HALF_MOD - 1, u) = u
  BY BootloaderAssumption
<1> QED BY <1>1, <1>2, Halves DEF Programmed

-----------------------------------------------------------------------------
(* The checksum. *)

LEMMA AccumulateWord ==
  ASSUME NEW s \in Nat, NEW w \in Nat
  PROVE  Accumulate(s, w) \in Word /\ Accumulate(s, w) \in Nat
<1> DEFINE m == WORD_MOD
<1>1. m \in Nat \ {0} /\ Accumulate(s, w) = (s + w) % m /\ Word = 0..m - 1
  BY Sizes DEF Accumulate, Word
<1> HIDE DEF m
<1> QED BY <1>1

LEMMA ComplementWord ==
  ASSUME NEW w \in Word
  PROVE  Complement(w) \in Word /\ Complement(Complement(w)) = w
BY Sizes DEF Word, Complement

LEMMA SetInduction ==
  ASSUME NEW T, 0 \in T, \A n \in Nat : n \in T => n + 1 \in T
  PROVE  \A n \in Nat : n \in T
<1> DEFINE R == OpToRel(<, Nat)
           U == {n \in Nat : n \notin T}
<1>1. SUFFICES ASSUME U # {} PROVE FALSE
  OBVIOUS
<1>2. \E x \in U : \A y \in U : <<y, x>> \notin R
  <2>1. IsWellFoundedOn(R, Nat) /\ U \subseteq Nat
    BY NatLessThanWellFounded
  <2> HIDE DEF R, U
  <2> QED BY <1>1, <2>1, WFMin
<1>3. PICK x \in U : \A y \in U : <<y, x>> \notin R
  BY <1>2
<1>6. x \in Nat /\ x \notin T /\ x # 0
  BY <1>3
<1>4. x - 1 \in Nat /\ (x - 1) + 1 = x /\ x - 1 < x
  BY <1>6
<1>5. x - 1 \in U /\ <<x - 1, x>> \in R
  BY <1>6, <1>4 DEF OpToRel
<1> QED BY <1>3, <1>5

\* S holds the checksums of f's first words, up to n of them.
IsSums(S, f, n) == S = [k \in 0..n |-> IF k = 0 THEN 0 ELSE Accumulate(S[k - 1], f[k])]

LEMMA SumsGrow ==
  ASSUME NEW f, NEW n \in Nat, NEW S, IsSums(S, f, n)
  PROVE  S[0] = 0 /\ \A k \in 0..n - 1 : S[k + 1] = Accumulate(S[k], f[k + 1])
<1>1. \A k \in 0..n : S[k] = IF k = 0 THEN 0 ELSE Accumulate(S[k - 1], f[k])
  BY DEF IsSums
<1>2. ASSUME NEW k \in 0..n - 1 PROVE k + 1 \in 0..n /\ k + 1 # 0 /\ (k + 1) - 1 = k
  OBVIOUS
<1>3. 0 \in 0..n
  OBVIOUS
<1> QED BY <1>1, <1>2, <1>3

LEMMA SumsUnique ==
  ASSUME NEW f, NEW n \in Nat, NEW p \in Nat, n <= p,
         NEW S, NEW Q, IsSums(S, f, n), IsSums(Q, f, p)
  PROVE  \A k \in 0..n : S[k] = Q[k]
<1> DEFINE T == {k \in Nat : k <= n => S[k] = Q[k]}
<1>1. 0 \in T
  BY SumsGrow
<1>2. ASSUME NEW k \in Nat, k \in T, k + 1 <= n PROVE S[k + 1] = Q[k + 1]
  <2>1. k \in 0..n - 1 /\ k \in 0..p - 1 /\ S[k] = Q[k]
    BY <1>2
  <2> QED BY <2>1, SumsGrow
<1>3. \A k \in Nat : k \in T => k + 1 \in T
  BY <1>2
<1>4. \A k \in Nat : k \in T
  <2> HIDE DEF T
  <2> QED BY <1>1, <1>3, SetInduction
<1> QED BY <1>4

LEMMA SumsExist ==
  ASSUME NEW f
  PROVE  \A n \in Nat : \E S : IsSums(S, f, n)
<1> DEFINE T == {n \in Nat : \E S : IsSums(S, f, n)}
<1>1. 0 \in T
  <2>1. IsSums([k \in 0..0 |-> 0], f, 0)
    BY DEF IsSums
  <2> QED BY <2>1
<1>2. ASSUME NEW n \in Nat, n \in T PROVE n + 1 \in T
  <2>1. PICK S : IsSums(S, f, n)
    BY <1>2
  <2> DEFINE Q == [k \in 0..n + 1 |-> IF k = n + 1 THEN Accumulate(S[n], f[n + 1]) ELSE S[k]]
  <2>2. ASSUME NEW k \in 0..n + 1
        PROVE  Q[k] = IF k = 0 THEN 0 ELSE Accumulate(Q[k - 1], f[k])
    <3>1. CASE k = 0
      <4>1. S[0] = 0
        BY <2>1, SumsGrow
      <4>2. 0 \in 0..n + 1 /\ 0 # n + 1
        OBVIOUS
      <4> QED BY <3>1, <4>1, <4>2
    <3>2. CASE k # 0 /\ k # n + 1
      <4>1. k - 1 \in 0..n - 1 /\ (k - 1) + 1 = k /\ k - 1 # n + 1
        BY <3>2
      <4> QED BY <2>1, <3>2, <4>1, SumsGrow
    <3>3. CASE k = n + 1
      <4>1. k # 0 /\ k - 1 = n /\ n \in 0..n + 1 /\ n # n + 1
        BY <3>3
      <4> QED BY <3>3, <4>1
    <3> QED BY <3>1, <3>2, <3>3
  <2>3. IsSums(Q, f, n + 1)
    BY <2>2 DEF IsSums
  <2> QED BY <2>3
<1>3. \A n \in Nat : n \in T
  <2> HIDE DEF T
  <2> QED BY <1>1, <1>2, SetInduction
<1> QED BY <1>3

LEMMA SumDef ==
  ASSUME NEW f
  PROVE  /\ Sum(f, 0) = 0
         /\ \A n \in Nat : Sum(f, n + 1) = Accumulate(Sum(f, n), f[n + 1])
<1> DEFINE c(n) == CHOOSE S : IsSums(S, f, n)
<1>1. \A n \in Nat : IsSums(c(n), f, n)
  BY SumsExist
<1>2. ASSUME NEW n \in Nat PROVE Sum(f, n) = c(n)[n]
  BY DEF Sum, IsSums
<1> HIDE DEF c
<1>3. Sum(f, 0) = 0
  <2>1. IsSums(c(0), f, 0) /\ Sum(f, 0) = c(0)[0]
    BY <1>1, <1>2
  <2> QED BY <2>1, SumsGrow
<1>4. ASSUME NEW n \in Nat PROVE Sum(f, n + 1) = Accumulate(Sum(f, n), f[n + 1])
  <2>1. n \in 0..(n + 1) - 1 /\ n + 1 \in Nat /\ n <= n + 1 /\ n \in 0..n
    OBVIOUS
  <2>2. c(n)[n] = c(n + 1)[n]
    BY <1>1, <2>1, SumsUnique
  <2>3. c(n + 1)[n + 1] = Accumulate(c(n + 1)[n], f[n + 1])
    BY <1>1, <2>1, SumsGrow
  <2> QED BY <1>2, <2>1, <2>2, <2>3
<1> QED BY <1>3, <1>4

\* Equal words have equal checksums.
LEMMA SumSame ==
  ASSUME NEW f, NEW g, NEW n \in Nat, \A k \in 1..n : f[k] = g[k] /\ f[k] \in Nat
  PROVE  Sum(f, n) = Sum(g, n) /\ Sum(f, n) \in Word
<1> DEFINE T == {k \in Nat : k <= n => Sum(f, k) = Sum(g, k) /\ Sum(f, k) \in Word}
<1>1. 0 \in T
  BY SumDef, Sizes
<1>2. ASSUME NEW k \in Nat, k \in T, k + 1 <= n
      PROVE  Sum(f, k + 1) = Sum(g, k + 1) /\ Sum(f, k + 1) \in Word
  <2>1. k + 1 \in 1..n /\ Sum(f, k) = Sum(g, k) /\ Sum(f, k) \in Word
    BY <1>2
  <2>2. Sum(f, k) \in Nat /\ f[k + 1] \in Nat
    BY <2>1, Sizes
  <2>3. Sum(f, k + 1) = Accumulate(Sum(f, k), f[k + 1]) /\ Sum(g, k + 1) = Accumulate(Sum(g, k), g[k + 1])
    BY SumDef
  <2> QED BY <2>1, <2>2, <2>3, AccumulateWord
<1>3. \A k \in Nat : k \in T => k + 1 \in T
  BY <1>2
<1>4. \A k \in Nat : k \in T
  <2> HIDE DEF T
  <2> QED BY <1>1, <1>3, SetInduction
<1> QED BY <1>4

LEMMA ModAdd ==
  ASSUME NEW a \in Nat, NEW b \in Nat
  PROVE  /\ ((a % WORD_MOD) + b) % WORD_MOD = (a + b) % WORD_MOD
         /\ (a + (b % WORD_MOD)) % WORD_MOD = (a + b) % WORD_MOD
<1> DEFINE m == WORD_MOD
<1>1. m \in Nat \ {0}
  BY Sizes
<1> HIDE DEF m
<1>2. ASSUME NEW x \in Nat, NEW y \in Nat
      PROVE  ((x % m) + y) % m = (x + y) % m
  <2> DEFINE q == x \div m
             r == x % m
             p == (r + y) \div m
             s == (r + y) % m
  <2>1. q \in Nat /\ r \in 0..m - 1 /\ x = (q * m) + r
    BY <1>1
  <2> HIDE DEF q, r
  <2>2. p \in Nat /\ s \in 0..m - 1 /\ r + y = (p * m) + s
    BY <1>1, <2>1
  <2> HIDE DEF p, s
  <2>3. (q + p) * m = (q * m) + (p * m) /\ q * m \in Nat /\ p * m \in Nat
    BY <1>1, <2>1, <2>2
  <2> DEFINE t == q + p
             u == t * m
  <2>4. t \in Nat /\ u \in Nat /\ x + y = u + s
    <3>1. u = (q * m) + (p * m)
      BY <2>3
    <3> HIDE DEF u
    <3> QED BY <2>1, <2>2, <2>3, <3>1
  <2>5. x + y = (t * m) + s
    BY <2>4
  <2> HIDE DEF t
  <2>6. ((t * m) + s) % m = s
    BY <1>1, <2>2, <2>4
  <2>7. (x + y) % m = s
    BY <2>5, <2>6
  <2> QED BY <2>7 DEF s, r
<1>3. ((a % m) + b) % m = (a + b) % m
  BY <1>2
<1>4. ((b % m) + a) % m = (b + a) % m
  BY <1>2
<1>5. a % m \in Nat /\ b % m \in Nat
  BY <1>1
<1>6. (a + (b % m)) % m = (a + b) % m
  BY <1>4, <1>5
<1> QED BY <1>3, <1>6 DEF m

-----------------------------------------------------------------------------
(* Files and headers. *)

LEMMA FileParts ==
  ASSUME NEW im \in Images
  PROVE  /\ FileOf(im)[1] = SIGNATURE /\ FileOf(im)[2] = im.base
         /\ FileOf(im)[3] = Len(im.data)
         /\ FileOf(im)[4] = Complement(Sum(im.data, Len(im.data)))
         /\ \A k \in 1..Len(im.data) : FileOf(im)[4 + k] = im.data[k] /\ im.data[k] \in Word
         /\ \A k \in 1..4 : FileOf(im)[k] \in Word
         /\ Len(FileOf(im)) = 4 + Len(im.data) /\ Len(im.data) \in Nat
         /\ im.base \in Word /\ im.data \in Seq(Word) /\ im = [base |-> im.base, data |-> im.data]
<1> DEFINE n == Len(im.data)
           c == Complement(Sum(im.data, n))
           h == <<SIGNATURE, im.base, n, c>>
<1>1. im.base \in Word /\ im.data \in Seq(Word) /\ n \in Word /\ n \in Nat
  BY BootloaderAssumption, Sizes
<1>2. \A k \in 1..n : im.data[k] \in Word /\ im.data[k] \in Nat
  BY <1>1, Sizes
<1>3. c \in Word
  <2> HIDE DEF n
  <2>1. Sum(im.data, n) \in Word
    BY <1>1, <1>2, SumSame
  <2> QED BY <2>1, ComplementWord
<1> HIDE DEF n, c
<1>4. h \in Seq(Word) /\ Len(h) = 4 /\ h[1] = SIGNATURE /\ h[2] = im.base /\ h[3] = n /\ h[4] = c
  BY <1>1, <1>3, Sizes
<1>5. FileOf(im) = h \o im.data
  BY DEF FileOf, h, n, c
<1> HIDE DEF h
<1>6. \A i \in 1..4 + n : (h \o im.data)[i] = IF i <= 4 THEN h[i] ELSE im.data[i - 4]
  <2>1. \A i \in 1..Len(h) + Len(im.data) :
          (h \o im.data)[i] = IF i <= Len(h) THEN h[i] ELSE im.data[i - Len(h)]
    BY <1>1, <1>4, ConcatProperties
  <2> QED BY <1>4, <2>1 DEF n
<1>7. \A i \in 1..4 : FileOf(im)[i] = h[i]
  <2> SUFFICES ASSUME NEW i \in 1..4 PROVE FileOf(im)[i] = h[i]
    OBVIOUS
  <2> DEFINE f == h \o im.data
  <2>1. i \in 1..4 + n /\ i <= 4
    BY <1>1
  <2>2. f[i] = IF i <= 4 THEN h[i] ELSE im.data[i - 4]
    BY <1>6, <2>1
  <2>3. FileOf(im) = f
    BY <1>5
  <2> HIDE DEF f
  <2>4. f[i] = h[i]
    BY <2>1, <2>2
  <2> QED BY <2>3, <2>4
<1>8. ASSUME NEW k \in 1..n PROVE FileOf(im)[4 + k] = im.data[k]
  <2>1. 4 + k \in 1..4 + n /\ ~(4 + k <= 4) /\ (4 + k) - 4 = k
    BY <1>1
  <2> QED BY <1>5, <1>6, <2>1
<1>9. \A i \in 1..4 : h[i] \in Word
  BY <1>1, <1>3, <1>4, Sizes
<1>10. Len(h \o im.data) = 4 + n
  <2>1. Len(h \o im.data) = Len(h) + Len(im.data)
    BY <1>1, <1>4, ConcatProperties
  <2> QED BY <1>4, <2>1 DEF n
<1>11. im = [base |-> im.base, data |-> im.data]
  BY BootloaderAssumption
<1> QED BY <1>1, <1>2, <1>4, <1>5, <1>7, <1>8, <1>9, <1>10, <1>11 DEF n, c

LEMMA Fields ==
  /\ Field[1] = "signature" /\ Field[2] = "base_addr" /\ Field[3] = "size" /\ Field[4] = "checksum"
  /\ Field[0 + 1] = "signature" /\ Field[1 + 1] = "base_addr" /\ Field[2 + 1] = "size" /\ Field[3 + 1] = "checksum"
  BY DEF Field

\* A header of which the i-th word was read.
WithField(old, i, w) == [old EXCEPT ![Field[i + 1]] = w]

LEMMA HeaderWord ==
  ASSUME NEW old \in Headers, NEW i \in 0..3, NEW w \in Word
  PROVE  /\ WithField(old, i, w) \in Headers /\ WithField(old, i, w)[Field[i + 1]] = w
         /\ \A j \in 0..3 : j # i => WithField(old, i, w)[Field[j + 1]] = old[Field[j + 1]]
<1>1. CASE i = 0
  BY <1>1, Fields DEF Headers, WithField
<1>2. CASE i = 1
  BY <1>2, Fields DEF Headers, WithField
<1>3. CASE i = 2
  BY <1>3, Fields DEF Headers, WithField
<1>4. CASE i = 3
  BY <1>4, Fields DEF Headers, WithField
<1> QED BY <1>1, <1>2, <1>3, <1>4

LEMMA HeaderOf ==
  ASSUME NEW h \in Headers, NEW i \in 0..3
  PROVE  h[Field[i + 1]] \in Word
<1>1. i = 0 \/ i = 1 \/ i = 2 \/ i = 3
  OBVIOUS
<1> QED BY <1>1, Fields DEF Headers

-----------------------------------------------------------------------------
(* Moves that read and write nothing. *)

LEMMA JobFacts ==
  ASSUME NEW d \in Device, NEW auto \in BOOLEAN
  PROVE  /\ Job(d, auto) \in JobType /\ Job(d, auto).n = 0 /\ Job(d, auto).rc = 0
         /\ Job(d, auto).dev = d /\ Job(d, auto).auto = auto
  BY Sizes DEF Job, JobType, Headers, NoHdr

LEMMA IdleFacts == Idle \in JobType /\ Idle.n = 0 /\ Idle.rc = 0 /\ Idle.dev = "uart"
  BY JobFacts DEF Idle, Device

\* A fresh job at a place where nothing is being read or written.
Resting(places) ==
  /\ pc \in places /\ job \in JobType /\ job.n = 0 /\ job.rc = 0
  /\ pc = "load_setup" => job.dev # "uart"

LEMMA NextSourceRests ==
  ASSUME job \in JobType, NextSource
  PROVE  Resting({"load_setup", "console"})'
<1>1. CASE job.auto /\ job.dev \in DOMAIN Following
  <2>1. Following[job.dev] \in Device \ {"uart"}
    BY <1>1 DEF Following, Device, Flash
  <2> QED BY <1>1, <2>1, JobFacts DEF NextSource, BeginLoad, Goto, Resting
<1>2. CASE ~(job.auto /\ job.dev \in DOMAIN Following)
  BY <1>2, IdleFacts DEF NextSource, Console, Goto, Resting
<1> QED BY <1>1, <1>2

LEMMA LoadFailsRests ==
  ASSUME job \in JobType, LoadFails
  PROVE  Resting({"load_setup", "console", "halted"})'
<1>1. CASE job.dev = "uart"
  BY <1>1, IdleFacts DEF LoadFails, Goto, Resting
<1>2. CASE job.dev # "uart"
  BY <1>2, NextSourceRests DEF LoadFails, Resting
<1> QED BY <1>1, <1>2

\* Between reading and checking an executable nothing need be known.
LEMMA Apart ==
  ASSUME ExeFits, Types',
         g_exe_size' = 0 \/ UNCHANGED <<g_exe_base, g_exe_size>>,
         pc' \notin {"load_head", "load_data"},
         pc' = "load_setup" =>
           job'.n = 0 /\ job'.rc = 0 /\ (job'.dev = "uart" => upload' \in Images)
  PROVE  LoadInv'
<1>1. ExeFits'
  BY DEF ExeFits
<1>2. LoadSide'
  BY DEF LoadSide, Loads
<1>3. DataSide'
  BY DEF DataSide
<1> QED BY <1>1, <1>2, <1>3 DEF LoadInv

-----------------------------------------------------------------------------
(* Reading. *)

LEMMA Reading ==
  ASSUME LoadInv, pc = "load_head" \/ (pc = "load_data" /\ Loading /\ WordComes)
  PROVE  /\ StreamWord = Offered(job.n) /\ Offered(job.n) \in Word
         /\ job.dev \notin Flash =>
              File \in Images /\ (pc = "load_data" => job.n < 4 + Len(File.data))
         /\ pc = "load_data" => job.n - 4 \in 0..job.hdr.size - 1 /\ job.rc = 0
<1>1. job \in JobType /\ job.n \in Nat /\ job.dev \in Device /\ job.rc \in {0, 1} /\ job.hdr \in Headers
  BY DEF LoadInv, Types, JobType
<1>2. pc = "load_data" => job.n - 4 \in 0..job.hdr.size - 1 /\ job.rc = 0
  <2>1. job.hdr.size \in Nat
    BY <1>1, Sizes DEF Headers
  <2> QED BY <2>1 DEF Loading, LoadInv, LoadSide
<1>3. CASE job.dev \in Flash
  <2>1. g_flash_addr = job.n
    BY <1>3 DEF LoadInv, LoadSide
  <2>2. StreamWord = Offered(job.n)
    BY <1>3, <2>1 DEF StreamWord, Offered, Flash
  <2> DEFINE a == job.n % FLASH_WORDS
  <2>3. a \in 0..FLASH_WORDS - 1
    BY <1>1, BootloaderAssumption
  <2>4. Offered(job.n) = media[job.dev][a]
    BY <1>3 DEF Offered
  <2> HIDE DEF a
  <2>5. media[job.dev][a] \in Word
    BY <1>3, <2>3 DEF LoadInv, Types
  <2> QED BY <1>2, <1>3, <2>2, <2>4, <2>5
<1>4. CASE job.dev \notin Flash
  <2>1. File \in Images
    BY <1>1, <1>4, BootloaderAssumption DEF File, LoadInv, LoadSide, Loads, Device
  <2>2. StreamWord = FileOf(File)[job.n + 1] /\ Offered(job.n) = FileOf(File)[job.n + 1]
    BY <1>1, <1>4 DEF StreamWord, Offered, File, Device, Flash
  <2>3. CASE pc = "load_head"
    <3>1. job.n + 1 \in 1..4
      BY <2>3 DEF LoadInv, LoadSide
    <3> QED BY <1>2, <1>4, <2>1, <2>2, <2>3, <3>1, FileParts
  <2>4. CASE pc = "load_data"
    <3>1. ASSUME job.dev = "uart" PROVE job.n < 4 + Len(File.data)
      <4>1. job.n < Len(FileOf(upload)) /\ File = upload
        BY <2>4, <3>1 DEF WordComes, File
      <4> QED BY <2>1, <4>1, FileParts
    <3>2. ASSUME job.dev = "sd" PROVE job.n < 4 + Len(File.data)
      <4>1. PICK mangled \in 0..faults : Checked(mangled)
        BY <1>2, <2>4 DEF LoadInv, DataSide
      <4>2. job.hdr.size = Offered(2) /\ Offered(2) = FileOf(File)[2 + 1]
        BY <1>4, <3>2, <4>1 DEF Checked, Came, Offered
      <4>3. job.hdr.size = Len(File.data)
        BY <2>1, <4>2, FileParts
      <4> DEFINE l == Len(File.data)
      <4>4. l \in Nat /\ job.hdr.size = l
        BY <2>1, <4>3, FileParts
      <4> HIDE DEF l
      <4>5. job.n < 4 + l
        BY <1>1, <1>2, <2>4, <4>4
      <4> QED BY <4>5 DEF l
    <3>6. job.n < 4 + Len(File.data) /\ Len(File.data) \in Nat
      BY <1>1, <1>4, <2>1, <3>1, <3>2, FileParts DEF Device, Flash
    <3> DEFINE k == job.n - 3
    <3>3. k \in 1..Len(File.data) /\ job.n + 1 = 4 + k
      <4> DEFINE l == Len(File.data)
      <4>1. l \in Nat /\ job.n < 4 + l /\ job.n - 4 \in Nat
        BY <1>1, <1>2, <2>4, <3>6, Sizes DEF Headers
      <4> HIDE DEF l
      <4>2. job.n - 3 \in 1..l /\ job.n + 1 = 4 + (job.n - 3)
        BY <1>1, <4>1
      <4> QED BY <4>2 DEF l
    <3> HIDE DEF k
    <3>4. FileOf(File)[4 + k] \in Word
      BY <2>1, <3>3, FileParts
    <3> QED BY <1>2, <1>4, <2>1, <2>2, <3>3, <3>4, <3>6
  <2> QED BY <2>3, <2>4
<1> QED BY <1>3, <1>4

\* What arrives is what was offered, unless an error shows it or, in an upload,
\* one fault more was counted.
LEMMA Arrives ==
  ASSUME LoadInv, pc = "load_head" \/ (pc = "load_data" /\ Loading /\ WordComes),
         NEW w, NEW e \in {0, 1}, StreamGet(w, e)
  PROVE  /\ w \in Word /\ faults' \in Nat /\ faults <= faults'
         /\ e = 0 =>
              \/ w = Offered(job.n)
              \/ /\ job.dev = "uart" /\ faults' = faults + 1
                 /\ w = Mangled(Offered(job.n))
<1> DEFINE x == StreamWord
<1>1. x = Offered(job.n) /\ x \in Word /\ faults \in Nat
  BY Reading DEF LoadInv, Types
<1> HIDE DEF x
<1>2. Mangled(x) \in Word /\ Mixes(0, x) \subseteq Word
  BY <1>1, Sizes, Mixed, AccumulateWord DEF Accumulate, Mangled
<1> QED BY <1>1, <1>2, Sizes DEF StreamGet, x

LEMMA OfferStays ==
  ASSUME UNCHANGED <<media, upload>>, job'.dev = job.dev
  PROVE  /\ \A i : Offered(i)' = Offered(i)
         /\ \A n : Data(n)' = Data(n)
<1>1. \A i : Offered(i)' = Offered(i)
  BY DEF Offered, File
<1> QED BY <1>1 DEF Data

LEMMA HeadStep ==
  ASSUME LoadInv, LoadHead
  PROVE  LoadInv'
<1>1. PICK w \in Readable, e \in {0, 1} :
        /\ StreamGet(w, e)
        /\ LET h == [job.hdr EXCEPT ![Field[job.n + 1]] = w]
               read == [job EXCEPT !.n = @ + 1, !.rc = IF e = 1 THEN 1 ELSE @, !.hdr = h]
           IN \/ job.n < 3 /\ Goto("load_head") /\ job' = read /\ UNCHANGED g_exe_base
              \/ job.n = 3 /\ h.signature # SIGNATURE /\ LoadFails /\ g_exe_base' = h.base_addr
              \/ /\ job.n = 3 /\ h.signature = SIGNATURE
                 /\ Goto("load_data") /\ job' = read /\ g_exe_base' = h.base_addr
        /\ misplaced' = (misplaced \/ (job.dev = "uart" /\ job.n = 1 /\ w # StreamWord))
  BY DEF LoadHead
<1> DEFINE h == [job.hdr EXCEPT ![Field[job.n + 1]] = w]
           rc == IF e = 1 THEN 1 ELSE job.rc
           read == [job EXCEPT !.n = @ + 1, !.rc = rc, !.hdr = h]
           n == job.n
<1>2. /\ pc = "load_head" /\ n \in 0..3 /\ g_exe_size = 0 /\ g_flash_addr \in Nat
      /\ job \in JobType /\ job.hdr \in Headers /\ job.rc \in {0, 1} /\ job.dev \in Device
  BY DEF LoadHead, LoadInv, LoadSide, Types, JobType
<1>3. /\ w \in Word /\ faults' \in Nat /\ faults <= faults' /\ faults \in Nat
      /\ e = 0 =>
           \/ w = Offered(n)
           \/ job.dev = "uart" /\ faults' = faults + 1 /\ w = Mangled(Offered(n))
      /\ Offered(n) \in Word /\ StreamWord = Offered(n)
  BY <1>1, <1>2, Arrives, Reading DEF LoadInv, Types
<1>4. /\ h \in Headers /\ h[Field[n + 1]] = w
      /\ \A j \in 0..3 : j # n => h[Field[j + 1]] = job.hdr[Field[j + 1]]
  <2>1. h = WithField(job.hdr, n, w) /\ n \in 0..3 /\ job.hdr \in Headers
    BY <1>2 DEF WithField
  <2> HIDE DEF h, n
  <2> QED BY <1>3, <2>1, HeaderWord
<1>5. /\ read \in JobType /\ read.n = n + 1 /\ read.rc = rc /\ read.hdr = h /\ read.dev = job.dev
      /\ rc \in {0, 1} /\ (rc = 0 => e = 0 /\ job.rc = 0)
  <2>1. rc \in {0, 1} /\ (rc = 0 => e = 0 /\ job.rc = 0) /\ h \in Headers /\ n + 1 \in Nat
    BY <1>2, <1>4
  <2>2. read = [job EXCEPT !.n = n + 1, !.rc = rc, !.hdr = h]
    OBVIOUS
  <2> HIDE DEF h, rc, n, read
  <2> QED BY <1>2, <2>1, <2>2 DEF JobType
<1>6. \/ n < 3 /\ pc' = "load_head" /\ job' = read /\ UNCHANGED g_exe_base
      \/ n = 3 /\ h.signature # SIGNATURE /\ LoadFails /\ g_exe_base' = h.base_addr
      \/ n = 3 /\ h.signature = SIGNATURE /\ pc' = "load_data" /\ job' = read /\ g_exe_base' = h.base_addr
  BY <1>1 DEF Goto
<1>7. h.base_addr \in Word /\ h.size \in Nat
  <2> HIDE DEF h
  <2> QED BY <1>4, Sizes DEF Headers
<1>8. /\ UNCHANGED <<g_exe_size, ram, media, upload, reported>>
      /\ g_flash_addr' = IF job.dev \in Flash THEN g_flash_addr + 1 ELSE g_flash_addr
  BY DEF LoadHead, Advance
<1> HIDE DEF h, rc, read, n
<1>9. ASSUME pc' \in Places, job' \in JobType, UNCHANGED g_exe_base \/ g_exe_base' = h.base_addr
      PROVE  Types'
  BY <1>2, <1>3, <1>7, <1>8, <1>9 DEF LoadInv, Types
<1>14. e = 0 => \/ w = Offered(n)
                \/ job.dev = "uart" /\ w = Mangled(Offered(n)) /\ (n = 1 => misplaced')
  BY <1>1, <1>3 DEF n
<1>10. ASSUME NEW i \in 0..n, rc = 0
       PROVE  \/ h[Field[i + 1]] = Offered(i)
              \/ job.dev = "uart" /\ h[Field[i + 1]] = Mangled(Offered(i)) /\ (i = 1 => misplaced')
  <2>1. CASE i = n
    BY <1>4, <1>5, <1>10, <1>14, <2>1
  <2>2. CASE i # n
    <3>1. i \in 0..n - 1 /\ i \in 0..3
      BY <1>2, <2>2
    <3>2. Came(job.hdr[Field[i + 1]], i)
      BY <1>2, <1>5, <1>10, <3>1 DEF LoadInv, LoadSide, n
    <3>3. misplaced => misplaced'
      BY <1>1
    <3> QED BY <1>4, <2>2, <3>1, <3>2, <3>3 DEF Came
  <2> QED BY <2>1, <2>2
<1>11. CASE n < 3
  <2>1. pc' = "load_head" /\ job' = read /\ UNCHANGED g_exe_base
    BY <1>2, <1>6, <1>11
  <2>2. Types'
    BY <1>5, <1>9, <2>1 DEF Places
  <2>3. \A i : Offered(i)' = Offered(i)
    BY <1>5, <1>8, <2>1, OfferStays
  <2>4. ASSUME rc = 0, job'.rc = rc, job'.hdr = h, NEW i \in 0..n
        PROVE  Came(job.hdr[Field[i + 1]], i)'
    <3>1. job'.dev = job.dev
      BY <1>5, <2>1
    <3>2. \/ h[Field[i + 1]] = Offered(i)'
          \/ job'.dev = "uart" /\ h[Field[i + 1]] = Mangled(Offered(i)') /\ (i = 1 => misplaced')
      BY <1>10, <2>3, <2>4, <3>1
    <3> QED BY <2>4, <3>2 DEF Came
  <2>5. LoadSide'
    <3>1. job'.n = n + 1 /\ job'.rc = rc /\ job'.hdr = h /\ job'.dev = job.dev /\ 0..job'.n - 1 = 0..n
      BY <1>2, <1>5, <2>1
    <3>2. job'.rc = 0 => \A i \in 0..job'.n - 1 : Came(job.hdr[Field[i + 1]], i)'
      BY <2>4, <3>1
    <3>3. job'.n \in 0..3
      BY <1>2, <1>11, <3>1
    <3>4. job.dev = "uart" => upload' \in Images
      BY <1>2, <1>8 DEF LoadInv, LoadSide, Loads
    <3>5. job.dev \in Flash => g_flash_addr' = n + 1
      BY <1>2, <1>8 DEF LoadInv, LoadSide, n
    <3> QED BY <1>2, <1>8, <2>1, <3>1, <3>2, <3>3, <3>4, <3>5 DEF LoadSide
  <2> QED BY <1>2, <1>8, <2>1, <2>2, <2>5 DEF LoadInv, ExeFits, DataSide
<1>12. CASE n = 3 /\ h.signature # SIGNATURE
  <2>1. Resting({"load_setup", "console", "halted"})' /\ g_exe_base' = h.base_addr
    BY <1>2, <1>6, <1>12, LoadFailsRests
  <2>2. Types'
    BY <1>9, <2>1 DEF Resting, Places
  <2> QED BY <1>2, <1>8, <2>1, <2>2, Apart DEF LoadInv, Resting
<1>13. CASE n = 3 /\ h.signature = SIGNATURE
  <2>1. pc' = "load_data" /\ job' = read /\ g_exe_base' = h.base_addr
    BY <1>2, <1>6, <1>13
  <2>2. Types'
    BY <1>5, <1>9, <2>1 DEF Places
  <2>3. \A i : Offered(i)' = Offered(i)
    BY <1>5, <1>8, <2>1, OfferStays
  <2>4. job'.n = 4 /\ job'.rc = rc /\ job'.hdr = h /\ job'.dev = job.dev
    BY <1>5, <1>13, <2>1
  <2>5. LoadSide'
    <3>1. job.dev = "uart" => upload' \in Images
      BY <1>2, <1>8 DEF LoadInv, LoadSide, Loads
    <3>2. job.dev \in Flash => g_flash_addr' = 4
      BY <1>2, <1>8, <1>13 DEF LoadInv, LoadSide, n
    <3>3. job'.n - 4 \in 0..job'.hdr.size
      BY <1>7, <2>4
    <3>4. job'.dev = "uart" => job'.n <= Len(FileOf(upload))'
      <4>1. \A im \in Images : 4 <= Len(FileOf(im))
        <5> SUFFICES ASSUME NEW im \in Images PROVE 4 <= Len(FileOf(im))
          OBVIOUS
        <5> DEFINE l == Len(im.data)
        <5>1. l \in Nat /\ Len(FileOf(im)) = 4 + l
          BY FileParts
        <5> HIDE DEF l
        <5> QED BY <5>1
      <4> QED BY <2>4, <3>1, <4>1
    <3> QED BY <1>2, <1>8, <2>1, <2>4, <3>1, <3>2, <3>3, <3>4 DEF LoadSide
  <2>6. ASSUME rc = 0 PROVE \E mangled \in 0..faults' : Checked(mangled)'
    <3> DEFINE o == Offered(3)
    <3>1. e = 0 /\ o \in Word /\ o \in Nat
      BY <1>3, <1>5, <1>13, <2>6, Sizes
    <3>2. /\ Came(job.hdr.signature, 0)' /\ Came(job.hdr.base_addr, 1)' /\ Came(job.hdr.size, 2)'
          /\ h.checksum = w
      <4>1. ASSUME NEW i \in 0..2 PROVE Came(job.hdr[Field[i + 1]], i)'
        <5>1. \/ h[Field[i + 1]] = Offered(i)
              \/ job.dev = "uart" /\ h[Field[i + 1]] = Mangled(Offered(i)) /\ (i = 1 => misplaced')
          BY <1>10, <1>13, <2>6
        <5> QED BY <2>3, <2>4, <5>1 DEF Came
      <4>2. Came(job.hdr[Field[0 + 1]], 0)' /\ Came(job.hdr[Field[1 + 1]], 1)' /\ Came(job.hdr[Field[2 + 1]], 2)'
        BY <4>1
      <4> QED BY <1>4, <1>13, <4>2, Fields
    <3>3. Sum(Data(0)', 0) = 0
      BY SumDef
    <3> HIDE DEF o
    <3>4. (o + 0) % WORD_MOD = o
      BY <3>1, Sizes
    <3>5. job'.n - 4 = 0 /\ 1..(job'.n - 4) = {}
      BY <2>4
    <3>6. ASSUME NEW mangled \in 0..1, w = (o + mangled) % WORD_MOD, job.dev # "uart" => mangled = 0
          PROVE  Checked(mangled)'
      <4>1. (o + Sum(Data(0)', 0) + mangled) % WORD_MOD = w
        BY <3>1, <3>3, <3>6
      <4> QED BY <1>13, <2>3, <2>4, <3>2, <3>5, <3>6, <4>1 DEF Checked, o
    <3>7. CASE w = o
      BY <1>3, <3>4, <3>6, <3>7
    <3>8. CASE w # o
      <4>1. job.dev = "uart" /\ faults' = faults + 1 /\ w = (o + 1) % WORD_MOD
        BY <1>3, <1>13, <3>1, <3>8 DEF o, Mangled
      <4>2. 1 \in 0..faults'
        BY <1>3, <4>1
      <4> QED BY <3>6, <4>1, <4>2
    <3> QED BY <3>7, <3>8
  <2>7. DataSide'
    BY <2>4, <2>6 DEF DataSide
  <2> QED BY <1>2, <1>8, <2>2, <2>5, <2>7 DEF LoadInv, ExeFits
<1> QED BY <1>2, <1>11, <1>12, <1>13 DEF n

\* The checksum of one word more, which may be mangled.
Total(o, sum, m)  == (o + sum + m) % WORD_MOD
Faulty(x, more)   == (x + more) % WORD_MOD

LEMMA ChecksumGrows ==
  ASSUME NEW o \in Nat, NEW sum \in Nat, NEW x \in Nat, NEW m \in Nat, NEW more \in Nat
  PROVE  Accumulate(Total(o, sum, m), Faulty(x, more)) = Total(o, Accumulate(sum, x), m + more)
<1> DEFINE a == o + sum + m
           b == x + more
           mo == WORD_MOD
<1>1. a \in Nat /\ b \in Nat /\ mo \in Nat \ {0}
  BY Sizes
<1>2. Accumulate(a % WORD_MOD, Faulty(x, more)) = (a + b) % WORD_MOD
  <2> HIDE DEF a, b
  <2>1. b % WORD_MOD \in Nat
    BY <1>1
  <2>2. ((a % WORD_MOD) + (b % WORD_MOD)) % WORD_MOD = (a + (b % WORD_MOD)) % WORD_MOD
    BY <1>1, <2>1, ModAdd
  <2>3. (a + (b % WORD_MOD)) % WORD_MOD = (a + b) % WORD_MOD
    BY <1>1, ModAdd
  <2> QED BY <2>2, <2>3 DEF Accumulate, Faulty, b
<1> DEFINE c == sum + x
           d == o + (m + more)
<1>3. c \in Nat /\ d \in Nat /\ a + b = d + c
  OBVIOUS
<1>4. (d + (c % WORD_MOD)) % WORD_MOD = (d + c) % WORD_MOD
  <2> HIDE DEF c, d
  <2> QED BY <1>3, ModAdd
<1>5. o + Accumulate(sum, x) + (m + more) = d + (c % WORD_MOD)
  <2> DEFINE r == c % WORD_MOD
  <2>1. r \in Nat
    <3> HIDE DEF c
    <3> QED BY <1>1, <1>3
  <2>2. Accumulate(sum, x) = r
    BY DEF Accumulate
  <2> HIDE DEF r
  <2> QED BY <2>1, <2>2 DEF r
<1> QED BY <1>2, <1>3, <1>4, <1>5 DEF Total

LEMMA DataStep ==
  ASSUME LoadInv, LoadData
  PROVE  LoadInv'
<1> DEFINE n == job.n - 4
           a == job.hdr.base_addr + n
           size == job.hdr.size
<1>1. PICK w \in Readable, e \in {0, 1} :
        /\ StreamGet(w, e)
        /\ \/ /\ a < RAM_WORDS /\ ram' = [ram EXCEPT ![a] = w] /\ UNCHANGED pc
              /\ job' = [job EXCEPT !.n = @ + 1, !.rc = e, !.hdr.checksum = Accumulate(@, w)]
           \/ ~(a < RAM_WORDS) /\ pc' = "halted" /\ job' = Idle /\ UNCHANGED ram
  BY DEF LoadData, Goto
<1>2. /\ pc = "load_data" /\ Loading /\ WordComes /\ job.rc = 0 /\ g_exe_size = 0 /\ g_flash_addr \in Nat
      /\ job \in JobType /\ job.n \in Nat /\ job.hdr \in Headers /\ job.dev \in Device
      /\ g_exe_base = job.hdr.base_addr /\ ram \in [0..RAM_WORDS - 1 -> Word]
  BY DEF LoadData, Loading, LoadInv, LoadSide, Types, JobType
<1>3. /\ w \in Word /\ faults' \in Nat /\ faults <= faults' /\ faults \in Nat
      /\ e = 0 =>
           \/ w = Offered(job.n)
           \/ job.dev = "uart" /\ faults' = faults + 1 /\ w = Mangled(Offered(job.n))
      /\ Offered(job.n) \in Word
      /\ n \in 0..size - 1
  BY <1>1, <1>2, Arrives, Reading DEF LoadInv, Types
<1>4. /\ UNCHANGED <<g_exe_base, g_exe_size, media, upload, reported>>
      /\ g_flash_addr' = IF job.dev \in Flash THEN g_flash_addr + 1 ELSE g_flash_addr
  BY DEF LoadData, Advance, hist
<1>5. job.hdr.base_addr \in Nat /\ size \in Nat /\ job.hdr.checksum \in Word /\ job.hdr.checksum \in Nat /\ w \in Nat
  BY <1>2, <1>3, Sizes DEF Headers
<1>6. ASSUME pc' \in Places, job' \in JobType, ram' \in [0..RAM_WORDS - 1 -> Word]
      PROVE  Types'
  BY <1>2, <1>3, <1>4, <1>6 DEF LoadInv, Types
<1>7. CASE ~(a < RAM_WORDS)
  <2>1. pc' = "halted" /\ job' = Idle /\ UNCHANGED ram
    BY <1>1, <1>7
  <2>2. Types'
    BY <1>2, <1>6, <2>1, IdleFacts DEF Places
  <2> QED BY <1>2, <1>4, <2>1, <2>2, Apart DEF LoadInv
<1>8. CASE a < RAM_WORDS
  <2> DEFINE c == Accumulate(job.hdr.checksum, w)
  <2>1. /\ ram' = [ram EXCEPT ![a] = w] /\ pc' = "load_data"
        /\ job' = [job EXCEPT !.n = @ + 1, !.rc = e, !.hdr.checksum = c]
    BY <1>1, <1>2, <1>8
  <2>2. c \in Word
    BY <1>5, AccumulateWord
  <2> HIDE DEF c
  <2>3. /\ job' \in JobType /\ job'.n = job.n + 1 /\ job'.rc = e /\ job'.dev = job.dev
        /\ job'.hdr.signature = job.hdr.signature /\ job'.hdr.base_addr = job.hdr.base_addr
        /\ job'.hdr.size = size /\ job'.hdr.checksum = c
    <3> DEFINE h == [job.hdr EXCEPT !.checksum = c]
    <3>1. h \in Headers /\ h.signature = job.hdr.signature /\ h.base_addr = job.hdr.base_addr /\ h.size = size /\ h.checksum = c
      BY <1>2, <2>2 DEF Headers
    <3>2. job' = [job EXCEPT !.n = job.n + 1, !.rc = e, !.hdr = h]
      BY <1>2, <2>1 DEF JobType
    <3> HIDE DEF h, n, a
    <3>3. job'.hdr = h /\ job'.n = job.n + 1 /\ job'.rc = e /\ job'.dev = job.dev /\ job' \in JobType
      <4>1. job \in JobType /\ job.n + 1 \in Nat /\ h \in Headers
        BY <1>2, <3>1
      <4> QED BY <3>2, <4>1 DEF JobType
    <3> QED BY <3>1, <3>3
  <2>4. a \in 0..RAM_WORDS - 1
    BY <1>3, <1>5, <1>8, BootloaderAssumption
  <2>5. ram' \in [0..RAM_WORDS - 1 -> Word] /\ ram'[a] = w
        /\ \A k \in 1..n : ram'[job.hdr.base_addr + (k - 1)] = ram[job.hdr.base_addr + (k - 1)]
    <3>1. ram' \in [0..RAM_WORDS - 1 -> Word] /\ ram'[a] = w
      <4> HIDE DEF a
      <4> QED BY <1>2, <1>3, <2>1, <2>4
    <3>2. ASSUME NEW k \in 1..n PROVE ram'[job.hdr.base_addr + (k - 1)] = ram[job.hdr.base_addr + (k - 1)]
      <4> DEFINE b == job.hdr.base_addr + (k - 1)
      <4>1. b # a /\ b \in 0..RAM_WORDS - 1
        <5>1. job.hdr.base_addr \in Nat /\ n \in Nat /\ a = job.hdr.base_addr + n /\ RAM_WORDS \in Nat
          BY <1>3, <1>5, BootloaderAssumption
        <5> HIDE DEF n, a
        <5> QED BY <2>4, <5>1
      <4> HIDE DEF a, b
      <4>2. ram'[b] = ram[b]
        BY <1>2, <2>1, <4>1
      <4> QED BY <4>2 DEF b
    <3> QED BY <3>1, <3>2
  <2>6. Types'
    BY <1>6, <2>1, <2>3, <2>5 DEF Places
  <2>7. (\A i : Offered(i)' = Offered(i)) /\ \A i : Data(i)' = Data(i)
    BY <1>4, <2>3, OfferStays
  <2>8. job'.n - 4 = n + 1 /\ n + 1 \in 0..size /\ job.n = 4 + n /\ n \in Nat
    <3>1. job'.n = job.n + 1 /\ job.n \in Nat /\ job.n - 4 \in 0..size - 1 /\ size \in Nat
      BY <1>2, <1>3, <1>5, <2>3
    <3> HIDE DEF size
    <3> QED BY <3>1
  <2>9. LoadSide'
    <3>1. job.dev = "uart" => upload' \in Images
      BY <1>2, <1>4 DEF LoadInv, LoadSide, Loads
    <3>2. job.dev \in Flash => g_flash_addr' = job'.n
      BY <1>2, <1>4, <2>3 DEF LoadInv, LoadSide
    <3>3. job.hdr.base_addr + (n + 1) <= RAM_WORDS
      BY <1>5, <1>8, <2>8, BootloaderAssumption
    <3>4. job.dev = "uart" => job'.n <= Len(FileOf(upload))
      <4> SUFFICES ASSUME job.dev = "uart" PROVE job'.n <= Len(FileOf(upload))
        OBVIOUS
      <4> DEFINE l == Len(upload.data)
      <4>1. upload \in Images
        BY <1>2 DEF LoadInv, LoadSide, Loads
      <4>2. l \in Nat /\ Len(FileOf(upload)) = 4 + l
        BY <4>1, FileParts
      <4>3. job.n < 4 + l
        BY <1>2, <4>2 DEF WordComes
      <4> HIDE DEF l
      <4> QED BY <1>2, <2>3, <4>2, <4>3
    <3> QED BY <1>2, <1>4, <2>1, <2>3, <2>8, <3>1, <3>2, <3>3, <3>4 DEF LoadSide
  <2>10. ASSUME e = 0 PROVE \E mangled \in 0..faults' : Checked(mangled)'
    <3>1. PICK mangled \in 0..faults : Checked(mangled)
      BY <1>2 DEF LoadInv, DataSide
    <3> DEFINE x == Offered(job.n)
               o == Offered(3)
               sum == Sum(Data(n), n)
               sum2 == Sum(Data(n + 1), n + 1)
    <3>2. PICK more \in {0, 1} :
            /\ w = (x + more) % WORD_MOD /\ mangled + more \in 0..faults'
            /\ more = 1 => job.dev = "uart"
            /\ more = 0 => w = x
      <4>1. CASE w = x
        <5>1. w = (x + 0) % WORD_MOD /\ mangled + 0 \in 0..faults'
          BY <1>3, <4>1, Sizes
        <5> QED BY <4>1, <5>1
      <4>2. CASE w # x
        <5>1. job.dev = "uart" /\ faults' = faults + 1 /\ w = (x + 1) % WORD_MOD
          BY <1>3, <2>10, <4>2 DEF Mangled
        <5>2. mangled + 1 \in 0..faults'
          BY <1>3, <5>1
        <5> QED BY <5>1, <5>2
      <4> QED BY <4>1, <4>2
    <3>3. \A k \in 1..n + 1 : Offered(3 + k) \in Nat
      <4> SUFFICES ASSUME NEW k \in 1..n + 1 PROVE Offered(3 + k) \in Word
        BY Sizes
      <4>1. CASE job.dev \in Flash
        <5> DEFINE q == (3 + k) % FLASH_WORDS
        <5>1. q \in 0..FLASH_WORDS - 1
          BY <1>2, <2>8, BootloaderAssumption
        <5>2. Offered(3 + k) = media[job.dev][q]
          BY <4>1 DEF Offered
        <5> HIDE DEF q
        <5>3. media[job.dev][q] \in Word
          BY <4>1, <5>1 DEF LoadInv, Types
        <5> QED BY <5>2, <5>3
      <4>2. CASE job.dev \notin Flash
        <5>1. File \in Images
          BY <1>2, <4>2, Reading
        <5> DEFINE l == Len(File.data)
        <5>2. l \in Nat /\ job.n < 4 + l
          BY <1>2, <4>2, <5>1, Reading, FileParts
        <5>3. k \in 1..l /\ (3 + k) + 1 = 4 + k
          <6>1. job.n = 4 + n /\ n \in Nat
            BY <2>8
          <6> HIDE DEF l, n
          <6> QED BY <5>2, <6>1
        <5>4. FileOf(File)[4 + k] \in Word
          BY <5>1, <5>3, FileParts
        <5> QED BY <4>2, <5>3, <5>4 DEF Offered
      <4> QED BY <4>1, <4>2
    <3>4. o \in Nat /\ x \in Nat /\ mangled \in Nat
      <4>1. o \in Nat
        <5>1. CASE job.dev \in Flash
          <6> DEFINE q == 3 % FLASH_WORDS
          <6>1. q \in 0..FLASH_WORDS - 1 /\ o = media[job.dev][q]
            BY <5>1, BootloaderAssumption DEF Offered
          <6> HIDE DEF q, o
          <6> QED BY <5>1, <6>1, Sizes DEF LoadInv, Types
        <5>2. CASE job.dev \notin Flash
          <6>1. FileOf(File)[3 + 1] \in Word
            BY <1>2, <5>2, Reading, FileParts
          <6> QED BY <5>2, <6>1, Sizes DEF Offered
        <5> QED BY <5>1, <5>2
      <4> QED BY <1>3, <4>1, Sizes
    <3>5. sum2 = Accumulate(sum, x) /\ sum \in Nat
      <4>1. \A k \in 1..n + 1 : Data(n + 1)[k] = Offered(3 + k)
        BY DEF Data
      <4>2. \A k \in 1..n : Data(n)[k] = Offered(3 + k) /\ Data(n + 1)[k] = Offered(3 + k) /\ Data(n)[k] \in Nat
        BY <2>8, <3>3 DEF Data
      <4>3. Sum(Data(n), n) = Sum(Data(n + 1), n) /\ sum \in Word
        BY <2>8, <4>2, SumSame
      <4>4. sum2 = Accumulate(Sum(Data(n + 1), n), Data(n + 1)[n + 1])
        BY <2>8, SumDef
      <4>5. n + 1 \in 1..n + 1 /\ 3 + (n + 1) = job.n
        BY <2>8
      <4> QED BY <4>1, <4>3, <4>4, <4>5, Sizes
    <3>6. job.hdr.checksum = (o + sum + mangled) % WORD_MOD
      BY <3>1 DEF Checked
    <3>7. c = (o + sum2 + (mangled + more)) % WORD_MOD
      <4>1. c = Accumulate(Total(o, sum, mangled), Faulty(x, more))
        BY <3>2, <3>6 DEF c, Total, Faulty
      <4> HIDE DEF o, sum, sum2, x
      <4>2. Accumulate(Total(o, sum, mangled), Faulty(x, more)) = Total(o, Accumulate(sum, x), mangled + more)
        <5>1. o \in Nat /\ sum \in Nat /\ x \in Nat /\ mangled \in Nat /\ more \in Nat
          BY <3>2, <3>4, <3>5
        <5> QED BY <5>1, ChecksumGrows
      <4> QED BY <3>5, <4>1, <4>2 DEF Total
    <3>8. ASSUME mangled + more = 0, NEW k \in 1..n + 1
          PROVE  ram'[job.hdr.base_addr + (k - 1)] = Offered(3 + k)
      <4>1. mangled = 0 /\ more = 0
        BY <3>4, <3>8
      <4>2. CASE k = n + 1
        <5>1. job.hdr.base_addr + (k - 1) = a /\ 3 + k = job.n
          BY <1>5, <2>8, <4>2
        <5> QED BY <2>5, <3>2, <4>1, <5>1
      <4>3. CASE k # n + 1
        <5>1. k \in 1..n
          BY <2>8, <4>3
        <5> QED BY <2>5, <3>1, <4>1, <5>1 DEF Checked
      <4> QED BY <4>2, <4>3
    <3>10. PICK i \in Nat : i = n + 1
      BY <2>8
    <3>11. PICK both \in Nat : both = mangled + more
      BY <3>2
    <3>9. Checked(both)'
      <4>1. job'.hdr.checksum = (Offered(3)' + Sum(Data(i)', i) + (mangled + more)) % WORD_MOD
        <5>1. Data(i)' = Data(i) /\ Offered(3)' = o
          BY <2>7
        <5>2. Sum(Data(i)', i) = sum2
          BY <3>10, <5>1
        <5> QED BY <2>3, <3>7, <5>1, <5>2
      <4>2. job.dev # "uart" => mangled + more = 0
        BY <3>1, <3>2 DEF Checked
      <4>3. mangled + more = 0 =>
              \A k \in 1..job'.n - 4 : ram'[job'.hdr.base_addr + (k - 1)] = Offered(3 + k)'
        BY <2>3, <2>7, <2>8, <3>8
      <4>4. /\ Came(job.hdr.signature, 0)' /\ Came(job.hdr.base_addr, 1)' /\ Came(job.hdr.size, 2)'
            /\ job'.hdr.signature = SIGNATURE
        <5>1. UNCHANGED misplaced
          BY DEF LoadData, hist
        <5> QED BY <2>3, <2>7, <3>1, <5>1 DEF Checked, Came
      <4>5. job'.n - 4 = i
        BY <2>8, <3>10
      <4> QED BY <2>3, <3>11, <4>1, <4>2, <4>3, <4>4, <4>5 DEF Checked
    <3> QED BY <3>2, <3>9, <3>11
  <2>11. DataSide'
    BY <2>3, <2>10 DEF DataSide
  <2> QED BY <1>2, <1>4, <2>6, <2>9, <2>11 DEF LoadInv, ExeFits
<1> QED BY <1>7, <1>8

LEMMA CheckStep ==
  ASSUME LoadInv, LoadCheck
  PROVE  LoadInv'
<1>1. /\ pc = "load_data" /\ g_exe_size = 0 /\ job \in JobType /\ job.hdr.size \in Word /\ job.n \in Nat
      /\ g_exe_base = job.hdr.base_addr /\ job.n - 4 \in 0..job.hdr.size
  BY DEF LoadCheck, LoadInv, LoadSide, Types, JobType, Headers
<1>2. UNCHANGED <<g_exe_base, g_flash_addr, ram, media, upload, faults, reported>>
  BY DEF LoadCheck, hist, counts
<1>3. ASSUME pc' \in Places, job' \in JobType, g_exe_size' \in Word
      PROVE  Types'
  BY <1>2, <1>3 DEF LoadInv, Types
<1>4. CASE LoadFails /\ UNCHANGED g_exe_size
  <2>1. Resting({"load_setup", "console", "halted"})'
    BY <1>1, <1>4, LoadFailsRests
  <2>2. Types'
    BY <1>1, <1>3, <1>4, <2>1, Sizes DEF Resting, Places
  <2> QED BY <1>1, <1>2, <1>4, <2>1, <2>2, Apart DEF LoadInv, Resting
<1>5. CASE job.rc # 1 /\ g_exe_size' = job.hdr.size /\ pc' \in {"boot", "console"} /\ job' \in JobType
  <2>1. Types'
    BY <1>1, <1>3, <1>5 DEF Places
  <2>2. ExeFits'
    <3>1. job.rc = 0
      BY <1>1, <1>5 DEF JobType
    <3>2. ~(job.n - 4 < job.hdr.size)
      BY <3>1 DEF LoadCheck, Loading
    <3>3. job.hdr.size \in Nat
      BY <1>1, Sizes
    <3>4. job.n - 4 = job.hdr.size
      BY <1>1, <3>2, <3>3
    <3>5. job.n > 4 => job.hdr.base_addr + (job.n - 4) <= RAM_WORDS
      BY <1>1 DEF LoadInv, LoadSide
    <3>6. job.hdr.size # 0 => job.n > 4
      BY <1>1, <3>3, <3>4
    <3> QED BY <1>1, <1>2, <1>5, <3>4, <3>5, <3>6 DEF ExeFits
  <2>3. LoadSide' /\ DataSide'
    BY <1>5 DEF LoadSide, DataSide, Loads
  <2> QED BY <2>1, <2>2, <2>3 DEF LoadInv
<1>6. \/ LoadFails /\ UNCHANGED g_exe_size
      \/ job.rc # 1 /\ g_exe_size' = job.hdr.size /\ pc' \in {"boot", "console"} /\ job' \in JobType
  BY <1>1, IdleFacts DEF LoadCheck, Goto, Console
<1> QED BY <1>4, <1>5, <1>6

\* The other steps, except for those of a store.
Simple ==
  \/ Timeout \/ KeyPress \/ LoadSetup \/ Boot \/ BootAnswer
  \/ CmdUpload \/ CmdLoad \/ CmdStore \/ CmdExecute \/ CmdRestart \/ Reset

Begins(places) ==
  /\ pc' \in places /\ job' \in JobType
  /\ pc' \in {"load_setup", "store_setup"} => job'.n = 0 /\ job'.rc = 0
  /\ pc' = "load_setup" /\ job'.dev = "uart" => upload' \in Images

LEMMA SimpleMoves ==
  ASSUME Types, LoadSide, Simple
  PROVE  /\ Begins(Places \ {"load_data", "store_ask", "store_erase", "store_data", "store_head"})
         /\ pc' = "load_head" => LoadSetup /\ g_exe_size' = 0 /\ UNCHANGED job
         /\ pc' = "store_setup" => CmdStore /\ job'.dev \in Flash /\ g_exe_size # 0
         /\ UNCHANGED <<ram, media, reported>> /\ upload' \in Images \cup {NoImage} /\ faults' \in Nat
         /\ g_flash_addr' \in Nat
         /\ g_exe_size' = 0 \/ UNCHANGED g_exe_size
         /\ UNCHANGED g_exe_base \/ (g_exe_base' = 0 /\ g_exe_size' = 0)
<1>1. job \in JobType /\ upload \in Images \cup {NoImage} /\ faults \in Nat /\ g_flash_addr \in Nat
  BY DEF Types
<1> DEFINE P == Places \ {"load_data", "store_ask", "store_erase", "store_data", "store_head"}
<1>2. CASE Timeout
  BY <1>1, <1>2, JobFacts DEF Timeout, BeginLoad, Goto, Begins, Places, globals, counts, hist, Device, Flash
<1>3. CASE KeyPress
  BY <1>1, <1>3, IdleFacts DEF KeyPress, Console, Goto, Begins, Places, globals, counts
<1>4. CASE LoadSetup
  <2>1. CASE SetupFails /\ LoadFails /\ UNCHANGED g_flash_addr
    BY <1>1, <1>4, <2>1, LoadFailsRests DEF LoadSetup, SetupFails, Resting, Begins, Places, hist
  <2>2. CASE pc' = "load_head" /\ UNCHANGED <<job, faults>>
    BY <1>1, <1>4, <2>2 DEF LoadSetup, Goto, Begins, Places, hist
  <2> QED BY <1>4, <2>1, <2>2 DEF LoadSetup, Goto
<1>5. CASE Boot
  BY <1>1, <1>5 DEF Boot, Goto, Begins, Places, globals, counts, hist
<1>6. CASE BootAnswer
  <2>1. CASE NextSource
    BY <1>1, <1>6, <2>1, NextSourceRests DEF BootAnswer, Resting, Begins, Places, globals, counts
  <2>2. CASE pc' = "booted" /\ UNCHANGED job
    BY <1>1, <1>6, <2>2 DEF BootAnswer, Begins, Places, globals, counts
  <2> QED BY <1>6, <2>1, <2>2 DEF BootAnswer, Goto
<1>7. CASE CmdUpload
  BY <1>1, <1>7, JobFacts DEF CmdUpload, BeginLoad, Goto, Begins, Places, globals, hist, Device
<1>8. CASE CmdLoad
  <2>1. PICK dev \in Device \ {"uart"} : pc' = "load_setup" /\ job' = Job(dev, FALSE)
    BY <1>8 DEF CmdLoad, BeginLoad, Goto
  <2>2. job' \in JobType /\ job'.n = 0 /\ job'.rc = 0 /\ job'.dev # "uart"
    BY <2>1, JobFacts
  <2> QED BY <1>1, <1>8, <2>1, <2>2 DEF CmdLoad, Begins, Places, globals, counts, hist
<1>9. CASE CmdStore
  BY <1>1, <1>9, JobFacts DEF CmdStore, Goto, Begins, Places, globals, hist, Device
<1>10. CASE CmdExecute
  BY <1>1, <1>10 DEF CmdExecute, Goto, Begins, Places, globals, counts, hist
<1>11. CASE CmdRestart \/ Reset
  BY <1>1, <1>11, IdleFacts DEF CmdRestart, Reset, Startup, Goto, Begins, Places
<1> QED BY <1>2, <1>3, <1>4, <1>5, <1>6, <1>7, <1>8, <1>9, <1>10, <1>11 DEF Simple

LEMMA SimpleStep ==
  ASSUME LoadInv, Simple
  PROVE  LoadInv'
<1>1. /\ Begins(Places \ {"load_data", "store_ask", "store_erase", "store_data", "store_head"})
      /\ pc' = "load_head" => LoadSetup /\ g_exe_size' = 0 /\ UNCHANGED job
      /\ UNCHANGED <<ram, media, reported>> /\ upload' \in Images \cup {NoImage} /\ faults' \in Nat
      /\ g_flash_addr' \in Nat
      /\ g_exe_size' = 0 \/ UNCHANGED g_exe_size
      /\ UNCHANGED g_exe_base \/ (g_exe_base' = 0 /\ g_exe_size' = 0)
  BY SimpleMoves DEF LoadInv
<1>2. Types'
  BY <1>1, Sizes DEF Begins, LoadInv, Types
<1>3. CASE pc' = "load_head"
  <2>1. LoadSetup /\ g_exe_size' = 0 /\ UNCHANGED job /\ pc = "load_setup" /\ job.n = 0
    BY <1>1, <1>3 DEF LoadSetup, LoadInv, LoadSide
  <2>2. UNCHANGED upload /\ (job.dev \in Flash => g_flash_addr' = 0)
    <3>1. \/ LoadFails
          \/ g_flash_addr' = IF job.dev \in Flash THEN 0 ELSE g_flash_addr
      BY <2>1 DEF LoadSetup
    <3>2. ~LoadFails
      BY <1>3, LoadFailsRests DEF Resting, LoadInv, Types
    <3> QED BY <2>1, <3>1, <3>2 DEF LoadSetup
  <2>3. LoadSide'
    <3>1. 0..0 - 1 = {}
      OBVIOUS
    <3>2. job.dev = "uart" => upload' \in Images
      BY <2>1, <2>2 DEF LoadInv, LoadSide, Loads
    <3> QED BY <1>3, <2>1, <2>2, <3>1, <3>2 DEF LoadSide
  <2> QED BY <1>2, <1>3, <2>1, <2>3 DEF LoadInv, ExeFits, DataSide
<1>4. CASE pc' # "load_head"
  BY <1>1, <1>2, <1>4, Apart DEF Begins, LoadInv
<1> QED BY <1>3, <1>4

-----------------------------------------------------------------------------
(* Writing. *)

\* The executable in memory.
LEMMA ExeData ==
  ASSUME Types, ExeFits, g_exe_size # 0
  PROVE  /\ ExeInRam.base = g_exe_base /\ Len(ExeInRam.data) = g_exe_size
         /\ \A k \in 1..g_exe_size : /\ ExeInRam.data[k] = ram[g_exe_base + (k - 1)]
                                      /\ ExeInRam.data[k] \in Word
         /\ \A n \in 0..g_exe_size : Sum(ExeInRam.data, n) \in Word
         /\ g_exe_size \in Nat /\ g_exe_base \in Nat /\ g_exe_base + g_exe_size <= RAM_WORDS
         /\ ExeInRam = [base |-> g_exe_base, data |-> ExeInRam.data]
         /\ ExeInRam.data = [k \in 1..g_exe_size |-> ExeInRam.data[k]]
<1> DEFINE s == g_exe_size
           f == [k \in 1..s |-> ram[g_exe_base + k - 1]]
<1>1. s \in Nat /\ g_exe_base \in Nat /\ g_exe_base + s <= RAM_WORDS /\ RAM_WORDS \in Nat
  BY Sizes, BootloaderAssumption DEF Types, ExeFits
<1>2. ExeInRam.base = g_exe_base /\ ExeInRam.data = f /\ ExeInRam = [base |-> g_exe_base, data |-> f]
  BY DEF ExeInRam
<1>3. ASSUME NEW k \in 1..s PROVE f[k] = ram[g_exe_base + (k - 1)] /\ f[k] \in Word
  <2> DEFINE a == g_exe_base + (k - 1)
  <2>1. a \in 0..RAM_WORDS - 1 /\ f[k] = ram[a]
    <3>1. g_exe_base + k - 1 = a
      BY <1>1
    <3>2. a \in 0..RAM_WORDS - 1
      <4> HIDE DEF s, f
      <4> QED BY <1>1
    <3> QED BY <3>1, <3>2
  <2> HIDE DEF a, f
  <2>2. ram[a] \in Word
    BY <2>1 DEF Types
  <2> QED BY <2>1, <2>2 DEF a
<1>4. f = [k \in 1..s |-> f[k]]
  OBVIOUS
<1> HIDE DEF f
<1>5. Len(f) = s
  <2>1. f \in Seq(Word) /\ DOMAIN f = 1..s
    BY <1>1, <1>3, <1>4, IsASeq
  <2> DEFINE l == Len(f)
  <2>2. l \in Nat /\ 1..l = 1..s
    BY <2>1, LenProperties
  <2> HIDE DEF l, s
  <2>3. (l \in 1..l <=> l \in 1..s) /\ (s \in 1..s <=> s \in 1..l)
    BY <2>2
  <2>4. l = s
    BY <1>1, <2>2, <2>3
  <2> QED BY <2>4 DEF l
<1>6. \A n \in 0..s : Sum(f, n) \in Word
  <2> SUFFICES ASSUME NEW n \in 0..s PROVE Sum(f, n) \in Word
    OBVIOUS
  <2>1. n \in Nat /\ \A k \in 1..n : f[k] \in Nat
    BY <1>1, <1>3, Sizes
  <2> QED BY <2>1, SumSame
<1> QED BY <1>1, <1>2, <1>3, <1>4, <1>5, <1>6

LEMMA ExeStays ==
  ASSUME UNCHANGED <<g_exe_base, g_exe_size, ram>>
  PROVE  /\ ExeInRam' = ExeInRam /\ num_sectors' = num_sectors
         /\ \A sum : Header(sum)' = Header(sum)
         /\ \A a : InErased(a)' = InErased(a)
  BY DEF ExeInRam, num_sectors, Header, InErased

\* What was stored is what would be loaded.
LEMMA HeldExe ==
  ASSUME Types, ExeFits, g_exe_size # 0, FlashLarge,
         NEW content \in [0..FLASH_WORDS - 1 -> Word],
         content[0] = SIGNATURE, content[1] = g_exe_base, content[2] = g_exe_size,
         content[3] = Complement(Sum(ExeInRam.data, g_exe_size)),
         \A k \in 1..g_exe_size : content[3 + k] = ExeInRam.data[k]
  PROVE  Held(content) = ExeInRam
<1> DEFINE size == content[2]
           data == [k \in 1..size |-> content[(BIN_OFFSET_DATA + k - 1) % FLASH_WORDS]]
<1>1. ASSUME NEW k \in 1..g_exe_size
      PROVE  (BIN_OFFSET_DATA + k - 1) % FLASH_WORDS = 3 + k
  <2>1. BIN_OFFSET_DATA + k - 1 = 3 + k /\ 3 + k \in 0..FLASH_WORDS - 1 /\ FLASH_WORDS \in Nat \ {0}
    BY ExeData, BootloaderAssumption DEF FlashLarge, BIN_OFFSET_DATA
  <2> QED BY <2>1
<1>2. size = g_exe_size /\ data = [k \in 1..g_exe_size |-> ExeInRam.data[k]]
  BY <1>1
<1>3. data = ExeInRam.data
  BY <1>2, ExeData
<1>4. Sum(ExeInRam.data, g_exe_size) = Complement(content[3])
  <2>1. g_exe_size \in 0..g_exe_size
    BY ExeData
  <2> QED BY <2>1, ExeData, ComplementWord
<1>5. size > 0 /\ content[1] + size <= RAM_WORDS
  BY <1>2, ExeData
<1>6. Held(content) = [base |-> content[1], data |-> data]
  BY <1>2, <1>3, <1>4, <1>5 DEF Held
<1> QED BY <1>3, <1>6, ExeData

\* One word is written, and nothing else changes on any flash.
Puts(w, e) ==
  LET a == g_flash_addr % FLASH_WORDS IN
  /\ media' \in [Flash -> [0..FLASH_WORDS - 1 -> Word]]
  /\ faults' \in Nat /\ faults <= faults' /\ g_flash_addr' = g_flash_addr + 1
  /\ \A d \in Flash : d # job.dev => media'[d] = media[d]
  /\ \A b \in 0..FLASH_WORDS - 1 : b # a => media'[job.dev][b] = media[job.dev][b]
  /\ e = 0 /\ Blank(a) => media'[job.dev][a] = w
  /\ e = 1 => job.dev = "twi"

LEMMA StreamPuts ==
  ASSUME Types, job.dev \in Flash, NEW w \in Word, NEW e, StreamPut(w, e)
  PROVE  Puts(w, e)
<1> DEFINE d == job.dev
           a == g_flash_addr % FLASH_WORDS
           old == media[d][a]
           A == 0..FLASH_WORDS - 1
<1>1. a \in A /\ g_flash_addr \in Nat
  BY BootloaderAssumption DEF Types
<1>2. d \in Flash /\ media \in [Flash -> [A -> Word]] /\ faults \in Nat
  BY DEF Types
<1> HIDE DEF a, A
<1>3. old \in Word
  BY <1>1, <1>2
<1>4. PICK v \in Word :
        /\ media' = [media EXCEPT ![d][a] = v] /\ faults' \in Nat /\ faults <= faults'
        /\ e = 0 => v = Written(d, old, w)
        /\ e = 1 => d = "twi"
  <2>1. \/ e = 0 /\ UNCHANGED faults /\ media' = [media EXCEPT ![d][a] = Written(d, old, w)]
        \/ /\ e = 1 /\ d = "twi" /\ faults' = faults + 1
           /\ \E v \in Mixes(old, w) : media' = [media EXCEPT !["twi"][a] = v]
    BY DEF StreamPut, Put, Old, a
  <2>2. Written(d, old, w) \in Word /\ Mixes(old, w) \subseteq Word
    BY <1>3, WrittenWord, Mixed
  <2> HIDE DEF old, d
  <2> QED BY <1>2, <2>1, <2>2
<1>5. g_flash_addr' = g_flash_addr + 1
  BY DEF StreamPut, Advance
<1> DEFINE f == media[d]
           g == [f EXCEPT ![a] = v]
<1>6. media' = [media EXCEPT ![d] = g]
  BY <1>4
<1>7. f \in [A -> Word] /\ g \in [A -> Word] /\ g[a] = v /\ \A b \in A : b # a => g[b] = f[b]
  BY <1>1, <1>2, <1>4
<1>8. /\ media' \in [Flash -> [A -> Word]] /\ media'[d] = g
      /\ \A c \in Flash : c # d => media'[c] = media[c]
  <2> HIDE DEF g, f
  <2> QED BY <1>2, <1>6, <1>7
<1>9. e = 0 /\ Blank(a) => v = w
  BY <1>3, <1>4, ErasedTakes DEF Blank
<1> HIDE DEF g
<1> QED BY <1>4, <1>5, <1>7, <1>8, <1>9 DEF Puts, a, A

\* Nothing of a load is disturbed by a step of a store.
LEMMA StoreKeepsLoad ==
  ASSUME LoadInv, Types', UNCHANGED <<g_exe_base, g_exe_size>>,
         pc' \in Stores \cup {"console", "countdown"}
  PROVE  LoadInv'
  BY Apart DEF LoadInv, Stores

LEMMA HeaderWords ==
  ASSUME Types, NEW sum \in Word
  PROVE  /\ Header(sum) \in Headers
         /\ Header(sum)[Field[1]] = SIGNATURE /\ Header(sum)[Field[2]] = g_exe_base
         /\ Header(sum)[Field[3]] = g_exe_size /\ Header(sum)[Field[4]] = sum
  BY Sizes, Fields DEF Header, Headers, Types

LEMMA Sectors ==
  ASSUME Types
  PROVE  num_sectors \in Nat \ {0} /\ SECTOR_SIZE \in Nat \ {0} /\ g_exe_size \in Nat
<1>1. SECTOR_SIZE \in Nat \ {0} /\ g_exe_size \in Nat
  BY Sizes, BootloaderAssumption DEF Types
<1>2. g_exe_size \div SECTOR_SIZE \in Nat
  BY <1>1
<1> QED BY <1>1, <1>2 DEF num_sectors

LEMMA SetupJob ==
  ASSUME JobInv, StoreSetup \/ StoreAnswer
  PROVE  JobInv'
<1>1. /\ UNCHANGED <<g_exe_base, g_exe_size, ram, media, upload, reported>>
      /\ faults' \in Nat /\ g_flash_addr' \in Nat /\ job \in JobType
      /\ job.dev \in Flash /\ g_exe_size # 0 /\ job.n = 0 /\ job.rc = 0
  BY DEF StoreSetup, StoreAnswer, SetupFails, hist, globals, counts, JobInv, LoadInv, Types, StoreSide, Stores
<1>2. \A sum : Header(sum)' = Header(sum)
  BY <1>1, ExeStays
<1>3. \/ pc' = "console" /\ job' = Idle
      \/ pc' = "store_ask" /\ job' = [job EXCEPT !.hdr = Header(0)]
      \/ pc' = "store_erase" /\ UNCHANGED job /\ job.hdr = Header(0)
  BY DEF StoreSetup, StoreAnswer, Console, Goto, Header, JobInv, StoreSide
<1>4. Header(0) \in Headers
  BY HeaderWords, Sizes DEF JobInv, LoadInv
<1>5. /\ job' \in JobType /\ pc' \in {"console", "store_ask", "store_erase"}
      /\ pc' # "console" => job'.dev = job.dev /\ job'.n = 0 /\ job'.rc = 0 /\ job'.hdr = Header(0)
  BY <1>1, <1>3, <1>4, IdleFacts DEF JobType
<1>6. Types'
  BY <1>1, <1>5 DEF Types, JobInv, LoadInv, Places
<1>7. LoadInv'
  BY <1>1, <1>5, <1>6, StoreKeepsLoad DEF Stores, JobInv
<1>8. 0 \in 0..num_sectors'
  <2>1. num_sectors \in Nat
    BY Sectors DEF JobInv, LoadInv
  <2> QED BY <1>1, <2>1, ExeStays
<1> QED BY <1>1, <1>2, <1>5, <1>7, <1>8 DEF JobInv, StoreSide, Stores

LEMMA EraseJob ==
  ASSUME JobInv, StoreErase
  PROVE  JobInv'
<1>1. /\ UNCHANGED <<g_exe_base, g_exe_size, ram, upload, faults>> /\ pc = "store_erase"
      /\ job \in JobType /\ job.n \in Nat /\ g_flash_addr \in Nat
      /\ job.dev \in Flash /\ g_exe_size # 0 /\ job.rc = 0 /\ job.hdr = Header(0)
      /\ job.n \in 0..num_sectors
  BY DEF StoreErase, counts, JobInv, LoadInv, Types, JobType, StoreSide, Stores
<1>2. (\A sum : Header(sum)' = Header(sum)) /\ num_sectors' = num_sectors /\ ExeInRam' = ExeInRam
  BY <1>1, ExeStays
<1>3. DOMAIN reported' = Flash
  BY DEF StoreErase, JobInv, LoadInv, Types
<1>4. num_sectors \in Nat /\ SECTOR_SIZE \in Nat \ {0} /\ g_exe_size \in Nat
  BY Sectors DEF JobInv, LoadInv
<1>5. CASE job.dev = "spi" /\ job.n < num_sectors
  <2>1. /\ media' = [media EXCEPT !["spi"] = ErasedFlash(job.n)]
        /\ job' = [job EXCEPT !.n = @ + 1]
        /\ g_flash_addr' = g_flash_addr + SECTOR_SIZE /\ UNCHANGED pc
    BY <1>5 DEF StoreErase
  <2>2. ErasedFlash(job.n) \in [0..FLASH_WORDS - 1 -> Word]
    BY Sizes DEF ErasedFlash, JobInv, LoadInv, Types, Flash
  <2>3. media' \in [Flash -> [0..FLASH_WORDS - 1 -> Word]]
    <3> HIDE DEF ErasedFlash
    <3> QED BY <2>1, <2>2 DEF JobInv, LoadInv, Types
  <2>4. /\ job' \in JobType /\ job'.n = job.n + 1 /\ job'.dev = job.dev /\ job'.rc = 0 /\ job'.hdr = Header(0)
        /\ job'.n \in 0..num_sectors
    BY <1>1, <1>4, <1>5, <2>1 DEF JobType
  <2>5. Types'
    BY <1>1, <1>3, <1>4, <2>1, <2>3, <2>4 DEF Types, JobInv, LoadInv, Places
  <2>6. LoadInv'
    BY <1>1, <2>1, <2>5, StoreKeepsLoad DEF Stores, JobInv
  <2> QED BY <1>1, <1>2, <2>1, <2>4, <2>6 DEF JobInv, StoreSide, Stores
<1>6. CASE ~(job.dev = "spi" /\ job.n < num_sectors)
  <2>1. pc' = "store_data" /\ job' = [job EXCEPT !.n = 0] /\ g_flash_addr' = 4 /\ UNCHANGED media
    BY <1>6 DEF StoreErase, Goto, BIN_OFFSET_DATA
  <2>2. job' \in JobType /\ job'.n = 0 /\ job'.dev = job.dev /\ job'.rc = 0 /\ job'.hdr = Header(0)
    BY <1>1, <2>1 DEF JobType
  <2>3. Types'
    BY <1>1, <1>3, <2>1, <2>2 DEF Types, JobInv, LoadInv, Places
  <2>4. LoadInv'
    BY <1>1, <2>1, <2>3, StoreKeepsLoad DEF Stores, JobInv
  <2>5. Sum(ExeInRam.data, 0) = 0
    BY SumDef
  <2> QED BY <1>1, <1>2, <1>4, <2>1, <2>2, <2>4, <2>5 DEF JobInv, StoreSide, Stores
<1> QED BY <1>5, <1>6

\* The step of the data is to write the next word of the executable.
LEMMA DataPuts ==
  ASSUME JobInv, StoreData
  PROVE  \E e \in {0, 1} :
           /\ Puts(ExeInRam.data[job.n + 1], e)
           /\ job' \in JobType /\ job'.n = job.n + 1 /\ job'.rc = e /\ job'.dev = job.dev
           /\ job'.hdr = Header(Sum(ExeInRam.data, job.n + 1))
           /\ job.n \in 0..g_exe_size - 1 /\ job.rc = 0 /\ g_flash_addr = 4 + job.n
           /\ UNCHANGED <<pc, g_exe_base, g_exe_size, ram, upload, reported>>
<1> DEFINE n == job.n
           sum == Sum(ExeInRam.data, n)
           word == ram[job.hdr.base_addr + n]
<1>1. /\ pc = "store_data" /\ job \in JobType /\ job.rc = 0 /\ n \in Nat /\ job.dev \in Flash /\ g_exe_size # 0
      /\ n \in 0..g_exe_size /\ g_flash_addr = 4 + n /\ job.hdr = Header(sum) /\ n < job.hdr.size
  BY DEF StoreData, Storing, JobInv, LoadInv, Types, JobType, StoreSide, Stores
<1>2. n \in 0..g_exe_size - 1 /\ job.hdr.base_addr = g_exe_base /\ job.hdr.checksum = sum
  BY <1>1, ExeData DEF Header, JobInv, LoadInv
<1>3. ExeInRam.data[n + 1] = word /\ ExeInRam.data[n + 1] \in Word /\ sum \in Word
  <2>1. n + 1 \in 1..g_exe_size /\ (n + 1) - 1 = n
    BY <1>1, <1>2, ExeData DEF JobInv, LoadInv
  <2> QED BY <1>1, <1>2, <2>1, ExeData DEF JobInv, LoadInv
<1>4. PICK e \in {0, 1} :
        /\ StreamPut(word, e)
        /\ job' = [job EXCEPT !.n = @ + 1, !.rc = e, !.hdr.checksum = Accumulate(@, word)]
  BY DEF StoreData
<1>5. Puts(ExeInRam.data[n + 1], e)
  BY <1>1, <1>3, <1>4, StreamPuts DEF JobInv, LoadInv
<1>6. Sum(ExeInRam.data, n + 1) = Accumulate(sum, word)
  BY <1>1, <1>3, SumDef
<1> DEFINE sum2 == Sum(ExeInRam.data, n + 1)
           h == [Header(sum) EXCEPT !.checksum = sum2]
<1>7. h = Header(sum2) /\ h \in Headers
  <2>1. sum2 \in Word
    <3>1. g_exe_size \in Nat /\ \A i \in 0..g_exe_size : Sum(ExeInRam.data, i) \in Word
      BY <1>1, ExeData DEF JobInv, LoadInv
    <3>2. n + 1 \in 0..g_exe_size
      BY <1>1, <1>2, <3>1
    <3> QED BY <3>1, <3>2
  <2> HIDE DEF sum, sum2
  <2>2. h = Header(sum2)
    BY DEF Header
  <2> QED BY <2>1, <2>2, HeaderWords DEF JobInv, LoadInv
<1>8. job' = [job EXCEPT !.n = n + 1, !.rc = e, !.hdr = h]
  BY <1>1, <1>2, <1>4, <1>6
<1>9. /\ job' \in JobType /\ job'.n = n + 1 /\ job'.rc = e /\ job'.dev = job.dev /\ job'.hdr = h
  <2> HIDE DEF h
  <2>1. job \in JobType /\ n + 1 \in Nat /\ h \in Headers
    BY <1>1, <1>7
  <2> QED BY <1>8, <2>1 DEF JobType
<1>10. UNCHANGED <<pc, g_exe_base, g_exe_size, ram, upload, reported>>
  BY DEF StoreData, hist
<1> QED BY <1>1, <1>2, <1>5, <1>7, <1>9, <1>10

LEMMA DataJob ==
  ASSUME JobInv, StoreData
  PROVE  JobInv'
<1> DEFINE n == job.n
<1>1. PICK e \in {0, 1} :
        /\ Puts(ExeInRam.data[n + 1], e)
        /\ job' \in JobType /\ job'.n = n + 1 /\ job'.rc = e /\ job'.dev = job.dev
        /\ job'.hdr = Header(Sum(ExeInRam.data, n + 1))
        /\ n \in 0..g_exe_size - 1 /\ job.rc = 0 /\ g_flash_addr = 4 + n
        /\ UNCHANGED <<pc, g_exe_base, g_exe_size, ram, upload, reported>>
  BY DataPuts
<1>2. /\ pc = "store_data" /\ job.dev \in Flash /\ g_exe_size # 0 /\ n \in Nat /\ g_exe_size \in Nat
  BY ExeData DEF StoreData, JobInv, LoadInv, Types, JobType, StoreSide, Stores
<1>3. Types'
  BY <1>1, <1>2 DEF Puts, Types, JobInv, LoadInv, Places
<1>4. LoadInv'
  BY <1>1, <1>2, <1>3, StoreKeepsLoad DEF Stores, JobInv
<1>5. ExeInRam' = ExeInRam /\ \A sum : Header(sum)' = Header(sum)
  BY <1>1, ExeStays
<1>6. job'.n \in 0..g_exe_size' /\ g_flash_addr' = 4 + job'.n /\ job'.hdr = Header(Sum(ExeInRam.data, job'.n))
  BY <1>1, <1>2 DEF Puts
<1>7. Header(Sum(ExeInRam.data, job.n))' = Header(Sum(ExeInRam.data, job'.n))
  BY <1>1, <1>5 DEF Header
<1> QED BY <1>1, <1>2, <1>4, <1>6, <1>7 DEF JobInv, StoreSide, Stores

LEMMA RewindJob ==
  ASSUME JobInv, StoreRewind
  PROVE  JobInv' /\ job'.hdr = Header(Complement(Sum(ExeInRam.data, job.n))) /\ job'.n = 0
                 /\ job'.rc = job.rc /\ job'.dev = job.dev /\ pc' = "store_head"
<1> DEFINE sum == Sum(ExeInRam.data, job.n)
           h == [Header(sum) EXCEPT !.checksum = Complement(@)]
<1>1. /\ pc = "store_data" /\ job \in JobType /\ job.dev \in Flash /\ g_exe_size # 0
      /\ job.n \in 0..g_exe_size /\ job.hdr = Header(sum)
  BY DEF StoreRewind, JobInv, LoadInv, Types, StoreSide, Stores
<1>2. /\ pc' = "store_head" /\ g_flash_addr' = 0 /\ job' = [job EXCEPT !.n = 0, !.hdr = h]
      /\ UNCHANGED <<g_exe_base, g_exe_size, ram, media, upload, faults, reported>>
  BY <1>1 DEF StoreRewind, Goto, counts, hist
<1>3. h = Header(Complement(sum)) /\ h \in Headers /\ Complement(sum) \in Word
  <2>1. sum \in Word
    BY <1>1, ExeData DEF JobInv, LoadInv
  <2> HIDE DEF sum
  <2>2. h = Header(Complement(sum))
    BY DEF Header
  <2> QED BY <2>1, <2>2, ComplementWord, HeaderWords DEF JobInv, LoadInv
<1>4. /\ job' \in JobType /\ job'.n = 0 /\ job'.rc = job.rc /\ job'.dev = job.dev /\ job'.hdr = h
  <2> HIDE DEF h
  <2> QED BY <1>1, <1>2, <1>3 DEF JobType
<1>5. Types'
  BY <1>1, <1>2, <1>4 DEF Types, JobInv, LoadInv, Places
<1>6. LoadInv'
  BY <1>1, <1>2, <1>5, StoreKeepsLoad DEF Stores, JobInv
<1>7. \A x : Header(x)' = Header(x)
  BY <1>2, ExeStays
<1>8. \E x \in Word : job'.hdr = Header(x)'
  BY <1>3, <1>4, <1>7
<1>9. StoreSide'
  BY <1>1, <1>2, <1>4, <1>8 DEF StoreSide, Stores
<1> QED BY <1>2, <1>3, <1>4, <1>6, <1>9 DEF JobInv

\* The step of the header is to write its next field.
LEMMA HeadPuts ==
  ASSUME JobInv, StoreHead
  PROVE  \E e \in {0, 1} :
           /\ Puts(job.hdr[Field[job.n + 1]], e)
           /\ job' \in JobType
           /\ job.n \in 0..3 /\ job.dev \in Flash /\ g_flash_addr = job.n
           /\ \/ /\ job.n < 3 /\ pc' = "store_head" /\ UNCHANGED reported
                 /\ job'.n = job.n + 1 /\ job'.dev = job.dev /\ job'.hdr = job.hdr
                 /\ job'.rc = IF e = 1 THEN 1 ELSE job.rc
              \/ /\ job.n = 3 /\ pc' = "console"
                 /\ reported' = [reported EXCEPT ![job.dev] = IF job.rc = 0 /\ e = 0 THEN ExeInRam ELSE NoImage]
           /\ UNCHANGED <<g_exe_base, g_exe_size, ram, upload>>
<1>1. /\ pc = "store_head" /\ job \in JobType /\ job.dev \in Flash /\ job.hdr \in Headers
      /\ job.n \in 0..3 /\ g_flash_addr = job.n /\ job.rc \in {0, 1}
  BY DEF StoreHead, JobInv, LoadInv, Types, JobType, StoreSide, Stores
<1>2. PICK e \in {0, 1} :
        /\ StreamPut(job.hdr[Field[job.n + 1]], e)
        /\ IF job.n < 3
           THEN /\ job' = [job EXCEPT !.n = @ + 1, !.rc = IF e = 1 THEN 1 ELSE @]
                /\ UNCHANGED <<pc, reported>>
           ELSE StoreEnds(job.rc = 0 /\ e = 0)
  BY DEF StoreHead
<1>3. Puts(job.hdr[Field[job.n + 1]], e)
  <2>1. job.hdr[Field[job.n + 1]] \in Word
    BY <1>1, HeaderOf
  <2> QED BY <1>1, <1>2, <2>1, StreamPuts DEF JobInv, LoadInv
<1>4. UNCHANGED <<g_exe_base, g_exe_size, ram, upload>>
  BY DEF StoreHead
<1>5. CASE job.n < 3
  <2> DEFINE rc == IF e = 1 THEN 1 ELSE job.rc
  <2>1. job' = [job EXCEPT !.n = job.n + 1, !.rc = rc] /\ rc \in {0, 1} /\ job.n + 1 \in Nat
    BY <1>1, <1>2, <1>5
  <2>2. UNCHANGED <<pc, reported>>
    BY <1>2, <1>5
  <2> HIDE DEF rc
  <2>3. job' \in JobType /\ job'.n = job.n + 1 /\ job'.dev = job.dev /\ job'.hdr = job.hdr /\ job'.rc = rc
    BY <1>1, <2>1 DEF JobType
  <2> QED BY <1>1, <1>3, <1>4, <1>5, <2>2, <2>3 DEF rc
<1>6. CASE job.n = 3
  BY <1>1, <1>2, <1>3, <1>4, <1>6, IdleFacts DEF StoreEnds, Console, Goto
<1> QED BY <1>1, <1>5, <1>6

LEMMA HeadJob ==
  ASSUME JobInv, StoreHead
  PROVE  JobInv'
<1>1. PICK e \in {0, 1} :
           /\ Puts(job.hdr[Field[job.n + 1]], e)
           /\ job' \in JobType
           /\ job.n \in 0..3 /\ job.dev \in Flash /\ g_flash_addr = job.n
           /\ \/ /\ job.n < 3 /\ pc' = "store_head" /\ UNCHANGED reported
                 /\ job'.n = job.n + 1 /\ job'.dev = job.dev /\ job'.hdr = job.hdr
                 /\ job'.rc = IF e = 1 THEN 1 ELSE job.rc
              \/ /\ job.n = 3 /\ pc' = "console"
                 /\ reported' = [reported EXCEPT ![job.dev] = IF job.rc = 0 /\ e = 0 THEN ExeInRam ELSE NoImage]
           /\ UNCHANGED <<g_exe_base, g_exe_size, ram, upload>>
  BY HeadPuts
<1>2. pc = "store_head" /\ g_exe_size # 0 /\ \E sum \in Word : job.hdr = Header(sum)
  BY DEF StoreHead, JobInv, StoreSide, Stores
<1>3. Types'
  <2>1. DOMAIN reported' = Flash /\ pc' \in Places /\ g_flash_addr' \in Nat
    BY <1>1 DEF Puts, JobInv, LoadInv, Types, Places
  <2> QED BY <1>1, <2>1 DEF Puts, JobInv, LoadInv, Types
<1>4. LoadInv'
  BY <1>1, <1>3, StoreKeepsLoad DEF Stores, JobInv
<1>5. \A x : Header(x)' = Header(x)
  BY <1>1, ExeStays
<1>6. StoreSide'
  BY <1>1, <1>2, <1>5 DEF Puts, StoreSide, Stores
<1> QED BY <1>4, <1>6 DEF JobInv

\* A store breaks off: the word that was being written may be torn.
LEMMA BreakJob ==
  ASSUME JobInv, FlashHangs \/ PowerLoss
  PROVE  /\ JobInv' /\ pc' \in {"countdown", "polling"} /\ UNCHANGED reported
         /\ g_exe_size' = 0 \/ UNCHANGED <<g_exe_base, g_exe_size, ram>>
         /\ \A d \in Flash :
              d # job.dev \/ pc \notin {"store_data", "store_head"} => media'[d] = media[d]
<1>1. /\ pc' \in {"countdown", "polling"} /\ job' = Idle /\ faults' \in Nat
      /\ UNCHANGED <<g_exe_base, g_exe_size>> \/ (g_exe_base' = 0 /\ g_exe_size' = 0)
      /\ UNCHANGED g_flash_addr \/ g_flash_addr' = 0
      /\ UNCHANGED <<ram, upload, reported>>
  BY DEF FlashHangs, PowerLoss, Startup, Goto, globals, hist, JobInv, LoadInv, Types
<1>2. /\ media' \in [Flash -> [0..FLASH_WORDS - 1 -> Word]]
      /\ \A d \in Flash : d # job.dev \/ pc \notin {"store_data", "store_head"} => media'[d] = media[d]
  <2>1. CASE UNCHANGED media
    BY <2>1 DEF JobInv, LoadInv, Types
  <2>2. CASE Writing /\ \E u \in {Old, Torn, Written(job.dev, Old, NextOut)} : Put(u)
    <3> DEFINE d == job.dev
               a == g_flash_addr % FLASH_WORDS
               w == NextOut
               old == Old
               A == 0..FLASH_WORDS - 1
    <3>1. d \in Flash /\ a \in A /\ media \in [Flash -> [A -> Word]]
      BY <2>2, BootloaderAssumption DEF Writing, JobInv, LoadInv, Types, StoreSide, Stores
    <3>2. w \in Word
      <4>1. CASE pc = "store_head"
        <5>1. job.hdr \in Headers /\ job.n \in 0..3
          BY <4>1 DEF JobInv, LoadInv, Types, JobType, StoreSide
        <5> QED BY <4>1, <5>1, HeaderOf DEF NextOut
      <4>2. CASE pc = "store_data" /\ Storing
        <5>1. g_exe_size # 0 /\ job.n \in 0..g_exe_size /\ job.hdr.base_addr = g_exe_base /\ job.n < g_exe_size
          BY <4>2 DEF JobInv, StoreSide, Stores, Header, Storing
        <5>2. job.n + 1 \in 1..g_exe_size /\ (job.n + 1) - 1 = job.n
          BY <5>1, ExeData DEF JobInv, LoadInv
        <5>3. ram[g_exe_base + ((job.n + 1) - 1)] \in Word
          BY <5>1, <5>2, ExeData DEF JobInv, LoadInv
        <5> QED BY <4>2, <5>1, <5>2, <5>3 DEF NextOut
      <4> QED BY <2>2, <4>1, <4>2 DEF Writing
    <3>3. PICK v : v \in {old, Mix(Written(d, old, w), old), Written(d, old, w)} /\ media' = [media EXCEPT ![d][a] = v]
      BY <2>2 DEF Put, Torn
    <3>9. old = media[d][a]
      BY DEF Old
    <3> HIDE DEF a, A, w, old
    <3>4. old \in Word
      BY <3>1, <3>9
    <3>5. v \in Word
      BY <3>2, <3>3, <3>4, WrittenWord, Mixed
    <3> DEFINE f == media[d]
               g == [f EXCEPT ![a] = v]
    <3>6. media' = [media EXCEPT ![d] = g]
      BY <3>3
    <3>7. g \in [A -> Word]
      BY <3>1, <3>5
    <3> HIDE DEF g
    <3>8. media' \in [Flash -> [A -> Word]] /\ \A c \in Flash : c # d => media'[c] = media[c]
      BY <3>1, <3>6, <3>7
    <3> QED BY <2>2, <3>8 DEF A, Writing
  <2> QED BY <2>1, <2>2 DEF FlashHangs, PowerLoss
<1>3. Types'
  BY <1>1, <1>2, Sizes, IdleFacts DEF JobInv, LoadInv, Types, Places
<1>4. LoadInv'
  BY <1>1, <1>3, Apart DEF JobInv, LoadInv
<1>5. StoreSide'
  BY <1>1 DEF StoreSide, Stores
<1> QED BY <1>1, <1>2, <1>4, <1>5 DEF JobInv

-----------------------------------------------------------------------------
(* What the flashes hold. *)

\* A flash whose contents change is reported to hold nothing.
LEMMA Loadable ==
  ASSUME StoredLoads, \A d \in Flash : \/ media'[d] = media[d] /\ reported'[d] = reported[d]
                                       \/ reported'[d] = NoImage
  PROVE  StoredLoads'
  BY DEF StoredLoads

\* Erasing covers the executable, if it fits.
LEMMA Covered ==
  ASSUME Types, ExeFits, g_exe_size # 0, Sound, job.dev = "spi", NEW a \in 0..3 + g_exe_size
  PROVE  InErased(a)
<1>1. Len(ExeInRam.data) = g_exe_size /\ g_exe_size \in Nat
  BY ExeData
<1>2. 4 + g_exe_size <= num_sectors * SECTOR_SIZE
  BY <1>1 DEF Sound, Fits, num_sectors, BIN_OFFSET_DATA
<1> DEFINE t == num_sectors * SECTOR_SIZE
<1>3. t \in Nat
  BY Sectors
<1> HIDE DEF t
<1>4. a < t
  BY <1>1, <1>2, <1>3 DEF t
<1> QED BY <1>4 DEF InErased, t

LEMMA Spaces ==
  ASSUME Types, ExeFits, g_exe_size # 0, FlashLarge
  PROVE  /\ g_exe_size \in Nat /\ FLASH_WORDS \in Nat
         /\ \A a \in 0..3 + g_exe_size : a \in 0..FLASH_WORDS - 1 /\ a % FLASH_WORDS = a
<1>1. g_exe_size \in Nat /\ FLASH_WORDS \in Nat \ {0} /\ 4 + g_exe_size <= FLASH_WORDS
  BY ExeData, BootloaderAssumption DEF FlashLarge, BIN_OFFSET_DATA
<1> QED BY <1>1

LEMMA EraseMedia ==
  ASSUME StoreInv, StoreErase
  PROVE  MediaSide' /\ StoredLoads'
<1>1. /\ pc = "store_erase" /\ job \in JobType /\ job.dev \in Flash /\ job.n \in 0..num_sectors /\ job.n \in Nat
      /\ reported' = [reported EXCEPT ![job.dev] = NoImage] /\ DOMAIN reported = Flash
      /\ UNCHANGED <<g_exe_base, g_exe_size, ram>>
      /\ media \in [Flash -> [0..FLASH_WORDS - 1 -> Word]]
      /\ \A a \in 0..FLASH_WORDS - 1 : a < job.n * SECTOR_SIZE => Blank(a)
  BY DEF StoreErase, StoreInv, JobInv, LoadInv, Types, JobType, StoreSide, Stores, MediaSide
<1>2. reported'[job.dev] = NoImage /\ \A d \in Flash : d # job.dev => reported'[d] = reported[d]
  BY <1>1
<1>3. num_sectors \in Nat \ {0} /\ SECTOR_SIZE \in Nat \ {0}
  BY Sectors DEF StoreInv, JobInv, LoadInv
<1>4. CASE job.dev = "spi" /\ job.n < num_sectors
  <2>1. /\ media' = [media EXCEPT !["spi"] = ErasedFlash(job.n)] /\ job' = [job EXCEPT !.n = @ + 1]
        /\ pc' = "store_erase"
    BY <1>1, <1>4 DEF StoreErase
  <2>2. job'.n = job.n + 1 /\ job'.dev = "spi"
    BY <1>1, <1>4, <2>1 DEF JobType
  <2>3. media'["spi"] = ErasedFlash(job.n) /\ \A d \in Flash : d # "spi" => media'[d] = media[d]
    <3> HIDE DEF ErasedFlash
    <3> QED BY <1>1, <2>1 DEF Flash
  <2>4. ASSUME NEW a \in 0..FLASH_WORDS - 1, a < (job.n + 1) * SECTOR_SIZE
        PROVE  media'["spi"][a] = ERASED
    <3> DEFINE lo == job.n * SECTOR_SIZE
               hi == (job.n + 1) * SECTOR_SIZE
    <3>1. lo \in Nat /\ hi \in Nat /\ a \in Nat
      BY <1>1, <1>3
    <3>2. CASE a < lo
      BY <1>1, <1>4, <2>3, <2>4, <3>2 DEF ErasedFlash, Blank
    <3>3. CASE ~(a < lo)
      <4>1. a \in lo..hi - 1
        <5> HIDE DEF lo
        <5>1. a < hi
          BY <2>4
        <5> HIDE DEF hi
        <5> QED BY <3>1, <3>3, <5>1
      <4> QED BY <2>3, <2>4, <4>1 DEF ErasedFlash, Sector
    <3> QED BY <3>2, <3>3
  <2>5. MediaSide'
    BY <2>1, <2>2, <2>4 DEF MediaSide, Blank
  <2>6. StoredLoads'
    BY <1>2, <1>4, <2>3, Loadable DEF StoreInv
  <2> QED BY <2>5, <2>6
<1>5. CASE ~(job.dev = "spi" /\ job.n < num_sectors)
  <2>1. pc' = "store_data" /\ job' = [job EXCEPT !.n = 0] /\ UNCHANGED media
    BY <1>5 DEF StoreErase, Goto
  <2>2. job'.n = 0 /\ job'.dev = job.dev
    BY <1>1, <2>1 DEF JobType
  <2>3. ASSUME NEW a \in 0..FLASH_WORDS - 1, InErased(a) PROVE Blank(a)'
    <3>1. CASE job.dev = "spi"
      <4>1. job.n = num_sectors
        BY <1>1, <1>3, <1>5, <3>1
      <4> QED BY <1>1, <2>1, <2>2, <2>3, <4>1 DEF InErased, Blank
    <3> QED BY <2>2, <3>1 DEF Blank
  <2>4. (\A a : InErased(a)' = InErased(a)) /\ DataStored(0)'
    BY <1>1, ExeStays DEF DataStored
  <2>5. MediaSide'
    <3>1. DataStored(job.n)'
      BY <2>2 DEF DataStored
    <3> QED BY <1>2, <2>1, <2>2, <2>3, <2>4, <3>1 DEF MediaSide
  <2>6. StoredLoads'
    BY <1>2, <2>1, Loadable DEF StoreInv
  <2> QED BY <2>5, <2>6
<1> QED BY <1>4, <1>5

LEMMA DataMedia ==
  ASSUME StoreInv, FlashLarge, StoreData
  PROVE  MediaSide' /\ StoredLoads'
<1> DEFINE n == job.n
           word == ExeInRam.data[n + 1]
           a == 4 + n
<1>1. PICK e \in {0, 1} :
        /\ Puts(word, e)
        /\ job' \in JobType /\ job'.n = n + 1 /\ job'.rc = e /\ job'.dev = job.dev
        /\ job'.hdr = Header(Sum(ExeInRam.data, n + 1))
        /\ n \in 0..g_exe_size - 1 /\ job.rc = 0 /\ g_flash_addr = 4 + n
        /\ UNCHANGED <<pc, g_exe_base, g_exe_size, ram, upload, reported>>
  BY DataPuts DEF StoreInv
<1>2. /\ pc = "store_data" /\ job.dev \in Flash /\ g_exe_size # 0 /\ n \in Nat
      /\ Types /\ ExeFits /\ reported[job.dev] = NoImage
  BY DEF StoreData, StoreInv, JobInv, LoadInv, Types, JobType, StoreSide, Stores, MediaSide
<1>3. g_exe_size \in Nat /\ FLASH_WORDS \in Nat /\ a \in 0..FLASH_WORDS - 1 /\ a % FLASH_WORDS = a
      /\ a \in 0..3 + g_exe_size
  <2>1. g_exe_size \in Nat /\ a \in 0..3 + g_exe_size
    BY <1>1, <1>2, Spaces
  <2> QED BY <1>2, <2>1, Spaces
<1>4. /\ \A b \in 0..FLASH_WORDS - 1 : b # a => media'[job.dev][b] = media[job.dev][b]
      /\ e = 0 /\ Blank(a) => media'[job.dev][a] = word
      /\ \A d \in Flash : d # job.dev => media'[d] = media[d]
  BY <1>1, <1>3 DEF Puts
<1>5. StoredLoads'
  BY <1>1, <1>2, <1>4, Loadable DEF StoreInv
<1>6. ExeInRam' = ExeInRam /\ \A b : InErased(b)' = InErased(b)
  BY <1>1, ExeStays
<1>7. ASSUME Sound' PROVE DataStored(job.n)'
                          /\ \A b \in 0..FLASH_WORDS - 1 : InErased(b) /\ (b < 4 \/ b >= 4 + (n + 1)) => Blank(b)'
  <2>1. e = 0 /\ Sound
    BY <1>1, <1>6, <1>7 DEF Sound
  <2>2. /\ DataStored(n)
        /\ \A b \in 0..FLASH_WORDS - 1 : InErased(b) /\ (b < 4 \/ b >= 4 + n) => Blank(b)
    BY <1>2, <2>1 DEF StoreInv, MediaSide
  <2>3. Blank(a)
    <3>1. CASE job.dev = "spi"
      <4>1. InErased(a)
        BY <1>2, <1>3, <2>1, <3>1, Covered
      <4> QED BY <1>2, <1>3, <2>2, <4>1
    <3> QED BY <3>1 DEF Blank
  <2>4. ASSUME NEW k \in 1..n + 1 PROVE media'[job.dev][3 + k] = ExeInRam.data[k]
    <3>1. CASE k = n + 1
      <4>1. 3 + k = a
        BY <1>2, <3>1
      <4> QED BY <1>4, <2>1, <2>3, <3>1, <4>1
    <3>2. CASE k # n + 1
      <4>1. k \in 1..n /\ 3 + k # a /\ 3 + k \in 0..3 + g_exe_size
        BY <1>1, <1>2, <1>3, <3>2
      <4>2. 3 + k \in 0..FLASH_WORDS - 1
        BY <1>2, <4>1, Spaces
      <4> QED BY <1>4, <2>2, <4>1, <4>2 DEF DataStored
    <3> QED BY <3>1, <3>2
  <2>5. DataStored(job.n)'
    BY <1>1, <1>6, <2>4 DEF DataStored
  <2>6. ASSUME NEW b \in 0..FLASH_WORDS - 1, InErased(b), b < 4 \/ b >= 4 + (n + 1)
        PROVE  Blank(b)'
    <3>1. b # a /\ (b < 4 \/ b >= 4 + n)
      BY <1>2, <2>6
    <3> QED BY <1>1, <1>4, <2>2, <2>6, <3>1 DEF Blank
  <2> QED BY <2>5, <2>6
<1>8. MediaSide'
  BY <1>1, <1>2, <1>6, <1>7 DEF MediaSide
<1> QED BY <1>5, <1>8

LEMMA RewindMedia ==
  ASSUME StoreInv, FlashLarge, StoreRewind
  PROVE  MediaSide' /\ StoredLoads'
<1>1. /\ job'.hdr = Header(Complement(Sum(ExeInRam.data, job.n))) /\ job'.n = 0
      /\ job'.rc = job.rc /\ job'.dev = job.dev /\ pc' = "store_head"
  BY RewindJob DEF StoreInv
<1>2. /\ UNCHANGED <<g_exe_base, g_exe_size, ram, media, reported>> /\ pc = "store_data"
  BY DEF StoreRewind, hist
<1>3. /\ g_exe_size # 0 /\ reported[job.dev] = NoImage /\ job.n \in 0..g_exe_size
      /\ Types /\ ExeFits /\ job.hdr.size = g_exe_size /\ job.dev \in Flash
  BY <1>2 DEF StoreInv, JobInv, LoadInv, StoreSide, Stores, MediaSide, Header
<1>4. StoredLoads'
  BY <1>2, Loadable DEF StoreInv
<1>5. ExeInRam' = ExeInRam /\ \A sum : Header(sum)' = Header(sum)
  BY <1>2, ExeStays
<1>6. ASSUME Sound'
      PROVE  /\ DataStored(g_exe_size)'
             /\ job'.hdr = Header(Complement(Sum(ExeInRam.data, g_exe_size)))
             /\ \A a \in 0..3 : Blank(a)'
  <2>1. Sound
    BY <1>1, <1>5, <1>6 DEF Sound
  <2>2. job.n = g_exe_size
    <3>1. ~(job.n < job.hdr.size)
      BY <2>1 DEF StoreRewind, Storing, Sound
    <3> QED BY <1>3, <3>1, Spaces
  <2>3. /\ DataStored(g_exe_size)
        /\ \A b \in 0..FLASH_WORDS - 1 : InErased(b) /\ (b < 4 \/ b >= 4 + job.n) => Blank(b)
    BY <1>2, <2>1, <2>2 DEF StoreInv, MediaSide
  <2>4. DataStored(g_exe_size)'
    BY <1>1, <1>2, <1>5, <2>3 DEF DataStored
  <2>5. ASSUME NEW a \in 0..3 PROVE Blank(a)
    <3>1. a \in 0..3 + g_exe_size /\ a < 4
      BY <1>3, Spaces
    <3>2. a \in 0..FLASH_WORDS - 1
      BY <1>3, <3>1, Spaces
    <3>3. CASE job.dev = "spi"
      BY <1>3, <2>1, <2>3, <3>1, <3>2, <3>3, Covered
    <3> QED BY <3>3 DEF Blank
  <2>6. \A a \in 0..3 : Blank(a)'
    BY <1>1, <1>2, <2>5 DEF Blank
  <2> QED BY <1>1, <2>2, <2>4, <2>6
<1>7. MediaSide'
  <2>1. 0..0 - 1 = {}
    OBVIOUS
  <2>2. Sound' => job'.hdr = Header(Complement(Sum(ExeInRam.data, g_exe_size)))'
    BY <1>2, <1>5, <1>6 DEF Header
  <2> QED BY <1>1, <1>2, <1>3, <1>6, <2>1, <2>2 DEF MediaSide
<1> QED BY <1>4, <1>7

\* The last field of the header makes the executable whole.
LEMMA HeadMedia ==
  ASSUME StoreInv, FlashLarge, StoreHead
  PROVE  MediaSide' /\ StoredLoads'
<1> DEFINE n == job.n
           d == job.dev
           word == job.hdr[Field[n + 1]]
<1>1. PICK e \in {0, 1} :
        /\ Puts(word, e)
        /\ job' \in JobType
        /\ n \in 0..3 /\ d \in Flash /\ g_flash_addr = n
        /\ \/ /\ n < 3 /\ pc' = "store_head" /\ UNCHANGED reported
              /\ job'.n = n + 1 /\ job'.dev = d /\ job'.hdr = job.hdr
              /\ job'.rc = IF e = 1 THEN 1 ELSE job.rc
           \/ /\ n = 3 /\ pc' = "console"
              /\ reported' = [reported EXCEPT ![d] = IF job.rc = 0 /\ e = 0 THEN ExeInRam ELSE NoImage]
        /\ UNCHANGED <<g_exe_base, g_exe_size, ram, upload>>
  BY HeadPuts DEF StoreInv
<1>2. /\ pc = "store_head" /\ g_exe_size # 0 /\ Types /\ ExeFits /\ reported[d] = NoImage
      /\ DOMAIN reported = Flash
  BY DEF StoreHead, StoreInv, JobInv, LoadInv, Types, StoreSide, Stores, MediaSide
<1>3. /\ g_exe_size \in Nat /\ n \in Nat /\ n <= 3 /\ n \in 0..FLASH_WORDS - 1 /\ n % FLASH_WORDS = n
      /\ \A i \in 0..3 : i \in 0..FLASH_WORDS - 1
  <2>1. g_exe_size \in Nat
    BY <1>2, Spaces
  <2>2. \A i \in 0..3 : i \in 0..3 + g_exe_size
    BY <2>1
  <2> QED BY <1>1, <1>2, <2>1, <2>2, Spaces
<1>4. /\ \A b \in 0..FLASH_WORDS - 1 : b # n => media'[d][b] = media[d][b]
      /\ e = 0 /\ Blank(n) => media'[d][n] = word
      /\ \A c \in Flash : c # d => media'[c] = media[c]
      /\ media'[d] \in [0..FLASH_WORDS - 1 -> Word]
  BY <1>1, <1>3 DEF Puts
<1>5. ExeInRam' = ExeInRam /\ \A sum : Header(sum)' = Header(sum)
  BY <1>1, ExeStays
\* What a sound store has written after this step.
<1>6. ASSUME Sound, e = 0
      PROVE  /\ \A k \in 1..g_exe_size : media'[d][3 + k] = ExeInRam.data[k]
             /\ job.hdr = Header(Complement(Sum(ExeInRam.data, g_exe_size)))
             /\ \A i \in 0..n : media'[d][i] = job.hdr[Field[i + 1]]
             /\ \A a \in n + 1..3 : d = "spi" => media'["spi"][a] = ERASED
  <2>1. /\ DataStored(g_exe_size)
        /\ job.hdr = Header(Complement(Sum(ExeInRam.data, g_exe_size)))
        /\ \A i \in 0..n - 1 : media[d][i] = job.hdr[Field[i + 1]]
        /\ \A a \in n..3 : Blank(a)
    BY <1>2, <1>6 DEF StoreInv, MediaSide
  <2>2. ASSUME NEW k \in 1..g_exe_size PROVE media'[d][3 + k] = ExeInRam.data[k]
    <3>1. 3 + k \in 0..3 + g_exe_size /\ 3 + k # n
      BY <1>3
    <3>2. 3 + k \in 0..FLASH_WORDS - 1
      BY <1>2, <3>1, Spaces
    <3> QED BY <1>4, <2>1, <3>1, <3>2 DEF DataStored
  <2>3. ASSUME NEW i \in 0..n PROVE media'[d][i] = job.hdr[Field[i + 1]]
    <3>1. CASE i = n
      <4>1. Blank(n)
        BY <1>3, <2>1
      <4> QED BY <1>4, <1>6, <3>1, <4>1
    <3>2. CASE i # n
      <4>1. i \in 0..n - 1 /\ i \in 0..3
        BY <1>3, <3>2
      <4>2. i \in 0..FLASH_WORDS - 1
        BY <1>3, <4>1
      <4> HIDE DEF word
      <4> QED BY <1>4, <2>1, <3>2, <4>1, <4>2
    <3> QED BY <3>1, <3>2
  <2>4. ASSUME NEW a \in n + 1..3, d = "spi" PROVE media'["spi"][a] = ERASED
    <3>1. a \in n..3 /\ a \in 0..3 /\ a # n
      BY <1>3
    <3>2. a \in 0..FLASH_WORDS - 1
      BY <1>3, <3>1
    <3> QED BY <1>4, <2>1, <2>4, <3>1, <3>2 DEF Blank
  <2> HIDE DEF word
  <2> QED BY <2>1, <2>2, <2>3, <2>4
<1> HIDE DEF word
<1>7. CASE n < 3
  <2>1. /\ pc' = "store_head" /\ UNCHANGED reported
        /\ job'.n = n + 1 /\ job'.dev = d /\ job'.hdr = job.hdr
        /\ job'.rc = IF e = 1 THEN 1 ELSE job.rc
    BY <1>1, <1>7
  <2>2. StoredLoads'
    BY <1>2, <1>4, <2>1, Loadable DEF StoreInv
  <2>3. Sound' => Sound /\ e = 0
    BY <1>1, <1>5, <2>1 DEF Sound
  <2>4. ASSUME Sound' PROVE DataStored(g_exe_size)' /\ job'.hdr = Header(Complement(Sum(ExeInRam.data, g_exe_size)))'
    <3>1. DataStored(g_exe_size)'
      BY <1>1, <1>5, <1>6, <2>1, <2>3, <2>4 DEF DataStored
    <3>2. Header(Complement(Sum(ExeInRam.data, g_exe_size)))' = Header(Complement(Sum(ExeInRam.data, g_exe_size)))
      BY <1>1, <1>5 DEF Header
    <3> QED BY <1>6, <2>1, <2>3, <2>4, <3>1, <3>2
  <2>5. ASSUME Sound' PROVE \A i \in 0..job'.n - 1 : media'[job'.dev][i] = job'.hdr[Field[i + 1]]
    <3>1. job'.n - 1 = n
      BY <1>3, <2>1
    <3> QED BY <1>6, <2>1, <2>3, <2>5, <3>1
  <2>6. ASSUME Sound' PROVE \A a \in job'.n..3 : Blank(a)'
    BY <1>6, <2>1, <2>3, <2>6 DEF Blank
  <2>7. MediaSide'
    BY <1>2, <2>1, <2>4, <2>5, <2>6 DEF MediaSide
  <2> QED BY <2>2, <2>7
<1>8. CASE n = 3
  <2>1. /\ pc' = "console"
        /\ reported' = [reported EXCEPT ![d] = IF job.rc = 0 /\ e = 0 THEN ExeInRam ELSE NoImage]
    BY <1>1, <1>8
  <2>2. MediaSide'
    BY <2>1 DEF MediaSide
  <2>3. ASSUME NEW c \in Flash, reported'[c] # NoImage, c = "spi" => Fits(reported'[c])
        PROVE  Held(media'[c]) = reported'[c]
    <3>1. CASE c # d
      BY <1>2, <1>4, <2>1, <2>3, <3>1 DEF StoreInv, StoredLoads
    <3>2. CASE c = d
      <4>1. job.rc = 0 /\ e = 0 /\ reported'[d] = ExeInRam
        BY <1>1, <1>2, <2>1, <2>3, <3>2
      <4>2. Sound
        BY <2>3, <3>2, <4>1 DEF Sound
      <4> DEFINE sum == Complement(Sum(ExeInRam.data, g_exe_size))
      <4>3. sum \in Word
        <5>1. g_exe_size \in 0..g_exe_size
          BY <1>3
        <5> QED BY <1>2, <5>1, ExeData, ComplementWord
      <4>4. \A i \in 0..3 : media'[d][i] = Header(sum)[Field[i + 1]]
        BY <1>6, <1>8, <4>1, <4>2
      <4> HIDE DEF sum
      <4>5. media'[d][0] = Header(sum)[Field[1]] /\ media'[d][1] = Header(sum)[Field[2]]
            /\ media'[d][2] = Header(sum)[Field[3]] /\ media'[d][3] = Header(sum)[Field[4]]
        <5>1. 0 \in 0..3 /\ 1 \in 0..3 /\ 2 \in 0..3 /\ 3 \in 0..3
          OBVIOUS
        <5>2. 0 + 1 = 1 /\ 1 + 1 = 2 /\ 2 + 1 = 3 /\ 3 + 1 = 4
          OBVIOUS
        <5> QED BY <4>4, <5>1, <5>2
      <4>6. media'[d][0] = SIGNATURE /\ media'[d][1] = g_exe_base
            /\ media'[d][2] = g_exe_size /\ media'[d][3] = sum
        BY <1>2, <4>3, <4>5, HeaderWords
      <4>7. \A k \in 1..g_exe_size : media'[d][3 + k] = ExeInRam.data[k]
        BY <1>6, <4>1, <4>2
      <4> DEFINE content == media'[d]
      <4>8. content \in [0..FLASH_WORDS - 1 -> Word]
        BY <1>4
      <4> HIDE DEF content
      <4>9. Held(content) = ExeInRam
        BY <1>2, <4>6, <4>7, <4>8, HeldExe DEF sum, content
      <4> QED BY <3>2, <4>1, <4>9 DEF content
    <3> QED BY <3>1, <3>2
  <2>4. StoredLoads'
    BY <2>3 DEF StoredLoads
  <2> QED BY <2>2, <2>4
<1> QED BY <1>1, <1>7, <1>8

-----------------------------------------------------------------------------
(* Every step. *)

LEMMA LoadMoves ==
  ASSUME job \in JobType, LoadHead \/ LoadData \/ LoadCheck
  PROVE  pc' \in {"load_setup", "load_head", "load_data", "console", "halted", "boot"}
         /\ UNCHANGED <<media, reported>>
<1>1. LoadFails => pc' \in {"load_setup", "console", "halted"}
  BY LoadFailsRests DEF Resting
<1>2. CASE LoadHead
  BY <1>1, <1>2 DEF LoadHead, Goto, hist
<1>3. CASE LoadData
  BY <1>3 DEF LoadData, Goto, hist
<1>4. CASE LoadCheck
  BY <1>1, <1>4 DEF LoadCheck, Goto, Console, hist
<1> QED BY <1>2, <1>3, <1>4

LEMMA Steps ==
  ASSUME Next
  PROVE  \/ Simple
         \/ LoadHead \/ LoadData \/ LoadCheck
         \/ StoreSetup \/ StoreAnswer
         \/ StoreErase \/ StoreData \/ StoreRewind \/ StoreHead
         \/ FlashHangs \/ PowerLoss
  BY DEF Next, Work, Simple

LEMMA JobStep ==
  ASSUME JobInv, [Next]_vars
  PROVE  JobInv'
<1>1. CASE Simple
  <2>1. LoadInv'
    BY <1>1, SimpleStep DEF JobInv
  <2>2. /\ Begins(Places \ {"load_data", "store_ask", "store_erase", "store_data", "store_head"})
        /\ pc' = "store_setup" => CmdStore /\ job'.dev \in Flash /\ g_exe_size # 0
    BY <1>1, SimpleMoves DEF JobInv, LoadInv
  <2>3. pc' = "store_setup" => g_exe_size' # 0
    BY <2>2 DEF CmdStore, globals
  <2>4. StoreSide'
    BY <2>2, <2>3 DEF StoreSide, Stores, Begins
  <2> QED BY <2>1, <2>4 DEF JobInv
<1>2. CASE LoadHead \/ LoadData \/ LoadCheck
  <2>1. LoadInv'
    BY <1>2, HeadStep, DataStep, CheckStep DEF JobInv
  <2>2. StoreSide'
    BY <1>2, LoadMoves DEF JobInv, LoadInv, Types, StoreSide, Stores
  <2> QED BY <2>1, <2>2 DEF JobInv
<1>3. CASE StoreSetup \/ StoreAnswer
  BY <1>3, SetupJob
<1>4. CASE StoreErase
  BY <1>4, EraseJob
<1>5. CASE StoreData
  BY <1>5, DataJob
<1>6. CASE StoreRewind
  BY <1>6, RewindJob
<1>7. CASE StoreHead
  BY <1>7, HeadJob
<1>8. CASE FlashHangs \/ PowerLoss
  BY <1>8, BreakJob
<1>9. CASE UNCHANGED vars
  <2>1. UNCHANGED <<pc, job, g_exe_base, g_exe_size, g_flash_addr, ram, media, upload, faults, reported, misplaced>>
    BY <1>9 DEF vars, globals, counts, hist
  <2>2. Types' /\ ExeFits'
    BY <2>1 DEF JobInv, LoadInv, Types, ExeFits
  <2>3. LoadSide'
    BY <2>1 DEF JobInv, LoadInv, LoadSide, Came, Offered, File
  <2>4. DataSide'
    BY <2>1 DEF JobInv, LoadInv, DataSide, Checked, Came, Data, Offered, File
  <2>5. StoreSide'
    BY <2>1 DEF JobInv, StoreSide, Header, num_sectors, ExeInRam
  <2> QED BY <2>2, <2>3, <2>4, <2>5 DEF JobInv, LoadInv
<1> QED BY <1>1, <1>2, <1>3, <1>4, <1>5, <1>6, <1>7, <1>8, <1>9, Steps

LEMMA StoreStep ==
  ASSUME StoreInv, FlashLarge, [Next]_vars
  PROVE  StoreInv'
<1>1. JobInv'
  BY JobStep DEF StoreInv
<1>2. ASSUME UNCHANGED <<media, reported>>, pc' \notin {"store_erase", "store_data", "store_head"}
      PROVE  MediaSide' /\ StoredLoads'
  <2>1. MediaSide'
    BY <1>2 DEF MediaSide
  <2>2. StoredLoads'
    BY <1>2 DEF StoreInv, StoredLoads
  <2> QED BY <2>1, <2>2
<1>3. CASE Simple
  <2>1. /\ Begins(Places \ {"load_data", "store_ask", "store_erase", "store_data", "store_head"})
        /\ UNCHANGED <<media, reported>>
    BY <1>3, SimpleMoves DEF StoreInv, JobInv, LoadInv
  <2> QED BY <1>1, <1>2, <2>1 DEF Begins, StoreInv
<1>4. CASE LoadHead \/ LoadData \/ LoadCheck
  <2>1. /\ pc' \in {"load_setup", "load_head", "load_data", "console", "halted", "boot"}
        /\ UNCHANGED <<media, reported>>
    BY <1>4, LoadMoves DEF StoreInv, JobInv, LoadInv, Types
  <2> QED BY <1>1, <1>2, <2>1 DEF StoreInv
<1>5. CASE StoreSetup \/ StoreAnswer
  <2>1. UNCHANGED <<media, reported>>
    BY <1>5 DEF StoreSetup, StoreAnswer, hist
  <2>2. pc' \in {"console", "store_ask", "store_erase"}
    BY <1>5 DEF StoreSetup, StoreAnswer, Console, Goto
  <2>3. pc' = "store_erase" => job'.n = 0
    BY <1>5 DEF StoreSetup, StoreAnswer, Console, Goto, StoreInv, JobInv, StoreSide
  <2>4. SECTOR_SIZE \in Nat
    BY BootloaderAssumption
  <2>5. MediaSide'
    BY <2>2, <2>3, <2>4 DEF MediaSide
  <2>6. StoredLoads'
    BY <2>1 DEF StoreInv, StoredLoads
  <2> QED BY <1>1, <2>5, <2>6 DEF StoreInv
<1>6. CASE StoreErase
  BY <1>1, <1>6, EraseMedia DEF StoreInv
<1>7. CASE StoreData
  BY <1>1, <1>7, DataMedia DEF StoreInv
<1>8. CASE StoreRewind
  BY <1>1, <1>8, RewindMedia DEF StoreInv
<1>9. CASE StoreHead
  BY <1>1, <1>9, HeadMedia DEF StoreInv
<1>10. CASE FlashHangs \/ PowerLoss
  <2>1. /\ pc' \in {"countdown", "polling"} /\ UNCHANGED reported
        /\ \A d \in Flash : d # job.dev \/ pc \notin {"store_data", "store_head"} => media'[d] = media[d]
    BY <1>10, BreakJob DEF StoreInv
  <2>2. pc \in {"store_data", "store_head"} => reported[job.dev] = NoImage
    BY DEF StoreInv, MediaSide
  <2>3. StoredLoads'
    BY <2>1, <2>2, Loadable DEF StoreInv
  <2>4. MediaSide'
    BY <2>1 DEF MediaSide
  <2> QED BY <1>1, <2>3, <2>4 DEF StoreInv
<1>11. CASE UNCHANGED vars
  <2>1. UNCHANGED <<pc, job, g_exe_base, g_exe_size, g_flash_addr, ram, media, upload, faults, reported>>
    BY <1>11 DEF vars, globals, counts, hist
  <2>2. MediaSide' /\ StoredLoads'
    BY <2>1 DEF StoreInv, MediaSide, StoredLoads, Sound, DataStored, Header, InErased, num_sectors, ExeInRam, Blank
  <2> QED BY <1>1, <2>2 DEF StoreInv
<1> QED BY <1>3, <1>4, <1>5, <1>6, <1>7, <1>8, <1>9, <1>10, <1>11, Steps

LEMMA JobInit ==
  ASSUME Init
  PROVE  JobInv /\ MediaSide /\ StoredLoads
<1>1. /\ pc = "countdown" /\ job = Idle /\ g_exe_base = 0 /\ g_exe_size = 0 /\ g_flash_addr = 0
      /\ ram = [a \in 0..RAM_WORDS - 1 |-> 0] /\ media = Factory /\ upload = NoImage /\ faults = 0
      /\ reported = [d \in Flash |-> NoImage]
  BY DEF Init
<1>2. Types
  BY <1>1, Sizes, IdleFacts, BootloaderAssumption DEF Types, Places
<1>3. ExeFits /\ LoadSide /\ DataSide /\ StoreSide /\ MediaSide
  BY <1>1 DEF ExeFits, LoadSide, DataSide, StoreSide, MediaSide, Loads, Stores
<1>4. StoredLoads
  BY <1>1 DEF StoredLoads
<1> QED BY <1>2, <1>3, <1>4 DEF JobInv, LoadInv

\* "OK" means that the executable can be loaded again (system_app_store), however
\* often the power fails and whatever the flash does not acknowledge: if it lies
\* in erased sectors of the SPI flash and the flash is as large as the memory.
THEOREM StoresLoad == FlashLarge => (Spec => []StoredLoads)
<1> SUFFICES ASSUME FlashLarge PROVE Spec => []StoredLoads
  OBVIOUS
<1>1. Init => StoreInv
  BY JobInit DEF StoreInv
<1>2. StoreInv /\ [Next]_vars => StoreInv'
  BY StoreStep
<1>3. StoreInv => StoredLoads
  BY DEF StoreInv
<1> QED BY <1>1, <1>2, <1>3, PTL DEF Spec

\* The globals, memories and locals of the bootloader are words (system_app_load,
\* system_app_store).
THEOREM BootloaderTyped == Spec => []TypeOK
<1>1. Init => JobInv
  BY JobInit
<1>2. JobInv /\ [Next]_vars => JobInv'
  BY JobStep
<1>3. JobInv => TypeOK
  BY DEF JobInv, LoadInv, Types, JobType, Headers, TypeOK
<1> QED BY <1>1, <1>2, <1>3, PTL DEF Spec

-----------------------------------------------------------------------------
(* What is loaded. *)

\* Sums that the checksum lets pass.
LEMMA Passes ==
  ASSUME NEW c \in Word, NEW s \in Word, NEW x \in Nat,
         (((c + s + x) % WORD_MOD) + 1) % WORD_MOD = 0
  PROVE  /\ x = 0 => s = Complement(c)
         /\ c = Complement(s) /\ x < WORD_MOD => x = 0
<1> DEFINE m == WORD_MOD
<1>1. m \in Nat \ {0, 1} /\ c \in Nat /\ s \in Nat /\ c < m /\ s < m
  BY Sizes
<1>2. c + s + x \in Nat /\ (c + s + x) + 1 = c + s + x + 1
  BY <1>1
<1>3. (c + s + x + 1) % m = 0
  <2>1. (((c + s + x) % m) + 1) % m = ((c + s + x) + 1) % m
    BY <1>2, ModAdd
  <2> QED BY <1>2, <2>1
<1>4. Complement(c) = m - 1 - c /\ Complement(s) = m - 1 - s
  BY DEF Complement
<1> HIDE DEF m
<1>5. ASSUME NEW y \in Nat, y % m = 0, 0 < y, y < 2 * m PROVE y = m
  <2>1. y \div m \in Nat /\ y = m * (y \div m)
    BY <1>1, <1>5
  <2> DEFINE q == y \div m
  <2>2. q \in Nat /\ y = m * q
    BY <2>1
  <2> HIDE DEF q
  <2>3. q # 0
    BY <1>1, <1>5, <2>2
  <2>4. q < 2
    <3> SUFFICES ASSUME q - 2 \in Nat PROVE FALSE
      BY <2>2
    <3>1. m * (q - 2) \in Nat /\ m * (q - 2) = (m * q) - (2 * m) /\ m * q \in Nat
      BY <1>1, <2>2
    <3> QED BY <1>1, <1>5, <2>2, <3>1
  <2>5. q = 1
    BY <2>2, <2>3, <2>4
  <2> QED BY <1>1, <2>2, <2>5
<1>6. x = 0 => s = m - 1 - c
  <2> SUFFICES ASSUME x = 0 PROVE s = m - 1 - c
    OBVIOUS
  <2> DEFINE y == c + s + x + 1
  <2>1. y \in Nat /\ 0 < y /\ y < 2 * m
    BY <1>1
  <2>2. y = m
    <3> HIDE DEF y
    <3>1. y % m = 0
      BY <1>3 DEF y
    <3> QED BY <1>5, <2>1, <3>1
  <2> QED BY <1>1, <2>2
<1>7. c = m - 1 - s /\ x < m => x = 0
  <2> SUFFICES ASSUME c = m - 1 - s, x < m PROVE x = 0
    OBVIOUS
  <2> DEFINE y == c + s + x + 1
  <2>1. y \in Nat /\ y = m + x /\ 0 < y /\ y < 2 * m
    BY <1>1
  <2>2. y = m
    <3> HIDE DEF y
    <3>1. y % m = 0
      BY <1>3 DEF y
    <3> QED BY <1>5, <2>1, <3>1
  <2> QED BY <1>1, <2>1, <2>2
<1> QED BY <1>4, <1>6, <1>7 DEF m

\* What a load accepts is what the source offers: the checksum shows every fault
\* but a mangled base address.
LEMMA Accepted ==
  ASSUME JobInv, MaxFaults \in 0..WORD_MOD - 1, faults <= MaxFaults,
         LoadCheck, g_exe_size' # 0
  PROVE  ExeInRam' \in Taken
<1> DEFINE n == job.n - 4
           D == Sum(Data(n), n)
           m == WORD_MOD
<1>1. /\ pc = "load_data" /\ g_exe_size = 0 /\ job \in JobType /\ job.hdr.size \in Word
      /\ job.hdr.size \in Nat /\ job.hdr.base_addr \in Nat
      /\ g_exe_base = job.hdr.base_addr /\ n \in 0..job.hdr.size /\ faults \in Nat /\ m \in Nat \ {0, 1}
      /\ n > 0 => job.hdr.base_addr + n <= RAM_WORDS
  BY Sizes DEF LoadCheck, JobInv, LoadInv, LoadSide, Types, JobType, Headers
<1>2. /\ job.rc # 1 /\ (job.hdr.checksum + 1) % WORD_MOD = 0 /\ g_exe_size' = job.hdr.size
      /\ UNCHANGED g_exe_base
  BY <1>1 DEF LoadCheck
<1>3. n = job.hdr.size /\ n \in Nat \ {0} /\ job.rc = 0
  <2>1. job.rc = 0
    BY <1>1, <1>2 DEF JobType
  <2>2. ~(n < job.hdr.size)
    BY <1>1, <2>1 DEF LoadCheck, Loading
  <2> QED BY <1>1, <1>2, <2>1, <2>2
<1>4. PICK mangled \in 0..faults : Checked(mangled)
  BY <1>1, <1>3 DEF JobInv, LoadInv, DataSide
<1>5. /\ mangled \in Nat /\ mangled < m
      /\ (((Offered(3) + D + mangled) % WORD_MOD) + 1) % WORD_MOD = 0
      /\ Came(SIGNATURE, 0) /\ Came(g_exe_base, 1) /\ Came(n, 2)
      /\ job.dev # "uart" => mangled = 0
      /\ mangled = 0 => \A k \in 1..n : ram[g_exe_base + (k - 1)] = Offered(3 + k)
  BY <1>1, <1>2, <1>3, <1>4 DEF Checked
<1> HIDE DEF n
<1>6. ASSUME NEW data, data = [k \in 1..n |-> data[k]], mangled = 0,
             \A k \in 1..n : data[k] = Offered(3 + k)
      PROVE  ExeInRam' = [base |-> g_exe_base, data |-> data]
  <2> DEFINE words == [k \in 1..n |-> ram[g_exe_base + k - 1]]
  <2>1. ExeInRam' = [base |-> g_exe_base, data |-> words]
    <3>1. UNCHANGED <<g_exe_base, ram>> /\ g_exe_size' = n
      BY <1>2, <1>3 DEF LoadCheck
    <3> QED BY <3>1 DEF ExeInRam
  <2>2. ASSUME NEW k \in 1..n PROVE words[k] = data[k]
    <3>1. g_exe_base + k - 1 = g_exe_base + (k - 1)
      BY <1>1, <1>3
    <3>2. words[k] = ram[g_exe_base + (k - 1)]
      BY <3>1
    <3> QED BY <1>5, <1>6, <3>2
  <2>3. words = data
    BY <1>6, <2>2
  <2> QED BY <2>1, <2>3
<1>7. CASE job.dev \notin Flash
  <2>1. job.dev = "uart" \/ job.dev = "sd"
    BY <1>1, <1>7 DEF JobType, Device
  <2>2. File \in Images
    BY <1>1, <2>1, BootloaderAssumption DEF File, JobInv, LoadInv, LoadSide, Loads
  <2>3. \A i : Offered(i) = FileOf(File)[i + 1]
    BY <1>7 DEF Offered
  <2>4. /\ FileOf(File)[2] = File.base /\ FileOf(File)[3] = Len(File.data)
        /\ FileOf(File)[4] = Complement(Sum(File.data, Len(File.data)))
        /\ \A k \in 1..Len(File.data) : FileOf(File)[4 + k] = File.data[k] /\ File.data[k] \in Word
        /\ Len(FileOf(File)) = 4 + Len(File.data) /\ Len(File.data) \in Nat
        /\ File = [base |-> File.base, data |-> File.data] /\ File.data \in Seq(Word)
    BY <2>2, FileParts
  <2>10. Offered(1) = File.base /\ Offered(2) = Len(File.data) /\ Offered(3) = FileOf(File)[4]
    BY <2>3, <2>4
  <2>11. Len(File.data) = n
    <3> DEFINE l == Len(File.data)
    <3>1. l \in Nat /\ Offered(2) = l /\ l < m
      <4>1. l \in Word
        BY <2>2, BootloaderAssumption
      <4> QED BY <1>1, <2>4, <2>10, <4>1 DEF Word
    <3>2. job.dev = "uart" => n <= l
      <4> SUFFICES ASSUME job.dev = "uart" PROVE n <= l
        OBVIOUS
      <4>1. job.n <= Len(FileOf(upload)) /\ File = upload /\ job.n \in Nat
        BY <1>1 DEF JobInv, LoadInv, LoadSide, File, JobType
      <4> HIDE DEF l
      <4>2. job.n <= 4 + l
        BY <2>4, <4>1 DEF l
      <4> QED BY <3>1, <4>1, <4>2 DEF n
    <3>3. n = l \/ (job.dev = "uart" /\ n = (l + 1) % m)
      BY <1>5, <3>1 DEF Came, Mangled
    <3> HIDE DEF l, m
    <3>4. CASE job.dev = "uart" /\ n = (l + 1) % m
      <4>1. l + 1 < m \/ l + 1 = m
        BY <1>1, <3>1
      <4>2. CASE l + 1 < m
        <5>1. (l + 1) % m = l + 1
          BY <1>1, <3>1, <4>2
        <5> QED BY <1>3, <3>1, <3>2, <3>4, <5>1
      <4>3. CASE l + 1 = m
        <5>1. (l + 1) % m = 0
          BY <1>1, <4>3
        <5> QED BY <1>3, <3>4, <5>1
      <4> QED BY <4>1, <4>2, <4>3
    <3> QED BY <3>3, <3>4 DEF l
  <2>5. Offered(3) = Complement(Sum(File.data, n))
    BY <2>4, <2>10, <2>11
  <2>6. \A k \in 1..n : File.data[k] = Offered(3 + k) /\ File.data[k] \in Word
    <3> SUFFICES ASSUME NEW k \in 1..n PROVE File.data[k] = Offered(3 + k) /\ File.data[k] \in Word
      OBVIOUS
    <3>1. (3 + k) + 1 = 4 + k
      BY <1>3
    <3> QED BY <2>3, <2>4, <2>11, <3>1
  <2>7. D = Sum(File.data, n) /\ D \in Word
    <3>1. \A k \in 1..n : Data(n)[k] = File.data[k] /\ Data(n)[k] \in Nat
      BY <2>6, Sizes DEF Data
    <3> QED BY <1>3, <3>1, SumSame
  <2>8. Offered(3) \in Word /\ Offered(3) = Complement(D)
    BY <2>5, <2>7, ComplementWord
  <2> HIDE DEF D
  <2>9. mangled = 0
    BY <1>5, <2>7, <2>8, Passes
  <2>12. File.data = [k \in 1..n |-> File.data[k]]
    BY <2>4, <2>11
  <2>13. ExeInRam' = [base |-> g_exe_base, data |-> File.data]
    BY <1>6, <2>6, <2>9, <2>12
  <2>14. File = Source
    BY <1>7, <2>1 DEF File, Source
  <2>15. CASE g_exe_base = File.base
    BY <2>4, <2>13, <2>14, <2>15 DEF Taken
  <2>16. CASE g_exe_base # File.base
    <3>1. job.dev = "uart" /\ misplaced /\ g_exe_base = Mangled(File.base)
      BY <1>5, <2>10, <2>16 DEF Came
    <3>2. Elsewhere(File) = [base |-> Mangled(File.base), data |-> File.data]
      BY <2>4 DEF Elsewhere
    <3>3. File = upload
      BY <3>1 DEF File
    <3> QED BY <2>13, <3>1, <3>2, <3>3 DEF Taken
  <2> QED BY <2>15, <2>16
<1>8. CASE job.dev \in Flash
  <2> DEFINE content == media[job.dev]
             data == [k \in 1..n |-> content[(BIN_OFFSET_DATA + k - 1) % FLASH_WORDS]]
  <2>1. mangled = 0
    BY <1>5, <1>8 DEF Flash
  <2>2. content \in [0..FLASH_WORDS - 1 -> Word] /\ \A i : Offered(i) = content[i % FLASH_WORDS]
    BY <1>8 DEF JobInv, LoadInv, Types, Offered
  <2>3. /\ Offered(0) = content[0] /\ Offered(1) = content[1] /\ Offered(2) = content[2] /\ Offered(3) = content[3]
        /\ content[3] \in Word
    <3>1. FLASH_WORDS \in Nat \ 0..3
      BY BootloaderAssumption
    <3>2. 0 % FLASH_WORDS = 0 /\ 1 % FLASH_WORDS = 1 /\ 2 % FLASH_WORDS = 2 /\ 3 % FLASH_WORDS = 3
      BY <3>1
    <3>3. 3 \in 0..FLASH_WORDS - 1
      BY <3>1
    <3> HIDE DEF content
    <3> QED BY <2>2, <3>2, <3>3
  <2>4. \A k \in 1..n : data[k] = Offered(3 + k) /\ data[k] \in Word
    <3> SUFFICES ASSUME NEW k \in 1..n PROVE data[k] = Offered(3 + k) /\ data[k] \in Word
      OBVIOUS
    <3> DEFINE a == (3 + k) % FLASH_WORDS
    <3>1. BIN_OFFSET_DATA + k - 1 = 3 + k /\ a \in 0..FLASH_WORDS - 1
      BY <1>3, BootloaderAssumption DEF BIN_OFFSET_DATA
    <3>2. data[k] = content[a]
      BY <3>1
    <3> HIDE DEF content, data
    <3>3. Offered(3 + k) = content[a]
      BY <2>2
    <3> HIDE DEF a
    <3> QED BY <2>2, <3>1, <3>2, <3>3
  <2> HIDE DEF content
  <2>5. D = Sum(data, n) /\ D \in Word
    <3>1. \A k \in 1..n : Data(n)[k] = data[k] /\ Data(n)[k] \in Nat
      <4> HIDE DEF data
      <4> QED BY <2>4, Sizes DEF Data
    <3> HIDE DEF data
    <3> QED BY <1>3, <3>1, SumSame
  <2>6. D = Complement(content[3])
    <3> HIDE DEF D
    <3> QED BY <1>5, <2>1, <2>3, <2>5, Passes
  <2>7. Held(content) = [base |-> g_exe_base, data |-> data]
    <3>1. content[2] = n /\ content[1] = g_exe_base /\ content[0] = SIGNATURE
      BY <1>5, <1>8, <2>3 DEF Came, Flash
    <3>2. n > 0 /\ g_exe_base + n <= RAM_WORDS
      BY <1>1, <1>3
    <3> QED BY <2>5, <2>6, <3>1, <3>2 DEF Held
  <2>8. data = [k \in 1..n |-> data[k]]
    OBVIOUS
  <2>9. Source = Held(content)
    BY <1>8 DEF Source, content
  <2> HIDE DEF data
  <2>10. ExeInRam' = [base |-> g_exe_base, data |-> data]
    BY <1>6, <2>1, <2>4, <2>8
  <2> QED BY <2>7, <2>9, <2>10 DEF Taken
<1> QED BY <1>7, <1>8

\* Every step that changes the globals of the executable without a check makes
\* the size zero; the memory changes only while it is zero.
LEMMA Keeps ==
  ASSUME JobInv, [Next]_vars
  PROVE  \/ g_exe_size' = 0
         \/ UNCHANGED <<g_exe_base, g_exe_size, ram>>
         \/ LoadCheck /\ UNCHANGED ram
<1>1. CASE Simple
  BY <1>1, SimpleMoves DEF JobInv, LoadInv
<1>2. CASE LoadHead \/ LoadData \/ LoadCheck
  <2>1. LoadCheck => UNCHANGED ram
    BY DEF LoadCheck
  <2>2. LoadHead \/ LoadData => g_exe_size' = 0
    BY DEF LoadHead, LoadData, JobInv, LoadInv, LoadSide
  <2> QED BY <1>2, <2>1, <2>2
<1>3. CASE StoreSetup \/ StoreAnswer \/ StoreErase \/ StoreData \/ StoreRewind \/ StoreHead
  BY <1>3 DEF StoreSetup, StoreAnswer, StoreErase, StoreData, StoreRewind, StoreHead, globals
<1>4. CASE FlashHangs \/ PowerLoss
  BY <1>4, BreakJob
<1>5. CASE UNCHANGED vars
  BY <1>5 DEF vars, globals
<1> QED BY <1>1, <1>2, <1>3, <1>4, <1>5, Steps

LEMMA BoundsAndBoots ==
  ASSUME JobInv, faults <= MaxFaults, MaxFaults \in Nat, [Next]_vars
  PROVE  /\ faults' <= MaxFaults
         /\ pc' = "booted" => UNCHANGED vars \/ asked' \/ g_exe_size' # 0
<1>1. faults \in Nat
  BY DEF JobInv, LoadInv, Types
<1>2. faults' <= MaxFaults
  <2>1. faults' = faults \/ (faults < MaxFaults /\ faults' = faults + 1)
    <3>1. CASE Simple
      BY <3>1 DEF Simple, Timeout, KeyPress, LoadSetup, SetupFails, Boot, BootAnswer, CmdUpload, CmdLoad,
                  CmdStore, CmdExecute, CmdRestart, Reset, Startup, counts
    <3>2. CASE LoadHead \/ LoadData
      BY <3>2 DEF LoadHead, LoadData, StreamGet
    <3>3. CASE LoadCheck \/ StoreAnswer \/ StoreErase \/ StoreRewind \/ PowerLoss
      BY <3>3 DEF LoadCheck, StoreAnswer, StoreErase, StoreRewind, PowerLoss, Startup, counts
    <3>4. CASE StoreSetup \/ StoreData \/ StoreHead \/ FlashHangs
      BY <3>4 DEF StoreSetup, SetupFails, StoreData, StoreHead, StreamPut, FlashHangs
    <3>5. CASE UNCHANGED vars
      BY <3>5 DEF vars, counts
    <3> QED BY <3>1, <3>2, <3>3, <3>4, <3>5, Steps
  <2> QED BY <1>1, <2>1
<1>3. pc' = "booted" => UNCHANGED vars \/ asked' \/ g_exe_size' # 0
  <2>1. CASE Boot
    BY <2>1 DEF Boot, Goto, globals
  <2>2. CASE BootAnswer
    <3>1. CASE NextSource
      BY <3>1, NextSourceRests DEF Resting, JobInv, LoadInv, Types
    <3> QED BY <2>2, <3>1 DEF BootAnswer
  <2>3. CASE LoadSetup
    <3>1. CASE LoadFails
      BY <3>1, LoadFailsRests DEF Resting, JobInv, LoadInv, Types
    <3> QED BY <2>3, <3>1 DEF LoadSetup, Goto
  <2>4. CASE Timeout \/ KeyPress \/ CmdUpload \/ CmdLoad \/ CmdStore \/ CmdExecute \/ CmdRestart \/ Reset
    BY <2>4 DEF Timeout, KeyPress, CmdUpload, CmdLoad, CmdStore, CmdExecute, CmdRestart, Reset, Startup,
                BeginLoad, Console, Goto
  <2>5. CASE LoadHead \/ LoadData \/ LoadCheck
    BY <2>5, LoadMoves DEF JobInv, LoadInv, Types
  <2>6. CASE StoreSetup \/ StoreAnswer \/ StoreErase \/ StoreData \/ StoreRewind \/ StoreHead
    BY <2>6 DEF StoreSetup, StoreAnswer, StoreErase, StoreData, StoreRewind, StoreHead, StoreEnds, Console, Goto
  <2>7. CASE FlashHangs \/ PowerLoss
    BY <2>7, BreakJob
  <2>8. CASE UNCHANGED vars
    BY <2>8
  <2> QED BY <2>1, <2>2, <2>3, <2>4, <2>5, <2>6, <2>7, <2>8, Steps DEF Simple
<1> QED BY <1>2, <1>3

\* What a load takes for an executable is what the source holds or sends, whole
\* (system_app_load), whichever device fails and whatever the UART mangles, as
\* long as fewer words are mangled than a checksum tells apart; an upload whose
\* base address was mangled lies elsewhere.  Nothing else changes it, and nothing
\* else is started without a question (system_app_boot).
THEOREM LoadsTheSource == MaxFaults \in 0..WORD_MOD - 1 => (Spec => LoadsWhole)
<1> SUFFICES ASSUME MaxFaults \in 0..WORD_MOD - 1 PROVE Spec => LoadsWhole
  OBVIOUS
<1>1. MaxFaults \in Nat
  BY Sizes
<1>2. Init => LoadsInv
  <2> SUFFICES ASSUME Init PROVE LoadsInv
    OBVIOUS
  <2>1. faults = 0
    BY DEF Init
  <2> QED BY <1>1, <2>1, JobInit DEF LoadsInv
<1>3. LoadsInv /\ [Next]_vars => LoadsInv'
  BY <1>1, JobStep, BoundsAndBoots DEF LoadsInv
<1>4. LoadsInv /\ [Next]_vars => [TakesWhole]_vars
  <2> SUFFICES ASSUME LoadsInv, [Next]_vars, ~UNCHANGED vars PROVE TakesWhole
    OBVIOUS
  <2>1. pc' = "booted" => asked' \/ g_exe_size' # 0
    BY <1>1, BoundsAndBoots DEF LoadsInv
  <2>2. CASE LoadCheck /\ g_exe_size' # 0
    <3>1. ExeInRam' \in Taken
      BY <2>2, Accepted DEF LoadsInv
    <3>2. pc = "load_data" /\ ~Loading
      BY <2>2 DEF LoadCheck
    <3> QED BY <2>1, <3>1, <3>2 DEF TakesWhole
  <2>3. CASE g_exe_size' = 0 \/ UNCHANGED <<g_exe_base, g_exe_size, ram>>
    BY <2>1, <2>3 DEF TakesWhole
  <2> QED BY <2>2, <2>3, Keeps DEF LoadsInv
<1> QED BY <1>2, <1>3, <1>4, PTL DEF Spec, LoadsWhole
=============================================================================
