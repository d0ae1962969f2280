---------------------------- MODULE GemmSoc_proofs ----------------------------
(* How the driver and the accelerator stay in step over the pipelined IO     *)
(* bus, what the accelerator writes, and that gemmrv_mult returns the        *)
(* product, for any tile size, word size, matrices, memory, pauses of the    *)
(* program, accesses of other masters and resets.                            *)
EXTENDS GemmSoc, WellFoundedInduction, TLAPS

-----------------------------------------------------------------------------
(* Induction over the naturals with a set in place of a predicate, which is  *)
(* how the provers can use it, and the recursion it justifies: what a sum    *)
(* and a power are.                                                          *)

\* A set with 0 and with the successor of each of its numbers has them all.
LEMMA NatSetInduction ==
  ASSUME NEW T, 0 \in T, \A j \in Nat : j \in T => j + 1 \in T
  PROVE  \A j \in Nat : j \in T
<1> DEFINE R == OpToRel(<, Nat)
           U == {j \in Nat : j \notin T}
<1>1. SUFFICES ASSUME U # {} PROVE FALSE
  OBVIOUS
<1>2. \E x \in U : \A y \in U : <<y, x>> \notin R
  <2>1. IsWellFoundedOn(R, Nat) /\ U \subseteq Nat
    BY NatLessThanWellFounded
  <2> HIDE DEF R, U
  <2> QED BY <1>1, <2>1, WFMin
<1>3. PICK x \in U : \A y \in U : <<y, x>> \notin R
  BY <1>2
<1>4. x \in Nat /\ x \notin T /\ x # 0
  BY <1>3
<1>5. x - 1 \in Nat /\ (x - 1) + 1 = x
  BY <1>4
<1>6. x - 1 \in U
  BY <1>4, <1>5
<1>7. <<x - 1, x>> \in R
  BY <1>4, <1>5 DEF OpToRel
<1> QED BY <1>3, <1>6, <1>7

\* The first j + 1 values of the sequence that starts with v and goes on by G.
Start(V, v, G, j) ==
  {g \in [0..j -> V] : g[0] = v /\ \A i \in 0..j - 1 : g[i + 1] = G[<<i, g[i]>>]}

LEMMA StartUnique ==
  ASSUME NEW V, NEW v, NEW G, NEW j \in Nat, NEW p \in Nat, j <= p,
         NEW g \in Start(V, v, G, j), NEW h \in Start(V, v, G, p)
  PROVE  \A i \in 0..j : g[i] = h[i]
<1> DEFINE T == {i \in Nat : i <= j => g[i] = h[i]}
<1>1. 0 \in T
  BY DEF Start
<1>2. ASSUME NEW i \in Nat, i \in T, i + 1 <= j
      PROVE  g[i + 1] = h[i + 1]
  <2>1. i \in 0..j - 1 /\ i \in 0..p - 1 /\ g[i] = h[i]
    BY <1>2
  <2> QED BY <2>1 DEF Start
<1>3. \A i \in Nat : i \in T => i + 1 \in T
  BY <1>2
<1>4. \A i \in Nat : i \in T
  <2> HIDE DEF T
  <2> QED BY <1>1, <1>3, NatSetInduction
<1> QED BY <1>4

LEMMA StartExists ==
  ASSUME NEW V, NEW v \in V, NEW G \in [Nat \X V -> V]
  PROVE  \A j \in Nat : Start(V, v, G, j) # {}
<1> DEFINE T == {j \in Nat : Start(V, v, G, j) # {}}
<1>1. 0 \in T
  <2>1. [i \in 0..0 |-> v] \in Start(V, v, G, 0)
    BY DEF Start
  <2> QED BY <2>1
<1>2. ASSUME NEW j \in Nat, j \in T
      PROVE  j + 1 \in T
  <2>1. PICK g \in Start(V, v, G, j) : TRUE
    BY <1>2
  <2>2. g \in [0..j -> V] /\ g[0] = v /\ \A i \in 0..j - 1 : g[i + 1] = G[<<i, g[i]>>]
    BY <2>1 DEF Start
  <2> DEFINE w == G[<<j, g[j]>>]
             h == [i \in 0..j + 1 |-> IF i = j + 1 THEN w ELSE g[i]]
  <2>3. w \in V
    BY <2>2
  <2>4. h \in [0..j + 1 -> V] /\ h[0] = v /\ h[j + 1] = w /\ \A i \in 0..j : h[i] = g[i]
    <3> HIDE DEF w
    <3> QED BY <2>2, <2>3
  <2>5. ASSUME NEW i \in 0..(j + 1) - 1
        PROVE  h[i + 1] = G[<<i, h[i]>>]
    <3> HIDE DEF h
    <3>1. CASE i = j
      BY <2>4, <3>1
    <3>2. CASE i # j
      <4>1. i \in 0..j - 1 /\ i \in 0..j /\ i + 1 \in 0..j
        BY <3>2
      <4> QED BY <2>2, <2>4, <4>1
    <3> QED BY <3>1, <3>2
  <2>6. h \in Start(V, v, G, j + 1)
    <3> HIDE DEF h
    <3> QED BY <2>4, <2>5 DEF Start
  <2> QED BY <2>6
<1>3. \A j \in Nat : j \in T
  <2> HIDE DEF T
  <2> QED BY <1>1, <1>2, NatSetInduction
<1> QED BY <1>3

\* There is a whole one.
HasSequence(V, v, G) ==
  \E S \in [Nat -> V] : S[0] = v /\ \A j \in Nat : S[j + 1] = G[<<j, S[j]>>]

LEMMA Recursion ==
  ASSUME NEW V, NEW v \in V, NEW G \in [Nat \X V -> V]
  PROVE  HasSequence(V, v, G)
<1> DEFINE c(j) == CHOOSE g \in Start(V, v, G, j) : TRUE
           S == [j \in Nat |-> c(j)[j]]
<1>1. \A j \in Nat : c(j) \in Start(V, v, G, j)
  BY StartExists
<1> HIDE DEF c
<1>2. S \in [Nat -> V]
  <2>1. \A j \in Nat : c(j)[j] \in V
    BY <1>1 DEF Start
  <2> QED BY <2>1
<1>3. S[0] = v
  BY <1>1 DEF Start
<1>4. ASSUME NEW j \in Nat
      PROVE  S[j + 1] = G[<<j, S[j]>>]
  <2>1. c(j) \in Start(V, v, G, j) /\ c(j + 1) \in Start(V, v, G, j + 1)
    BY <1>1
  <2>2. c(j)[j] = c(j + 1)[j]
    <3>1. j <= j + 1 /\ j \in 0..j
      OBVIOUS
    <3> QED BY <2>1, <3>1, StartUnique
  <2>3. j \in 0..(j + 1) - 1
    OBVIOUS
  <2>4. c(j + 1)[j + 1] = G[<<j, c(j + 1)[j]>>]
    BY <2>1, <2>3 DEF Start
  <2> QED BY <2>2, <2>4
<1> QED BY <1>2, <1>3, <1>4 DEF HasSequence

\* A sum is 0 over nothing and grows by its next term.
LEMMA SumDef ==
  ASSUME NEW f, NEW j \in Nat, \A i \in 0..j - 1 : f[i] \in Int
  PROVE  /\ SumOf(f, 0) = 0
         /\ \A i \in 0..j : SumOf(f, i) \in Int
         /\ \A i \in 0..j - 1 : SumOf(f, i + 1) = SumOf(f, i) + f[i]
<1> DEFINE h(i) == IF i < j THEN f[i] ELSE 0
           G == [x \in Nat \X Int |-> x[2] + h(x[1])]
           Is(S, p) == S = [i \in 0..p |-> IF i = 0 THEN 0 ELSE S[i - 1] + f[i - 1]]
<1>1. \A i \in Nat : h(i) \in Int
  OBVIOUS
<1>2. G \in [Nat \X Int -> Int] /\ \A i \in Nat, s \in Int : G[<<i, s>>] = s + h(i)
  <2> HIDE DEF h
  <2> QED BY <1>1
<1>3. PICK Q \in [Nat -> Int] : Q[0] = 0 /\ \A i \in Nat : Q[i + 1] = G[<<i, Q[i]>>]
  <2> HIDE DEF G
  <2>1. G \in [Nat \X Int -> Int] /\ 0 \in Int
    BY <1>2
  <2>2. HasSequence(Int, 0, G)
    BY <2>1, Recursion
  <2> QED BY <2>2 DEF HasSequence
<1>4. \A i \in 0..j - 1 : Q[i + 1] = Q[i] + f[i]
  <2> HIDE DEF G
  <2> SUFFICES ASSUME NEW i \in 0..j - 1 PROVE Q[i + 1] = Q[i] + f[i]
    OBVIOUS
  <2>1. i \in Nat /\ h(i) = f[i] /\ Q[i] \in Int
    BY <1>3
  <2> HIDE DEF h
  <2> QED BY <1>2, <1>3, <2>1
<1> HIDE DEF G, h
<1>5. ASSUME NEW p \in 0..j
      PROVE  SumOf(f, p) = Q[p]
  <2> DEFINE S0 == [i \in 0..p |-> Q[i]]
             C == CHOOSE S : Is(S, p)
  <2>1. Is(S0, p)
    <3>1. \A i \in 0..p : S0[i] = IF i = 0 THEN 0 ELSE S0[i - 1] + f[i - 1]
      <4> SUFFICES ASSUME NEW i \in 0..p, i # 0 PROVE Q[i] = Q[i - 1] + f[i - 1]
        BY <1>3
      <4>1. i - 1 \in 0..j - 1 /\ (i - 1) + 1 = i
        OBVIOUS
      <4> QED BY <1>4, <4>1
    <3> QED BY <3>1
  <2>2. Is(C, p)
    <3> HIDE DEF Is, S0
    <3> QED BY <2>1
  <2>3. \A i \in 0..p : C[i] = IF i = 0 THEN 0 ELSE C[i - 1] + f[i - 1]
    <3> HIDE DEF C
    <3> QED BY <2>2
  <2> HIDE DEF C
  <2> DEFINE T == {i \in Nat : i <= p => C[i] = Q[i]}
  <2>4. 0 \in T
    BY <1>3, <2>3
  <2>5. ASSUME NEW i \in Nat, i \in T PROVE i + 1 \in T
    <3>1. ASSUME i + 1 <= p PROVE C[i + 1] = Q[i + 1]
      <4>1. i \in 0..j - 1 /\ i + 1 \in 0..p /\ i + 1 # 0 /\ (i + 1) - 1 = i /\ C[i] = Q[i]
        BY <2>5, <3>1
      <4> QED BY <1>4, <2>3, <4>1
    <3> QED BY <3>1
  <2>6. \A i \in Nat : i \in T
    <3> HIDE DEF T
    <3> QED BY <2>4, <2>5, NatSetInduction
  <2>7. C[p] = Q[p]
    BY <2>6
  <2>8. SumOf(f, p) = C[p]
    BY DEF SumOf, C
  <2> QED BY <2>7, <2>8
<1>6. \A i \in 0..j - 1 : i \in 0..j /\ i + 1 \in 0..j /\ i \in Nat
  OBVIOUS
<1>7. 0 \in 0..j /\ \A i \in 0..j : Q[i] \in Int
  BY <1>3
<1> QED BY <1>3, <1>4, <1>5, <1>6, <1>7

\* A power is 1 at first and grows by a factor of its base.
LEMMA PowerDef ==
  ASSUME NEW base \in Nat \ {0}
  PROVE  /\ Power(base) \in [Nat -> Nat \ {0}]
         /\ Power(base)[0] = 1
         /\ \A j \in Nat : Power(base)[j + 1] = Power(base)[j] * base
<1> DEFINE V == Nat \ {0}
           G == [x \in Nat \X V |-> x[2] * base]
           Is(S) == S = [j \in Nat |-> IF j = 0 THEN 1 ELSE S[j - 1] * base]
<1>1. G \in [Nat \X V -> V] /\ \A j \in Nat, s \in V : G[<<j, s>>] = s * base
  <2>1. \A s \in V : s * base \in V
    OBVIOUS
  <2> QED BY <2>1
<1>2. PICK S \in [Nat -> V] : S[0] = 1 /\ \A j \in Nat : S[j + 1] = G[<<j, S[j]>>]
  <2>0. 1 \in V
    OBVIOUS
  <2> HIDE DEF G, V
  <2>1. HasSequence(V, 1, G)
    BY <1>1, <2>0, Recursion
  <2> QED BY <2>1 DEF HasSequence
<1>3. \A j \in Nat : S[j + 1] = S[j] * base
  <2> HIDE DEF G
  <2> QED BY <1>1, <1>2
<1>4. \A j \in Nat : S[j] = IF j = 0 THEN 1 ELSE S[j - 1] * base
  <2> SUFFICES ASSUME NEW j \in Nat, j # 0 PROVE S[j] = S[j - 1] * base
    BY <1>2
  <2>1. j - 1 \in Nat /\ (j - 1) + 1 = j
    OBVIOUS
  <2> QED BY <1>3, <2>1
<1>5. Is(S)
  BY <1>2, <1>4
<1>6. Is(Power(base))
  <2>1. Power(base) = CHOOSE Q : Is(Q)
    BY DEF Power
  <2> HIDE DEF Is
  <2> QED BY <1>5, <2>1
<1> DEFINE s == Power(base)
<1>7. \A j \in Nat : s[j] = IF j = 0 THEN 1 ELSE s[j - 1] * base
  <2> HIDE DEF s
  <2>1. Is(s)
    BY <1>6 DEF s
  <2> QED BY <2>1
<1>8. \A j \in Nat : s[j + 1] = s[j] * base
  <2> HIDE DEF s
  <2> SUFFICES ASSUME NEW j \in Nat PROVE s[j + 1] = s[j] * base
    OBVIOUS
  <2>1. j + 1 \in Nat /\ j + 1 # 0 /\ (j + 1) - 1 = j
    OBVIOUS
  <2> QED BY <1>7, <2>1
<1>9. \A j \in Nat : s[j] \in V
  <2> DEFINE T == {j \in Nat : s[j] \in V}
  <2>1. 0 \in T
    BY <1>7
  <2>2. ASSUME NEW j \in Nat, j \in T PROVE j + 1 \in T
    <3>1. s[j] \in V /\ s[j + 1] = s[j] * base
      BY <1>8, <2>2
    <3> HIDE DEF s
    <3>2. s[j] * base \in V
      BY <3>1
    <3> QED BY <3>1, <3>2
  <2>3. \A j \in Nat : j \in T
    <3> HIDE DEF T
    <3> QED BY <2>1, <2>2, NatSetInduction
  <2> QED BY <2>3
<1>10. s = [j \in Nat |-> s[j]]
  <2> HIDE DEF s
  <2>1. Is(s)
    BY <1>6 DEF s
  <2> QED BY <2>1
<1> QED BY <1>7, <1>8, <1>9, <1>10

-----------------------------------------------------------------------------
(* The driver's accesses on their way. *)

\* Access i of the script was performed for this tile.
Performed(i) == i < pc \/ (i = pc /\ (cfs_rsp.ack = 1 \/ dev_rsp.ack = 1))

DriverSide ==
  /\ job \in Jobs /\ pc \in 0..11 /\ io_busy \in BOOLEAN
  /\ m \in Nat /\ n \in Nat /\ k \in Nat
  /\ pc # 0 => m < DimM /\ n < DimN /\ k < DimK
  /\ resets \in Nat

\* An access is at one station: at the CPU, behind the register stage, or its
\* answer before or behind that.
IoSide ==
  /\ DOMAIN io_req = {"adr", "data", "rw", "stb"} /\ DOMAIN dev_req = {"adr", "data", "rw", "stb"}
  /\ io_req.stb \in Bit /\ dev_req.stb \in Bit /\ cfs_rsp.ack \in Bit /\ dev_rsp.ack \in Bit
  /\ io_req.stb + dev_req.stb + cfs_rsp.ack + dev_rsp.ack = BitOf(io_busy)
  /\ io_busy => pc # 0
  /\ io_req.stb = 1 => io_req = TileScript[pc]
  /\ dev_req.stb = 1 => dev_req = TileScript[pc]

\* The registers hold what the driver computed for this tile.
RegSide ==
  /\ cmd = [start |-> cmd.start, clear |-> cmd.clear, store |-> cmd.store]
  /\ reg = [base_a |-> reg.base_a, base_b |-> reg.base_b, base_c |-> reg.base_c,
            stride_a |-> reg.stride_a, stride_b |-> reg.stride_b, stride_c |-> reg.stride_c,
            bounds |-> reg.bounds]
  /\ Performed(1) => reg.base_a = TileScript[1].data % AddrMod
  /\ Performed(2) => reg.base_b = TileScript[2].data % AddrMod
  /\ Performed(3) => reg.base_c = TileScript[3].data % AddrMod
  /\ Performed(4) => reg.stride_a = TileScript[4].data % STRIDE_MOD
  /\ Performed(5) => reg.stride_b = TileScript[5].data % STRIDE_MOD
  /\ Performed(6) => reg.stride_c = TileScript[6].data % STRIDE_MOD
  /\ Performed(7) => reg.bounds = TileScript[7].data
  /\ Performed(8) /\ ~Performed(10) =>
       (cmd.clear = 1 <=> k = 0) /\ (cmd.store = 1 <=> k + TILE >= DimK)

\* The engine works from the start write to the end of the first poll, and is
\* idle again when the write that clears start has been answered.
Starting == pc = 8 /\ cfs_rsp.ack = 1
Clearing == pc = 10 /\ cfs_rsp.ack = 1
EngineSide ==
  /\ state \in state_t /\ status_done \in Bit /\ cmd.start \in Bit
  /\ status_done = 1 => state = "S_DONE"
  /\ cmd.start = 1 <=> Performed(8) /\ ~Performed(10)
  /\ state # "S_IDLE" => Performed(8) /\ (Performed(10) => Clearing)
  /\ state = "S_IDLE" => ~Performed(8) \/ Starting \/ (Performed(10) /\ ~Clearing)
  /\ pc \in {10, 11} /\ state # "S_IDLE" => state = "S_DONE"
  /\ pc = 9 /\ cfs_rsp.ack = 1 /\ (cfs_rsp.data \div 4) % 2 = 1 => state = "S_DONE"
  /\ pc = 9 /\ dev_rsp.ack = 1 /\ (dev_rsp.data \div 4) % 2 = 1 => state = "S_DONE"

StepInv == DriverSide /\ IoSide /\ RegSide /\ EngineSide

-----------------------------------------------------------------------------
(* The script. *)

LEMMA Script ==
  /\ Len(TileScript) = 11
  /\ TileScript[1].adr = 0 /\ TileScript[2].adr = 1 /\ TileScript[3].adr = 2
  /\ TileScript[4].adr = 3 /\ TileScript[5].adr = 4 /\ TileScript[6].adr = 5
  /\ TileScript[7].adr = 7
  /\ \A i \in 1..7 : TileScript[i].rw = 1
  /\ \A i \in 1..11 : TileScript[i] = [adr |-> TileScript[i].adr, data |-> TileScript[i].data,
                                       rw |-> TileScript[i].rw, stb |-> 1]
  /\ TileScript[8] = Access(6, 1 + (IF k = 0 THEN 2 ELSE 0) + (IF k + TILE >= DimK THEN 4 ELSE 0), 1)
  /\ TileScript[9] = Access(6, 1, 0)
  /\ TileScript[10] = Access(6, 0, 1)
  /\ TileScript[11] = Access(6, 0, 0)
<1>1. \A i \in 1..11 : i \in {1, 2, 3, 4, 5, 6, 7, 8, 9, 10, 11}
  OBVIOUS
<1> QED BY <1>1 DEF TileScript, Access

LEMMA ScriptKept ==
  ASSUME UNCHANGED <<job, m, n, k>>
  PROVE  TileScript' = TileScript
  BY DEF TileScript, Access, TileExtent, DimM, DimN, DimK

-----------------------------------------------------------------------------
(* One clock edge of driver, register stage and register file. *)

Kept == UNCHANGED <<reg, cmd>>

\* The access goes on by one station, or there is none.
Onward ==
  /\ UNCHANGED <<job, m, n, k, pc>> /\ Kept
  /\ dev_req.stb = 0 /\ cfs_rsp'.ack = 0
  /\ \/ dev_rsp'.ack = 0 /\ cfs_rsp.ack = 0 /\ dev_rsp.ack = 0
     \/ dev_rsp'.ack = 1 /\ cfs_rsp.ack = 1 /\ dev_rsp.ack = 0 /\ dev_rsp'.data = cfs_rsp.data /\ pc # 0

\* The register file performs it.
Performs ==
  /\ UNCHANGED <<job, m, n, k, pc>> /\ pc \in 1..11
  /\ dev_req = TileScript[pc] /\ (WriteReg(dev_req) \/ ReadReg(dev_req))
  /\ cfs_rsp'.ack = 1 /\ cfs_rsp.ack = 0 /\ dev_rsp.ack = 0 /\ dev_rsp'.ack = 0

\* The driver takes the answer.
Takes ==
  /\ UNCHANGED job /\ Kept /\ pc \in 1..11
  /\ dev_rsp.ack = 1 /\ cfs_rsp.ack = 0 /\ dev_rsp'.ack = 0 /\ cfs_rsp'.ack = 0
  /\ \/ DriverPollAgain(dev_rsp) \/ DriverAdvance(dev_rsp)

LEMMA IoStep ==
  ASSUME DriverSide, IoSide, DriverTick(dev_rsp), BusRegTick(io_req, cfs_rsp), RegTick(dev_req)
  PROVE  Onward \/ Performs \/ Takes
<1>1. \/ io_req.stb = 0 /\ dev_req.stb = 0 /\ cfs_rsp.ack = 0 /\ dev_rsp.ack = 0 /\ ~io_busy
      \/ io_req.stb = 1 /\ dev_req.stb = 0 /\ cfs_rsp.ack = 0 /\ dev_rsp.ack = 0 /\ io_busy
      \/ io_req.stb = 0 /\ dev_req.stb = 1 /\ cfs_rsp.ack = 0 /\ dev_rsp.ack = 0 /\ io_busy
      \/ io_req.stb = 0 /\ dev_req.stb = 0 /\ cfs_rsp.ack = 1 /\ dev_rsp.ack = 0 /\ io_busy
      \/ io_req.stb = 0 /\ dev_req.stb = 0 /\ cfs_rsp.ack = 0 /\ dev_rsp.ack = 1 /\ io_busy
  BY DEF DriverSide, IoSide, BitOf, Bit
<1>2. dev_rsp' = cfs_rsp
  BY DEF BusRegTick
<1>3. CASE dev_req.stb = 0 /\ dev_rsp.ack = 0
  <2>1. UNCHANGED <<job, m, n, k, pc>>
    BY <1>3 DEF DriverTick, DriverAccess, DriverPause, DriverWait, DriverPollAgain, DriverAdvance, driverVars
  <2>2. Kept /\ cfs_rsp'.ack = 0
    BY <1>3 DEF RegTick, WriteReg, ReadReg, NoAccess, Kept
  <2> QED BY <1>1, <1>2, <1>3, <2>1, <2>2 DEF Onward, IoSide
<1>4. CASE dev_req.stb = 1
  <2>0. dev_rsp.ack = 0
    BY <1>1, <1>4
  <2>1. UNCHANGED <<job, m, n, k, pc>>
    BY <2>0 DEF DriverTick, DriverAccess, DriverPause, DriverWait, DriverPollAgain, DriverAdvance, driverVars
  <2>2. WriteReg(dev_req) \/ ReadReg(dev_req)
    BY <1>4 DEF RegTick, NoAccess
  <2>3. cfs_rsp'.ack = 1
    BY <2>2 DEF WriteReg, ReadReg
  <2>4. pc \in 1..11
    BY <1>1, <1>4 DEF IoSide, DriverSide
  <2> QED BY <1>1, <1>2, <1>4, <2>1, <2>2, <2>3, <2>4 DEF Performs, IoSide
<1>5. CASE dev_rsp.ack = 1
  <2>1. DriverPollAgain(dev_rsp) \/ DriverAdvance(dev_rsp)
    BY <1>1, <1>5 DEF DriverTick, DriverAccess, DriverPause, DriverWait
  <2>2. Kept /\ cfs_rsp'.ack = 0
    BY <1>1, <1>5 DEF RegTick, WriteReg, ReadReg, NoAccess, Kept
  <2>3. pc \in 1..11 /\ UNCHANGED job
    BY <1>1, <1>5, <2>1 DEF IoSide, DriverSide, DriverPollAgain, DriverAdvance
  <2> QED BY <1>1, <1>2, <1>5, <2>1, <2>2, <2>3 DEF Takes
<1> QED BY <1>1, <1>3, <1>4, <1>5

\* What that means for the accesses performed.
LEMMA PerformedOnward ==
  ASSUME Onward
  PROVE  \A i : Performed(i)' <=> Performed(i)
  BY DEF Onward, Performed

LEMMA PerformedNow ==
  ASSUME Performs
  PROVE  \A i \in 1..11 : (Performed(i) <=> i < pc) /\ (Performed(i)' <=> i < pc \/ i = pc)
  BY DEF Performs, Performed

\* The driver goes on to the next access, repeats a poll, or to the next tile.
LEMMA TakesStep ==
  ASSUME DriverSide, Takes
  PROVE  /\ \/ /\ UNCHANGED <<m, n, k>> /\ pc < 11 /\ pc' = pc + 1
               /\ TileScript[pc].rw = 0 => (dev_rsp.data \div 4) % 2 = TileScript[pc].data
            \/ /\ UNCHANGED <<m, n, k>> /\ pc \in {9, 11} /\ pc' = pc
               /\ (dev_rsp.data \div 4) % 2 # TileScript[pc].data
            \/ /\ pc = 11 /\ pc' \in {0, 1} /\ m' \in Nat /\ n' \in Nat /\ k' \in Nat
               /\ pc' # 0 => m' < DimM /\ n' < DimN /\ k' < DimK
         /\ io_busy' = FALSE /\ io_req' = [io_req EXCEPT !.stb = 0]
<1>1. pc \in 1..11 /\ pc # 0
  BY DEF Takes
<1>2. TileScript[pc].rw = 0 => pc \in {9, 11}
  BY <1>1, Script DEF Access
<1>3. CASE DriverPollAgain(dev_rsp)
  BY <1>1, <1>2, <1>3 DEF DriverPollAgain
<1>4. CASE DriverAdvance(dev_rsp) /\ pc < 11
  BY <1>1, <1>4, Script DEF DriverAdvance
<1>5. CASE DriverAdvance(dev_rsp) /\ pc = 11
  <2>1. NextTile /\ io_busy' = FALSE /\ io_req' = [io_req EXCEPT !.stb = 0]
    BY <1>5, Script DEF DriverAdvance
  <2>2. 0 < DimK /\ 0 < DimN /\ m < DimM /\ n < DimN /\ TILE \in Nat /\ m \in Nat /\ n \in Nat /\ k \in Nat
    <3>1. job \in Jobs
      BY DEF DriverSide
    <3>2. DimM \in Nat /\ DimN \in Nat /\ DimK \in Nat
      BY <3>1, JobsAssumption DEF DimM, DimN, DimK
    <3> QED BY <1>1, <3>2, LanesAssumption DEF DriverSide, TILE
  <2>3. /\ pc' \in {0, 1} /\ m' \in Nat /\ n' \in Nat /\ k' \in Nat
        /\ pc' # 0 => m' < DimM /\ n' < DimN /\ k' < DimK
    BY <2>1, <2>2 DEF NextTile
  <2> QED BY <1>5, <2>1, <2>3
<1>6. DriverPollAgain(dev_rsp) \/ (DriverAdvance(dev_rsp) /\ pc < 11) \/ (DriverAdvance(dev_rsp) /\ pc = 11)
  BY <1>1 DEF Takes
<1> QED BY <1>3, <1>4, <1>5, <1>6

LEMMA PerformedTakes ==
  ASSUME DriverSide, Takes
  PROVE  \A i \in 1..11 : (Performed(i) <=> i <= pc) /\ (Performed(i)' <=> i < pc')
  BY TakesStep DEF Takes, Performed

LEMMA DriverStep ==
  ASSUME DriverSide, Onward \/ Performs \/ Takes, UNCHANGED resets,
         DriverTick(dev_rsp)
  PROVE  DriverSide'
<1>1. job' = job /\ DimM' = DimM /\ DimN' = DimN /\ DimK' = DimK
  BY DEF Onward, Performs, Takes, DimM, DimN, DimK
<1>2. io_busy' \in BOOLEAN
  BY DEF DriverTick, DriverAccess, DriverPause, DriverWait, DriverPollAgain, DriverAdvance, driverVars, DriverSide
<1>3. CASE Onward \/ Performs
  BY <1>1, <1>2, <1>3 DEF DriverSide, Onward, Performs
<1>4. CASE Takes
  <2>1. pc \in 1..11
    BY <1>4 DEF Takes
  <2>2. pc' \in 0..11 /\ m' \in Nat /\ n' \in Nat /\ k' \in Nat
    <3>1. pc' \in 0..11
      BY <1>4, <2>1, TakesStep
    <3>2. CASE UNCHANGED <<m, n, k>>
      BY <3>1, <3>2 DEF DriverSide
    <3>3. CASE m' \in Nat /\ n' \in Nat /\ k' \in Nat
      BY <3>1, <3>3
    <3> QED BY <1>4, <3>2, <3>3, TakesStep
  <2>3. pc' # 0 => m' < DimM /\ n' < DimN /\ k' < DimK
    <3>1. CASE UNCHANGED <<m, n, k>>
      BY <2>1, <3>1 DEF DriverSide
    <3>2. CASE pc' # 0 => m' < DimM /\ n' < DimN /\ k' < DimK
      BY <3>2
    <3> QED BY <1>4, <3>1, <3>2, TakesStep
  <2> QED BY <1>1, <1>2, <2>2, <2>3 DEF DriverSide
<1> QED BY <1>3, <1>4

LEMMA IoSideStep ==
  ASSUME DriverSide, IoSide, DriverTick(dev_rsp), BusRegTick(io_req, cfs_rsp), RegTick(dev_req)
  PROVE  IoSide'
<1>1. \/ io_req.stb = 0 /\ dev_req.stb = 0 /\ cfs_rsp.ack = 0 /\ dev_rsp.ack = 0 /\ ~io_busy
      \/ io_req.stb = 1 /\ dev_req.stb = 0 /\ cfs_rsp.ack = 0 /\ dev_rsp.ack = 0 /\ io_busy
      \/ io_req.stb = 0 /\ dev_req.stb = 1 /\ cfs_rsp.ack = 0 /\ dev_rsp.ack = 0 /\ io_busy
      \/ io_req.stb = 0 /\ dev_req.stb = 0 /\ cfs_rsp.ack = 1 /\ dev_rsp.ack = 0 /\ io_busy
      \/ io_req.stb = 0 /\ dev_req.stb = 0 /\ cfs_rsp.ack = 0 /\ dev_rsp.ack = 1 /\ io_busy
  BY DEF DriverSide, IoSide, BitOf, Bit
<1>2. dev_rsp' = cfs_rsp
  BY DEF BusRegTick
<1>3. cfs_rsp'.ack = dev_req.stb
  BY <1>1 DEF RegTick, WriteReg, ReadReg, NoAccess
<1>4. /\ DOMAIN dev_req' = {"adr", "data", "rw", "stb"}
      /\ dev_req'.stb = io_req.stb
      /\ io_req.stb = 1 => dev_req' = io_req
  BY <1>1 DEF BusRegTick, IoSide
<1>5. CASE ~io_busy
  <2>1. CASE DriverPause
    <3>1. UNCHANGED <<job, m, n, k, pc, io_req, io_busy>>
      BY <2>1 DEF DriverPause, driverVars
    <3> QED BY <1>1, <1>2, <1>3, <1>4, <1>5, <3>1, ScriptKept DEF IoSide, BitOf, Bit
  <2>2. CASE DriverAccess
    <3>1. UNCHANGED <<job, m, n, k, pc>> /\ io_req' = TileScript[pc] /\ io_busy' = TRUE /\ pc \in 1..11 /\ pc # 0
      BY <2>2 DEF DriverAccess, finished, DriverSide
    <3>2. DOMAIN io_req' = {"adr", "data", "rw", "stb"} /\ io_req'.stb = 1
      BY <3>1, Script
    <3> QED BY <1>1, <1>2, <1>3, <1>4, <1>5, <3>1, <3>2, ScriptKept DEF IoSide, BitOf, Bit
  <2> QED BY <1>5, <2>1, <2>2 DEF DriverTick, DriverWait, DriverPollAgain, DriverAdvance
<1>6. CASE io_busy /\ dev_rsp.ack = 0
  <2>1. UNCHANGED <<job, m, n, k, pc, io_busy>> /\ io_req' = [io_req EXCEPT !.stb = 0]
    BY <1>6 DEF DriverTick, DriverAccess, DriverPause, DriverWait, DriverPollAgain, DriverAdvance
  <2>2. DOMAIN io_req' = {"adr", "data", "rw", "stb"} /\ io_req'.stb = 0
    BY <2>1 DEF IoSide
  <2>3. io_busy /\ pc # 0
    BY <1>6 DEF IoSide
  <2> QED BY <1>1, <1>2, <1>3, <1>4, <1>6, <2>1, <2>2, <2>3, ScriptKept DEF IoSide, BitOf, Bit
<1>7. CASE io_busy /\ dev_rsp.ack = 1
  <2>1. io_busy' = FALSE /\ io_req' = [io_req EXCEPT !.stb = 0]
    BY <1>1, <1>7 DEF DriverTick, DriverAccess, DriverPause, DriverWait, DriverPollAgain, DriverAdvance
  <2>2. DOMAIN io_req' = {"adr", "data", "rw", "stb"} /\ io_req'.stb = 0
    BY <2>1 DEF IoSide
  <2> QED BY <1>1, <1>2, <1>3, <1>4, <1>7, <2>1, <2>2 DEF IoSide, BitOf, Bit
<1> QED BY <1>1, <1>5, <1>6, <1>7

\* A written register holds what was written.
LEMMA RegWritten ==
  ASSUME RegSide, pc \in 1..8 \cup {10}, dev_req = TileScript[pc], WriteReg(dev_req)
  PROVE  LET d == TileScript[pc].data
         IN /\ pc = 10 \/ pc = 8 => reg' = reg
            /\ pc \notin {8, 10} => cmd' = cmd
            /\ reg'.base_a   = IF pc = 1 THEN d % AddrMod ELSE reg.base_a
            /\ reg'.base_b   = IF pc = 2 THEN d % AddrMod ELSE reg.base_b
            /\ reg'.base_c   = IF pc = 3 THEN d % AddrMod ELSE reg.base_c
            /\ reg'.stride_a = IF pc = 4 THEN d % STRIDE_MOD ELSE reg.stride_a
            /\ reg'.stride_b = IF pc = 5 THEN d % STRIDE_MOD ELSE reg.stride_b
            /\ reg'.stride_c = IF pc = 6 THEN d % STRIDE_MOD ELSE reg.stride_c
            /\ reg'.bounds   = IF pc = 7 THEN d ELSE reg.bounds
            /\ pc \in {8, 10} => cmd' = [start |-> DataBit(d, 1), clear |-> DataBit(d, 2), store |-> DataBit(d, 4)]
            /\ DOMAIN reg' = DOMAIN reg
<1>1. pc \in {1, 2, 3, 4, 5, 6, 7, 8, 10}
  OBVIOUS
<1>2. CASE pc \in {8, 10}
  <2>1. dev_req.adr = 6
    BY <1>2, Script DEF Access
  <2> QED BY <1>2, <2>1 DEF WriteReg
<1>3. CASE pc \in {1, 2, 3}
  <2>1. (pc = 1 => dev_req.adr = 0) /\ (pc = 2 => dev_req.adr = 1) /\ (pc = 3 => dev_req.adr = 2)
    BY <1>3, Script
  <2> QED BY <1>3, <2>1 DEF WriteReg, RegSide
<1>4. CASE pc \in {4, 5}
  <2>1. (pc = 4 => dev_req.adr = 3) /\ (pc = 5 => dev_req.adr = 4)
    BY <1>4, Script
  <2> QED BY <1>4, <2>1 DEF WriteReg, RegSide
<1>5. CASE pc \in {6, 7}
  <2>1. (pc = 6 => dev_req.adr = 5) /\ (pc = 7 => dev_req.adr = 7)
    BY <1>5, Script
  <2> QED BY <1>5, <2>1 DEF WriteReg, RegSide
<1> QED BY <1>1, <1>2, <1>3, <1>4, <1>5

LEMMA CmdBits ==
  ASSUME NEW c \in {0, 2}, NEW s \in {0, 4}
  PROVE  /\ DataBit(1 + c + s, 1) = 1
         /\ DataBit(1 + c + s, 2) = 1 <=> c = 2
         /\ DataBit(1 + c + s, 4) = 1 <=> s = 4
         /\ DataBit(0, 1) = 0
  BY DEF DataBit

LEMMA RegStep ==
  ASSUME DriverSide, RegSide, Onward \/ Performs \/ Takes
  PROVE  RegSide'
<1>1. CASE Onward
  <2>1. TileScript' = TileScript /\ DimK' = DimK /\ UNCHANGED <<k, reg, cmd>>
    BY <1>1, ScriptKept DEF Onward, Kept, DimK
  <2> QED BY <1>1, <2>1, PerformedOnward DEF RegSide
<1>2. CASE Performs
  <2>1. TileScript' = TileScript /\ DimK' = DimK /\ k' = k /\ pc \in 1..11 /\ pc' = pc
    BY <1>2, ScriptKept DEF Performs, DimK
  <2>2. dev_req = TileScript[pc] /\ (WriteReg(dev_req) \/ ReadReg(dev_req))
    BY <1>2 DEF Performs
  <2>3. \A i \in 1..11 : (Performed(i) <=> i < pc) /\ (Performed(i)' <=> i < pc \/ i = pc)
    BY <1>2, PerformedNow
  <2>4. CASE pc \in {9, 11}
    <3>1. dev_req.rw = 0
      BY <2>2, <2>4, Script DEF Access
    <3>2. UNCHANGED <<reg, cmd>>
      BY <2>2, <3>1 DEF WriteReg, ReadReg
    <3> QED BY <2>1, <2>3, <2>4, <3>2 DEF RegSide
  <2>5. CASE pc \in 1..8 \cup {10}
    <3>1. dev_req.rw = 1
      BY <2>2, <2>5, Script DEF Access
    <3>2. WriteReg(dev_req)
      BY <2>2, <3>1 DEF ReadReg
    <3> DEFINE d == TileScript[pc].data
    <3>3. /\ pc = 10 \/ pc = 8 => reg' = reg
          /\ pc \notin {8, 10} => cmd' = cmd
          /\ reg'.base_a   = IF pc = 1 THEN d % AddrMod ELSE reg.base_a
          /\ reg'.base_b   = IF pc = 2 THEN d % AddrMod ELSE reg.base_b
          /\ reg'.base_c   = IF pc = 3 THEN d % AddrMod ELSE reg.base_c
          /\ reg'.stride_a = IF pc = 4 THEN d % STRIDE_MOD ELSE reg.stride_a
          /\ reg'.stride_b = IF pc = 5 THEN d % STRIDE_MOD ELSE reg.stride_b
          /\ reg'.stride_c = IF pc = 6 THEN d % STRIDE_MOD ELSE reg.stride_c
          /\ reg'.bounds   = IF pc = 7 THEN d ELSE reg.bounds
          /\ pc \in {8, 10} => cmd' = [start |-> DataBit(d, 1), clear |-> DataBit(d, 2), store |-> DataBit(d, 4)]
      BY <2>2, <2>5, <3>2, RegWritten
    <3>4. reg' = [base_a |-> reg'.base_a, base_b |-> reg'.base_b, base_c |-> reg'.base_c,
            stride_a |-> reg'.stride_a, stride_b |-> reg'.stride_b, stride_c |-> reg'.stride_c,
            bounds |-> reg'.bounds]
      BY <3>2 DEF WriteReg, RegSide
    <3>5. cmd' = [start |-> cmd'.start, clear |-> cmd'.clear, store |-> cmd'.store]
      BY <2>5, <3>3 DEF RegSide
    <3>6. /\ Performed(1)' => reg'.base_a = TileScript[1].data % AddrMod
          /\ Performed(2)' => reg'.base_b = TileScript[2].data % AddrMod
          /\ Performed(3)' => reg'.base_c = TileScript[3].data % AddrMod
      <4> HIDE DEF d
      <4> QED BY <2>1, <2>3, <3>3 DEF RegSide, d
    <3>7. /\ Performed(4)' => reg'.stride_a = TileScript[4].data % STRIDE_MOD
          /\ Performed(5)' => reg'.stride_b = TileScript[5].data % STRIDE_MOD
          /\ Performed(6)' => reg'.stride_c = TileScript[6].data % STRIDE_MOD
          /\ Performed(7)' => reg'.bounds = TileScript[7].data
      BY <2>1, <2>3, <3>3 DEF RegSide
    <3>8. Performed(8)' /\ ~Performed(10)' => (cmd'.clear = 1 <=> k = 0) /\ (cmd'.store = 1 <=> k + TILE >= DimK)
      <4>1. CASE pc = 8
        <5> DEFINE c == IF k = 0 THEN 2 ELSE 0
                   s == IF k + TILE >= DimK THEN 4 ELSE 0
        <5>1. d = 1 + c + s
          BY <4>1, Script DEF Access
        <5>2. (DataBit(1 + c + s, 2) = 1 <=> c = 2) /\ (DataBit(1 + c + s, 4) = 1 <=> s = 4)
          BY CmdBits
        <5>3. cmd'.clear = DataBit(1 + c + s, 2) /\ cmd'.store = DataBit(1 + c + s, 4)
          BY <3>3, <4>1, <5>1
        <5> QED BY <5>2, <5>3
      <4>2. CASE pc # 8
        BY <2>1, <2>3, <2>5, <3>3, <4>2 DEF RegSide
      <4> QED BY <4>1, <4>2
    <3> QED BY <2>1, <3>4, <3>5, <3>6, <3>7, <3>8 DEF RegSide
  <2> QED BY <2>1, <2>4, <2>5
<1>3. CASE Takes
  <2>1. UNCHANGED <<job, reg, cmd>> /\ pc \in 1..11
    BY <1>3 DEF Takes, Kept
  <2>2. \A i \in 1..11 : (Performed(i) <=> i <= pc) /\ (Performed(i)' <=> i < pc')
    BY <1>3, PerformedTakes
  <2>3. CASE UNCHANGED <<m, n, k>> /\ (pc' = pc + 1 \/ (pc' = pc /\ pc \in {9, 11}))
    <3>1. TileScript' = TileScript /\ DimK' = DimK /\ k' = k
      BY <2>1, <2>3, ScriptKept DEF DimK
    <3>2. \A i \in 1..8 \cup {10} : Performed(i)' <=> Performed(i)
      BY <2>1, <2>2, <2>3
    <3> QED BY <2>1, <3>1, <3>2 DEF RegSide
  <2>4. CASE pc' \in {0, 1}
    <3>1. \A i \in 1..11 : ~Performed(i)'
      BY <2>2, <2>4
    <3> QED BY <2>1, <3>1 DEF RegSide
  <2> QED BY <1>3, <2>3, <2>4, TakesStep
<1> QED BY <1>1, <1>2, <1>3

-----------------------------------------------------------------------------
(* One clock edge of the engine. *)

\* What its states mean for the handshake.
EngineMoves ==
  /\ state' \in state_t
  /\ state = "S_IDLE" =>
       IF cmd.start = 1 THEN state' = "S_FETCH_A" /\ status_done' = 0
       ELSE state' = "S_IDLE" /\ status_done' = status_done
  /\ state = "S_DONE" =>
       IF cmd.start = 0 THEN state' = "S_IDLE" /\ status_done' = 0
       ELSE state' = "S_DONE" /\ status_done' = 1
  /\ state \notin {"S_IDLE", "S_DONE"} => state' # "S_IDLE" /\ status_done' = status_done

LEMMA EngineMoving ==
  ASSUME state \in state_t, NEW rsp, EngineTick(rsp)
  PROVE  EngineMoves
<1>1. CASE Idle
  BY <1>1 DEF Idle, EngineMoves, state_t
<1>2. CASE FetchA \/ FetchB
  BY <1>2 DEF FetchA, FetchB, NextRow, EngineMoves, state_t
<1>3. CASE FetchAWait(rsp) \/ FetchBWait(rsp)
  BY <1>3 DEF FetchAWait, FetchBWait, NextRow, EngineMoves, state_t
<1>4. CASE CompInit \/ CompRowInit \/ CompMac \/ CompAccum
  BY <1>4 DEF CompInit, CompRowInit, CompMac, CompAccum, EngineMoves, state_t
<1>5. CASE StoreC \/ StoreCWait(rsp)
  BY <1>5 DEF StoreC, StoreCWait, NextRow, EngineMoves, state_t
<1>6. CASE Done
  BY <1>6 DEF Done, EngineMoves, state_t
<1> QED BY <1>1, <1>2, <1>3, <1>4, <1>5, <1>6 DEF EngineTick

\* What an access to the command register does.
LEMMA CommandAccess ==
  ASSUME RegSide, Performs
  PROVE  /\ pc \notin {8, 10} => cmd' = cmd
         /\ pc = 8 => cmd'.start = 1
         /\ pc = 10 => cmd'.start = 0
         /\ pc = 9 => cfs_rsp'.data = 4 * status_done
<1>1. pc \in 1..11 /\ dev_req = TileScript[pc] /\ (WriteReg(dev_req) \/ ReadReg(dev_req))
  BY DEF Performs
<1>2. CASE pc \in {9, 11}
  <2>1. dev_req.rw = 0 /\ dev_req.adr = 6
    BY <1>1, <1>2, Script DEF Access
  <2> QED BY <1>1, <1>2, <2>1 DEF WriteReg, ReadReg
<1>3. CASE pc \in 1..8 \cup {10}
  <2>1. dev_req.rw = 1
    BY <1>1, <1>3, Script DEF Access
  <2>2. WriteReg(dev_req)
    BY <1>1, <2>1 DEF ReadReg
  <2> DEFINE d == TileScript[pc].data
  <2>3. /\ pc \notin {8, 10} => cmd' = cmd
        /\ pc \in {8, 10} => cmd'.start = DataBit(d, 1)
    BY <1>1, <1>3, <2>2, RegWritten
  <2>4. pc = 10 => DataBit(d, 1) = 0
    BY Script, CmdBits DEF Access
  <2>5. pc = 8 => DataBit(d, 1) = 1
    <3> DEFINE c == IF k = 0 THEN 2 ELSE 0
               s == IF k + TILE >= DimK THEN 4 ELSE 0
    <3>1. pc = 8 => d = 1 + c + s
      BY Script DEF Access
    <3>2. DataBit(1 + c + s, 1) = 1
      BY CmdBits
    <3> QED BY <3>1, <3>2
  <2> QED BY <1>3, <2>3, <2>4, <2>5
<1> QED BY <1>1, <1>2, <1>3

LEMMA EngineStep ==
  ASSUME DriverSide, RegSide, EngineSide, Onward \/ Performs \/ Takes, EngineMoves
  PROVE  EngineSide'
<1>1. CASE Onward
  <2>1. (Performed(8)' <=> Performed(8)) /\ (Performed(10)' <=> Performed(10))
    BY <1>1, PerformedOnward
  <2>2. UNCHANGED <<pc, cmd>> /\ cfs_rsp'.ack = 0
    BY <1>1 DEF Onward, Kept
  <2>3. CASE dev_rsp'.ack = 0 /\ cfs_rsp.ack = 0 /\ dev_rsp.ack = 0
    BY <2>1, <2>2, <2>3 DEF EngineSide, EngineMoves, Starting, Clearing, Performed, Bit
  <2>4. CASE dev_rsp'.ack = 1 /\ cfs_rsp.ack = 1 /\ dev_rsp.ack = 0 /\ dev_rsp'.data = cfs_rsp.data
    <3>1. CASE pc < 8
      BY <2>1, <2>2, <2>4, <3>1 DEF EngineSide, EngineMoves, Starting, Clearing, Performed, Bit, DriverSide
    <3>2. CASE pc = 8
      BY <2>1, <2>2, <2>4, <3>2 DEF EngineSide, EngineMoves, Starting, Clearing, Performed, Bit, DriverSide
    <3>3. CASE pc = 9
      BY <2>1, <2>2, <2>4, <3>3 DEF EngineSide, EngineMoves, Starting, Clearing, Performed, Bit, DriverSide
    <3>4. CASE pc = 10
      BY <2>1, <2>2, <2>4, <3>4 DEF EngineSide, EngineMoves, Starting, Clearing, Performed, Bit, DriverSide
    <3>5. CASE pc = 11
      BY <2>1, <2>2, <2>4, <3>5 DEF EngineSide, EngineMoves, Starting, Clearing, Performed, Bit, DriverSide
    <3> QED BY <3>1, <3>2, <3>3, <3>4, <3>5 DEF DriverSide
  <2> QED BY <1>1, <2>3, <2>4 DEF Onward
<1>2. CASE Performs
  <2>1. pc \in 1..11 /\ pc' = pc /\ cfs_rsp'.ack = 1 /\ cfs_rsp.ack = 0 /\ dev_rsp.ack = 0 /\ dev_rsp'.ack = 0
    BY <1>2 DEF Performs
  <2>2. /\ (Performed(8) <=> 8 < pc) /\ (Performed(8)' <=> 8 <= pc)
        /\ (Performed(10) <=> 10 < pc) /\ (Performed(10)' <=> 10 <= pc)
    BY <1>2, <2>1, PerformedNow
  <2>3. CASE pc < 8
    BY <1>2, <2>1, <2>2, <2>3, CommandAccess DEF EngineSide, EngineMoves, Starting, Clearing, Bit
  <2>4. CASE pc = 8
    BY <1>2, <2>1, <2>2, <2>4, CommandAccess DEF EngineSide, EngineMoves, Starting, Clearing, Bit
  <2>5. CASE pc = 9
    BY <1>2, <2>1, <2>2, <2>5, CommandAccess DEF EngineSide, EngineMoves, Starting, Clearing, Bit
  <2>6. CASE pc = 10
    BY <1>2, <2>1, <2>2, <2>6, CommandAccess DEF EngineSide, EngineMoves, Starting, Clearing, Bit
  <2>7. CASE pc = 11
    BY <1>2, <2>1, <2>2, <2>7, CommandAccess DEF EngineSide, EngineMoves, Starting, Clearing, Bit
  <2> QED BY <2>1, <2>3, <2>4, <2>5, <2>6, <2>7
<1>3. CASE Takes
  <2>1. pc \in 1..11 /\ cmd' = cmd /\ dev_rsp.ack = 1 /\ cfs_rsp.ack = 0 /\ dev_rsp'.ack = 0 /\ cfs_rsp'.ack = 0
    BY <1>3 DEF Takes, Kept
  <2>2. /\ (Performed(8) <=> 8 <= pc) /\ (Performed(8)' <=> 8 < pc')
        /\ (Performed(10) <=> 10 <= pc) /\ (Performed(10)' <=> 10 < pc')
    BY <1>3, PerformedTakes
  <2>3. TileScript[9].data = 1 /\ TileScript[9].rw = 0
    BY Script DEF Access
  <2>4. \/ pc < 9 /\ pc' = pc + 1
        \/ pc = 9 /\ pc' = 10 /\ (dev_rsp.data \div 4) % 2 = 1
        \/ pc = 9 /\ pc' = 9
        \/ pc = 10 /\ pc' = 11
        \/ pc = 11 /\ pc' = 11
        \/ pc = 11 /\ pc' \in {0, 1}
    BY <1>3, <2>1, <2>3, TakesStep
  <2>5. CASE pc < 9 /\ pc' = pc + 1
    BY <2>1, <2>2, <2>5 DEF EngineSide, EngineMoves, Starting, Clearing, Bit
  <2>6. CASE pc = 9
    BY <2>1, <2>2, <2>4, <2>6 DEF EngineSide, EngineMoves, Starting, Clearing, Bit
  <2>7. CASE pc \in {10, 11}
    BY <2>1, <2>2, <2>4, <2>7 DEF EngineSide, EngineMoves, Starting, Clearing, Bit
  <2> QED BY <2>1, <2>4, <2>5, <2>6, <2>7
<1> QED BY <1>1, <1>2, <1>3

-----------------------------------------------------------------------------
(* Driver and accelerator in step. *)

LEMMA DimType ==
  ASSUME job \in Jobs
  PROVE  DimM \in Nat /\ DimN \in Nat /\ DimK \in Nat
  BY JobsAssumption DEF DimM, DimN, DimK

LEMMA InitStepInv == Init => StepInv
<1> SUFFICES ASSUME Init PROVE StepInv
  OBVIOUS
<1>1. /\ job \in Jobs /\ m = 0 /\ n = 0 /\ k = 0
      /\ pc = IF DimM > 0 /\ DimN > 0 /\ DimK > 0 THEN 1 ELSE 0
      /\ io_req = NoRequest /\ io_busy = FALSE /\ resets = 0
  BY DEF Init, DriverInit
<1>2. dev_req = NoRequest /\ dev_rsp = [ack |-> 0, data |-> 0]
  BY DEF Init, BusRegInit, NoRequest
<1>3. /\ reg = [base_a |-> 0, base_b |-> 0, base_c |-> 0,
               stride_a |-> 0, stride_b |-> 0, stride_c |-> 0, bounds |-> 0]
      /\ cmd = [start |-> 0, clear |-> 0, store |-> 0] /\ cfs_rsp = [ack |-> 0, data |-> 0]
      /\ status_done = 0 /\ state = "S_IDLE"
  BY DEF Init, CfsInit
<1>4. \A i \in 1..11 : ~Performed(i)
  BY <1>1, <1>2, <1>3 DEF Performed
<1>5. DriverSide
  <2>1. DimM \in Nat /\ DimN \in Nat /\ DimK \in Nat
    BY <1>1, DimType
  <2>2. pc \in 0..11 /\ (pc # 0 => 0 < DimM /\ 0 < DimN /\ 0 < DimK)
    BY <1>1, <2>1
  <2>3. io_busy \in BOOLEAN
    BY <1>1
  <2> QED BY <1>1, <2>2, <2>3 DEF DriverSide
<1>6. IoSide
  BY <1>1, <1>2, <1>3 DEF IoSide, NoRequest, BitOf, Bit
<1>7. RegSide
  BY <1>3, <1>4 DEF RegSide
<1>8. EngineSide
  BY <1>1, <1>2, <1>3, <1>4 DEF EngineSide, Starting, Clearing, state_t, Bit
<1> QED BY <1>5, <1>6, <1>7, <1>8 DEF StepInv

LEMMA ResetStepInv ==
  ASSUME DriverSide, Reset
  PROVE  StepInv'
<1>1. /\ job' = job /\ m' = 0 /\ n' = 0 /\ k' = 0 /\ resets' = resets + 1
      /\ pc' = IF DimM > 0 /\ DimN > 0 /\ DimK > 0 THEN 1 ELSE 0
      /\ io_req' = NoRequest /\ io_busy' = FALSE
  BY DEF Reset, DriverRestart
<1>2. dev_req' = NoRequest /\ dev_rsp' = [ack |-> 0, data |-> 0]
  BY DEF Reset, NoRequest
<1>3. /\ reg' = [base_a |-> 0, base_b |-> 0, base_c |-> 0,
               stride_a |-> 0, stride_b |-> 0, stride_c |-> 0, bounds |-> 0]
      /\ cmd' = [start |-> 0, clear |-> 0, store |-> 0] /\ cfs_rsp' = [ack |-> 0, data |-> 0]
      /\ status_done' = 0 /\ state' = "S_IDLE"
  BY DEF Reset, CfsReset
<1>4. \A i \in 1..11 : ~Performed(i)'
  BY <1>1, <1>2, <1>3 DEF Performed
<1>5. DriverSide'
  <2>1. DimM' = DimM /\ DimN' = DimN /\ DimK' = DimK
    BY <1>1 DEF DimM, DimN, DimK
  <2>2. DimM \in Nat /\ DimN \in Nat /\ DimK \in Nat
    BY DimType DEF DriverSide
  <2>3. pc' \in 0..11 /\ (pc' # 0 => 0 < DimM /\ 0 < DimN /\ 0 < DimK)
    BY <1>1, <2>2
  <2>4. io_busy' \in BOOLEAN
    BY <1>1
  <2> QED BY <1>1, <2>1, <2>3, <2>4 DEF DriverSide
<1>6. IoSide'
  BY <1>1, <1>2, <1>3 DEF IoSide, NoRequest, BitOf, Bit
<1>7. RegSide'
  BY <1>3, <1>4 DEF RegSide
<1>8. EngineSide'
  BY <1>1, <1>2, <1>3, <1>4 DEF EngineSide, Starting, Clearing, state_t, Bit
<1> QED BY <1>5, <1>6, <1>7, <1>8 DEF StepInv

LEMMA TickPhases ==
  ASSUME StepInv, Tick
  PROVE  (Onward \/ Performs \/ Takes) /\ EngineMoves /\ UNCHANGED <<job, resets>>
<1>1. /\ DriverTick(dev_rsp) /\ BusRegTick(io_req, cfs_rsp) /\ RegTick(dev_req)
      /\ EngineTick(DmaRsp) /\ resets' = resets
  BY DEF Tick, CfsTick
<1>2. Onward \/ Performs \/ Takes
  BY <1>1, IoStep DEF StepInv
<1>3. EngineMoves
  BY <1>1, EngineMoving DEF StepInv, EngineSide
<1> QED BY <1>1, <1>2, <1>3 DEF Onward, Performs, Takes

LEMMA StutterStepInv ==
  ASSUME StepInv, UNCHANGED vars
  PROVE  StepInv'
<1>1. UNCHANGED <<job, m, n, k, pc, io_req, io_busy, dev_req, dev_rsp, reg, cmd, cfs_rsp, status_done, state, resets>>
  BY DEF vars, cfsVars, regVars, engineVars, driverVars, busRegVars
<1>2. /\ TileScript' = TileScript /\ DimM' = DimM /\ DimN' = DimN /\ DimK' = DimK
      /\ \A i : Performed(i)' <=> Performed(i)
  BY <1>1, ScriptKept DEF DimM, DimN, DimK, Performed
<1>3. DriverSide' /\ IoSide'
  BY <1>1, <1>2 DEF StepInv, DriverSide, IoSide
<1>4. RegSide' /\ EngineSide'
  BY <1>1, <1>2 DEF StepInv, RegSide, EngineSide, Starting, Clearing
<1> QED BY <1>3, <1>4 DEF StepInv

LEMMA NextStepInv ==
  ASSUME StepInv, [Next]_vars
  PROVE  StepInv'
<1>1. CASE Tick
  <2>1. DriverTick(dev_rsp) /\ BusRegTick(io_req, cfs_rsp) /\ RegTick(dev_req)
    BY <1>1 DEF Tick, CfsTick
  <2>2. (Onward \/ Performs \/ Takes) /\ EngineMoves /\ UNCHANGED <<job, resets>>
    BY <1>1, TickPhases
  <2>3. DriverSide' /\ IoSide'
    BY <2>1, <2>2, DriverStep, IoSideStep DEF StepInv
  <2>4. RegSide' /\ EngineSide'
    BY <2>2, RegStep, EngineStep DEF StepInv
  <2> QED BY <2>3, <2>4 DEF StepInv
<1>2. CASE Reset
  BY <1>2, ResetStepInv DEF StepInv
<1>3. CASE UNCHANGED vars
  BY <1>3, StutterStepInv
<1> QED BY <1>1, <1>2, <1>3 DEF Next

\* In every reachable state the driver's access is at one station of the IO
\* bus, the registers hold what it computed for its tile, and the engine works
\* just between the start write and the end of the poll for done
\* (gemmrv_hw.c:9-27, neorv32_bus.vhd:191-225, neorv32_cfs.vhd:90-149).
THEOREM DriverAndEngine == Spec => []StepInv
<1>1. StepInv /\ [Next]_vars => StepInv'
  BY NextStepInv
<1> QED BY <1>1, InitStepInv, PTL DEF Spec

\* While the engine works, the driver only polls.
LEMMA RegsKept ==
  ASSUME StepInv, Tick, state \notin {"S_IDLE", "S_DONE"}
  PROVE  UNCHANGED <<reg, cmd>>
<1>1. CASE Onward \/ Takes
  BY <1>1 DEF Onward, Takes, Kept
<1>2. CASE Performs
  <2>1. pc \in 1..11 /\ dev_req = TileScript[pc] /\ (WriteReg(dev_req) \/ ReadReg(dev_req))
    BY <1>2 DEF Performs
  <2>2. Performed(8) /\ pc \notin {10, 11}
    BY DEF StepInv, EngineSide
  <2>3. pc = 9
    BY <1>2, <2>1, <2>2, PerformedNow
  <2>4. dev_req.rw = 0
    BY <2>1, <2>3, Script DEF Access
  <2> QED BY <2>1, <2>4 DEF WriteReg, ReadReg
<1> QED BY <1>1, <1>2, TickPhases

\* The registers are not shadowed, and the engine reads them for every row: no
\* write of the driver reaches them while the engine works on a tile
\* (neorv32_cfs.vhd:113-135).
THEOREM RegsHeld == Spec => RegsStableWhileBusy
<1>1. StepInv /\ [Next]_vars =>
        [resets' = resets /\ state \notin {"S_IDLE", "S_DONE"} => UNCHANGED <<reg, cmd>>]_vars
  <2> SUFFICES ASSUME StepInv, Next, resets' = resets, state \notin {"S_IDLE", "S_DONE"}
               PROVE  UNCHANGED <<reg, cmd>>
    OBVIOUS
  <2>1. Tick
    BY DEF Next, Reset, StepInv, DriverSide
  <2> QED BY <2>1, RegsKept
<1> QED BY <1>1, DriverAndEngine, PTL DEF Spec, RegsStableWhileBusy

\* The handshake: the engine starts only for the driver's start write, the
\* first poll ends only when the engine is done, the second only when it is
\* idle, so that the next start write is not missed (gemmrv_hw.c:22-27).
THEOREM HandshakeHolds == Spec => Handshake
<1>1. StepInv /\ [Next]_vars =>
        [resets' = resets =>
           /\ (state = "S_IDLE" /\ state' # "S_IDLE" => pc \in {8, 9})
           /\ (pc = 9 /\ pc' = 10 => state = "S_DONE")
           /\ (pc = 11 /\ pc' # 11 => state = "S_IDLE")]_vars
  <2> SUFFICES ASSUME StepInv, Next, resets' = resets
               PROVE  /\ (state = "S_IDLE" /\ state' # "S_IDLE" => pc \in {8, 9})
                      /\ (pc = 9 /\ pc' = 10 => state = "S_DONE")
                      /\ (pc = 11 /\ pc' # 11 => state = "S_IDLE")
    OBVIOUS
  <2>1. Tick
    BY DEF Next, Reset, StepInv, DriverSide
  <2>2. (Onward \/ Performs \/ Takes) /\ EngineMoves
    BY <2>1, TickPhases
  <2>3. state = "S_IDLE" /\ state' # "S_IDLE" => pc = 8
    BY <2>2 DEF EngineMoves, StepInv, EngineSide, Starting
  <2>4. pc' # pc => Takes
    BY <2>2 DEF Onward, Performs
  <2>5. pc = 9 /\ Takes /\ pc' = 10 => state = "S_DONE"
    <3>1. TileScript[9].data = 1 /\ TileScript[9].rw = 0
      BY Script DEF Access
    <3>2. pc = 9 /\ Takes /\ pc' = 10 => dev_rsp.ack = 1 /\ (dev_rsp.data \div 4) % 2 = 1
      <4>1. Takes => dev_rsp.ack = 1
        BY DEF Takes
      <4> QED BY <3>1, <4>1, TakesStep DEF StepInv
    <3> QED BY <3>2 DEF StepInv, EngineSide
  <2>6. pc = 11 /\ Takes => state = "S_IDLE"
    <3>1. Takes => dev_rsp.ack = 1
      BY DEF Takes
    <3> QED BY <3>1 DEF StepInv, EngineSide, Performed, Clearing
  <2> QED BY <2>3, <2>4, <2>5, <2>6
<1> QED BY <1>1, DriverAndEngine, PTL DEF Spec, Handshake

-----------------------------------------------------------------------------
(* The accelerator's memory port. *)

Waits == {"S_FETCH_A_WAIT", "S_FETCH_B_WAIT", "S_STORE_C_WAIT"}

\* A request is out just in the waiting states, and a write is of the row that
\* the engine is at.
PortSide ==
  /\ dma_req = [row |-> dma_req.row, wdata |-> dma_req.wdata, be |-> dma_req.be,
                rw |-> dma_req.rw, stb |-> dma_req.stb]
  /\ dma_req.stb = IF state \in Waits THEN 1 ELSE 0
  /\ row_cnt \in Idx
  /\ state \in {"S_FETCH_A_WAIT", "S_FETCH_B_WAIT"} => dma_req.rw = 0
  /\ state = "S_STORE_C_WAIT" =>
       /\ row_cnt < tile_M /\ dma_req.rw = 1
       /\ dma_req.row = RowOf(AddrC) /\ dma_req.be = StoreBE(OffsetOf(AddrC) \div WORD_BYTES)

PortInv == StepInv /\ PortSide /\ mem_ack \in Bit

LEMMA NextRowIdx ==
  ASSUME row_cnt \in Idx, NEW this, NEW next, NextRow(this, next)
  PROVE  row_cnt' \in Idx /\ state' \in {this, next}
  BY LanesAssumption DEF Idx, NextRow, LastRow

LEMMA StrobeFields ==
  ASSUME PortSide
  PROVE  /\ DropStrobe => /\ dma_req' = [row |-> dma_req.row, wdata |-> dma_req.wdata, be |-> dma_req.be,
                                         rw |-> dma_req.rw, stb |-> 0]
         /\ HoldStrobe => /\ dma_req' = [row |-> dma_req.row, wdata |-> dma_req.wdata, be |-> dma_req.be,
                                         rw |-> dma_req.rw, stb |-> 1]
  BY DEF PortSide, DropStrobe, HoldStrobe

LEMMA PortStep ==
  ASSUME PortInv, Tick
  PROVE  PortSide'
<1>1. EngineTick(DmaRsp) /\ LANES \in Nat \ {0} /\ 0 \in Idx
  BY LanesAssumption DEF Tick, CfsTick, Idx
<1>2. state \notin {"S_IDLE", "S_DONE"} =>
        /\ tile_M' = tile_M /\ reg' = reg
        /\ row_cnt' = row_cnt => AddrC' = AddrC
  BY RegsKept DEF PortInv, tile_M, AddrC
<1>3. CASE state' \notin Waits /\ row_cnt' \in Idx /\ DropStrobe
  <2>1. dma_req' = [row |-> dma_req.row, wdata |-> dma_req.wdata, be |-> dma_req.be, rw |-> dma_req.rw, stb |-> 0]
    BY <1>3, StrobeFields DEF PortInv
  <2> QED BY <1>3, <2>1 DEF PortSide, Waits
<1>4. CASE state \in Waits /\ HoldStrobe /\ UNCHANGED <<state, row_cnt>>
  <2>1. dma_req' = dma_req
    BY <1>4, StrobeFields DEF PortInv, PortSide
  <2>2. tile_M' = tile_M /\ AddrC' = AddrC
    BY <1>2, <1>4 DEF Waits
  <2>3. StoreBE(OffsetOf(AddrC) \div WORD_BYTES)' = StoreBE(OffsetOf(AddrC) \div WORD_BYTES)
        /\ RowOf(AddrC)' = RowOf(AddrC)
    BY <2>2 DEF StoreBE, OffsetOf, RowOf
  <2> QED BY <1>4, <2>1, <2>2, <2>3 DEF PortInv, PortSide
<1>5. CASE Idle \/ CompInit \/ CompRowInit \/ CompMac \/ CompAccum \/ Done
  <2>1. state' \notin Waits
    BY <1>5 DEF Idle, CompInit, CompRowInit, CompMac, CompAccum, Done, Waits
  <2>2. DropStrobe
    BY <1>5 DEF Idle, CompInit, CompRowInit, CompMac, CompAccum, Done
  <2>3. row_cnt' \in Idx
    BY <1>1, <1>5 DEF Idle, CompInit, CompRowInit, CompMac, CompAccum, Done, LastRow, PortInv, PortSide, Idx
  <2> QED BY <1>3, <2>1, <2>2, <2>3
<1>6. CASE FetchA \/ FetchB
  <2>1. CASE state' \in Waits
    <3>1. /\ state' \in {"S_FETCH_A_WAIT", "S_FETCH_B_WAIT"} /\ row_cnt' = row_cnt
          /\ \E a : dma_req' = ReadRequest(a)
      BY <1>6, <2>1 DEF FetchA, FetchB, NextRow, Waits
    <3> QED BY <3>1 DEF PortInv, PortSide, ReadRequest, Waits
  <2>2. CASE state' \notin Waits
    <3>1. DropStrobe /\ (NextRow("S_FETCH_A", "S_FETCH_B") \/ NextRow("S_FETCH_B", "S_COMP_INIT"))
      BY <1>6, <2>2 DEF FetchA, FetchB, Waits
    <3> QED BY <1>3, <2>2, <3>1, NextRowIdx DEF PortInv, PortSide
  <2> QED BY <2>1, <2>2
<1>7. CASE FetchAWait(DmaRsp) \/ FetchBWait(DmaRsp) \/ StoreCWait(DmaRsp)
  <2>1. CASE DmaRsp.ack = 1
    <3>1. DropStrobe /\ \/ NextRow("S_FETCH_A", "S_FETCH_B") \/ NextRow("S_FETCH_B", "S_COMP_INIT")
                        \/ NextRow("S_STORE_C", "S_DONE")
      BY <1>7, <2>1 DEF FetchAWait, FetchBWait, StoreCWait
    <3>2. row_cnt' \in Idx /\ state' \notin Waits
      BY <3>1, NextRowIdx DEF PortInv, PortSide, Waits
    <3> QED BY <1>3, <3>1, <3>2
  <2>2. CASE DmaRsp.ack # 1
    BY <1>4, <1>7, <2>2 DEF FetchAWait, FetchBWait, StoreCWait, Waits
  <2> QED BY <2>1, <2>2
<1>8. CASE StoreC
  <2>1. CASE row_cnt < tile_M
    <3>1. /\ state' = "S_STORE_C_WAIT" /\ row_cnt' = row_cnt
          /\ dma_req' = [row |-> RowOf(AddrC), wdata |-> StoreData(row_cnt, OffsetOf(AddrC) \div WORD_BYTES),
                         be |-> StoreBE(OffsetOf(AddrC) \div WORD_BYTES), rw |-> 1, stb |-> 1]
      BY <1>8, <2>1 DEF StoreC
    <3>2. tile_M' = tile_M /\ AddrC' = AddrC
      BY <1>2, <1>8, <3>1 DEF StoreC
    <3>3. StoreBE(OffsetOf(AddrC) \div WORD_BYTES)' = StoreBE(OffsetOf(AddrC) \div WORD_BYTES)
          /\ RowOf(AddrC)' = RowOf(AddrC)
      BY <3>2 DEF StoreBE, OffsetOf, RowOf
    <3> QED BY <2>1, <3>1, <3>2, <3>3 DEF PortInv, PortSide, Waits
  <2>2. CASE ~(row_cnt < tile_M)
    <3>1. DropStrobe /\ NextRow("S_STORE_C", "S_DONE")
      BY <1>8, <2>2 DEF StoreC
    <3>2. row_cnt' \in Idx /\ state' \notin Waits
      BY <3>1, NextRowIdx DEF PortInv, PortSide, Waits
    <3> QED BY <1>3, <3>1, <3>2
  <2> QED BY <2>1, <2>2
<1> QED BY <1>1, <1>5, <1>6, <1>7, <1>8 DEF EngineTick

LEMMA PortNext ==
  ASSUME PortInv, [Next]_vars
  PROVE  PortInv'
<1>1. StepInv'
  BY NextStepInv DEF PortInv
<1>2. CASE Tick
  <2>1. mem_ack' \in Bit
    BY <1>2 DEF Tick, BramTick, BramWrite, BramRead, BramOutOfBounds, BramQuiet, Bit
  <2> QED BY <1>1, <1>2, <2>1, PortStep DEF PortInv
<1>3. CASE Reset
  <2>1. state' = "S_IDLE" /\ dma_req' = [dma_req EXCEPT !.stb = 0] /\ row_cnt' = row_cnt
    BY <1>3 DEF Reset, CfsReset
  <2>4. mem_ack' \in Bit
    BY <1>3 DEF Reset, Bit
  <2>2. dma_req' = [row |-> dma_req.row, wdata |-> dma_req.wdata, be |-> dma_req.be, rw |-> dma_req.rw, stb |-> 0]
    BY <2>1, StrobeFields DEF PortInv, DropStrobe
  <2>3. PortSide'
    BY <2>1, <2>2 DEF PortInv, PortSide, Waits
  <2> QED BY <1>1, <2>3, <2>4 DEF PortInv
<1>4. CASE UNCHANGED vars
  <2>1. UNCHANGED <<dma_req, state, row_cnt, reg, mem_ack>>
    BY <1>4 DEF vars, cfsVars, regVars, engineVars, bramVars
  <2>2. PortSide'
    BY <2>1 DEF PortInv, PortSide, tile_M, AddrC, RowOf, OffsetOf, StoreBE
  <2> QED BY <1>1, <2>1, <2>2 DEF PortInv
<1> QED BY <1>2, <1>3, <1>4 DEF Next

LEMMA PortInit == Init => PortInv
<1> SUFFICES ASSUME Init PROVE PortInv
  OBVIOUS
<1>1. state = "S_IDLE" /\ row_cnt = 0 /\ dma_req = MemReqIdle
  BY DEF Init, CfsInit
<1>2. PortSide
  BY <1>1, LanesAssumption DEF PortSide, MemReqIdle, Waits, Idx
<1>3. mem_ack \in Bit
  BY DEF Init, Bit
<1> QED BY <1>2, <1>3, InitStepInv DEF PortInv

\* In every reachable state the accelerator has a request out just while it
\* waits, and what it writes is the row of C it is at (neorv32_cfs.vhd:198-370).
THEOREM PortInStep == Spec => []PortInv
<1>1. PortInv /\ [Next]_vars => PortInv'
  BY PortNext
<1> QED BY <1>1, PortInit, PTL DEF Spec

\* The accelerator holds its request unchanged until it is acknowledged, and
\* then lowers the strobe for a clock, in which the second acknowledge of the
\* held strobe arrives (neorv32_cfs.vhd:166-370, neorv32_memory_crossbar.vhd:74-82).
THEOREM PortObeyed == Spec => DmaPortProtocol
<1>1. PortInv /\ [Next]_vars =>
        [resets' = resets /\ dma_req.stb = 1 =>
           IF DmaRsp.ack = 0 THEN UNCHANGED dma_req ELSE dma_req'.stb = 0]_vars
  <2> SUFFICES ASSUME PortInv, Next, resets' = resets, dma_req.stb = 1
               PROVE  IF DmaRsp.ack = 0 THEN UNCHANGED dma_req ELSE dma_req'.stb = 0
    OBVIOUS
  <2>1. EngineTick(DmaRsp)
    BY DEF Next, Tick, CfsTick, Reset, PortInv, StepInv, DriverSide
  <2>2. state \in Waits
    BY DEF PortInv, PortSide
  <2>3. FetchAWait(DmaRsp) \/ FetchBWait(DmaRsp) \/ StoreCWait(DmaRsp)
    BY <2>1, <2>2 DEF EngineTick, Waits, Idle, FetchA, FetchB, CompInit, CompRowInit, CompMac, CompAccum, StoreC, Done
  <2>4. IF DmaRsp.ack = 1 THEN DropStrobe ELSE HoldStrobe
    BY <2>3 DEF FetchAWait, FetchBWait, StoreCWait
  <2>5. DmaRsp.ack = 1 => dma_req'.stb = 0
    BY <2>4, StrobeFields DEF PortInv
  <2>6. DmaRsp.ack # 1 => dma_req' = dma_req
    BY <2>4, StrobeFields DEF PortInv, PortSide
  <2>7. DmaRsp.ack \in {0, 1}
    BY DEF DmaRsp, dma_rsp, PortInv, Bit
  <2> QED BY <2>5, <2>6, <2>7
<1> QED BY <1>1, PortInStep, PTL DEF Spec, DmaPortProtocol

-----------------------------------------------------------------------------
(* Arithmetic of rows, words and tiles. *)

LEMMA DivMod ==
  ASSUME NEW a \in Nat, NEW d \in Nat \ {0}
  PROVE  a \div d \in Nat /\ a % d \in 0..d - 1 /\ a = ((a \div d) * d) + (a % d)
  OBVIOUS

LEMMA DivModUnique ==
  ASSUME NEW q \in Nat, NEW d \in Nat \ {0}, NEW r \in 0..d - 1
  PROVE  ((q * d) + r) \div d = q /\ ((q * d) + r) % d = r
  OBVIOUS

LEMMA ModSmall ==
  ASSUME NEW a \in Nat, NEW d \in Nat \ {0}, a < d
  PROVE  a % d = a
  OBVIOUS

LEMMA Less ==
  ASSUME NEW x \in Int, NEW y \in Int, NEW d \in Nat \ {0}, x * d < y * d
  PROVE  x < y
<1>1. CASE x >= y
  <2>1. x - y \in Nat
    BY <1>1
  <2>2. (x - y) * d \in Nat
    BY <2>1
  <2>3. (x - y) * d = x * d - y * d
    OBVIOUS
  <2> QED BY <2>2, <2>3
<1> QED BY <1>1

LEMMA LessEq ==
  ASSUME NEW x \in Int, NEW y \in Int, NEW d \in Nat, x <= y
  PROVE  x * d <= y * d
<1>1. y - x \in Nat
  OBVIOUS
<1>2. (y - x) * d \in Nat
  BY <1>1
<1>3. (y - x) * d = y * d - x * d
  OBVIOUS
<1> QED BY <1>2, <1>3

\* Byte a is in the row of word t, in its lane or beyond.
InRowFrom(W, L, t, a) ==
  /\ a \div (L * W) = (t * W) \div (L * W)
  /\ (a % (L * W)) \div W >= ((t * W) % (L * W)) \div W

\* Byte a is in one of the L words from word t on.
InWordsFrom(W, L, t, a) == \E q \in 0..L - 1, b \in 0..W - 1 : a = (t + q) * W + b

LEMMA SameRow ==
  ASSUME NEW W \in Nat \ {0}, NEW L \in Nat \ {0}, NEW t \in Nat, NEW a \in Nat,
         InRowFrom(W, L, t, a)
  PROVE  InWordsFrom(W, L, t, a)
<1> DEFINE R == L * W
           i == a \div R
           ar == a % R
           tr == (t * W) % R
           la == ar \div W
           b == ar % W
<1>1. R \in Nat \ {0} /\ t * W \in Nat
  OBVIOUS
<1>2. i \in Nat /\ ar \in 0..R - 1 /\ a = (i * R) + ar
  BY <1>1, DivMod
<1>3. i = (t * W) \div R
  BY DEF InRowFrom
<1>4. tr \in 0..R - 1 /\ t * W = (i * R) + tr
  <2> HIDE DEF i, R
  <2> QED BY <1>1, <1>3, DivMod DEF tr
<1>5. la \in Nat /\ b \in 0..W - 1 /\ ar = (la * W) + b
  <2> HIDE DEF i, ar
  <2>1. ar \in Nat
    BY <1>1, <1>2
  <2> QED BY <2>1, DivMod
<1> DEFINE lt == t - i * L
<1>6. lt \in Int /\ tr = lt * W
  <2> HIDE DEF tr, i
  <2>1. i \in Nat
    BY <1>2
  <2>2. i * R = (i * L) * W
    BY <2>1
  <2> QED BY <1>4, <2>1, <2>2
<1>7. lt \in Nat
  <2> HIDE DEF lt, tr
  <2>1. (0 - 1) * W < lt * W
    BY <1>4, <1>6
  <2>2. -1 < lt
    BY <1>6, <2>1, Less
  <2> QED BY <1>6, <2>2
<1>8. tr \div W = lt
  <2> HIDE DEF lt, tr
  <2> QED BY <1>6, <1>7, DivModUnique
<1>9. la < L
  <2> HIDE DEF la, b, ar
  <2>1. la * W < L * W
    BY <1>2, <1>5
  <2> QED BY <1>5, <2>1, Less
<1>10. la >= lt
  BY <1>8 DEF InRowFrom
<1> DEFINE q == la - lt
<1>11. q \in 0..L - 1
  <2> HIDE DEF la, lt
  <2> QED BY <1>5, <1>7, <1>9, <1>10
<1>12. a = (t + q) * W + b
  <2>1. a = ((i * L) * W) + ((la * W) + b)
    <3> HIDE DEF i, la, b, ar
    <3>1. i * R = (i * L) * W
      BY <1>2
    <3> QED BY <1>2, <1>5, <3>1
  <2>2. t + q = (i * L) + la
    <3> HIDE DEF i, la
    <3> QED BY <1>2, <1>5
  <2>3. (t + q) * W = ((i * L) * W) + (la * W)
    <3> HIDE DEF i, la, q
    <3> QED BY <1>2, <1>5, <2>2
  <2> HIDE DEF i, la, b, q
  <2> QED BY <1>2, <1>5, <1>11, <2>1, <2>3
<1> HIDE DEF q, b
<1> QED BY <1>5, <1>11, <1>12 DEF InWordsFrom

LEMMA TileColumns ==
  ASSUME NEW T \in Nat \ {0}, NEW N \in Nat, NEW S \in Nat, NEW p \in Nat, NEW q \in 0..T - 1,
         p * T < N, N <= S, S % T = 0
  PROVE  /\ p * T + q < ((N + T - 1) \div T) * T
         /\ ((N + T - 1) \div T) * T <= S
<1> DEFINE c == (N + T - 1) \div T
           s == S \div T
<1>1. c \in Nat /\ N + T - 1 < c * T + T /\ c * T <= N + T - 1
  <2> DEFINE x == N + T - 1
  <2>1. x \in Nat
    OBVIOUS
  <2> HIDE DEF x
  <2>2. x \div T \in Nat /\ x % T \in 0..T - 1 /\ x = ((x \div T) * T) + (x % T)
    BY <2>1, DivMod
  <2>3. x \div T \in Nat /\ x < (x \div T) * T + T /\ (x \div T) * T <= x
    BY <2>1, <2>2
  <2> QED BY <2>3 DEF x
<1>2. s \in Nat /\ S = s * T
  BY DivMod
<1> HIDE DEF c, s
<1>3. p < c
  <2>1. p * T < c * T
    BY <1>1
  <2> QED BY <1>1, <2>1, Less
<1>4. (p + 1) * T <= c * T
  BY <1>1, <1>3, LessEq
<1>5. c < s + 1
  <2>1. c * T < (s + 1) * T
    BY <1>1, <1>2
  <2> QED BY <1>1, <1>2, <2>1, Less
<1>6. c * T <= s * T
  BY <1>1, <1>2, <1>5, LessEq
<1>7. (p + 1) * T = p * T + T
  OBVIOUS
<1> QED BY <1>1, <1>2, <1>4, <1>6, <1>7 DEF c

LEMMA InsideArray ==
  ASSUME NEW r \in Nat, NEW M \in Nat, NEW S \in Nat, NEW c \in Nat, NEW W \in Nat \ {0},
         r < M, c < S
  PROVE  (r * S + c) * W + W <= (M * S) * W
<1>1. (r + 1) * S <= M * S
  BY LessEq
<1>2. (r + 1) * S = r * S + S
  OBVIOUS
<1>3. r * S + c + 1 <= M * S
  <2> r * S \in Nat /\ M * S \in Nat
    OBVIOUS
  <2> QED BY <1>1, <1>2
<1> DEFINE x == r * S + c
           y == M * S
<1>4. x \in Nat /\ y \in Nat /\ x + 1 <= y
  BY <1>3
<1> HIDE DEF x, y
<1>5. (x + 1) * W <= y * W
  BY <1>4, LessEq
<1>6. (x + 1) * W = x * W + W
  BY <1>4
<1>7. x * W + W <= y * W
  BY <1>5, <1>6
<1> QED BY <1>7 DEF x, y

-----------------------------------------------------------------------------
(* Where a row of C is stored. *)

TileSide == \E p \in Nat : n = p * TILE

LEMMA TileSideStep ==
  ASSUME DriverSide, TileSide, Onward \/ Performs \/ Takes
  PROVE  TileSide'
<1>1. n' = n \/ n' = 0 \/ n' = n + TILE
  <2>1. CASE Onward \/ Performs
    BY <2>1 DEF Onward, Performs
  <2>2. CASE Takes
    BY <2>2 DEF Takes, DriverPollAgain, DriverAdvance, NextTile
  <2> QED BY <2>1, <2>2
<1>2. PICK p \in Nat : n = p * TILE
  BY DEF TileSide
<1>3. TILE \in Nat /\ TILE' = TILE
  BY LanesAssumption DEF TILE
<1>4. 0 = 0 * TILE /\ p * TILE + TILE = (p + 1) * TILE
  BY <1>3
<1>5. \E q \in Nat : n' = q * TILE
  <2>1. CASE n' = n
    BY <1>2, <2>1
  <2>2. CASE n' = 0
    BY <1>4, <2>2
  <2>3. CASE n' = n + TILE
    <3>1. n' = (p + 1) * TILE /\ p + 1 \in Nat
      BY <1>2, <1>4, <2>3
    <3> QED BY <3>1
  <2> QED BY <1>1, <2>1, <2>2, <2>3
<1> QED BY <1>3, <1>5 DEF TileSide

LEMMA ExtentType ==
  ASSUME NEW total \in Nat, NEW at \in Nat, at < total
  PROVE  TileExtent(total, at) \in 1..LANES /\ at + TileExtent(total, at) <= total
  BY LanesAssumption DEF TileExtent, TILE

LEMMA StoreRegs ==
  ASSUME StepInv, state \notin {"S_IDLE", "S_DONE"}
  PROVE  /\ m < DimM /\ n < DimN
         /\ reg.base_c = (job.C.data + (m * job.C.stride + n) * WORD_BYTES) % AddrMod
         /\ reg.stride_c = job.C.stride % STRIDE_MOD
         /\ tile_M = TileExtent(DimM, m)
<1>1. Performed(8) /\ pc # 0 /\ pc \in 0..11
  BY DEF StepInv, EngineSide, DriverSide, Performed
<1>2. Performed(3) /\ Performed(6) /\ Performed(7)
  BY <1>1 DEF Performed
<1>3. job \in Jobs /\ m \in Nat /\ n \in Nat /\ k \in Nat /\ m < DimM /\ n < DimN /\ k < DimK
  BY <1>1 DEF StepInv, DriverSide
<1>4. DimM \in Nat /\ DimN \in Nat /\ DimK \in Nat
  BY <1>3, DimType
<1>5. /\ reg.base_c = TileScript[3].data % AddrMod
      /\ reg.stride_c = TileScript[6].data % STRIDE_MOD
      /\ reg.bounds = TileScript[7].data
  BY <1>2 DEF StepInv, RegSide
<1> DEFINE tM == TileExtent(DimM, m)
           tN == TileExtent(DimN, n)
           tK == TileExtent(DimK, k)
<1>6. /\ TileScript[3].data = job.C.data + (m * job.C.stride + n) * WORD_BYTES
      /\ TileScript[6].data = job.C.stride
      /\ TileScript[7].data = (tM % 256) * 65536 + (tK % 256) * 256 + (tN % 256)
  BY DEF TileScript, Access
<1>7. tM \in 0..255 /\ tN \in 0..255 /\ tK \in 0..255
  <2>1. tM \in 1..LANES
    BY <1>3, <1>4, ExtentType
  <2>2. tN \in 1..LANES
    BY <1>3, <1>4, ExtentType
  <2>3. tK \in 1..LANES
    BY <1>3, <1>4, ExtentType
  <2> HIDE DEF tM, tN, tK
  <2> QED BY <2>1, <2>2, <2>3, TileAssumption, LanesAssumption
<1>8. tM % 256 = tM /\ tN % 256 = tN /\ tK % 256 = tK
  <2> HIDE DEF tM, tN, tK
  <2> QED BY <1>7
<1>9. tile_M = tM
  <2> HIDE DEF tM, tN, tK
  <2>1. reg.bounds = tM * 65536 + tK * 256 + tN
    BY <1>5, <1>6, <1>8
  <2>2. ((tM * 65536 + tK * 256 + tN) \div 65536) % 256 = tM
    BY <1>7
  <2> QED BY <2>1, <2>2 DEF tile_M
<1> QED BY <1>3, <1>5, <1>6, <1>9

\* The address of a row of C, in words.
StoreWord == (m + row_cnt) * job.C.stride + n

LEMMA StoreAddress ==
  ASSUME PortInv, state = "S_STORE_C_WAIT", WellFormed(job)
  PROVE  /\ m + row_cnt \in 0..DimM - 1
         /\ AddrC = job.C.data + StoreWord * WORD_BYTES
<1> DEFINE S == job.C.stride
           D == job.C.data
           W == WORD_BYTES
           r == m + row_cnt
<1>1. job \in Jobs /\ m \in Nat /\ n \in Nat
  BY DEF PortInv, StepInv, DriverSide
<1>2. DimM \in Nat /\ DimN \in Nat /\ S \in Nat /\ D \in Nat /\ W \in Nat \ {0}
  BY <1>1, DimType, JobsAssumption, WordAssumption
<1>3. /\ m < DimM /\ n < DimN
      /\ reg.base_c = (D + (m * S + n) * W) % AddrMod
      /\ reg.stride_c = S % STRIDE_MOD
      /\ tile_M = TileExtent(DimM, m)
  BY StoreRegs DEF PortInv
<1>4. row_cnt \in Nat /\ row_cnt < tile_M
  BY LanesAssumption DEF PortInv, PortSide, Idx
<1>5. m + TileExtent(DimM, m) <= DimM /\ TileExtent(DimM, m) \in 1..LANES
  BY <1>1, <1>2, <1>3, ExtentType
<1>6. r \in Nat /\ r < DimM
  BY <1>1, <1>2, <1>3, <1>4, <1>5, LanesAssumption
<1>7. DimN <= S /\ S < STRIDE_MOD /\ D + DimM * S * W <= AddrMod
  BY DEF WellFormed, DimM, DimN
<1>8. AddrMod \in Nat \ {0}
  BY LanesAssumption, RowsAssumption, WordAssumption DEF AddrMod, RowBytes
<1>9. reg.stride_c = S
  <2> HIDE DEF S
  <2>1. STRIDE_MOD \in Nat \ {0}
    BY DEF STRIDE_MOD
  <2> QED BY <1>2, <1>3, <1>7, <2>1, ModSmall
<1> HIDE DEF r
<1>10. (m * S + n) * W + W <= (DimM * S) * W /\ (r * S + n) * W + W <= (DimM * S) * W
  <2>1. n < S
    BY <1>1, <1>2, <1>3, <1>7
  <2>2. (m * S + n) * W + W <= (DimM * S) * W
    BY <1>1, <1>2, <1>3, <2>1, InsideArray
  <2>3. (r * S + n) * W + W <= (DimM * S) * W
    BY <1>1, <1>2, <1>6, <2>1, InsideArray
  <2> QED BY <2>2, <2>3
<1> DEFINE x == (m * S + n) * W
           y == (r * S + n) * W
           z == (DimM * S) * W
<1>11. x \in Nat /\ y \in Nat /\ z \in Nat
  BY <1>1, <1>2, <1>6
<1>12. D + x < AddrMod /\ D + y < AddrMod
  <2>1. x + W <= z /\ y + W <= z /\ D + z <= AddrMod
    BY <1>7, <1>10
  <2> HIDE DEF x, y, z
  <2> QED BY <1>2, <1>8, <1>11, <2>1
<1>13. reg.base_c = D + x
  <2>1. reg.base_c = (D + x) % AddrMod
    BY <1>3
  <2> HIDE DEF x, D
  <2>2. D + x \in Nat
    BY <1>2, <1>11
  <2> QED BY <1>8, <1>12, <2>1, <2>2, ModSmall
<1>14. D + x + row_cnt * S * W = D + y
  <2>1. r * S = m * S + row_cnt * S
    BY <1>1, <1>2, <1>4 DEF r
  <2> DEFINE ms == m * S
             rs == row_cnt * S
             q  == r * S
  <2>2. ms \in Nat /\ rs \in Nat /\ q = ms + rs
    BY <1>1, <1>2, <1>4, <2>1
  <2>3. (ms + n) * W + rs * W = (q + n) * W
    <3> HIDE DEF ms, rs, q
    <3> QED BY <1>1, <1>2, <2>2
  <2>4. x + row_cnt * S * W = y
    BY <2>3
  <2>5. row_cnt * S * W \in Nat
    BY <1>2, <1>4
  <2> HIDE DEF x, y
  <2> QED BY <1>2, <1>11, <2>4, <2>5
<1>15. AddrC = D + y
  <2>1. AddrC = (D + x + row_cnt * S * W) % AddrMod
    BY <1>9, <1>13 DEF AddrC
  <2>2. AddrC = (D + y) % AddrMod
    BY <1>14, <2>1
  <2> HIDE DEF y, D
  <2>3. D + y \in Nat
    BY <1>2, <1>11
  <2> QED BY <1>8, <1>12, <2>2, <2>3, ModSmall
<1>16. r \in 0..DimM - 1
  BY <1>2, <1>6
<1> QED BY <1>15, <1>16 DEF r, StoreWord

\* The bytes that a store enables are in the array of C, within the width of
\* its tiles.
LEMMA StoreInFootprint ==
  ASSUME PortInv, TileSide, state = "S_STORE_C_WAIT", WellFormed(job), NEW a \in Nat,
         a \div RowBytes = RowOf(AddrC),
         (a % RowBytes) \div WORD_BYTES >= OffsetOf(AddrC) \div WORD_BYTES
  PROVE  a \in Footprint
<1> DEFINE S == job.C.stride
           D == job.C.data
           W == WORD_BYTES
           r == m + row_cnt
           d == D \div W
           t == d + StoreWord
<1>1. job \in Jobs /\ m \in Nat /\ n \in Nat /\ row_cnt \in Nat
  BY LanesAssumption DEF PortInv, PortSide, StepInv, DriverSide, Idx
<1>2. /\ DimM \in Nat /\ DimN \in Nat /\ S \in Nat /\ D \in Nat
      /\ W \in Nat \ {0} /\ LANES \in Nat \ {0}
  BY <1>1, DimType, JobsAssumption, WordAssumption, LanesAssumption
<1>3. r \in 0..DimM - 1 /\ r \in Nat /\ r < DimM /\ AddrC = D + StoreWord * W
  <2>1. r \in 0..DimM - 1 /\ AddrC = D + StoreWord * W
    BY StoreAddress
  <2> HIDE DEF r
  <2> QED BY <1>2, <2>1
<1>4. n < DimN
  BY StoreRegs DEF PortInv
<1>5. DimN <= S /\ S % TILE = 0 /\ D % W = 0
  BY DEF WellFormed, DimN
<1>6. d \in Nat /\ D = d * W
  <2> HIDE DEF D
  <2>1. D \div W \in Nat /\ D = ((D \div W) * W) + (D % W)
    BY <1>2, DivMod
  <2> QED BY <1>2, <1>5, <2>1
<1> HIDE DEF d
<1>7. StoreWord \in Nat /\ t \in Nat /\ AddrC = t * W
  <2>1. StoreWord \in Nat
    BY <1>1, <1>2 DEF StoreWord
  <2> HIDE DEF D
  <2> QED BY <1>2, <1>3, <1>6, <2>1
<1>8. PICK q \in 0..LANES - 1, b \in 0..W - 1 : a = (t + q) * W + b
  <2>1. InRowFrom(W, LANES, t, a)
    BY <1>7 DEF InRowFrom, RowOf, OffsetOf, RowBytes
  <2> HIDE DEF t
  <2>2. InWordsFrom(W, LANES, t, a)
    BY <1>2, <1>7, <2>1, SameRow
  <2> QED BY <2>2 DEF InWordsFrom
<1> DEFINE c == n + q
<1>9. c \in Nat /\ c < TiledN /\ TiledN <= S
  <2>1. PICK p \in Nat : n = p * TILE
    BY DEF TileSide
  <2>2. TILE \in Nat \ {0} /\ q \in 0..TILE - 1 /\ p * TILE < DimN
    BY <1>2, <1>4, <2>1 DEF TILE
  <2>3. /\ p * TILE + q < ((DimN + TILE - 1) \div TILE) * TILE
        /\ ((DimN + TILE - 1) \div TILE) * TILE <= S
    BY <1>2, <1>5, <2>2, TileColumns
  <2> QED BY <1>1, <1>2, <2>1, <2>3 DEF TiledN
<1>10. TiledN \in Nat
  <2>1. DimN + TILE - 1 \in Nat /\ TILE \in Nat \ {0}
    BY <1>1, <1>2, <1>4 DEF TILE
  <2>2. (DimN + TILE - 1) \div TILE \in Nat
    BY <2>1, DivMod
  <2> QED BY <2>1, <2>2 DEF TiledN
<1> HIDE DEF c, r
<1>11. c \in 0..TiledN - 1 /\ c < S
  BY <1>2, <1>9, <1>10
<1>12. a = D + (r * S + c) * W + b
  <2>1. t + q = d + (r * S + c)
    <3>1. t = d + (r * S + n) /\ c = n + q
      BY DEF t, StoreWord, r, c
    <3>2. r * S \in Nat
      BY <1>2, <1>3
    <3> HIDE DEF t
    <3> QED BY <1>1, <1>6, <1>7, <1>8, <3>1, <3>2
  <2> DEFINE x == r * S + c
  <2>2. x \in Nat
    BY <1>2, <1>3, <1>9
  <2>3. a = (d + x) * W + b
    BY <1>8, <2>1
  <2> HIDE DEF x, D
  <2>4. (d + x) * W = d * W + x * W
    BY <1>2, <1>6, <2>2
  <2>5. a = D + x * W + b
    BY <1>2, <1>6, <1>8, <2>2, <2>3, <2>4
  <2> QED BY <2>5 DEF x
<1>13. a \in ArrayC
  <2> DEFINE y == (r * S + c) * W
             z == (DimM * S) * W
  <2>1. y + W <= z
    BY <1>2, <1>3, <1>9, <1>11, InsideArray
  <2>2. y \in Nat /\ z \in Nat /\ a = D + y + b
    BY <1>2, <1>3, <1>9, <1>12
  <2>3. ArrayC = D..D + z - 1
    BY DEF ArrayC, ArrayOf, DimM
  <2> HIDE DEF y, z, D
  <2> QED BY <1>2, <1>8, <2>1, <2>2, <2>3
<1>14. a = ElemC(r, c) + b /\ b \in ByteSel
  BY <1>8, <1>12 DEF ElemC, ByteSel
<1> QED BY <1>3, <1>11, <1>13, <1>14 DEF Footprint

-----------------------------------------------------------------------------
(* What a clock edge does to a byte of the memory. *)

MemBytes == 0..NUM_WORDS * RowBytes - 1

LEMMA BytePlace ==
  ASSUME NEW a \in MemBytes
  PROVE  /\ a \in Nat /\ a \div RowBytes \in MemIndex
         /\ (a % RowBytes) \div WORD_BYTES \in Lane
         /\ (a % RowBytes) % WORD_BYTES \in ByteSel
<1>1. WORD_BYTES \in Nat \ {0} /\ LANES \in Nat \ {0} /\ NUM_WORDS \in Nat
  BY WordAssumption, LanesAssumption, RowsAssumption
<1>2. RowBytes \in Nat \ {0} /\ RowBytes = LANES * WORD_BYTES /\ a \in Nat /\ a < NUM_WORDS * RowBytes
  BY <1>1 DEF RowBytes, MemBytes
<1>3. /\ a \div RowBytes \in Nat /\ a % RowBytes \in 0..RowBytes - 1
      /\ a = ((a \div RowBytes) * RowBytes) + (a % RowBytes)
  BY <1>2, DivMod
<1> DEFINE i == a \div RowBytes
           o == a % RowBytes
<1> HIDE DEF i, o
<1>4. i \in Nat /\ o \in 0..RowBytes - 1 /\ a = (i * RowBytes) + o
  BY <1>3 DEF i, o
<1>5. i < NUM_WORDS
  <2>1. i * RowBytes < NUM_WORDS * RowBytes
    BY <1>1, <1>2, <1>4
  <2> QED BY <1>1, <1>2, <1>4, <2>1, Less
<1>6. /\ o \div WORD_BYTES \in Nat /\ o % WORD_BYTES \in 0..WORD_BYTES - 1
      /\ o = ((o \div WORD_BYTES) * WORD_BYTES) + (o % WORD_BYTES)
  <2>1. o \in Nat
    BY <1>2, <1>4
  <2> QED BY <1>1, <2>1, DivMod
<1> DEFINE l == o \div WORD_BYTES
           b == o % WORD_BYTES
<1> HIDE DEF l, b
<1>7. l \in Nat /\ b \in 0..WORD_BYTES - 1 /\ o = (l * WORD_BYTES) + b
  BY <1>6 DEF l, b
<1>8. l < LANES
  <2>1. l * WORD_BYTES < LANES * WORD_BYTES
    BY <1>1, <1>2, <1>4, <1>7
  <2> QED BY <1>1, <1>7, <2>1, Less
<1>9. i \in MemIndex /\ l \in Lane /\ b \in ByteSel
  BY <1>1, <1>4, <1>5, <1>7, <1>8 DEF MemIndex, Lane, ByteSel
<1> QED BY <1>2, <1>9 DEF i, o, l, b

\* A write changes bytes of its row that it enables, and no others.
LEMMA Untouched ==
  ASSUME DOMAIN mem = MemIndex, NEW req, BramTick(req), NEW a \in MemBytes,
         req.stb = 1 /\ req.rw = 1 =>
           \/ a \div RowBytes # req.row
           \/ (a % RowBytes) % WORD_BYTES \notin req.be[(a % RowBytes) \div WORD_BYTES]
  PROVE  ByteOf(mem', a) = ByteOf(mem, a)
<1> DEFINE i == a \div RowBytes
           l == (a % RowBytes) \div WORD_BYTES
           b == (a % RowBytes) % WORD_BYTES
<1>1. i \in MemIndex /\ l \in Lane /\ b \in ByteSel
  BY BytePlace
<1>2. ByteOf(mem, a) = mem[i][l][b] /\ ByteOf(mem', a) = mem'[i][l][b]
  BY DEF ByteOf, ByteAt
<1>3. req.stb = 1 /\ req.rw = 1 => i # req.row \/ b \notin req.be[l]
  OBVIOUS
<1> HIDE DEF i, l, b
<1>4. CASE BramWrite(req)
  <2>1. mem' = [mem EXCEPT ![req.row] = MergeRow(mem[req.row], req.wdata, req.be)]
    BY <1>4 DEF BramWrite
  <2>2. CASE i # req.row
    BY <1>1, <1>2, <2>1, <2>2
  <2>3. CASE i = req.row
    <3>1. mem'[i] = MergeRow(mem[i], req.wdata, req.be)
      BY <1>1, <2>1, <2>3
    <3>2. MergeRow(mem[i], req.wdata, req.be)[l] = MergeWord(mem[i][l], req.wdata[l], req.be[l])
      BY <1>1 DEF MergeRow
    <3>3. b \notin req.be[l]
      BY <1>3, <1>4, <2>3 DEF BramWrite
    <3>4. MergeWord(mem[i][l], req.wdata[l], req.be[l])[b] = mem[i][l][b]
      BY <1>1, <3>3 DEF MergeWord
    <3> QED BY <1>2, <3>1, <3>2, <3>4
  <2> QED BY <2>2, <2>3
<1>5. CASE BramRead(req) \/ BramOutOfBounds(req) \/ BramQuiet(req)
  BY <1>2, <1>5 DEF BramRead, BramOutOfBounds, BramQuiet
<1> QED BY <1>4, <1>5 DEF BramTick

LEMMA MemDomain ==
  ASSUME DOMAIN mem = MemIndex, NEW req, BramTick(req)
  PROVE  DOMAIN mem' = MemIndex
<1>1. CASE BramWrite(req)
  BY <1>1 DEF BramWrite
<1>2. CASE BramRead(req) \/ BramOutOfBounds(req) \/ BramQuiet(req)
  BY <1>2 DEF BramRead, BramOutOfBounds, BramQuiet
<1> QED BY <1>1, <1>2 DEF BramTick

-----------------------------------------------------------------------------
(* The frame. *)

\* The strobe on the CPU port is another master's, and only when there are any.
CpuSide ==
  /\ DOMAIN cpu_req = DOMAIN CpuReqIdle
  /\ cpu_req.stb = 1 => job \in Disturbed /\ cpu_req \in OtherReqs
  /\ cpu_req.stb \in Bit

FrameInv ==
  /\ PortInv /\ TileSide /\ CpuSide
  /\ DOMAIN mem = MemIndex /\ FrameIntact

LEMMA CpuSideStep ==
  ASSUME CpuSide, OtherTick, UNCHANGED job
  PROVE  CpuSide'
<1>1. CASE cpu_req' = [cpu_req EXCEPT !.stb = 0]
  <2>1. DOMAIN cpu_req' = DOMAIN cpu_req /\ cpu_req'.stb = 0
    BY <1>1 DEF CpuSide, CpuReqIdle
  <2> QED BY <2>1 DEF CpuSide, Bit
<1>2. CASE job \in Disturbed /\ cpu_req' \in OtherReqs
  <2>1. cpu_req' \in CpuReq /\ cpu_req'.stb = 1
    BY <1>2, OtherAssumption
  <2>2. DOMAIN cpu_req' = DOMAIN CpuReqIdle
    BY <2>1 DEF CpuReq, CpuReqIdle
  <2> QED BY <1>2, <2>1, <2>2 DEF CpuSide, Bit
<1> QED BY <1>1, <1>2 DEF OtherTick

\* The memory is written by another master, or by the engine at its row of C.
LEMMA Writer ==
  ASSUME PortSide, MemPort.stb = 1, MemPort.rw = 1
  PROVE  \/ cpu_req.stb = 1 /\ cpu_req.rw = 1 /\ MemPort.row = cpu_req.row
         \/ /\ state = "S_STORE_C_WAIT"
            /\ MemPort.row = RowOf(AddrC) /\ MemPort.be = StoreBE(OffsetOf(AddrC) \div WORD_BYTES)
<1>1. CASE MemPort = CpuToMem(cpu_req)
  BY <1>1 DEF CpuToMem
<1>2. CASE MemPort = dma_req
  BY <1>2 DEF PortSide, Waits
<1>3. MemPort # MemReqIdle
  BY DEF MemReqIdle
<1> QED BY <1>1, <1>2, <1>3 DEF MemPort, mem_req

\* No clock edge writes a byte outside the frame.
LEMMA FrameByte ==
  ASSUME PortInv, TileSide, CpuSide, DOMAIN mem = MemIndex, BramTick(MemPort), WellFormed(job),
         NEW a \in MemBytes, a \notin Footprint, a \notin OtherBytes
  PROVE  ByteOf(mem', a) = ByteOf(mem, a)
<1> DEFINE i == a \div RowBytes
           l == (a % RowBytes) \div WORD_BYTES
           b == (a % RowBytes) % WORD_BYTES
<1>1. a \in Nat /\ i \in MemIndex /\ l \in Lane
  BY BytePlace
<1>2. ASSUME MemPort.stb = 1, MemPort.rw = 1
      PROVE  i # MemPort.row \/ b \notin MemPort.be[l]
  <2>1. CASE cpu_req.stb = 1 /\ cpu_req.rw = 1 /\ MemPort.row = cpu_req.row
    <3>1. job \in Disturbed /\ cpu_req \in OtherReqs /\ cpu_req.rw = 1
      BY <2>1 DEF CpuSide
    <3>2. cpu_req.row * RowBytes .. cpu_req.row * RowBytes + RowBytes - 1 \subseteq OtherBytes
      BY <3>1 DEF OtherBytes, WrittenDuring
    <3>3. a \in i * RowBytes .. i * RowBytes + RowBytes - 1
      <4>1. RowBytes \in Nat \ {0}
        BY WordAssumption, LanesAssumption DEF RowBytes
      <4>2. i \in Nat /\ a % RowBytes \in 0..RowBytes - 1 /\ a = (i * RowBytes) + (a % RowBytes)
        BY <1>1, <4>1, DivMod
      <4>3. i * RowBytes \in Nat
        BY <4>1, <4>2
      <4> HIDE DEF i
      <4> QED BY <4>1, <4>2, <4>3
    <3>4. i # cpu_req.row
      BY <3>2, <3>3
    <3> QED BY <2>1, <3>4
  <2>2. CASE /\ state = "S_STORE_C_WAIT"
             /\ MemPort.row = RowOf(AddrC) /\ MemPort.be = StoreBE(OffsetOf(AddrC) \div WORD_BYTES)
    <3> DEFINE lane == OffsetOf(AddrC) \div WORD_BYTES
    <3>1. CASE i # RowOf(AddrC)
      BY <2>2, <3>1
    <3>2. CASE i = RowOf(AddrC)
      <4>1. ~(l >= lane)
        BY <1>1, <2>2, <3>2, StoreInFootprint
      <4>2. MemPort.be[l] = {}
        <5> HIDE DEF l, lane
        <5>1. MemPort.be = [x \in Lane |-> IF x >= lane THEN ByteSel ELSE {}]
          BY <2>2 DEF StoreBE, lane
        <5> QED BY <1>1, <4>1, <5>1
      <4> QED BY <4>2
    <3> QED BY <3>1, <3>2
  <2> QED BY <1>2, <2>1, <2>2, Writer DEF PortInv
<1>3. MemPort.stb = 1 /\ MemPort.rw = 1 => i # MemPort.row \/ b \notin MemPort.be[l]
  BY <1>2
<1> QED BY <1>3, Untouched

LEMMA SameFrame ==
  ASSUME UNCHANGED job
  PROVE  Footprint' = Footprint /\ OtherBytes' = OtherBytes
<1>1. DimM' = DimM /\ TiledN' = TiledN /\ ArrayC' = ArrayC
  BY DEF DimM, DimN, TiledN, ArrayC
<1>2. \A r, c : ElemC(r, c)' = ElemC(r, c)
  BY DEF ElemC
<1> QED BY <1>1, <1>2 DEF Footprint, OtherBytes

LEMMA FrameNext ==
  ASSUME FrameInv, [Next]_vars, \A j \in Jobs : WellFormed(j)
  PROVE  FrameInv'
<1>1. PortInv'
  BY PortNext DEF FrameInv
<1>2. CASE Tick
  <2>1. /\ Onward \/ Performs \/ Takes
        /\ job' = job
    BY <1>2, TickPhases DEF FrameInv, PortInv
  <2>2. OtherTick /\ BramTick(MemPort)
    BY <1>2 DEF Tick
  <2>3. TileSide' /\ CpuSide' /\ DOMAIN mem' = MemIndex
    BY <2>1, <2>2, TileSideStep, CpuSideStep, MemDomain DEF FrameInv, PortInv, StepInv
  <2>4. FrameIntact'
    <3>1. SUFFICES ASSUME NEW a \in MemBytes, a \notin Footprint, a \notin OtherBytes
                   PROVE  ByteOf(mem', a) = ByteOf(job.image, a)
      BY <2>1, SameFrame DEF FrameIntact, MemBytes, ByteOf
    <3>2. WellFormed(job)
      BY DEF FrameInv, PortInv, StepInv, DriverSide
    <3>3. ByteOf(mem', a) = ByteOf(mem, a)
      BY <2>2, <3>1, <3>2, FrameByte DEF FrameInv
    <3>4. ByteOf(mem, a) = ByteOf(job.image, a)
      BY <3>1 DEF FrameInv, FrameIntact, MemBytes
    <3> QED BY <3>3, <3>4
  <2> QED BY <1>1, <2>3, <2>4 DEF FrameInv
<1>3. CASE Reset
  <2>1. job' = job /\ n' = 0 /\ mem' = mem /\ cpu_req' = CpuReqIdle
    BY <1>3 DEF Reset, DriverRestart
  <2>2. TileSide'
    <3>1. n' = 0 * TILE' /\ 0 \in Nat
      BY <2>1, LanesAssumption DEF TILE
    <3> QED BY <3>1 DEF TileSide
  <2>3. CpuSide'
    BY <2>1 DEF CpuSide, CpuReqIdle, Bit
  <2>4. FrameIntact'
    BY <2>1, SameFrame DEF FrameInv, FrameIntact, ByteOf
  <2> QED BY <1>1, <2>1, <2>2, <2>3, <2>4 DEF FrameInv
<1>4. CASE UNCHANGED vars
  <2>1. UNCHANGED <<job, n, mem, cpu_req>>
    BY <1>4 DEF vars, driverVars, bramVars
  <2>2. FrameIntact'
    BY <2>1, SameFrame DEF FrameInv, FrameIntact, ByteOf
  <2>3. TileSide' /\ CpuSide'
    BY <2>1 DEF FrameInv, TileSide, CpuSide, TILE
  <2> QED BY <1>1, <2>1, <2>2, <2>3 DEF FrameInv
<1> QED BY <1>2, <1>3, <1>4 DEF Next

LEMMA FrameInit == Init => FrameInv
<1> SUFFICES ASSUME Init PROVE FrameInv
  OBVIOUS
<1>1. job \in Jobs /\ n = 0 /\ mem = job.image /\ cpu_req = CpuReqIdle
  BY DEF Init, DriverInit
<1>2. TileSide
  <2>1. n = 0 * TILE /\ 0 \in Nat
    BY <1>1, LanesAssumption DEF TILE
  <2> QED BY <2>1 DEF TileSide
<1>3. CpuSide
  BY <1>1 DEF CpuSide, CpuReqIdle, Bit
<1>4. DOMAIN mem = MemIndex
  BY <1>1, JobsAssumption
<1>5. FrameIntact
  BY <1>1 DEF FrameIntact
<1> QED BY <1>2, <1>3, <1>4, <1>5, PortInit DEF FrameInv

\* While gemmrv_mult runs, whatever else uses the memory and however often the
\* system is reset, no byte outside the array of C and the rows other masters
\* write changes: rows beyond tile_M are not stored, lanes before the element
\* are not enabled, a write that the held strobe executes twice does no harm,
\* and lanes beyond tile_N stay within a stride of whole tiles
\* (gemmrv_hw.c:32-56, gemmrv_hw.h:19-23, neorv32_cfs.vhd:328-370).
THEOREM Framed == (\A j \in Jobs : WellFormed(j)) => (Spec => []FrameIntact)
<1> SUFFICES ASSUME \A j \in Jobs : WellFormed(j)
             PROVE  Spec => []FrameIntact
  OBVIOUS
<1>1. FrameInv /\ [Next]_vars => FrameInv'
  BY FrameNext
<1>2. FrameInv => FrameIntact
  BY DEF FrameInv
<1> QED BY <1>1, <1>2, FrameInit, PTL DEF Spec

-----------------------------------------------------------------------------
(* Arithmetic modulo the word. *)

LEMMA IntDivMod ==
  ASSUME NEW a \in Int, NEW d \in Nat \ {0}
  PROVE  a \div d \in Int /\ a % d \in 0..d - 1 /\ a = ((a \div d) * d) + (a % d)
  OBVIOUS

LEMMA IntModUnique ==
  ASSUME NEW q \in Int, NEW d \in Nat \ {0}, NEW r \in 0..d - 1
  PROVE  ((q * d) + r) % d = r
  OBVIOUS

LEMMA AddMod ==
  ASSUME NEW a \in Int, NEW b \in Int, NEW d \in Nat \ {0}
  PROVE  ((a % d) + b) % d = (a + b) % d
<1> DEFINE q == a \div d
           r == a % d
           s == r + b
           t == s \div d
           u == s % d
<1>1. q \in Int /\ r \in 0..d - 1 /\ a = (q * d) + r
  BY IntDivMod
<1> HIDE DEF q, r
<1>2. s \in Int
  BY <1>1
<1>3. t \in Int /\ u \in 0..d - 1 /\ s = (t * d) + u
  <2> HIDE DEF s
  <2> QED BY <1>2, IntDivMod
<1> HIDE DEF t, u
<1>4. a + b = (q * d) + ((t * d) + u)
  BY <1>1, <1>3
<1>5. (q + t) * d = (q * d) + (t * d)
  BY <1>1, <1>3
<1>6. a + b = ((q + t) * d) + u
  <2> DEFINE x == q * d
             y == t * d
             z == (q + t) * d
  <2>1. x \in Int /\ y \in Int /\ z \in Int /\ u \in Int
    BY <1>1, <1>3
  <2> HIDE DEF x, y, z
  <2> QED BY <1>4, <1>5, <2>1 DEF x, y, z
<1>7. (((q + t) * d) + u) % d = u
  <2>1. q + t \in Int
    BY <1>1, <1>3
  <2> HIDE DEF s
  <2> QED BY <1>3, <2>1, IntModUnique
<1> QED BY <1>6, <1>7 DEF u, s, r

LEMMA AddMods ==
  ASSUME NEW a \in Int, NEW b \in Int, NEW d \in Nat \ {0}
  PROVE  ((a % d) + (b % d)) % d = (a + b) % d
<1>1. a % d \in Int /\ b % d \in Int
  BY IntDivMod
<1>2. ((a % d) + (b % d)) % d = (a + (b % d)) % d
  BY <1>1, AddMod
<1>3. ((b % d) + a) % d = (b + a) % d
  BY AddMod
<1>4. a + (b % d) = (b % d) + a /\ a + b = b + a
  BY <1>1
<1> QED BY <1>2, <1>3, <1>4

-----------------------------------------------------------------------------
(* Words and their bytes. *)

LEMMA WordSizes ==
  /\ BYTE_MOD \in Nat \ {0} /\ BYTE_MOD >= 2 /\ BYTE_MOD % 2 = 0 /\ Byte = 0..BYTE_MOD - 1
  /\ WORD_BYTES \in Nat \ {0} /\ LANES \in Nat \ {0}
  /\ RowBytes \in Nat \ {0} /\ RowBytes = LANES * WORD_BYTES
  /\ INDEX_ROWS \in Nat \ {0} /\ NUM_WORDS \in Nat \ {0} /\ NUM_WORDS <= INDEX_ROWS
  /\ AddrMod \in Nat \ {0} /\ AddrMod = INDEX_ROWS * RowBytes
  /\ NUM_WORDS * RowBytes \in Nat /\ NUM_WORDS * RowBytes <= AddrMod
<1>1. /\ BYTE_MOD \in Nat \ {0} /\ BYTE_MOD >= 2 /\ BYTE_MOD % 2 = 0 /\ Byte = 0..BYTE_MOD - 1
      /\ WORD_BYTES \in Nat \ {0} /\ LANES \in Nat \ {0}
      /\ INDEX_ROWS \in Nat \ {0} /\ NUM_WORDS \in Nat \ {0} /\ NUM_WORDS <= INDEX_ROWS
  BY ByteModAssumption, WordAssumption, LanesAssumption, RowsAssumption
<1>2. RowBytes \in Nat \ {0}
  BY <1>1 DEF RowBytes
<1>3. AddrMod \in Nat \ {0} /\ NUM_WORDS * RowBytes \in Nat /\ NUM_WORDS * RowBytes <= AddrMod
  <2>1. NUM_WORDS * RowBytes <= INDEX_ROWS * RowBytes
    BY <1>1, <1>2, LessEq
  <2> QED BY <1>1, <1>2, <2>1 DEF AddrMod
<1> QED BY <1>1, <1>2, <1>3 DEF RowBytes, AddrMod

LEMMA Weights ==
  /\ \A b \in Nat : Weight[b] \in Nat \ {0}
  /\ Weight[0] = 1 /\ \A b \in Nat : Weight[b + 1] = Weight[b] * BYTE_MOD
  /\ WordMod \in Nat \ {0}
<1>1. /\ Weight \in [Nat -> Nat \ {0}]
      /\ Weight[0] = 1 /\ \A b \in Nat : Weight[b + 1] = Weight[b] * BYTE_MOD
  BY WordSizes, PowerDef DEF Weight
<1> QED BY <1>1, WordSizes DEF WordMod

LEMMA WordOfType ==
  ASSUME NEW v \in Nat
  PROVE  WordOf(v) \in Word
<1>1. \A b \in ByteSel : (v \div Weight[b]) % BYTE_MOD \in Byte
  <2> SUFFICES ASSUME NEW b \in ByteSel
               PROVE  (v \div Weight[b]) % BYTE_MOD \in Byte
    OBVIOUS
  <2>1. Weight[b] \in Nat \ {0}
    BY Weights, WordSizes DEF ByteSel
  <2> DEFINE q == v \div Weight[b]
  <2>2. q \in Nat
    BY <2>1, DivMod
  <2> HIDE DEF q
  <2>3. q % BYTE_MOD \in 0..BYTE_MOD - 1
    BY <2>2, WordSizes, DivMod
  <2> QED BY <2>3, WordSizes DEF q
<1> QED BY <1>1 DEF WordOf, Word

\* One more byte of a number.
LEMMA OneByteMore ==
  ASSUME NEW v \in Nat, NEW w \in Nat \ {0}, NEW d \in Nat \ {0}
  PROVE  v % (w * d) = (v % w) + (((v \div w) % d) * w)
<1> DEFINE q == v \div w
           r == v % w
           p == q \div d
           e == q % d
<1>1. q \in Nat /\ r \in 0..w - 1 /\ v = (q * w) + r
  BY DivMod
<1> HIDE DEF q, r
<1>2. p \in Nat /\ e \in 0..d - 1 /\ q = (p * d) + e
  BY <1>1, DivMod
<1> HIDE DEF p, e
<1>3. w * d \in Nat \ {0}
  OBVIOUS
<1>4. q * w = p * (w * d) + e * w
  BY <1>1, <1>2
<1>5. e * w <= (d - 1) * w /\ (d - 1) * w = w * d - w
  <2>1. e \in Int /\ d - 1 \in Int /\ e <= d - 1
    BY <1>2
  <2>2. e * w <= (d - 1) * w
    BY <2>1, LessEq
  <2> QED BY <2>2
<1> DEFINE x == e * w
           y == w * d
           z == p * (w * d)
<1>6. x \in Nat /\ y \in Nat \ {0} /\ z \in Nat
  BY <1>2, <1>3
<1>7. r + x \in 0..y - 1 /\ v = z + (r + x)
  <2>1. x <= y - w
    BY <1>5
  <2>2. v = (z + x) + r
    BY <1>1, <1>4
  <2> HIDE DEF x, y, z
  <2> QED BY <1>1, <1>6, <2>1, <2>2
<1>8. v % y = r + x
  <2> DEFINE g == r + x
  <2>1. v = (p * y) + g /\ g \in 0..y - 1 /\ y \in Nat \ {0}
    BY <1>6, <1>7
  <2> HIDE DEF g, y
  <2>2. ((p * y) + g) % y = g
    BY <1>2, <2>1, DivModUnique
  <2> QED BY <2>1, <2>2 DEF g
<1> QED BY <1>8 DEF x, y, r, e, q

\* A word in the memory whose bytes are those of v reads v.
LEMMA WordRead ==
  ASSUME NEW image, NEW a, NEW v \in Accu,
         \A b \in ByteSel : ByteOf(image, a + b) = WordOf(v)[b]
  PROVE  WordAt(image, a) = v
<1> DEFINE f == [b \in ByteSel |-> ByteOf(image, a + b) * Weight[b]]
           W == WORD_BYTES
<1>1. v \in Nat /\ v < WordMod /\ W \in Nat \ {0}
  BY Weights, WordSizes DEF Accu
<1>2. \A b \in 0..W - 1 : f[b] = ((v \div Weight[b]) % BYTE_MOD) * Weight[b]
  BY DEF ByteSel, WordOf
<1>3. \A b \in 0..W - 1 : f[b] \in Int
  <2> SUFFICES ASSUME NEW b \in 0..W - 1 PROVE f[b] \in Int
    OBVIOUS
  <2>1. Weight[b] \in Nat \ {0} /\ b \in ByteSel
    BY <1>1, Weights DEF ByteSel
  <2>2. WordOf(v)[b] \in Byte
    BY <1>1, <2>1, WordOfType DEF Word
  <2>3. f[b] = WordOf(v)[b] * Weight[b] /\ WordOf(v)[b] \in Nat
    BY <2>1, <2>2, WordSizes
  <2> HIDE DEF f
  <2> QED BY <2>1, <2>3
<1> HIDE DEF f
<1>4. /\ SumOf(f, 0) = 0
      /\ \A i \in 0..W - 1 : SumOf(f, i + 1) = SumOf(f, i) + f[i]
  BY <1>1, <1>3, SumDef
<1> DEFINE T == {i \in Nat : i <= W => SumOf(f, i) = v % Weight[i]}
<1>5. 0 \in T
  BY <1>1, <1>4, Weights
<1>6. ASSUME NEW i \in Nat, i \in T
      PROVE  i + 1 \in T
  <2>1. ASSUME i + 1 <= W PROVE SumOf(f, i + 1) = v % Weight[i + 1]
    <3>1. i \in 0..W - 1 /\ SumOf(f, i) = v % Weight[i]
      BY <1>1, <1>6, <2>1
    <3>2. SumOf(f, i + 1) = (v % Weight[i]) + (((v \div Weight[i]) % BYTE_MOD) * Weight[i])
      BY <1>2, <1>4, <3>1
    <3>3. Weight[i] \in Nat \ {0} /\ Weight[i + 1] = Weight[i] * BYTE_MOD
      BY Weights
    <3>4. v % (Weight[i] * BYTE_MOD) = (v % Weight[i]) + (((v \div Weight[i]) % BYTE_MOD) * Weight[i])
      BY <1>1, <3>3, WordSizes, OneByteMore
    <3> QED BY <3>2, <3>3, <3>4
  <2> QED BY <2>1
<1>7. \A i \in Nat : i \in T
  <2> HIDE DEF T
  <2> QED BY <1>5, <1>6, NatSetInduction
<1>8. SumOf(f, W) = v % Weight[W]
  BY <1>1, <1>7
<1>9. v % WordMod = v
  BY <1>1, Weights, ModSmall
<1> QED BY <1>8, <1>9 DEF WordAt, f, WordMod

-----------------------------------------------------------------------------
(* Types. *)

TypeInv == CfsTypeOK /\ BramTypeOK /\ XbarTypeOK

LEMMA ScriptData ==
  ASSUME DriverSide, pc \in 1..11
  PROVE  TileScript[pc].data \in Nat
<1>1. job \in Jobs /\ m \in Nat /\ n \in Nat /\ k \in Nat /\ m < DimM /\ n < DimN /\ k < DimK
  BY DEF DriverSide
<1>2. DimM \in Nat /\ DimN \in Nat /\ DimK \in Nat
  BY <1>1, DimType
<1>3. /\ job.A.data \in Nat /\ job.A.stride \in Nat /\ job.B.data \in Nat /\ job.B.stride \in Nat
      /\ job.C.data \in Nat /\ job.C.stride \in Nat
  BY <1>1, JobsAssumption
<1>4. TileExtent(DimM, m) \in Nat /\ TileExtent(DimK, k) \in Nat /\ TileExtent(DimN, n) \in Nat
  BY <1>1, <1>2, ExtentType, LanesAssumption
<1>5. pc \in {1, 2, 3, 4, 5, 6, 7, 8, 9, 10, 11}
  OBVIOUS
<1>6. CASE pc = 1
  <2>1. TileScript[1].data = job.A.data + m * job.A.stride + k
    BY DEF TileScript, Access
  <2>2. m * job.A.stride \in Nat
    BY <1>1, <1>3
  <2> QED BY <1>1, <1>3, <1>6, <2>1, <2>2
<1>7. CASE pc = 2
  <2>1. TileScript[2].data = job.B.data + k * job.B.stride + n
    BY DEF TileScript, Access
  <2>2. k * job.B.stride \in Nat
    BY <1>1, <1>3
  <2> QED BY <1>1, <1>3, <1>7, <2>1, <2>2
<1>8. CASE pc = 3
  <2>1. TileScript[3].data = job.C.data + (m * job.C.stride + n) * WORD_BYTES
    BY DEF TileScript, Access
  <2>2. m * job.C.stride + n \in Nat
    BY <1>1, <1>3
  <2>3. (m * job.C.stride + n) * WORD_BYTES \in Nat
    BY <2>2, WordSizes
  <2> QED BY <1>3, <1>8, <2>1, <2>3
<1>9. CASE pc \in {4, 5, 6}
  BY <1>3, <1>9 DEF TileScript, Access
<1>10. CASE pc = 7
  <2> DEFINE x == TileExtent(DimM, m) % 256
             y == TileExtent(DimK, k) % 256
             z == TileExtent(DimN, n) % 256
  <2>1. TileScript[7].data = x * 65536 + y * 256 + z
    BY DEF TileScript, Access
  <2>2. x \in Nat /\ y \in Nat /\ z \in Nat
    <3>1. \A e \in Nat : e % 256 \in Nat
      OBVIOUS
    <3> QED BY <1>4, <3>1
  <2> HIDE DEF x, y, z
  <2> QED BY <1>10, <2>1, <2>2
<1>11. CASE pc \in {8, 9, 10, 11}
  BY <1>11, Script DEF Access
<1> QED BY <1>5, <1>6, <1>7, <1>8, <1>9, <1>10, <1>11

LEMMA RegTypes ==
  ASSUME CfsTypeOK, StepInv, Onward \/ Performs \/ Takes, RegTick(dev_req)
  PROVE  /\ reg' \in RegFile /\ cmd' \in [start : Bit, clear : Bit, store : Bit]
         /\ cfs_rsp' \in [ack : Bit, data : Nat]
<1>1. reg \in RegFile /\ cmd \in [start : Bit, clear : Bit, store : Bit] /\ status_done \in Bit
  BY DEF CfsTypeOK
<1>2. CASE WriteReg(dev_req)
  <2>0. cfs_rsp' = [ack |-> 1, data |-> 0]
    BY <1>2 DEF WriteReg
  <2>1. Performs
    BY <1>2 DEF WriteReg, Onward, Takes
  <2>2. dev_req.data \in Nat
    BY <2>1, ScriptData DEF StepInv, Performs
  <2> DEFINE d == dev_req.data
  <2> HIDE DEF d
  <2>3. d % AddrMod \in 0..AddrMod - 1 /\ d % STRIDE_MOD \in 0..STRIDE_MOD - 1
    <3>1. d \in Nat /\ AddrMod \in Nat \ {0} /\ STRIDE_MOD \in Nat \ {0}
      BY <2>2, WordSizes DEF d, STRIDE_MOD
    <3> QED BY <3>1, DivMod
  <2>4. reg' \in RegFile
    <3>1. reg' \in {[reg EXCEPT !.base_a = d % AddrMod], [reg EXCEPT !.base_b = d % AddrMod],
                    [reg EXCEPT !.base_c = d % AddrMod], [reg EXCEPT !.stride_a = d % STRIDE_MOD],
                    [reg EXCEPT !.stride_b = d % STRIDE_MOD], [reg EXCEPT !.stride_c = d % STRIDE_MOD],
                    [reg EXCEPT !.bounds = d], reg}
      BY <1>2 DEF WriteReg, d
    <3> DEFINE x == d % AddrMod
               y == d % STRIDE_MOD
    <3> HIDE DEF x, y
    <3>2. reg' \in {[reg EXCEPT !.base_a = x], [reg EXCEPT !.base_b = x],
                    [reg EXCEPT !.base_c = x], [reg EXCEPT !.stride_a = y],
                    [reg EXCEPT !.stride_b = y], [reg EXCEPT !.stride_c = y],
                    [reg EXCEPT !.bounds = d], reg}
      BY <3>1 DEF x, y
    <3>3. x \in 0..AddrMod - 1 /\ y \in 0..STRIDE_MOD - 1 /\ d \in Nat
      BY <2>2, <2>3 DEF x, y, d
    <3> QED BY <1>1, <3>2, <3>3 DEF RegFile
  <2>5. cmd' \in [start : Bit, clear : Bit, store : Bit]
    <3>1. DataBit(d, 1) \in Bit /\ DataBit(d, 2) \in Bit /\ DataBit(d, 4) \in Bit
      BY <2>2 DEF DataBit, Bit, d
    <3>2. \/ cmd' = cmd
          \/ cmd' = [start |-> DataBit(d, 1), clear |-> DataBit(d, 2), store |-> DataBit(d, 4)]
      BY <1>2 DEF WriteReg, d
    <3> HIDE DEF d
    <3> QED BY <1>1, <3>1, <3>2
  <2> QED BY <2>0, <2>4, <2>5 DEF Bit
<1>3. CASE ReadReg(dev_req)
  <2>1. PICK perf \in PerfValue :
          cfs_rsp' = [ack |-> 1, data |-> CASE dev_req.adr = 6    -> 4 * status_done
                                            [] dev_req.adr \in 0..3 -> perf
                                            [] OTHER          -> 0]
    BY <1>3 DEF ReadReg
  <2>2. perf \in Nat /\ 4 * status_done \in Nat
    BY <1>1, ByteModAssumption DEF Bit
  <2>3. UNCHANGED <<reg, cmd>>
    BY <1>3 DEF ReadReg
  <2> DEFINE v == CASE dev_req.adr = 6    -> 4 * status_done
                    [] dev_req.adr \in 0..3 -> perf
                    [] OTHER          -> 0
  <2>4. v \in Nat
    BY <2>2
  <2> HIDE DEF v
  <2>5. cfs_rsp' = [ack |-> 1, data |-> v]
    BY <2>1 DEF v
  <2> QED BY <1>1, <2>3, <2>4, <2>5 DEF Bit
<1>4. CASE NoAccess(dev_req)
  BY <1>1, <1>4 DEF NoAccess, Bit
<1> QED BY <1>2, <1>3, <1>4 DEF RegTick

LEMMA AddrTypes ==
  ASSUME reg \in RegFile, row_cnt \in Idx
  PROVE  /\ AddrA \in 0..AddrMod - 1 /\ AddrB \in 0..AddrMod - 1 /\ AddrC \in 0..AddrMod - 1
<1>1. /\ reg.base_a \in Nat /\ reg.base_b \in Nat /\ reg.base_c \in Nat
      /\ reg.stride_a \in Nat /\ reg.stride_b \in Nat /\ reg.stride_c \in Nat /\ row_cnt \in Nat
  <2>1. AddrMod \in Nat /\ LANES \in Nat /\ STRIDE_MOD \in Nat
    BY WordSizes DEF STRIDE_MOD
  <2> QED BY <2>1 DEF RegFile, Idx
<1> DEFINE a == reg.base_a + row_cnt * reg.stride_a
           b == reg.base_b + row_cnt * reg.stride_b
           c == reg.base_c + row_cnt * reg.stride_c * WORD_BYTES
<1>2. a \in Nat /\ b \in Nat
  BY <1>1
<1>3. c \in Nat
  <2>1. row_cnt * reg.stride_c \in Nat
    BY <1>1
  <2>2. row_cnt * reg.stride_c * WORD_BYTES \in Nat
    BY <2>1, WordSizes
  <2> QED BY <1>1, <2>2
<1> HIDE DEF a, b, c
<1>4. a % AddrMod \in 0..AddrMod - 1 /\ b % AddrMod \in 0..AddrMod - 1 /\ c % AddrMod \in 0..AddrMod - 1
  BY <1>2, <1>3, WordSizes, DivMod
<1> QED BY <1>4 DEF AddrA, AddrB, AddrC, a, b, c

LEMMA PlaceTypes ==
  ASSUME NEW a \in 0..AddrMod - 1
  PROVE  /\ RowOf(a) \in RowIndex /\ OffsetOf(a) \in 0..RowBytes - 1
         /\ OffsetOf(a) \div WORD_BYTES \in Lane
         /\ a = (RowOf(a) * RowBytes) + OffsetOf(a)
<1>1. a \in Nat
  BY WordSizes
<1>2. /\ RowOf(a) \in Nat /\ OffsetOf(a) \in 0..RowBytes - 1
      /\ a = (RowOf(a) * RowBytes) + OffsetOf(a)
  BY <1>1, WordSizes, DivMod DEF RowOf, OffsetOf
<1> DEFINE i == RowOf(a)
           o == OffsetOf(a)
           l == o \div WORD_BYTES
<1> HIDE DEF i, o
<1>3. i \in Nat /\ o \in 0..RowBytes - 1 /\ a = (i * RowBytes) + o
  BY <1>2 DEF i, o
<1>4. i < INDEX_ROWS
  <2>1. i * RowBytes < INDEX_ROWS * RowBytes
    BY <1>3, WordSizes
  <2> QED BY <1>3, <2>1, WordSizes, Less
<1>5. l \in Nat /\ o % WORD_BYTES \in Nat /\ o = (l * WORD_BYTES) + (o % WORD_BYTES)
  <2>1. o \in Nat /\ WORD_BYTES \in Nat \ {0}
    BY <1>3, WordSizes
  <2> QED BY <2>1, DivMod
<1>6. l < LANES
  <2> HIDE DEF l
  <2>1. l * WORD_BYTES < LANES * WORD_BYTES
    BY <1>3, <1>5, WordSizes
  <2> QED BY <1>5, <2>1, WordSizes, Less
<1>7. i \in RowIndex /\ l \in Lane
  <2> HIDE DEF l
  <2> QED BY <1>3, <1>4, <1>5, <1>6, WordSizes DEF RowIndex, Lane
<1> QED BY <1>2, <1>7 DEF i, l, o

LEMMA ByteAtType ==
  ASSUME NEW rdata \in Row, NEW i \in 0..RowBytes - 1
  PROVE  ByteAt(rdata, i) \in Byte
<1>1. i \in Nat /\ i < LANES * WORD_BYTES /\ WORD_BYTES \in Nat \ {0} /\ LANES \in Nat
  BY WordSizes
<1> DEFINE l == i \div WORD_BYTES
           b == i % WORD_BYTES
<1>2. l \in Nat /\ b \in 0..WORD_BYTES - 1 /\ i = (l * WORD_BYTES) + b
  BY <1>1, DivMod
<1> HIDE DEF l, b
<1>3. l < LANES
  <2>1. l * WORD_BYTES < LANES * WORD_BYTES
    BY <1>1, <1>2
  <2> QED BY <1>1, <1>2, <2>1, Less
<1>4. l \in Lane /\ b \in ByteSel
  BY <1>1, <1>2, <1>3 DEF Lane, ByteSel
<1>5. rdata[l][b] \in Byte
  BY <1>4 DEF Row, Word
<1> QED BY <1>5 DEF ByteAt, l, b

LEMMA SignedType ==
  ASSUME NEW b \in Byte
  PROVE  Signed(b) \in SByte
<1> DEFINE h == BYTE_MOD \div 2
<1>1. h \in Nat /\ BYTE_MOD = h * 2
  <2>1. BYTE_MOD \in Nat /\ BYTE_MOD % 2 = 0
    BY WordSizes
  <2> QED BY <2>1
<1>2. b \in 0..BYTE_MOD - 1
  BY WordSizes
<1> HIDE DEF h
<1>3. (IF b < h THEN b ELSE b - BYTE_MOD) \in -h..h - 1
  BY <1>1, <1>2
<1> QED BY <1>3 DEF Signed, SByte, h

LEMMA ExtractType ==
  ASSUME NEW rdata \in Row, NEW offset \in 0..RowBytes - 1
  PROVE  Extract(rdata, offset) \in [Idx -> SByte]
<1>1. 0 \in SByte
  <2>1. 0 \in Byte /\ 0 < BYTE_MOD \div 2
    BY WordSizes
  <2> QED BY <2>1, SignedType DEF Signed
<1>2. ASSUME NEW c \in Idx, offset + c < RowBytes
      PROVE  Signed(ByteAt(rdata, offset + c)) \in SByte
  <2>1. offset + c \in 0..RowBytes - 1
    <3>1. RowBytes \in Nat /\ LANES \in Nat
      BY WordSizes
    <3> QED BY <1>2, <3>1 DEF Idx
  <2> QED BY <2>1, ByteAtType, SignedType
<1> QED BY <1>1, <1>2 DEF Extract

LEMMA ZeroTypes ==
  /\ ZeroBytes \in [Idx -> SByte] /\ ZeroTile \in [Idx -> [Idx -> Accu]]
  /\ ZeroWord \in Word /\ ZeroRow \in Row /\ 0 \in Accu /\ 0 \in Idx
<1>1. 0 \in SByte
  <2>1. 0 \in Byte /\ 0 < BYTE_MOD \div 2
    BY WordSizes
  <2> QED BY <2>1, SignedType DEF Signed
<1>2. 0 \in Accu /\ 0 \in Byte /\ 0 \in Idx
  BY Weights, WordSizes DEF Accu, Idx
<1> QED BY <1>1, <1>2 DEF ZeroBytes, ZeroTile, ZeroWord, ZeroRow, Word, Row

LEMMA StoreTypes ==
  ASSUME buf_C \in [Idx -> [Idx -> Accu]], NEW r \in Idx, NEW lane \in Lane
  PROVE  StoreData(r, lane) \in Row /\ StoreBE(lane) \in RowBE
<1>1. ASSUME NEW l \in Lane, l >= lane
      PROVE  WordOf(buf_C[r][l - lane]) \in Word
  <2>1. l - lane \in Idx
    <3>1. LANES \in Nat
      BY WordSizes
    <3> QED BY <1>1, <3>1 DEF Lane, Idx
  <2>2. buf_C[r][l - lane] \in Nat
    <3>1. buf_C[r][l - lane] \in Accu
      BY <2>1
    <3> QED BY <3>1, Weights DEF Accu
  <2> QED BY <2>2, WordOfType
<1>2. StoreData(r, lane) \in Row
  BY <1>1, ZeroTypes DEF StoreData, Row
<1>3. StoreBE(lane) \in RowBE
  BY DEF StoreBE, RowBE, WordBE
<1> QED BY <1>2, <1>3

LEMMA RspType ==
  ASSUME BramTypeOK
  PROVE  DmaRsp.rdata \in Row
  BY ZeroTypes DEF BramTypeOK, DmaRsp, dma_rsp

EngineTypeOK ==
  /\ status_done \in Bit /\ state \in state_t /\ row_cnt \in Idx /\ k_cnt \in Idx
  /\ buf_A \in [Idx -> [Idx -> SByte]] /\ buf_B \in [Idx -> [Idx -> SByte]]
  /\ buf_C \in [Idx -> [Idx -> Accu]] /\ sum_reg \in [Idx -> Accu]
  /\ dma_req \in MemReq

LEMMA EngineTypes ==
  ASSUME EngineTypeOK, reg \in RegFile, BramTypeOK, EngineTick(DmaRsp)
  PROVE  EngineTypeOK'
<1>1. DropStrobe => dma_req' \in MemReq
  BY DEF DropStrobe, MemReq, Bit, EngineTypeOK
<1>2. HoldStrobe => dma_req' \in MemReq
  BY DEF HoldStrobe, MemReq, Bit, EngineTypeOK
<1>3. \A this, next : NextRow(this, next) => row_cnt' \in Idx /\ state' \in {this, next}
  BY NextRowIdx DEF EngineTypeOK
<1>4. /\ AddrA \in 0..AddrMod - 1 /\ AddrB \in 0..AddrMod - 1 /\ AddrC \in 0..AddrMod - 1
  BY AddrTypes DEF EngineTypeOK
<1>5. ASSUME NEW addr \in 0..AddrMod - 1, dma_req' = ReadRequest(addr)
      PROVE  dma_req' \in MemReq
  <2>1. RowOf(addr) \in RowIndex
    BY PlaceTypes
  <2>2. [l \in Lane |-> ByteSel] \in RowBE
    BY DEF RowBE, WordBE
  <2> QED BY <1>5, <2>1, <2>2 DEF ReadRequest, MemReq, Bit, EngineTypeOK
<1>6. CASE Idle
  BY <1>1, <1>6, ZeroTypes DEF Idle, EngineTypeOK, state_t, Bit
<1>7. CASE FetchA
  <2>1. CASE row_cnt < tile_M
    BY <1>4, <1>5, <1>7, <2>1 DEF FetchA, EngineTypeOK, state_t
  <2>2. CASE ~(row_cnt < tile_M)
    <3>1. buf_A' \in [Idx -> [Idx -> SByte]]
      BY <1>7, <2>2, ZeroTypes DEF FetchA, EngineTypeOK
    <3>2. row_cnt' \in Idx /\ state' \in state_t /\ dma_req' \in MemReq
      BY <1>1, <1>3, <1>7, <2>2 DEF FetchA, state_t
    <3> QED BY <1>7, <3>1, <3>2 DEF FetchA, EngineTypeOK
  <2> QED BY <2>1, <2>2
<1>8. CASE FetchAWait(DmaRsp)
  <2>1. CASE DmaRsp.ack = 1
    <3>0. Extract(DmaRsp.rdata, OffsetOf(AddrA)) \in [Idx -> SByte]
      BY <1>4, PlaceTypes, RspType, ExtractType
    <3>1. buf_A' \in [Idx -> [Idx -> SByte]]
      BY <1>8, <2>1, <3>0 DEF FetchAWait, EngineTypeOK
    <3>2. row_cnt' \in Idx /\ state' \in state_t /\ dma_req' \in MemReq
      BY <1>1, <1>3, <1>8, <2>1 DEF FetchAWait, state_t
    <3> QED BY <1>8, <3>1, <3>2 DEF FetchAWait, EngineTypeOK
  <2>2. CASE DmaRsp.ack # 1
    BY <1>2, <1>8, <2>2 DEF FetchAWait, EngineTypeOK
  <2> QED BY <2>1, <2>2
<1>9. CASE FetchB
  <2>1. CASE row_cnt < tile_K
    BY <1>4, <1>5, <1>9, <2>1 DEF FetchB, EngineTypeOK, state_t
  <2>2. CASE ~(row_cnt < tile_K)
    <3>1. buf_B' \in [Idx -> [Idx -> SByte]]
      BY <1>9, <2>2, ZeroTypes DEF FetchB, EngineTypeOK
    <3>2. row_cnt' \in Idx /\ state' \in state_t /\ dma_req' \in MemReq
      BY <1>1, <1>3, <1>9, <2>2 DEF FetchB, state_t
    <3> QED BY <1>9, <3>1, <3>2 DEF FetchB, EngineTypeOK
  <2> QED BY <2>1, <2>2
<1>10. CASE FetchBWait(DmaRsp)
  <2>1. CASE DmaRsp.ack = 1
    <3>0. Extract(DmaRsp.rdata, OffsetOf(AddrB)) \in [Idx -> SByte]
      BY <1>4, PlaceTypes, RspType, ExtractType
    <3>1. buf_B' \in [Idx -> [Idx -> SByte]]
      BY <1>10, <2>1, <3>0 DEF FetchBWait, EngineTypeOK
    <3>2. row_cnt' \in Idx /\ state' \in state_t /\ dma_req' \in MemReq
      BY <1>1, <1>3, <1>10, <2>1 DEF FetchBWait, state_t
    <3> QED BY <1>10, <3>1, <3>2 DEF FetchBWait, EngineTypeOK
  <2>2. CASE DmaRsp.ack # 1
    BY <1>2, <1>10, <2>2 DEF FetchBWait, EngineTypeOK
  <2> QED BY <2>1, <2>2
<1>11. CASE CompInit \/ CompRowInit
  BY <1>1, <1>11, ZeroTypes DEF CompInit, CompRowInit, EngineTypeOK, state_t
<1>12. CASE CompMac
  <2>1. sum_reg' \in [Idx -> Accu]
    <3>1. ASSUME NEW j \in Idx
          PROVE  (sum_reg[j] + buf_A[row_cnt][k_cnt] * buf_B[k_cnt][j]) % WordMod \in Accu
      <4> DEFINE x == buf_A[row_cnt][k_cnt]
                 y == buf_B[k_cnt][j]
                 z == sum_reg[j] + x * y
      <4>1. x \in Int /\ y \in Int /\ sum_reg[j] \in Int
        BY Weights DEF EngineTypeOK, SByte, Accu
      <4> HIDE DEF x, y
      <4>2. z \in Int
        <5>1. x * y \in Int
          BY <4>1
        <5> QED BY <4>1, <5>1
      <4> HIDE DEF z
      <4>3. z % WordMod \in 0..WordMod - 1
        BY <4>2, Weights, IntDivMod
      <4> QED BY <4>3 DEF Accu, z, x, y
    <3> QED BY <1>12, <3>1 DEF CompMac
  <2>2. k_cnt' \in Idx /\ state' \in state_t
    BY <1>12, WordSizes DEF CompMac, EngineTypeOK, Idx, state_t
  <2> QED BY <1>1, <1>12, <2>1, <2>2 DEF CompMac, EngineTypeOK
<1>13. CASE CompAccum
  <2>1. buf_C' \in [Idx -> [Idx -> Accu]]
    <3>1. ASSUME NEW j \in Idx
          PROVE  (buf_C[row_cnt][j] + sum_reg[j]) % WordMod \in Accu
      <4> DEFINE x == buf_C[row_cnt][j] + sum_reg[j]
      <4>1. x \in Int
        BY Weights DEF EngineTypeOK, Accu
      <4> HIDE DEF x
      <4>2. x % WordMod \in 0..WordMod - 1
        BY <4>1, Weights, IntDivMod
      <4> QED BY <4>2 DEF Accu, x
    <3> DEFINE v == [j \in Idx |-> (buf_C[row_cnt][j] + sum_reg[j]) % WordMod]
    <3>2. v \in [Idx -> Accu]
      BY <3>1
    <3>3. buf_C' = [buf_C EXCEPT ![row_cnt] = v]
      BY <1>13 DEF CompAccum
    <3> HIDE DEF v
    <3> QED BY <3>2, <3>3 DEF EngineTypeOK
  <2>2. row_cnt' \in Idx /\ state' \in state_t
    BY <1>13, WordSizes DEF CompAccum, EngineTypeOK, Idx, state_t, LastRow
  <2> QED BY <1>1, <1>13, <2>1, <2>2 DEF CompAccum, EngineTypeOK
<1>14. CASE StoreC
  <2>1. CASE row_cnt < tile_M
    <3> DEFINE lane == OffsetOf(AddrC) \div WORD_BYTES
    <3>1. RowOf(AddrC) \in RowIndex /\ lane \in Lane
      BY <1>4, PlaceTypes
    <3>2. StoreData(row_cnt, lane) \in Row /\ StoreBE(lane) \in RowBE
      BY <3>1, StoreTypes DEF EngineTypeOK
    <3>3. dma_req' = [row |-> RowOf(AddrC), wdata |-> StoreData(row_cnt, lane),
                      be |-> StoreBE(lane), rw |-> 1, stb |-> 1]
      BY <1>14, <2>1 DEF StoreC
    <3> HIDE DEF lane
    <3>4. dma_req' \in MemReq
      BY <3>1, <3>2, <3>3 DEF MemReq, Bit
    <3> QED BY <1>14, <2>1, <3>4 DEF StoreC, EngineTypeOK, state_t
  <2>2. CASE ~(row_cnt < tile_M)
    <3>1. row_cnt' \in Idx /\ state' \in state_t /\ dma_req' \in MemReq
      BY <1>1, <1>3, <1>14, <2>2 DEF StoreC, state_t
    <3> QED BY <1>14, <3>1 DEF StoreC, EngineTypeOK
  <2> QED BY <2>1, <2>2
<1>15. CASE StoreCWait(DmaRsp)
  <2>1. CASE DmaRsp.ack = 1
    <3>1. row_cnt' \in Idx /\ state' \in state_t /\ dma_req' \in MemReq
      BY <1>1, <1>3, <1>15, <2>1 DEF StoreCWait, state_t
    <3> QED BY <1>15, <3>1 DEF StoreCWait, EngineTypeOK
  <2>2. CASE DmaRsp.ack # 1
    BY <1>2, <1>15, <2>2 DEF StoreCWait, EngineTypeOK
  <2> QED BY <2>1, <2>2
<1>16. CASE Done
  BY <1>1, <1>16 DEF Done, EngineTypeOK, state_t, Bit
<1> QED BY <1>6, <1>7, <1>8, <1>9, <1>10, <1>11, <1>12, <1>13, <1>14, <1>15, <1>16 DEF EngineTick
LEMMA InitCpuSide == Init => CpuSide
  BY DEF Init, CpuSide, CpuReqIdle, Bit

\* What a write on the memory's port carries.
LEMMA PortData ==
  ASSUME CpuSide, dma_req \in MemReq, MemPort.stb = 1
  PROVE  MemPort.wdata \in Row
<1>1. CASE MemPort = CpuToMem(cpu_req)
  <2>1. cpu_req.stb = 1 /\ MemPort.wdata = [l \in Lane |-> IF l = cpu_req.lane THEN cpu_req.wdata ELSE ZeroWord]
    BY <1>1 DEF CpuToMem
  <2>2. cpu_req \in CpuReq
    BY <2>1, OtherAssumption DEF CpuSide
  <2>3. cpu_req.wdata \in Word
    BY <2>2 DEF CpuReq
  <2> QED BY <2>1, <2>3, ZeroTypes DEF Row
<1>2. CASE MemPort = dma_req
  BY <1>2 DEF MemReq
<1>3. CASE MemPort = MemReqIdle
  BY <1>3 DEF MemReqIdle
<1> QED BY <1>1, <1>2, <1>3 DEF MemPort, mem_req

LEMMA BramTypes ==
  ASSUME BramTypeOK, CpuSide, dma_req \in MemReq, BramTick(MemPort)
  PROVE  BramTypeOK'
<1>1. CASE BramWrite(MemPort)
  <2> DEFINE w == MemPort.wdata
             i == MemPort.row
             be == MemPort.be
  <2>1. w \in Row
    BY <1>1, PortData DEF BramWrite
  <2>2. mem' = [mem EXCEPT ![i] = MergeRow(mem[i], w, be)]
    BY <1>1 DEF BramWrite
  <2>3. UNCHANGED mem_rdata /\ mem_ack' = 1
    BY <1>1 DEF BramWrite
  <2> HIDE DEF w, i, be
  <2>4. ASSUME NEW old \in Row PROVE MergeRow(old, w, be) \in Row
    BY <2>1, <2>4 DEF MergeRow, MergeWord, Row, Word
  <2>5. mem' \in [MemIndex -> Row]
    BY <2>2, <2>4 DEF BramTypeOK
  <2> QED BY <2>3, <2>5 DEF BramTypeOK, Bit
<1>2. CASE BramRead(MemPort)
  <2>1. MemPort.row \in MemIndex
    <3>1. MemPort.row \in Nat
      <4>1. CASE MemPort = CpuToMem(cpu_req)
        <5>1. cpu_req.stb = 1 /\ MemPort.row = cpu_req.row
          BY <1>2, <4>1 DEF CpuToMem, BramRead
        <5>2. cpu_req \in CpuReq
          BY <5>1, OtherAssumption DEF CpuSide
        <5> QED BY <5>1, <5>2, WordSizes DEF CpuReq, RowIndex
      <4>2. CASE MemPort = dma_req
        BY <4>2, WordSizes DEF MemReq, RowIndex
      <4>3. CASE MemPort = MemReqIdle
        BY <4>3 DEF MemReqIdle
      <4> QED BY <4>1, <4>2, <4>3 DEF MemPort, mem_req
    <3> QED BY <1>2, <3>1, WordSizes DEF BramRead, MemIndex
  <2> QED BY <1>2, <2>1 DEF BramRead, BramTypeOK, Bit
<1>3. CASE BramOutOfBounds(MemPort) \/ BramQuiet(MemPort)
  BY <1>3, ZeroTypes DEF BramOutOfBounds, BramQuiet, BramTypeOK, Bit
<1> QED BY <1>1, <1>2, <1>3 DEF BramTick

LEMMA XbarTypes ==
  ASSUME XbarTypeOK, CpuSide, XbarTick(cpu_req, dma_req)
  PROVE  XbarTypeOK'
<1>1. CASE ArbGrantCpu(cpu_req, dma_req)
  <2>1. cpu_req \in CpuReq
    BY <1>1, OtherAssumption DEF CpuSide, ArbGrantCpu
  <2>2. cpu_req.lane \in Lane
    BY <2>1 DEF CpuReq
  <2> QED BY <1>1, <2>2 DEF ArbGrantCpu, XbarTypeOK, arb_state_t
<1>2. CASE ArbGrantDma(cpu_req, dma_req) \/ ArbRelease(cpu_req, dma_req) \/ ArbHold(cpu_req, dma_req)
  BY <1>2 DEF ArbGrantDma, ArbRelease, ArbHold, xbarVars, XbarTypeOK, arb_state_t
<1> QED BY <1>1, <1>2 DEF XbarTick

PlaceInv == PortInv /\ CpuSide /\ TypeInv

LEMMA PlaceInvInit == Init => PlaceInv
<1> SUFFICES ASSUME Init PROVE PlaceInv
  OBVIOUS
<1>1. PortInv /\ CpuSide
  BY PortInit, InitCpuSide
<1>2. CfsTypeOK
  <2>1. MemReqIdle \in MemReq
    <3>1. 0 \in RowIndex /\ NoBE \in RowBE
      BY WordSizes DEF RowIndex, NoBE, RowBE, WordBE
    <3> QED BY <3>1, ZeroTypes DEF MemReqIdle, MemReq, Bit
  <2>2. ZeroTile \in [Idx -> [Idx -> SByte]]
    BY ZeroTypes DEF ZeroTile, ZeroBytes
  <2>3. reg \in RegFile
    <3>1. 0 \in 0..AddrMod - 1 /\ 0 \in 0..STRIDE_MOD - 1
      BY WordSizes DEF STRIDE_MOD
    <3> QED BY <3>1 DEF Init, CfsInit, RegFile
  <2>4. EngineTypeOK
    BY <2>1, <2>2, ZeroTypes DEF Init, CfsInit, EngineTypeOK, state_t, Bit
  <2>5. cmd \in [start : Bit, clear : Bit, store : Bit] /\ cfs_rsp \in [ack : Bit, data : Nat]
    BY DEF Init, CfsInit, Bit
  <2> QED BY <2>3, <2>4, <2>5 DEF CfsTypeOK, EngineTypeOK
<1>3. BramTypeOK
  BY ZeroTypes, JobsAssumption DEF Init, DriverInit, BramTypeOK, Bit
<1>4. XbarTypeOK
  BY WordSizes DEF Init, XbarInit, XbarTypeOK, arb_state_t, Lane
<1> QED BY <1>1, <1>2, <1>3, <1>4 DEF PlaceInv, TypeInv

LEMMA PlaceInvNext ==
  ASSUME PlaceInv, [Next]_vars
  PROVE  PlaceInv'
<1>1. PortInv'
  BY PortNext DEF PlaceInv
<1>2. CASE Tick
  <2>1. /\ RegTick(dev_req) /\ EngineTick(DmaRsp) /\ XbarTick(cpu_req, dma_req)
        /\ BramTick(MemPort) /\ OtherTick
    BY <1>2 DEF Tick, CfsTick
  <2>2. (Onward \/ Performs \/ Takes) /\ UNCHANGED job
    BY <1>2, TickPhases DEF PlaceInv, PortInv
  <2>3. EngineTypeOK /\ reg \in RegFile /\ dma_req \in MemReq
    BY DEF PlaceInv, TypeInv, CfsTypeOK, EngineTypeOK
  <2>4. EngineTypeOK'
    BY <2>1, <2>3, EngineTypes DEF PlaceInv, TypeInv
  <2>5. CfsTypeOK'
    <3>1. /\ reg' \in RegFile /\ cmd' \in [start : Bit, clear : Bit, store : Bit]
          /\ cfs_rsp' \in [ack : Bit, data : Nat]
      BY <2>1, <2>2, RegTypes DEF PlaceInv, TypeInv, PortInv
    <3> QED BY <2>4, <3>1 DEF CfsTypeOK, EngineTypeOK
  <2>6. CpuSide' /\ BramTypeOK' /\ XbarTypeOK'
    BY <2>1, <2>2, <2>3, CpuSideStep, BramTypes, XbarTypes DEF PlaceInv, TypeInv
  <2> QED BY <1>1, <2>5, <2>6 DEF PlaceInv, TypeInv
<1>3. CASE Reset
  <2>1. CpuSide'
    BY <1>3 DEF Reset, CpuSide, CpuReqIdle, Bit
  <2>2. EngineTypeOK'
    <3>1. dma_req' \in MemReq
      BY <1>3 DEF Reset, CfsReset, PlaceInv, TypeInv, CfsTypeOK, MemReq, Bit
    <3> QED BY <1>3, <3>1, ZeroTypes DEF Reset, CfsReset, PlaceInv, TypeInv, CfsTypeOK, EngineTypeOK, state_t, Bit
  <2>3. reg' \in RegFile /\ cmd' \in [start : Bit, clear : Bit, store : Bit] /\ cfs_rsp' \in [ack : Bit, data : Nat]
    <3>1. 0 \in 0..AddrMod - 1 /\ 0 \in 0..STRIDE_MOD - 1
      BY WordSizes DEF STRIDE_MOD
    <3> QED BY <1>3, <3>1 DEF Reset, CfsReset, RegFile, Bit
  <2>4. CfsTypeOK'
    BY <2>2, <2>3 DEF CfsTypeOK, EngineTypeOK
  <2>5. BramTypeOK' /\ XbarTypeOK'
    BY <1>3, WordSizes DEF Reset, PlaceInv, TypeInv, BramTypeOK, XbarTypeOK, arb_state_t, Lane, Bit
  <2> QED BY <1>1, <2>1, <2>4, <2>5 DEF PlaceInv, TypeInv
<1>4. CASE UNCHANGED vars
  <2>1. CpuSide' /\ BramTypeOK' /\ XbarTypeOK'
    BY <1>4 DEF vars, driverVars, bramVars, xbarVars, PlaceInv, TypeInv, CpuSide, BramTypeOK, XbarTypeOK
  <2>2. CfsTypeOK'
    BY <1>4 DEF vars, cfsVars, regVars, engineVars, PlaceInv, TypeInv, CfsTypeOK
  <2> QED BY <1>1, <2>1, <2>2 DEF PlaceInv, TypeInv
<1> QED BY <1>2, <1>3, <1>4 DEF Next

\* Every register of the accelerator, the crossbar and the memory keeps to its
\* type: the counters to the tile, the products and sums to their width, the
\* addresses on the port to the memory's index (neorv32_cfs.vhd:35-130,
\* neorv32_memory_crossbar.vhd:30-60, neorv32_wide_bram.vhd:30-60).
THEOREM Typed == Spec => []TypeInv
<1>1. PlaceInv /\ [Next]_vars => PlaceInv'
  BY PlaceInvNext
<1>2. PlaceInv => TypeInv
  BY DEF PlaceInv
<1> QED BY <1>1, <1>2, PlaceInvInit, PTL DEF Spec

-----------------------------------------------------------------------------
(* The loops of the driver. *)

AllPlaced == \A j \in Jobs : WellFormed(j) /\ Placed(j)

ExtentM == TileExtent(DimM, m)
ExtentK == TileExtent(DimK, k)
ExtentN == TileExtent(DimN, n)

KSide == \E p \in Nat : k = p * TILE

SameTile ==
  /\ UNCHANGED <<job, m, n, k>>
  /\ pc' = pc \/ (pc \in 1..10 /\ pc' = pc + 1)
NewTile == UNCHANGED job /\ NextTile /\ pc = 11 /\ state = "S_IDLE" /\ cmd.start = 0

LEMMA DriverMoves ==
  ASSUME StepInv, Tick
  PROVE  SameTile \/ NewTile
<1>1. CASE Onward \/ Performs
  BY <1>1 DEF Onward, Performs, SameTile
<1>2. CASE Takes
  <2>1. pc \in 1..11 /\ UNCHANGED job /\ (DriverPollAgain(dev_rsp) \/ DriverAdvance(dev_rsp))
    BY <1>2 DEF Takes
  <2>2. CASE DriverPollAgain(dev_rsp) \/ pc < 11
    BY <2>1, <2>2, Script DEF DriverPollAgain, DriverAdvance, SameTile
  <2>3. CASE DriverAdvance(dev_rsp) /\ pc = 11
    <3>1. NextTile
      BY <2>3, Script DEF DriverAdvance
    <3>2. dev_rsp.ack = 1
      BY <1>2 DEF Takes
    <3>3. state = "S_IDLE" /\ cmd.start = 0
      BY <2>3, <3>2 DEF StepInv, EngineSide, Performed, Clearing, Bit
    <3> QED BY <2>1, <2>3, <3>1, <3>3 DEF NewTile
  <2> QED BY <2>1, <2>2, <2>3
<1> QED BY <1>1, <1>2, TickPhases

LEMMA IdlePlaces ==
  ASSUME StepInv, state = "S_IDLE"
  PROVE  /\ pc \in 0..8 \cup {10, 11}
         /\ cmd.start = 1 => pc = 8 /\ Performed(8) /\ ~Performed(10)
<1>1. pc \in 0..11
  BY DEF StepInv, DriverSide
<1> QED BY <1>1 DEF StepInv, EngineSide, Performed, Starting, Clearing

LEMMA DonePlaces ==
  ASSUME StepInv, state = "S_DONE", cmd.start = 0
  PROVE  pc = 10
  BY DEF StepInv, EngineSide, Clearing

LEMMA RunPlaces ==
  ASSUME StepInv, state \notin {"S_IDLE", "S_DONE"}
  PROVE  pc \in {8, 9} /\ Performed(8) /\ ~Performed(10)
<1>1. pc \in 0..11
  BY DEF StepInv, DriverSide
<1> QED BY <1>1 DEF StepInv, EngineSide, Performed, Clearing

\* Numbers that the loops go by.
LEMMA LoopTypes ==
  ASSUME StepInv
  PROVE  /\ job \in Jobs /\ m \in Nat /\ n \in Nat /\ k \in Nat
         /\ DimM \in Nat /\ DimN \in Nat /\ DimK \in Nat
         /\ TILE \in Nat \ {0} /\ TILE = LANES
         /\ job.A.data \in Nat /\ job.A.stride \in Nat /\ job.B.data \in Nat /\ job.B.stride \in Nat
         /\ job.C.data \in Nat /\ job.C.stride \in Nat /\ job.image \in [MemIndex -> Row]
<1>1. job \in Jobs /\ m \in Nat /\ n \in Nat /\ k \in Nat
  BY DEF StepInv, DriverSide
<1> QED BY <1>1, DimType, JobsAssumption, LanesAssumption DEF TILE

LEMMA TileRange ==
  ASSUME StepInv, pc # 0
  PROVE  /\ m < DimM /\ n < DimN /\ k < DimK
         /\ ExtentM \in 1..LANES /\ ExtentK \in 1..LANES /\ ExtentN \in 1..LANES
         /\ m + ExtentM <= DimM /\ k + ExtentK <= DimK /\ n + ExtentN <= DimN
         /\ ExtentM = TILE \/ m + ExtentM = DimM
         /\ ExtentN = TILE \/ n + ExtentN = DimN
         /\ k + TILE < DimK => ExtentK = TILE
         /\ k + TILE >= DimK => k + ExtentK = DimK
<1>1. m < DimM /\ n < DimN /\ k < DimK
  BY DEF StepInv, DriverSide
<1> QED BY <1>1, LoopTypes DEF TileExtent, ExtentM, ExtentN, ExtentK

LEMMA SameTileKeeps ==
  ASSUME SameTile
  PROVE  /\ UNCHANGED <<job, m, n, k, DimM, DimN, DimK, ExtentM, ExtentN, ExtentK>>
         /\ Footprint' = Footprint /\ OtherBytes' = OtherBytes
<1>1. UNCHANGED <<job, m, n, k>> /\ UNCHANGED <<DimM, DimN, DimK>>
  BY DEF SameTile, DimM, DimN, DimK
<1>2. UNCHANGED <<ExtentM, ExtentN, ExtentK>>
  BY <1>1 DEF ExtentM, ExtentN, ExtentK, TileExtent
<1> QED BY <1>1, <1>2, SameFrame

\* A tile's corner is at multiples of the tile's size.
LEMMA KSideStep ==
  ASSUME StepInv, KSide, Tick
  PROVE  KSide'
<1>1. k' = k \/ k' = 0 \/ k' = k + TILE
  BY DriverMoves DEF SameTile, NewTile, NextTile
<1>2. PICK p \in Nat : k = p * TILE
  BY DEF KSide
<1>3. TILE \in Nat /\ TILE' = TILE
  BY LanesAssumption DEF TILE
<1>4. 0 = 0 * TILE /\ p * TILE + TILE = (p + 1) * TILE
  BY <1>3
<1>5. \E q \in Nat : k' = q * TILE
  <2>1. CASE k' = k
    BY <1>2, <2>1
  <2>2. CASE k' = 0
    BY <1>4, <2>2
  <2>3. CASE k' = k + TILE
    <3>1. k' = (p + 1) * TILE /\ p + 1 \in Nat
      BY <1>2, <1>4, <2>3
    <3> QED BY <3>1
  <2> QED BY <1>1, <2>1, <2>2, <2>3
<1> QED BY <1>3, <1>5 DEF KSide

LEMMA Corner ==
  ASSUME NEW x \in Nat, NEW total \in Nat, x < total, TILE \in Nat \ {0},
         \E p \in Nat : x = p * TILE
  PROVE  x \in Tiles(total)
<1>1. PICK p \in Nat : x = p * TILE
  OBVIOUS
<1>2. x % TILE = 0
  <2>1. ((p * TILE) + 0) % TILE = 0
    BY DivModUnique
  <2> QED BY <1>1, <2>1
<1> QED BY <1>2 DEF Tiles

-----------------------------------------------------------------------------
(* Where the engine reads. *)

LEMMA RowAddress ==
  ASSUME NEW D \in Nat, NEW S \in Nat, NEW i \in Nat, NEW c \in Nat, NEW j \in Nat,
         NEW M \in Nat \ {0}, D + i * S + j < M, D + (i + c) * S + j < M
  PROVE  (((D + i * S + j) % M) + c * S) % M = D + (i + c) * S + j
<1> DEFINE x == D + i * S + j
           y == D + (i + c) * S + j
           z == c * S
<1>1. (i + c) * S = i * S + c * S
  OBVIOUS
<1>2. x \in Nat /\ z \in Nat /\ y = x + z
  <2>1. i * S \in Nat /\ c * S \in Nat
    OBVIOUS
  <2> QED BY <1>1, <2>1
<1>3. x < M /\ y < M
  OBVIOUS
<1> HIDE DEF x, y, z
<1>4. x % M = x
  BY <1>2, <1>3, ModSmall
<1>5. y \in Nat
  BY <1>2
<1>6. (x + z) % M = y
  BY <1>2, <1>3, <1>5, ModSmall
<1> QED BY <1>4, <1>6 DEF x, y, z

\* The registers for A and B.
LEMMA ReadRegs ==
  ASSUME StepInv, state \notin {"S_IDLE", "S_DONE"}
  PROVE  /\ reg.base_a = (job.A.data + m * job.A.stride + k) % AddrMod
         /\ reg.base_b = (job.B.data + k * job.B.stride + n) % AddrMod
         /\ reg.stride_a = job.A.stride % STRIDE_MOD
         /\ reg.stride_b = job.B.stride % STRIDE_MOD
         /\ tile_M = ExtentM /\ tile_K = ExtentK
<1>1. pc # 0 /\ Performed(8) /\ pc \in {8, 9}
  BY RunPlaces
<1>2. Performed(1) /\ Performed(2) /\ Performed(4) /\ Performed(5) /\ Performed(7)
  BY <1>1 DEF Performed
<1>3. /\ reg.base_a = TileScript[1].data % AddrMod
      /\ reg.base_b = TileScript[2].data % AddrMod
      /\ reg.stride_a = TileScript[4].data % STRIDE_MOD
      /\ reg.stride_b = TileScript[5].data % STRIDE_MOD
      /\ reg.bounds = TileScript[7].data
  BY <1>2 DEF StepInv, RegSide
<1> DEFINE tM == ExtentM
           tN == ExtentN
           tK == ExtentK
<1>4. /\ TileScript[1].data = job.A.data + m * job.A.stride + k
      /\ TileScript[2].data = job.B.data + k * job.B.stride + n
      /\ TileScript[4].data = job.A.stride
      /\ TileScript[5].data = job.B.stride
      /\ TileScript[7].data = (tM % 256) * 65536 + (tK % 256) * 256 + (tN % 256)
  BY DEF TileScript, Access, ExtentM, ExtentN, ExtentK
<1>5. tM \in 0..255 /\ tN \in 0..255 /\ tK \in 0..255
  <2>1. tM \in 1..LANES /\ tN \in 1..LANES /\ tK \in 1..LANES
    BY <1>1, TileRange
  <2> HIDE DEF tM, tN, tK
  <2> QED BY <2>1, TileAssumption, LanesAssumption
<1>6. tM % 256 = tM /\ tN % 256 = tN /\ tK % 256 = tK
  <2> HIDE DEF tM, tN, tK
  <2> QED BY <1>5
<1>7. tile_M = tM /\ tile_K = tK
  <2> HIDE DEF tM, tN, tK
  <2>1. reg.bounds = tM * 65536 + tK * 256 + tN
    BY <1>3, <1>4, <1>6
  <2>2. ((tM * 65536 + tK * 256 + tN) \div 65536) % 256 = tM
    BY <1>5
  <2>3. ((tM * 65536 + tK * 256 + tN) \div 256) % 256 = tK
    <3> DEFINE q == tM * 256 + tK
    <3>1. q \in Nat /\ tM * 65536 + tK * 256 + tN = (q * 256) + tN
      BY <1>5
    <3>2. q % 256 = tK
      BY <1>5
    <3> HIDE DEF q
    <3>3. ((q * 256) + tN) \div 256 = q
      BY <1>5, <3>1
    <3> QED BY <3>1, <3>2, <3>3
  <2> QED BY <2>1, <2>2, <2>3 DEF tile_M, tile_K
<1> QED BY <1>3, <1>4, <1>7

\* The element of A in row r of the matrix and column x, and that of B.
ByteA(r, x) == job.A.data + r * job.A.stride + x
ByteB(x, c) == job.B.data + x * job.B.stride + c

\* The frame leaves them alone.
Clean(a) == a \in MemBytes /\ a \notin Footprint /\ a \notin OtherBytes

LEMMA ClearIsClean ==
  ASSUME NEW a \in Nat, Clear(job, a)
  PROVE  Clean(a) /\ a < AddrMod
<1>1. a < NUM_WORDS * RowBytes /\ a \notin ArrayOf(job) /\ a \notin WrittenDuring(job)
  BY DEF Clear
<1>2. a \notin Footprint /\ a \notin OtherBytes
  BY <1>1 DEF Footprint, ArrayC, OtherBytes
<1>3. a \in MemBytes
  <2>1. NUM_WORDS * RowBytes \in Nat
    BY WordSizes
  <2> DEFINE M == NUM_WORDS * RowBytes
  <2> HIDE DEF M
  <2>2. a \in 0..M - 1
    BY <1>1, <2>1 DEF M
  <2> QED BY <2>2 DEF MemBytes, M
<1>4. a < AddrMod
  <2> DEFINE M == NUM_WORDS * RowBytes
             Q == AddrMod
  <2>1. M \in Nat /\ Q \in Nat /\ M <= Q
    BY WordSizes
  <2>2. a < M
    BY <1>1
  <2> HIDE DEF M, Q
  <2>3. a < Q
    BY <2>1, <2>2
  <2> QED BY <2>3 DEF Q
<1> QED BY <1>2, <1>3, <1>4 DEF Clean

LEMMA OperandPlaces ==
  ASSUME StepInv, AllPlaced
  PROVE  /\ \A r \in 0..DimM - 1, x \in 0..DimK - 1 :
              ByteA(r, x) \in Nat /\ Clean(ByteA(r, x)) /\ ByteA(r, x) < AddrMod
         /\ \A x \in 0..DimK - 1, c \in 0..DimN - 1 :
              ByteB(x, c) \in Nat /\ Clean(ByteB(x, c)) /\ ByteB(x, c) < AddrMod
<1>1. Placed(job)
  BY LoopTypes DEF AllPlaced
<1>2. ASSUME NEW r \in 0..DimM - 1, NEW x \in 0..DimK - 1
      PROVE  ByteA(r, x) \in Nat /\ Clear(job, ByteA(r, x))
  <2>1. Clear(job, ByteA(r, x))
    BY <1>1 DEF Placed, DimM, DimK, ByteA
  <2>2. r * job.A.stride \in Nat
    BY LoopTypes
  <2> QED BY <2>1, <2>2, LoopTypes DEF ByteA
<1>3. ASSUME NEW x \in 0..DimK - 1, NEW c \in 0..DimN - 1
      PROVE  ByteB(x, c) \in Nat /\ Clear(job, ByteB(x, c))
  <2>1. Clear(job, ByteB(x, c))
    BY <1>1 DEF Placed, DimN, DimK, ByteB
  <2>2. x * job.B.stride \in Nat
    BY LoopTypes
  <2> QED BY <2>1, <2>2, LoopTypes DEF ByteB
<1> QED BY <1>2, <1>3, ClearIsClean

\* The address of a row that is fetched, and the piece of it that is used.
LEMMA AddressOfA ==
  ASSUME StepInv, AllPlaced, KSide, state \notin {"S_IDLE", "S_DONE"}, row_cnt \in Idx, row_cnt < tile_M
  PROVE  /\ m + row_cnt \in 0..DimM - 1 /\ row_cnt < ExtentM
         /\ AddrA = ByteA(m + row_cnt, k) /\ OneRow(AddrA, ExtentK)
<1>1. /\ pc # 0 /\ tile_M = ExtentM /\ row_cnt \in Nat
      /\ reg.base_a = (job.A.data + m * job.A.stride + k) % AddrMod
      /\ reg.stride_a = job.A.stride % STRIDE_MOD
  BY RunPlaces, ReadRegs, WordSizes DEF Idx
<1>2. m + row_cnt \in 0..DimM - 1 /\ m \in 0..DimM - 1 /\ k \in 0..DimK - 1
  BY <1>1, TileRange, LoopTypes
<1>3. Placed(job)
  BY LoopTypes DEF AllPlaced
<1>4. reg.stride_a = job.A.stride
  <2>1. job.A.stride < STRIDE_MOD /\ STRIDE_MOD \in Nat \ {0}
    BY <1>3 DEF Placed, STRIDE_MOD
  <2> QED BY <1>1, <2>1, LoopTypes, ModSmall
<1>5. job.A.data + m * job.A.stride + k < AddrMod /\ job.A.data + (m + row_cnt) * job.A.stride + k < AddrMod
  BY <1>2, OperandPlaces DEF ByteA
<1>6. AddrA = ByteA(m + row_cnt, k)
  <2> DEFINE D == job.A.data
             S == job.A.stride
             Q == AddrMod
  <2>1. D \in Nat /\ S \in Nat /\ Q \in Nat \ {0} /\ m \in Nat /\ k \in Nat /\ row_cnt \in Nat
    BY <1>1, WordSizes, LoopTypes
  <2>2. D + m * S + k < Q /\ D + (m + row_cnt) * S + k < Q
    BY <1>5
  <2>3. AddrA = (((D + m * S + k) % Q) + row_cnt * S) % Q
    BY <1>1, <1>4 DEF AddrA
  <2>4. ByteA(m + row_cnt, k) = D + (m + row_cnt) * S + k
    BY DEF ByteA
  <2> HIDE DEF D, S, Q
  <2> QED BY <2>1, <2>2, <2>3, <2>4, RowAddress
<1>7. OneRow(ByteA(m + row_cnt, k), ExtentK)
  <2>1. k \in Tiles(DimK)
    BY <1>2, LoopTypes, Corner DEF KSide
  <2> QED BY <1>2, <1>3, <2>1 DEF Placed, DimM, DimK, ByteA, ExtentK
<1> QED BY <1>1, <1>2, <1>6, <1>7

LEMMA AddressOfB ==
  ASSUME StepInv, AllPlaced, TileSide, state \notin {"S_IDLE", "S_DONE"}, row_cnt \in Idx, row_cnt < tile_K
  PROVE  /\ k + row_cnt \in 0..DimK - 1 /\ row_cnt < ExtentK
         /\ AddrB = ByteB(k + row_cnt, n) /\ OneRow(AddrB, ExtentN)
<1>1. /\ pc # 0 /\ tile_K = ExtentK /\ row_cnt \in Nat
      /\ reg.base_b = (job.B.data + k * job.B.stride + n) % AddrMod
      /\ reg.stride_b = job.B.stride % STRIDE_MOD
  BY RunPlaces, ReadRegs, WordSizes DEF Idx
<1>2. k + row_cnt \in 0..DimK - 1 /\ k \in 0..DimK - 1 /\ n \in 0..DimN - 1
  BY <1>1, TileRange, LoopTypes
<1>3. Placed(job)
  BY LoopTypes DEF AllPlaced
<1>4. reg.stride_b = job.B.stride
  <2>1. job.B.stride < STRIDE_MOD /\ STRIDE_MOD \in Nat \ {0}
    BY <1>3 DEF Placed, STRIDE_MOD
  <2> QED BY <1>1, <2>1, LoopTypes, ModSmall
<1>5. job.B.data + k * job.B.stride + n < AddrMod /\ job.B.data + (k + row_cnt) * job.B.stride + n < AddrMod
  BY <1>2, OperandPlaces DEF ByteB
<1>6. AddrB = ByteB(k + row_cnt, n)
  <2> DEFINE D == job.B.data
             S == job.B.stride
             Q == AddrMod
  <2>1. D \in Nat /\ S \in Nat /\ Q \in Nat \ {0} /\ k \in Nat /\ n \in Nat /\ row_cnt \in Nat
    BY <1>1, WordSizes, LoopTypes
  <2>2. D + k * S + n < Q /\ D + (k + row_cnt) * S + n < Q
    BY <1>5
  <2>3. AddrB = (((D + k * S + n) % Q) + row_cnt * S) % Q
    BY <1>1, <1>4 DEF AddrB
  <2>4. ByteB(k + row_cnt, n) = D + (k + row_cnt) * S + n
    BY DEF ByteB
  <2> HIDE DEF D, S, Q
  <2> QED BY <2>1, <2>2, <2>3, <2>4, RowAddress
<1>7. OneRow(ByteB(k + row_cnt, n), ExtentN)
  <2>1. n \in Tiles(DimN)
    BY <1>2, LoopTypes, Corner DEF TileSide
  <2> QED BY <1>2, <1>3, <2>1 DEF Placed, DimN, DimK, ByteB, ExtentN
<1> QED BY <1>1, <1>2, <1>6, <1>7

\* What a byte of a row that starts at a is when the row holds the image.
LEMMA PieceRead ==
  ASSUME NEW a \in Nat, NEW e \in Nat, OneRow(a, e), NEW x \in Idx, x < e,
         NEW rdata, NEW image,
         \A y \in MemBytes : y \div RowBytes = RowOf(a) /\ Clean(y) =>
           ByteAt(rdata, y % RowBytes) = ByteOf(image, y),
         Clean(a + x)
  PROVE  Extract(rdata, OffsetOf(a))[x] = Signed(ByteOf(image, a + x))
<1> DEFINE o == a % RowBytes
           i == a \div RowBytes
           R == RowBytes
<1>1. R \in Nat \ {0} /\ x \in Nat
  BY WordSizes DEF Idx
<1>2. i \in Nat /\ o \in 0..R - 1 /\ a = (i * R) + o
  BY <1>1, DivMod
<1>3. o + x < R
  <2>1. o + e <= R
    BY DEF OneRow
  <2> HIDE DEF o, R
  <2> QED BY <1>1, <1>2, <2>1
<1> DEFINE p == o + x
<1>4. p \in 0..R - 1 /\ a + x = (i * R) + p
  <2>1. i * R \in Nat
    BY <1>1, <1>2
  <2> HIDE DEF o, R, i
  <2> QED BY <1>1, <1>2, <1>3, <2>1
<1>5. (a + x) \div R = i /\ (a + x) % R = p
  <2>1. i \in Nat
    BY <1>1, <1>2
  <2> HIDE DEF p, R, i
  <2>2. ((i * R) + p) \div R = i /\ ((i * R) + p) % R = p
    BY <1>1, <1>4, <2>1, DivModUnique
  <2> QED BY <1>4, <2>2
<1>6. ByteAt(rdata, p) = ByteOf(image, a + x)
  BY <1>5 DEF Clean, RowOf
<1> QED BY <1>3, <1>6 DEF Extract, OffsetOf

-----------------------------------------------------------------------------
(* The product, one column of A after the other. *)

LEMMA ImageByte ==
  ASSUME StepInv, NEW a \in MemBytes
  PROVE  ByteOf(job.image, a) \in Byte
<1>1. a \in Nat /\ a \div RowBytes \in MemIndex
  BY BytePlace
<1>2. a % RowBytes \in 0..RowBytes - 1
  BY <1>1, WordSizes, DivMod
<1>3. job.image[a \div RowBytes] \in Row
  BY <1>1, LoopTypes
<1> QED BY <1>2, <1>3, ByteAtType DEF ByteOf

LEMMA OperandTypes ==
  ASSUME StepInv, AllPlaced
  PROVE  /\ \A r \in 0..DimM - 1, x \in 0..DimK - 1 : OperandA(r, x) \in SByte
         /\ \A x \in 0..DimK - 1, c \in 0..DimN - 1 : OperandB(x, c) \in SByte
<1>1. ASSUME NEW r \in 0..DimM - 1, NEW x \in 0..DimK - 1
      PROVE  OperandA(r, x) \in SByte
  <2>1. ByteA(r, x) \in MemBytes
    BY OperandPlaces DEF Clean
  <2> QED BY <2>1, ImageByte, SignedType DEF OperandA, ByteA
<1>2. ASSUME NEW x \in 0..DimK - 1, NEW c \in 0..DimN - 1
      PROVE  OperandB(x, c) \in SByte
  <2>1. ByteB(x, c) \in MemBytes
    BY OperandPlaces DEF Clean
  <2> QED BY <2>1, ImageByte, SignedType DEF OperandB, ByteB
<1> QED BY <1>1, <1>2

LEMMA SByteInt == SByte \subseteq Int
  BY WordSizes DEF SByte

\* The sum of the first x products of row r and column c.
Dot(r, c, x) == SumOf(Terms(r, c), x)

LEMMA Dots ==
  ASSUME StepInv, AllPlaced, NEW r \in 0..DimM - 1, NEW c \in 0..DimN - 1
  PROVE  /\ Dot(r, c, 0) = 0
         /\ \A x \in 0..DimK : Dot(r, c, x) \in Int /\ Product(r, c, x) = Dot(r, c, x) % WordMod
         /\ \A x \in 0..DimK - 1 : Dot(r, c, x + 1) = Dot(r, c, x) + OperandA(r, x) * OperandB(x, c)
<1> DEFINE f == Terms(r, c)
<1>1. \A x \in 0..DimK - 1 : f[x] = OperandA(r, x) * OperandB(x, c)
  BY DEF Terms
<1>2. \A x \in 0..DimK - 1 : f[x] \in Int
  <2> SUFFICES ASSUME NEW x \in 0..DimK - 1 PROVE f[x] \in Int
    OBVIOUS
  <2>1. OperandA(r, x) \in Int /\ OperandB(x, c) \in Int
    BY OperandTypes, SByteInt
  <2> QED BY <1>1, <2>1
<1>3. DimK \in Nat
  BY LoopTypes
<1> HIDE DEF f
<1>4. /\ SumOf(f, 0) = 0
      /\ \A x \in 0..DimK : SumOf(f, x) \in Int
      /\ \A x \in 0..DimK - 1 : SumOf(f, x + 1) = SumOf(f, x) + f[x]
  BY <1>2, <1>3, SumDef
<1> QED BY <1>1, <1>4 DEF Dot, Product, f

-----------------------------------------------------------------------------
(* What the engine holds of its tile. *)

Fetching  == {"S_FETCH_A", "S_FETCH_A_WAIT", "S_FETCH_B", "S_FETCH_B_WAIT"}
Computing == {"S_COMP_INIT", "S_COMP_ROW_INIT", "S_COMP_MAC", "S_COMP_ACCUM"}
Storing   == {"S_STORE_C", "S_STORE_C_WAIT"}

\* The first p rows of the fetched tiles.
RowsOfA(p) ==
  \A r \in Idx, x \in Idx :
    r < p /\ r < ExtentM /\ x < ExtentK => buf_A[r][x] = OperandA(m + r, k + x)
RowsOfB(p) ==
  \A x \in Idx, c \in Idx :
    x < p => /\ x >= ExtentK => buf_B[x][c] = 0
             /\ x < ExtentK /\ c < ExtentN => buf_B[x][c] = OperandB(k + x, n + c)

FetchSide ==
  /\ state \in {"S_FETCH_A", "S_FETCH_A_WAIT"} => RowsOfA(row_cnt)
  /\ state \in {"S_FETCH_B", "S_FETCH_B_WAIT"} => RowsOfA(LANES) /\ RowsOfB(row_cnt)
  /\ state \in Computing => RowsOfA(LANES) /\ RowsOfB(LANES)

\* The dot products of the row over the first p columns of the tile.
Summed(p) ==
  \A c \in Idx : row_cnt < ExtentM /\ c < ExtentN =>
    sum_reg[c] = (Dot(m + row_cnt, n + c, k + p) - Dot(m + row_cnt, n + c, k)) % WordMod

MacSide ==
  /\ state = "S_COMP_MAC"   => Summed(IF k_cnt < ExtentK THEN k_cnt ELSE ExtentK)
  /\ state = "S_COMP_ACCUM" => Summed(ExtentK)

\* Row r of the accumulators over the first lim columns of A.
Accumulated(r, lim) ==
  \A c \in Idx : r < ExtentM /\ c < ExtentN => buf_C[r][c] = Product(m + r, n + c, lim)

\* The engine has not begun with the tile; it is through with it.
Before == state = "S_IDLE" /\ pc \in 1..8
After  == state = "S_DONE" \/ (state = "S_IDLE" /\ pc \in {10, 11})

AccuSide ==
  /\ (Before /\ k # 0) \/ state \in Fetching \cup {"S_COMP_INIT"} =>
       \A r \in Idx : Accumulated(r, k)
  /\ state \in Computing \ {"S_COMP_INIT"} =>
       \A r \in Idx : Accumulated(r, IF r < row_cnt THEN k + ExtentK ELSE k)
  /\ After \/ state \in Storing => \A r \in Idx : Accumulated(r, k + ExtentK)

\* The element is in the memory; it has to be.
Stored(r, c) ==
  \A b \in ByteSel : ByteOf(mem, ElemC(r, c) + b) = WordOf(Product(r, c, DimK))[b]
Settled(r, c) ==
  \/ r < m
  \/ r < m + TILE /\ c < n
  \/ /\ c < n + TILE /\ k + TILE >= DimK
     /\ (state \in Storing /\ r < m + row_cnt) \/ (After /\ r < m + TILE)

MemSide ==
  /\ pc = 0 => m >= DimM
  /\ state \in Storing => k + TILE >= DimK
  /\ \A r \in 0..DimM - 1, c \in 0..DimN - 1 : Settled(r, c) => Stored(r, c)

\* What is asked of the memory, and what it has answered.
Answered == arb_state = "ARB_DMA" /\ mem_ack = 1
ImageRow ==
  \A y \in MemBytes : y \div RowBytes = dma_req.row /\ Clean(y) =>
    ByteAt(mem_rdata, y % RowBytes) = ByteOf(job.image, y)
AnswerSide ==
  /\ state = "S_FETCH_A_WAIT" => row_cnt < tile_M /\ dma_req.row = RowOf(AddrA)
  /\ state = "S_FETCH_B_WAIT" => row_cnt < tile_K /\ dma_req.row = RowOf(AddrB)
  /\ state = "S_STORE_C_WAIT" =>
       dma_req.wdata = StoreData(row_cnt, OffsetOf(AddrC) \div WORD_BYTES)
  /\ Answered /\ state \in {"S_FETCH_A_WAIT", "S_FETCH_B_WAIT"} => ImageRow
  /\ Answered /\ state = "S_STORE_C_WAIT" =>
       \A c \in 0..DimN - 1 : c \in n..n + TILE - 1 => Stored(m + row_cnt, c)

ResultInv ==
  /\ FrameInv /\ TypeInv /\ KSide
  /\ FetchSide /\ MacSide /\ AccuSide /\ MemSide /\ AnswerSide

-----------------------------------------------------------------------------
(* What a clock edge leaves as it is. *)

LEMMA SameCall ==
  ASSUME UNCHANGED job
  PROVE  /\ \A r, x : OperandA(r, x)' = OperandA(r, x)
         /\ \A x, c : OperandB(x, c)' = OperandB(x, c)
         /\ \A r, c, x : Dot(r, c, x)' = Dot(r, c, x)
         /\ \A r, c, x : Product(r, c, x)' = Product(r, c, x)
         /\ \A r, c : ElemC(r, c)' = ElemC(r, c)
<1>1. DimK' = DimK
  BY DEF DimK
<1>2. /\ \A r, x : OperandA(r, x)' = OperandA(r, x)
      /\ \A x, c : OperandB(x, c)' = OperandB(x, c)
  BY DEF OperandA, OperandB, ByteOf, ByteAt, Signed
<1>3. \A r, c : Terms(r, c)' = Terms(r, c)
  BY <1>1, <1>2 DEF Terms
<1>4. \A r, c, x : SumOf(Terms(r, c), x)' = SumOf(Terms(r, c), x)
  BY <1>3
<1>5. \A r, c : ElemC(r, c)' = ElemC(r, c)
  BY DEF ElemC
<1> QED BY <1>2, <1>4, <1>5 DEF Dot, Product

LEMMA SameRows ==
  ASSUME UNCHANGED <<job, m, n, k>>
  PROVE  /\ \A r, x : OperandA(m + r, k + x)' = OperandA(m + r, k + x)
         /\ \A r, c, x : Product(m + r, n + c, k + x)' = Product(m + r, n + c, k + x)
<1>1. \A r, x : OperandA(m + r, k + x)' = OperandA(m + r, k + x)
  BY SameCall
<1>2. \A r, c, x : Product(m + r, n + c, k + x)' = Product(m + r, n + c, k + x)
  BY SameCall
<1> QED BY <1>1, <1>2

-----------------------------------------------------------------------------
(* The memory's answers. *)

LEMMA AckMeans ==
  ASSUME DmaRsp.ack = 1
  PROVE  Answered /\ DmaRsp.rdata = mem_rdata
  BY DEF DmaRsp, dma_rsp, Answered

\* An answer that is there after an edge is that to the request held over it.
LEMMA HeldWait ==
  ASSUME PortInv, Tick, arb_state' = "ARB_DMA", state' \in Waits
  PROVE  /\ state \in Waits /\ UNCHANGED <<state, row_cnt, dma_req, reg>>
         /\ MemPort = dma_req /\ dma_req.stb = 1 /\ BramTick(dma_req)
<1>1. EngineTick(DmaRsp) /\ XbarTick(cpu_req, dma_req) /\ BramTick(MemPort)
  BY DEF Tick, CfsTick
<1>2. dma_req.stb = 1 /\ arb_state \in {"ARB_IDLE", "ARB_DMA"}
  BY <1>1 DEF XbarTick, ArbGrantDma, ArbGrantCpu, ArbRelease, ArbHold, xbarVars
<1>3. MemPort = dma_req
  BY <1>2 DEF MemPort, mem_req
<1>4. state \in Waits
  BY <1>2 DEF PortInv, PortSide
<1>5. FetchAWait(DmaRsp) \/ FetchBWait(DmaRsp) \/ StoreCWait(DmaRsp)
  BY <1>1, <1>4 DEF EngineTick, Waits, Idle, FetchA, FetchB, CompInit, CompRowInit, CompMac, CompAccum, StoreC, Done
<1>6. DmaRsp.ack # 1
  BY <1>5, NextRowIdx DEF FetchAWait, FetchBWait, StoreCWait, Waits, PortInv, PortSide
<1>7. HoldStrobe /\ UNCHANGED <<state, row_cnt>>
  BY <1>5, <1>6 DEF FetchAWait, FetchBWait, StoreCWait
<1>8. dma_req' = dma_req
  BY <1>4, <1>7, StrobeFields DEF PortInv, PortSide
<1>9. reg' = reg
  BY <1>4, RegsKept DEF PortInv, Waits
<1> QED BY <1>1, <1>2, <1>3, <1>4, <1>7, <1>8, <1>9

\* The rows that arrive are those of the operands.
LEMMA FetchedA ==
  ASSUME ResultInv, AllPlaced, state = "S_FETCH_A_WAIT", DmaRsp.ack = 1, NEW x \in Idx, x < ExtentK
  PROVE  Extract(DmaRsp.rdata, OffsetOf(AddrA))[x] = OperandA(m + row_cnt, k + x)
<1> DEFINE r == m + row_cnt
           a == ByteA(r, k)
<1>1. StepInv /\ row_cnt \in Idx /\ row_cnt < tile_M /\ dma_req.row = RowOf(AddrA)
  BY DEF ResultInv, FrameInv, PortInv, PortSide, AnswerSide
<1>2. r \in 0..DimM - 1 /\ AddrA = a /\ OneRow(a, ExtentK)
  BY <1>1, AddressOfA DEF ResultInv
<1>3. ImageRow /\ DmaRsp.rdata = mem_rdata
  BY AckMeans DEF ResultInv, AnswerSide
<1>4. k + x \in 0..DimK - 1 /\ k \in 0..DimK - 1 /\ ExtentK \in Nat /\ k \in Nat /\ x \in Nat
  <2>1. pc # 0 /\ x \in Nat
    BY <1>1, RunPlaces, WordSizes DEF Idx
  <2> QED BY <1>1, <2>1, TileRange, LoopTypes
<1> HIDE DEF r
<1>5. a \in Nat /\ Clean(ByteA(r, k + x)) /\ ByteA(r, k + x) = a + x
  <2>1. a \in Nat /\ Clean(ByteA(r, k + x))
    BY <1>1, <1>2, <1>4, OperandPlaces
  <2>2. r * job.A.stride \in Nat
    BY <1>1, <1>2, LoopTypes
  <2>3. ByteA(r, k + x) = a + x
    BY <1>1, <1>4, <2>2, LoopTypes DEF ByteA
  <2> QED BY <2>1, <2>3
<1> HIDE DEF a
<1>6. \A y \in MemBytes : y \div RowBytes = RowOf(a) /\ Clean(y) =>
        ByteAt(DmaRsp.rdata, y % RowBytes) = ByteOf(job.image, y)
  BY <1>1, <1>2, <1>3 DEF ImageRow
<1>7. Extract(DmaRsp.rdata, OffsetOf(a))[x] = Signed(ByteOf(job.image, a + x))
  BY <1>2, <1>4, <1>5, <1>6, PieceRead
<1> QED BY <1>2, <1>5, <1>7 DEF OperandA, ByteA, r

LEMMA FetchedB ==
  ASSUME ResultInv, AllPlaced, state = "S_FETCH_B_WAIT", DmaRsp.ack = 1, NEW c \in Idx, c < ExtentN
  PROVE  Extract(DmaRsp.rdata, OffsetOf(AddrB))[c] = OperandB(k + row_cnt, n + c)
<1> DEFINE x == k + row_cnt
           a == ByteB(x, n)
<1>1. StepInv /\ TileSide /\ row_cnt \in Idx /\ row_cnt < tile_K /\ dma_req.row = RowOf(AddrB)
  BY DEF ResultInv, FrameInv, PortInv, PortSide, AnswerSide
<1>2. x \in 0..DimK - 1 /\ AddrB = a /\ OneRow(a, ExtentN)
  BY <1>1, AddressOfB
<1>3. ImageRow /\ DmaRsp.rdata = mem_rdata
  BY AckMeans DEF ResultInv, AnswerSide
<1>4. n + c \in 0..DimN - 1 /\ n \in 0..DimN - 1 /\ ExtentN \in Nat /\ n \in Nat /\ c \in Nat
  <2>1. pc # 0 /\ c \in Nat
    BY <1>1, RunPlaces, WordSizes DEF Idx
  <2> QED BY <1>1, <2>1, TileRange, LoopTypes
<1> HIDE DEF x
<1>5. a \in Nat /\ Clean(ByteB(x, n + c)) /\ ByteB(x, n + c) = a + c
  <2>1. a \in Nat /\ Clean(ByteB(x, n + c))
    BY <1>1, <1>2, <1>4, OperandPlaces
  <2>2. x * job.B.stride \in Nat
    BY <1>1, <1>2, LoopTypes
  <2>3. ByteB(x, n + c) = a + c
    BY <1>1, <1>4, <2>2, LoopTypes DEF ByteB
  <2> QED BY <2>1, <2>3
<1> HIDE DEF a
<1>6. \A y \in MemBytes : y \div RowBytes = RowOf(a) /\ Clean(y) =>
        ByteAt(DmaRsp.rdata, y % RowBytes) = ByteOf(job.image, y)
  BY <1>1, <1>2, <1>3 DEF ImageRow
<1>7. Extract(DmaRsp.rdata, OffsetOf(a))[c] = Signed(ByteOf(job.image, a + c))
  BY <1>2, <1>4, <1>5, <1>6, PieceRead
<1> QED BY <1>2, <1>5, <1>7 DEF OperandB, ByteB, x

-----------------------------------------------------------------------------
(* Fetching. *)

LEMMA Running ==
  ASSUME ResultInv, Tick, state \notin {"S_IDLE", "S_DONE"}
  PROVE  /\ StepInv /\ SameTile /\ EngineTick(DmaRsp) /\ row_cnt \in Idx /\ k_cnt \in Idx
         /\ UNCHANGED <<job, m, n, k, DimM, DimN, DimK, ExtentM, ExtentN, ExtentK>>
         /\ tile_M = ExtentM /\ tile_K = ExtentK /\ ~Before /\ ~After
         /\ m < DimM /\ n < DimN /\ k < DimK
         /\ ExtentM \in 1..LANES /\ ExtentK \in 1..LANES /\ ExtentN \in 1..LANES
<1>1. StepInv /\ row_cnt \in Idx /\ k_cnt \in Idx
  BY DEF ResultInv, FrameInv, PortInv, TypeInv, CfsTypeOK
<1>2. EngineTick(DmaRsp)
  BY DEF Tick, CfsTick
<1>3. SameTile
  BY <1>1, DriverMoves DEF NewTile
<1>4. pc # 0
  BY <1>1, RunPlaces
<1> QED BY <1>1, <1>2, <1>3, <1>4, SameTileKeeps, ReadRegs, TileRange DEF Before, After

LEMMA RowsKept ==
  ASSUME UNCHANGED <<job, m, n, k, ExtentM, ExtentN, ExtentK>>, NEW p
  PROVE  /\ (\A r \in Idx, x \in Idx :
               r < p /\ r < ExtentM /\ x < ExtentK => buf_A'[r][x] = OperandA(m + r, k + x)) => RowsOfA(p)'
         /\ (\A x \in Idx, c \in Idx :
               x < p => /\ x >= ExtentK => buf_B'[x][c] = 0
                        /\ x < ExtentK /\ c < ExtentN => buf_B'[x][c] = OperandB(k + x, n + c)) => RowsOfB(p)'
<1>1. /\ \A r, x : OperandA(m + r, k + x)' = OperandA(m + r, k + x)
      /\ \A x, c : OperandB(k + x, n + c)' = OperandB(k + x, n + c)
  BY SameCall
<1> QED BY <1>1 DEF RowsOfA, RowsOfB

LEMMA SameFetched ==
  ASSUME UNCHANGED <<job, m, n, k, ExtentM, ExtentN, ExtentK>>, NEW p
  PROVE  /\ buf_A' = buf_A /\ RowsOfA(p) => RowsOfA(p)'
         /\ buf_B' = buf_B /\ RowsOfB(p) => RowsOfB(p)'
  BY RowsKept DEF RowsOfA, RowsOfB

\* A row more of A.
LEMMA RowOfA ==
  ASSUME UNCHANGED <<job, m, n, k, ExtentM, ExtentN, ExtentK>>, CfsTypeOK, RowsOfA(row_cnt),
         NEW v, buf_A' = [buf_A EXCEPT ![row_cnt] = v],
         \A x \in Idx : row_cnt < ExtentM /\ x < ExtentK => v[x] = OperandA(m + row_cnt, k + x)
  PROVE  \A p : p = row_cnt + 1 => RowsOfA(p)'
<1>1. row_cnt \in Idx /\ Idx \subseteq Int
  BY DEF CfsTypeOK, Idx
<1>2. ASSUME NEW r \in Idx, NEW x \in Idx, r < row_cnt + 1, r < ExtentM, x < ExtentK
      PROVE  buf_A'[r][x] = OperandA(m + r, k + x)
  <2>1. CASE r = row_cnt
    <3>1. buf_A'[r] = v
      BY <1>1, <2>1 DEF CfsTypeOK
    <3> QED BY <1>2, <2>1, <3>1
  <2>2. CASE r # row_cnt
    <3>1. r < row_cnt /\ buf_A'[r] = buf_A[r]
      BY <1>1, <1>2, <2>2 DEF CfsTypeOK
    <3> QED BY <1>2, <3>1 DEF RowsOfA
  <2> QED BY <2>1, <2>2
<1> SUFFICES ASSUME NEW p, p = row_cnt + 1 PROVE RowsOfA(p)'
  OBVIOUS
<1>3. \A r \in Idx, x \in Idx :
        r < p /\ r < ExtentM /\ x < ExtentK => buf_A'[r][x] = OperandA(m + r, k + x)
  BY <1>2
<1> QED BY <1>3, RowsKept

\* A row more of B.
LEMMA RowOfB ==
  ASSUME UNCHANGED <<job, m, n, k, ExtentM, ExtentN, ExtentK>>, CfsTypeOK, RowsOfB(row_cnt),
         NEW v, buf_B' = [buf_B EXCEPT ![row_cnt] = v],
         \A c \in Idx : /\ row_cnt >= ExtentK => v[c] = 0
                        /\ row_cnt < ExtentK /\ c < ExtentN => v[c] = OperandB(k + row_cnt, n + c)
  PROVE  \A p : p = row_cnt + 1 => RowsOfB(p)'
<1>1. row_cnt \in Idx /\ Idx \subseteq Int
  BY DEF CfsTypeOK, Idx
<1>2. ASSUME NEW x \in Idx, NEW c \in Idx, x < row_cnt + 1
      PROVE  /\ x >= ExtentK => buf_B'[x][c] = 0
             /\ x < ExtentK /\ c < ExtentN => buf_B'[x][c] = OperandB(k + x, n + c)
  <2>1. CASE x = row_cnt
    <3>1. buf_B'[x] = v
      BY <1>1, <2>1 DEF CfsTypeOK
    <3> QED BY <1>2, <2>1, <3>1
  <2>2. CASE x # row_cnt
    <3>1. x < row_cnt /\ buf_B'[x] = buf_B[x]
      BY <1>1, <1>2, <2>2 DEF CfsTypeOK
    <3> QED BY <1>2, <3>1 DEF RowsOfB
  <2> QED BY <2>1, <2>2
<1> SUFFICES ASSUME NEW p, p = row_cnt + 1 PROVE RowsOfB(p)'
  OBVIOUS
<1>3. \A x \in Idx, c \in Idx :
        x < p => /\ x >= ExtentK => buf_B'[x][c] = 0
                 /\ x < ExtentK /\ c < ExtentN => buf_B'[x][c] = OperandB(k + x, n + c)
  BY <1>2
<1> QED BY <1>3, RowsKept

LEMMA NoRows ==
  /\ \A p : p = 0 => RowsOfA(p)' /\ RowsOfB(p)'
<1>1. \A r \in Idx : ~(r < 0)
  BY WordSizes DEF Idx
<1> QED BY <1>1 DEF RowsOfA, RowsOfB

LEMMA NextRowCases ==
  ASSUME row_cnt \in Idx, NEW this, NEW next, NextRow(this, next)
  PROVE  \/ state' = next /\ row_cnt' = 0 /\ row_cnt + 1 = LANES
         \/ state' = this /\ row_cnt' = row_cnt + 1 /\ row_cnt + 1 < LANES
  BY WordSizes DEF NextRow, LastRow, Idx

LEMMA FetchStep ==
  ASSUME ResultInv, AllPlaced, Tick
  PROVE  FetchSide'
<1>1. EngineTick(DmaRsp) /\ CfsTypeOK /\ state \in state_t /\ row_cnt \in Idx
  BY DEF Tick, CfsTick, ResultInv, TypeInv, CfsTypeOK
<1>2. CASE state \in {"S_IDLE", "S_DONE"}
  <2>1. Idle \/ Done
    BY <1>1, <1>2 DEF EngineTick, FetchA, FetchAWait, FetchB, FetchBWait, CompInit, CompRowInit, CompMac, CompAccum, StoreC, StoreCWait
  <2>2. state' \in {"S_IDLE", "S_DONE"} \/ (state' = "S_FETCH_A" /\ row_cnt' = 0)
    BY <1>2, <2>1 DEF Idle, Done
  <2> QED BY <2>2, NoRows DEF FetchSide, Computing
<1>3. CASE state \notin {"S_IDLE", "S_DONE"}
  <2>1. /\ UNCHANGED <<job, m, n, k, ExtentM, ExtentN, ExtentK>>
        /\ tile_M = ExtentM /\ tile_K = ExtentK /\ row_cnt \in Nat
        /\ ExtentM \in Nat /\ ExtentK \in Nat /\ ExtentN \in Nat
    <3>1. \A e \in 1..LANES : e \in Nat
      BY WordSizes
    <3> QED BY <1>1, <1>3, <3>1, Running, WordSizes DEF Idx
  <2>2. \A p : buf_A' = buf_A /\ RowsOfA(p) => RowsOfA(p)'
    BY <2>1, SameFetched
  <2>3. \A p : buf_B' = buf_B /\ RowsOfB(p) => RowsOfB(p)'
    BY <2>1, SameFetched
  <2>4. LANES' = LANES
    OBVIOUS
  <2>5. CASE FetchA \/ FetchAWait(DmaRsp)
    <3>1. RowsOfA(row_cnt)
      BY <2>5 DEF FetchA, FetchAWait, ResultInv, FetchSide
    <3>2. CASE \E v : /\ buf_A' = [buf_A EXCEPT ![row_cnt] = v]
                      /\ \A x \in Idx : row_cnt < ExtentM /\ x < ExtentK => v[x] = OperandA(m + row_cnt, k + x)
                      /\ NextRow("S_FETCH_A", "S_FETCH_B")
      <4>1. \A p : p = row_cnt + 1 => RowsOfA(p)'
        BY <1>1, <2>1, <3>1, <3>2, RowOfA
      <4>2. \/ state' = "S_FETCH_B" /\ row_cnt' = 0 /\ row_cnt + 1 = LANES
            \/ state' = "S_FETCH_A" /\ row_cnt' = row_cnt + 1
        BY <1>1, <3>2, NextRowCases
      <4>3. CASE state' = "S_FETCH_B" /\ row_cnt' = 0 /\ row_cnt + 1 = LANES
        <5>1. RowsOfA(LANES)'
          BY <4>1, <4>3
        <5>2. RowsOfB(row_cnt)'
          BY <4>3, NoRows
        <5> QED BY <4>3, <5>1, <5>2 DEF FetchSide, Computing
      <4>4. CASE state' = "S_FETCH_A" /\ row_cnt' = row_cnt + 1
        <5>1. RowsOfA(row_cnt)'
          BY <4>1, <4>4
        <5> QED BY <4>4, <5>1 DEF FetchSide, Computing
      <4> QED BY <4>2, <4>3, <4>4
    <3>3. CASE UNCHANGED <<buf_A, row_cnt>> /\ state' \in {"S_FETCH_A", "S_FETCH_A_WAIT"}
      <4>1. RowsOfA(row_cnt)'
        BY <2>2, <3>1, <3>3
      <4> QED BY <3>3, <4>1 DEF FetchSide, Computing
    <3>4. CASE FetchA
      <4>1. CASE row_cnt < tile_M
        BY <3>3, <3>4, <4>1 DEF FetchA
      <4>2. CASE ~(row_cnt < tile_M)
        BY <2>1, <3>2, <3>4, <4>2 DEF FetchA
      <4> QED BY <4>1, <4>2
    <3>5. CASE FetchAWait(DmaRsp)
      <4>1. CASE DmaRsp.ack = 1
        <5> DEFINE v == Extract(DmaRsp.rdata, OffsetOf(AddrA))
        <5>1. \A x \in Idx : x < ExtentK => v[x] = OperandA(m + row_cnt, k + x)
          BY <3>5, <4>1, FetchedA DEF FetchAWait
        <5>2. buf_A' = [buf_A EXCEPT ![row_cnt] = v] /\ NextRow("S_FETCH_A", "S_FETCH_B")
          BY <3>5, <4>1 DEF FetchAWait
        <5> HIDE DEF v
        <5> QED BY <3>2, <5>1, <5>2
      <4>2. CASE DmaRsp.ack # 1
        BY <3>3, <3>5, <4>2 DEF FetchAWait
      <4> QED BY <4>1, <4>2
    <3> QED BY <2>5, <3>4, <3>5
  <2>6. CASE FetchB \/ FetchBWait(DmaRsp)
    <3>1. RowsOfA(LANES) /\ RowsOfB(row_cnt) /\ buf_A' = buf_A
      BY <2>6 DEF FetchB, FetchBWait, ResultInv, FetchSide
    <3>2. RowsOfA(LANES)'
      BY <2>2, <2>4, <3>1
    <3>3. CASE \E v : /\ buf_B' = [buf_B EXCEPT ![row_cnt] = v]
                      /\ \A c \in Idx : /\ row_cnt >= ExtentK => v[c] = 0
                                        /\ row_cnt < ExtentK /\ c < ExtentN => v[c] = OperandB(k + row_cnt, n + c)
                      /\ NextRow("S_FETCH_B", "S_COMP_INIT")
      <4>1. \A p : p = row_cnt + 1 => RowsOfB(p)'
        BY <1>1, <2>1, <3>1, <3>3, RowOfB
      <4>2. \/ state' = "S_COMP_INIT" /\ row_cnt' = 0 /\ row_cnt + 1 = LANES
            \/ state' = "S_FETCH_B" /\ row_cnt' = row_cnt + 1
        BY <1>1, <3>3, NextRowCases
      <4>3. CASE state' = "S_COMP_INIT" /\ row_cnt + 1 = LANES
        <5>1. RowsOfB(LANES)'
          BY <4>1, <4>3
        <5> QED BY <3>2, <4>3, <5>1 DEF FetchSide, Computing
      <4>4. CASE state' = "S_FETCH_B" /\ row_cnt' = row_cnt + 1
        <5>1. RowsOfB(row_cnt)'
          BY <4>1, <4>4
        <5> QED BY <3>2, <4>4, <5>1 DEF FetchSide, Computing
      <4> QED BY <4>2, <4>3, <4>4
    <3>4. CASE UNCHANGED <<buf_B, row_cnt>> /\ state' \in {"S_FETCH_B", "S_FETCH_B_WAIT"}
      <4>1. RowsOfB(row_cnt)'
        BY <2>3, <3>1, <3>4
      <4> QED BY <3>2, <3>4, <4>1 DEF FetchSide, Computing
    <3>5. CASE FetchB
      <4>1. CASE row_cnt < tile_K
        BY <3>4, <3>5, <4>1 DEF FetchB
      <4>2. CASE ~(row_cnt < tile_K)
        <5>1. \A c \in Idx : ZeroBytes[c] = 0
          BY DEF ZeroBytes
        <5> QED BY <2>1, <3>3, <3>5, <4>2, <5>1 DEF FetchB
      <4> QED BY <4>1, <4>2
    <3>6. CASE FetchBWait(DmaRsp)
      <4>1. CASE DmaRsp.ack = 1
        <5> DEFINE v == Extract(DmaRsp.rdata, OffsetOf(AddrB))
        <5>1. \A c \in Idx : c < ExtentN => v[c] = OperandB(k + row_cnt, n + c)
          BY <3>6, <4>1, FetchedB DEF FetchBWait
        <5>2. buf_B' = [buf_B EXCEPT ![row_cnt] = v] /\ NextRow("S_FETCH_B", "S_COMP_INIT")
          BY <3>6, <4>1 DEF FetchBWait
        <5>3. row_cnt < ExtentK
          BY <2>1, <3>6 DEF FetchBWait, ResultInv, AnswerSide
        <5> HIDE DEF v
        <5>4. \A c \in Idx : /\ row_cnt >= ExtentK => v[c] = 0
                             /\ row_cnt < ExtentK /\ c < ExtentN => v[c] = OperandB(k + row_cnt, n + c)
          BY <2>1, <5>1, <5>3
        <5> QED BY <3>3, <5>2, <5>4
      <4>2. CASE DmaRsp.ack # 1
        BY <3>4, <3>6, <4>2 DEF FetchBWait
      <4> QED BY <4>1, <4>2
    <3> QED BY <2>6, <3>5, <3>6
  <2>7. CASE CompInit \/ CompRowInit \/ CompMac \/ CompAccum
    <3>1. RowsOfA(LANES) /\ RowsOfB(LANES) /\ UNCHANGED <<buf_A, buf_B>>
      BY <2>7 DEF CompInit, CompRowInit, CompMac, CompAccum, ResultInv, FetchSide, Computing
    <3>2. RowsOfA(LANES)' /\ RowsOfB(LANES)'
      BY <2>2, <2>3, <2>4, <3>1
    <3>3. state' \notin Fetching
      BY <2>7 DEF CompInit, CompRowInit, CompMac, CompAccum, Fetching
    <3> QED BY <3>2, <3>3 DEF FetchSide, Fetching
  <2>8. CASE StoreC \/ StoreCWait(DmaRsp)
    <3>1. state' \notin Fetching \cup Computing
      BY <1>1, <2>8, NextRowCases DEF StoreC, StoreCWait, Fetching, Computing
    <3> QED BY <3>1 DEF FetchSide, Fetching
  <2> QED BY <1>1, <1>3, <2>5, <2>6, <2>7, <2>8 DEF EngineTick, Idle, Done
<1> QED BY <1>2, <1>3

-----------------------------------------------------------------------------
(* Multiplying. *)

\* The sum of the products of a row and a column of the tile, moved on by one.
LEMMA MacArith ==
  ASSUME NEW u \in Int, NEW v \in Int, NEW w \in Int, NEW p \in Int, NEW d \in Nat \ {0},
         v = u + p
  PROVE  (((u - w) % d) + p) % d = (v - w) % d
<1>1. u - w \in Int /\ (u - w) + p = v - w
  OBVIOUS
<1> DEFINE x == u - w
           y == v - w
<1>2. x \in Int /\ x + p = y
  BY <1>1
<1> HIDE DEF x, y
<1>3. ((x % d) + p) % d = (x + p) % d
  BY <1>2, AddMod
<1> QED BY <1>2, <1>3 DEF x, y

LEMMA ZeroArith ==
  ASSUME NEW x \in Int, NEW d \in Nat \ {0}
  PROVE  ((x % d) + 0) % d = x % d /\ (x - x) % d = 0
<1>1. ((x % d) + 0) % d = x % d
  <2> DEFINE y == x % d
  <2>1. y \in 0..d - 1
    BY IntDivMod
  <2> HIDE DEF y
  <2>2. y + 0 = y /\ y % d = y
    BY <2>1, ModSmall
  <2> QED BY <2>2 DEF y
<1>2. x - x = 0
  OBVIOUS
<1>3. 0 % d = 0
  OBVIOUS
<1> QED BY <1>1, <1>2, <1>3

LEMMA AccuArith ==
  ASSUME NEW u \in Int, NEW v \in Int, NEW d \in Nat \ {0}
  PROVE  ((u % d) + ((v - u) % d)) % d = v % d
<1> DEFINE x == v - u
<1>1. x \in Int /\ u + x = v
  OBVIOUS
<1> HIDE DEF x
<1>2. ((u % d) + (x % d)) % d = (u + x) % d
  BY <1>1, AddMods
<1> QED BY <1>1, <1>2 DEF x

LEMMA SummedKept ==
  ASSUME UNCHANGED <<job, m, n, k, ExtentM, ExtentN>>, NEW p
  PROVE  (\A c \in Idx : row_cnt' < ExtentM /\ c < ExtentN =>
            sum_reg'[c] = (Dot(m + row_cnt', n + c, k + p) - Dot(m + row_cnt', n + c, k)) % WordMod)
         => Summed(p)'
<1>1. \A c : /\ Dot(m + row_cnt, n + c, k + p)' = Dot(m + row_cnt', n + c, k + p)
             /\ Dot(m + row_cnt, n + c, k)' = Dot(m + row_cnt', n + c, k)
  BY SameCall
<1> QED BY <1>1 DEF Summed

\* Where the row and the columns of the tile lie in the product.
LEMMA TileDots ==
  ASSUME ResultInv, AllPlaced, state \notin {"S_IDLE", "S_DONE"},
         NEW r \in Idx, r < ExtentM, NEW c \in Idx, c < ExtentN
  PROVE  /\ m + r \in 0..DimM - 1 /\ n + c \in 0..DimN - 1
         /\ \A x \in Nat : x <= ExtentK =>
              /\ k + x \in 0..DimK /\ Dot(m + r, n + c, k + x) \in Int
              /\ Product(m + r, n + c, k + x) = Dot(m + r, n + c, k + x) % WordMod
         /\ \A x \in Nat : x < ExtentK =>
              /\ k + x \in 0..DimK - 1
              /\ Dot(m + r, n + c, k + (x + 1)) =
                   Dot(m + r, n + c, k + x) + OperandA(m + r, k + x) * OperandB(k + x, n + c)
         /\ Dot(m + r, n + c, k) \in Int
         /\ Product(m + r, n + c, k) = Dot(m + r, n + c, k) % WordMod
<1>1. StepInv /\ r \in Nat /\ c \in Nat
  BY WordSizes DEF ResultInv, FrameInv, PortInv, Idx
<1>2. pc # 0
  BY <1>1, RunPlaces
<1>3. m + r \in 0..DimM - 1 /\ n + c \in 0..DimN - 1
  BY <1>1, <1>2, TileRange, LoopTypes
<1>4. k \in Nat /\ k < DimK /\ DimK \in Nat /\ ExtentK \in Nat /\ k + ExtentK <= DimK
  BY <1>1, <1>2, TileRange, LoopTypes
<1> DEFINE i == m + r
           j == n + c
<1>5. /\ \A x \in 0..DimK : Dot(i, j, x) \in Int /\ Product(i, j, x) = Dot(i, j, x) % WordMod
      /\ \A x \in 0..DimK - 1 : Dot(i, j, x + 1) = Dot(i, j, x) + OperandA(i, x) * OperandB(x, j)
  BY <1>1, <1>3, Dots
<1>6. ASSUME NEW x \in Nat, x <= ExtentK
      PROVE  k + x \in 0..DimK
  BY <1>4, <1>6
<1>7. ASSUME NEW x \in Nat, x < ExtentK
      PROVE  k + x \in 0..DimK - 1 /\ k + (x + 1) = (k + x) + 1
  BY <1>4, <1>7
<1>8. k \in 0..DimK
  BY <1>4
<1> HIDE DEF i, j
<1>9. /\ \A x \in Nat : x <= ExtentK =>
              /\ k + x \in 0..DimK /\ Dot(i, j, k + x) \in Int
              /\ Product(i, j, k + x) = Dot(i, j, k + x) % WordMod
      /\ Dot(i, j, k) \in Int /\ Product(i, j, k) = Dot(i, j, k) % WordMod
  BY <1>5, <1>6, <1>8
<1>10. \A x \in Nat : x < ExtentK =>
              /\ k + x \in 0..DimK - 1
              /\ Dot(i, j, k + (x + 1)) = Dot(i, j, k + x) + OperandA(i, k + x) * OperandB(k + x, j)
  BY <1>5, <1>7
<1> QED BY <1>3, <1>9, <1>10 DEF i, j

LEMMA MacStep ==
  ASSUME ResultInv, AllPlaced, Tick
  PROVE  MacSide'
<1>1. EngineTick(DmaRsp) /\ CfsTypeOK /\ state \in state_t /\ row_cnt \in Idx /\ k_cnt \in Idx
  BY DEF Tick, CfsTick, ResultInv, TypeInv, CfsTypeOK
<1>2. CASE ~(CompRowInit \/ CompMac)
  <2>1. state' \notin {"S_COMP_MAC", "S_COMP_ACCUM"}
    <3>1. CASE Idle \/ Done \/ CompInit \/ CompAccum
      BY <3>1 DEF Idle, Done, CompInit, CompAccum
    <3>2. CASE FetchA \/ FetchAWait(DmaRsp) \/ FetchB \/ FetchBWait(DmaRsp) \/ StoreC \/ StoreCWait(DmaRsp)
      BY <1>1, <3>2, NextRowCases DEF FetchA, FetchAWait, FetchB, FetchBWait, StoreC, StoreCWait
    <3> QED BY <1>1, <1>2, <3>1, <3>2 DEF EngineTick
  <2> QED BY <2>1 DEF MacSide
<1>3. CASE CompRowInit \/ CompMac
  <2>1. state \notin {"S_IDLE", "S_DONE"} /\ row_cnt' = row_cnt
    BY <1>3 DEF CompRowInit, CompMac
  <2>2. /\ UNCHANGED <<job, m, n, k, ExtentM, ExtentN, ExtentK>>
        /\ ExtentK \in 1..LANES /\ ExtentK \in Nat /\ LANES \in Nat /\ k_cnt \in Nat /\ k_cnt < LANES /\ k \in Nat
    <3>1. \A e \in 1..LANES : e \in Nat
      BY WordSizes
    <3>2. k \in Nat
      BY LoopTypes DEF ResultInv, FrameInv, PortInv
    <3> QED BY <1>1, <2>1, <3>1, <3>2, Running, WordSizes DEF Idx
  <2>3. WordMod \in Nat \ {0}
    BY Weights
  <2>4. ASSUME NEW p,
               \A c \in Idx : row_cnt < ExtentM /\ c < ExtentN =>
                 sum_reg'[c] = (Dot(m + row_cnt, n + c, k + p) - Dot(m + row_cnt, n + c, k)) % WordMod
        PROVE  Summed(p)'
    BY <2>1, <2>2, <2>4, SummedKept
  <2>5. CASE CompRowInit
    <3>1. state' = "S_COMP_MAC" /\ k_cnt' = 0 /\ \A c \in Idx : sum_reg'[c] = 0
      BY <2>5 DEF CompRowInit
    <3>2. ASSUME NEW c \in Idx, row_cnt < ExtentM, c < ExtentN
          PROVE  sum_reg'[c] = (Dot(m + row_cnt, n + c, k + 0) - Dot(m + row_cnt, n + c, k)) % WordMod
      <4> DEFINE D == Dot(m + row_cnt, n + c, k)
      <4>1. D \in Int
        BY <1>1, <2>1, <3>2, TileDots
      <4>2. k + 0 = k
        BY <2>2
      <4> HIDE DEF D
      <4>3. (D - D) % WordMod = 0
        BY <2>3, <4>1, ZeroArith
      <4> QED BY <3>1, <4>2, <4>3 DEF D
    <3>3. Summed(0)'
      BY <2>4, <3>2
    <3>4. (IF k_cnt < ExtentK THEN k_cnt ELSE ExtentK)' = 0
      BY <2>2, <3>1
    <3> QED BY <3>1, <3>3, <3>4 DEF MacSide
  <2>6. CASE CompMac
    <3> DEFINE p == IF k_cnt < ExtentK THEN k_cnt ELSE ExtentK
               q == IF k_cnt < ExtentK THEN k_cnt + 1 ELSE ExtentK
               x == buf_A[row_cnt][k_cnt]
    <3>1. /\ state = "S_COMP_MAC"
          /\ \A c \in Idx : sum_reg'[c] = (sum_reg[c] + x * buf_B[k_cnt][c]) % WordMod
          /\ \/ k_cnt = LANES - 1 /\ state' = "S_COMP_ACCUM"
             \/ k_cnt # LANES - 1 /\ state' = "S_COMP_MAC" /\ k_cnt' = k_cnt + 1
      BY <2>6 DEF CompMac
    <3>2. Summed(p) /\ RowsOfA(LANES) /\ RowsOfB(LANES)
      BY <3>1 DEF ResultInv, MacSide, FetchSide, Computing
    <3>3. ASSUME NEW c \in Idx, row_cnt < ExtentM, c < ExtentN
          PROVE  sum_reg'[c] = (Dot(m + row_cnt, n + c, k + q) - Dot(m + row_cnt, n + c, k)) % WordMod
      <4> DEFINE i == m + row_cnt
                 j == n + c
                 w == Dot(i, j, k)
                 u == Dot(i, j, k + p)
                 v == Dot(i, j, k + q)
                 y == buf_B[k_cnt][c]
      <4>1. w \in Int /\ sum_reg[c] = (u - w) % WordMod
        BY <1>1, <2>1, <3>2, <3>3, TileDots DEF Summed
      <4>2. row_cnt < LANES /\ x \in Int /\ y \in Int
        <5>1. x \in SByte /\ y \in SByte
          BY <1>1 DEF CfsTypeOK
        <5>2. row_cnt < LANES
          BY <1>1, WordSizes DEF Idx
        <5> HIDE DEF x, y
        <5> QED BY <5>1, <5>2, SByteInt
      <4>3. CASE k_cnt < ExtentK
        <5>1. p = k_cnt /\ q = k_cnt + 1 /\ k_cnt + 1 <= ExtentK
          BY <2>2, <4>3
        <5>2. u \in Int /\ v \in Int /\ v = u + OperandA(i, k + k_cnt) * OperandB(k + k_cnt, j)
          <6>1. k_cnt \in Nat /\ k_cnt + 1 \in Nat /\ k_cnt <= ExtentK
            BY <2>2, <4>3
          <6>2. /\ \A t \in Nat : t <= ExtentK => Dot(i, j, k + t) \in Int
                /\ \A t \in Nat : t < ExtentK =>
                     Dot(i, j, k + (t + 1)) = Dot(i, j, k + t) + OperandA(i, k + t) * OperandB(k + t, j)
            BY <1>1, <2>1, <3>3, TileDots
          <6>3. Dot(i, j, k + k_cnt) \in Int /\ Dot(i, j, k + (k_cnt + 1)) \in Int
            BY <5>1, <6>1, <6>2
          <6>4. Dot(i, j, k + (k_cnt + 1)) = Dot(i, j, k + k_cnt) + OperandA(i, k + k_cnt) * OperandB(k + k_cnt, j)
            BY <4>3, <6>1, <6>2
          <6> HIDE DEF i, j, p, q
          <6> QED BY <5>1, <6>3, <6>4
        <5>3. x = OperandA(i, k + k_cnt) /\ y = OperandB(k + k_cnt, j)
          BY <1>1, <2>2, <3>2, <3>3, <4>2, <4>3 DEF RowsOfA, RowsOfB
        <5> HIDE DEF i, j, w, u, v, x, y, p, q
        <5>4. v = u + x * y
          BY <5>2, <5>3
        <5> DEFINE z == x * y
        <5>5. z \in Int /\ v = u + z
          BY <4>2, <5>4
        <5> HIDE DEF z
        <5>6. (((u - w) % WordMod) + z) % WordMod = (v - w) % WordMod
          <6>1. u \in Int /\ v \in Int /\ w \in Int /\ z \in Int /\ v = u + z /\ WordMod \in Nat \ {0}
            BY <2>3, <4>1, <5>2, <5>5
          <6> DEFINE d == WordMod
          <6> HIDE DEF d
          <6>2. d \in Nat \ {0}
            BY <6>1 DEF d
          <6>3. (((u - w) % d) + z) % d = (v - w) % d
            BY <6>1, <6>2, MacArith
          <6> QED BY <6>3 DEF d
        <5>7. sum_reg'[c] = (sum_reg[c] + z) % WordMod
          BY <3>1 DEF z, y
        <5> QED BY <4>1, <5>6, <5>7 DEF i, j, v, w
      <4>4. CASE ~(k_cnt < ExtentK)
        <5>1. p = ExtentK /\ q = ExtentK /\ k_cnt >= ExtentK
          BY <2>2, <4>4
        <5>2. u \in Int /\ u = v
          BY <1>1, <2>1, <2>2, <3>3, <5>1, TileDots
        <5>3. y = 0
          BY <1>1, <2>2, <3>2, <5>1 DEF RowsOfB
        <5> HIDE DEF i, j, w, u, v, x, y, p, q
        <5>4. x * y = 0
          BY <4>2, <5>3
        <5> DEFINE e == u - w
        <5>5. e \in Int
          BY <4>1, <5>2
        <5>6. sum_reg'[c] = (sum_reg[c] + 0) % WordMod
          BY <3>1, <5>4 DEF y
        <5>7. sum_reg[c] = e % WordMod
          BY <4>1
        <5> HIDE DEF e
        <5>8. ((e % WordMod) + 0) % WordMod = e % WordMod
          BY <2>3, <5>5, ZeroArith
        <5>9. sum_reg'[c] = e % WordMod
          BY <5>6, <5>7, <5>8
        <5> QED BY <5>2, <5>9 DEF e, i, j, v, w
      <4> QED BY <4>3, <4>4
    <3>5. CASE k_cnt = LANES - 1 /\ state' = "S_COMP_ACCUM"
      <4>1. q = ExtentK
        BY <2>2, <3>5
      <4>2. Summed(ExtentK)'
        <5>1. \A z : z = q => Summed(z)'
          BY <2>4, <3>3
        <5> QED BY <2>2, <4>1, <5>1
      <4> QED BY <3>5, <4>2 DEF MacSide
    <3>6. CASE k_cnt # LANES - 1 /\ state' = "S_COMP_MAC" /\ k_cnt' = k_cnt + 1
      <4>1. p' = q
        BY <2>2, <3>6
      <4>2. Summed(p)'
        <5>1. \A z : z = q => Summed(z)'
          BY <2>4, <3>3
        <5> QED BY <4>1, <5>1
      <4> QED BY <3>6, <4>2 DEF MacSide
    <3> QED BY <3>1, <3>5, <3>6
  <2> QED BY <1>3, <2>5, <2>6
<1> QED BY <1>2, <1>3

-----------------------------------------------------------------------------
(* Accumulating over the tiles of K. *)

LEMMA AccumulatedKept ==
  ASSUME UNCHANGED <<job, m, n, ExtentM, ExtentN>>, NEW r, NEW lim
  PROVE  /\ (\A c \in Idx : r < ExtentM /\ c < ExtentN => buf_C'[r][c] = Product(m + r, n + c, lim))
              => Accumulated(r, lim)'
         /\ buf_C' = buf_C /\ Accumulated(r, lim) => Accumulated(r, lim)'
<1>1. \A c : Product(m + r, n + c, lim)' = Product(m + r, n + c, lim)
  BY SameCall
<1> QED BY <1>1 DEF Accumulated

\* The start of a tile.
LEMMA AccuStart ==
  ASSUME ResultInv, AllPlaced, Tick, state = "S_IDLE", cmd.start = 1
  PROVE  /\ state' = "S_FETCH_A" /\ SameTile
         /\ UNCHANGED <<job, m, n, k, ExtentM, ExtentN, ExtentK>>
         /\ \A r \in Idx : Accumulated(r, k)'
<1>1. StepInv /\ CfsTypeOK
  BY DEF ResultInv, FrameInv, PortInv, TypeInv
<1>2. Idle
  BY DEF Tick, CfsTick, EngineTick, Idle, FetchA, FetchAWait, FetchB, FetchBWait, CompInit, CompRowInit, CompMac, CompAccum, StoreC, StoreCWait, Done
<1>3. state' = "S_FETCH_A" /\ buf_C' = IF cmd.clear = 1 THEN ZeroTile ELSE buf_C
  BY <1>2 DEF Idle
<1>4. pc = 8 /\ Performed(8) /\ ~Performed(10)
  BY <1>1, IdlePlaces
<1>5. SameTile
  BY <1>1, DriverMoves DEF NewTile
<1>6. UNCHANGED <<job, m, n, k, ExtentM, ExtentN, ExtentK>>
  BY <1>5, SameTileKeeps
<1>7. cmd.clear = 1 <=> k = 0
  BY <1>1, <1>4 DEF StepInv, RegSide
<1>8. ASSUME NEW r \in Idx PROVE Accumulated(r, k)'
  <2>1. CASE k # 0
    <3>1. Accumulated(r, k)
      BY <1>4, <2>1 DEF ResultInv, AccuSide, Before
    <3>2. \A lim : Accumulated(r, lim) => Accumulated(r, lim)'
      BY <1>3, <1>6, <1>7, <2>1, AccumulatedKept
    <3> QED BY <1>6, <3>1, <3>2
  <2>2. CASE k = 0
    <3>1. ASSUME NEW c \in Idx, r < ExtentM, c < ExtentN
          PROVE  buf_C'[r][c] = Product(m + r, n + c, 0)
      <4>1. buf_C'[r][c] = 0
        BY <1>3, <1>7, <2>2 DEF ZeroTile
      <4>2. m + r \in 0..DimM - 1 /\ n + c \in 0..DimN - 1
        <5>1. r \in Nat /\ c \in Nat
          BY WordSizes DEF Idx
        <5> QED BY <1>1, <1>4, <3>1, <5>1, TileRange, LoopTypes
      <4>3. 0 \in 0..DimK
        BY <1>1, LoopTypes
      <4>4. Product(m + r, n + c, 0) = 0 % WordMod
        <5> DEFINE i == m + r
                   j == n + c
        <5>1. i \in 0..DimM - 1 /\ j \in 0..DimN - 1
          BY <4>2
        <5> HIDE DEF i, j
        <5>2. Product(i, j, 0) = Dot(i, j, 0) % WordMod /\ Dot(i, j, 0) = 0
          BY <1>1, <4>3, <5>1, Dots
        <5> QED BY <5>2 DEF i, j
      <4>5. 0 % WordMod = 0
        BY Weights, ModSmall
      <4> QED BY <4>1, <4>4, <4>5
    <3>2. Accumulated(r, 0)'
      BY <1>6, <3>1, AccumulatedKept
    <3>3. k' = 0
      BY <1>6, <2>2
    <3> QED BY <3>2, <3>3 DEF Accumulated
  <2> QED BY <2>1, <2>2
<1> QED BY <1>3, <1>5, <1>6, <1>8

\* The row that has been summed is added.
LEMMA AccuRow ==
  ASSUME ResultInv, AllPlaced, Tick, CompAccum, NEW r \in Idx
  PROVE  /\ r <= row_cnt => \A lim : lim = k + ExtentK => Accumulated(r, lim)'
         /\ r > row_cnt => \A lim : lim = k => Accumulated(r, lim)'
<1>1. state = "S_COMP_ACCUM" /\ CfsTypeOK /\ row_cnt \in Idx
  BY DEF CompAccum, ResultInv, TypeInv, CfsTypeOK
<1>2. UNCHANGED <<job, m, n, k, ExtentM, ExtentN, ExtentK>> /\ ExtentK \in Nat
  <2>1. \A e \in 1..LANES : e \in Nat
    BY WordSizes
  <2> QED BY <1>1, <2>1, Running
<1>3. Accumulated(r, IF r < row_cnt THEN k + ExtentK ELSE k) /\ Summed(ExtentK)
  BY <1>1 DEF ResultInv, AccuSide, MacSide, Computing
<1>4. r \in Int /\ row_cnt \in Int
  BY <1>1, WordSizes DEF Idx
<1>5. CASE r # row_cnt
  <2>1. buf_C'[r] = buf_C[r]
    BY <1>1, <1>5 DEF CompAccum, CfsTypeOK
  <2>2. \A lim : Accumulated(r, lim) => Accumulated(r, lim)'
    BY <1>2, <2>1, AccumulatedKept DEF Accumulated
  <2>3. CASE r < row_cnt
    <3>1. Accumulated(r, k + ExtentK)
      BY <1>3, <2>3
    <3> QED BY <1>4, <2>2, <2>3, <3>1
  <2>4. CASE r > row_cnt
    <3>1. Accumulated(r, k)
      BY <1>3, <1>4, <2>4
    <3> QED BY <1>4, <2>2, <2>4, <3>1
  <2> QED BY <1>4, <1>5, <2>3, <2>4
<1>6. CASE r = row_cnt
  <2>1. Accumulated(r, k)
    BY <1>3, <1>4, <1>6
  <2>2. ASSUME NEW c \in Idx, r < ExtentM, c < ExtentN
        PROVE  buf_C'[r][c] = Product(m + r, n + c, k + ExtentK)
    <3> DEFINE u == Dot(m + r, n + c, k)
               v == Dot(m + r, n + c, k + ExtentK)
    <3>1. buf_C'[r][c] = (buf_C[r][c] + sum_reg[c]) % WordMod
      BY <1>1, <1>6 DEF CompAccum, CfsTypeOK
    <3>2. /\ u \in Int /\ Product(m + r, n + c, k) = u % WordMod
          /\ v \in Int /\ Product(m + r, n + c, k + ExtentK) = v % WordMod
      BY <1>1, <1>2, <2>2, TileDots
    <3>3. buf_C[r][c] = Product(m + r, n + c, k)
      BY <2>1, <2>2 DEF Accumulated
    <3>4. sum_reg[c] = (v - u) % WordMod
      BY <1>3, <1>6, <2>2 DEF Summed
    <3>5. ((u % WordMod) + ((v - u) % WordMod)) % WordMod = v % WordMod
      <4> DEFINE d == WordMod
      <4>1. d \in Nat \ {0}
        BY Weights
      <4> HIDE DEF u, v, d
      <4>2. ((u % d) + ((v - u) % d)) % d = v % d
        BY <3>2, <4>1, AccuArith
      <4> QED BY <4>2 DEF d
    <3> HIDE DEF u, v
    <3>6. buf_C[r][c] = u % WordMod
      BY <3>2, <3>3
    <3> QED BY <3>1, <3>2, <3>4, <3>5, <3>6
  <2>3. \A lim : lim = k + ExtentK => Accumulated(r, lim)'
    BY <1>2, <2>2, AccumulatedKept
  <2> QED BY <1>4, <1>6, <2>3
<1> QED BY <1>5, <1>6

\* The next tile begins where the last one ended.
LEMMA AccuNewTile ==
  ASSUME ResultInv, Tick, NewTile
  PROVE  AccuSide'
<1>1. StepInv /\ EngineTick(DmaRsp)
  BY DEF ResultInv, FrameInv, PortInv, Tick, CfsTick
<1>2. NextTile /\ pc = 11 /\ state = "S_IDLE" /\ cmd.start = 0 /\ UNCHANGED job
  BY DEF NewTile
<1>3. state' = "S_IDLE" /\ buf_C' = buf_C
  BY <1>1, <1>2 DEF EngineTick, Idle, FetchA, FetchAWait, FetchB, FetchBWait, CompInit, CompRowInit, CompMac, CompAccum, StoreC, StoreCWait, Done
<1>4. /\ m \in Nat /\ n \in Nat /\ k \in Nat /\ DimK \in Nat /\ TILE \in Nat \ {0}
      /\ k + TILE < DimK => ExtentK = TILE
  BY <1>1, <1>2, LoopTypes, TileRange
<1>5. pc' \in {0, 1} /\ (k' # 0 => k + TILE < DimK /\ k' = k + TILE /\ UNCHANGED <<m, n>>)
  BY <1>2, <1>4 DEF NextTile
<1>6. ~After'
  BY <1>3, <1>5 DEF After
<1>7. ASSUME k' # 0, NEW r \in Idx PROVE Accumulated(r, k)'
  <2>1. UNCHANGED <<job, m, n, ExtentM, ExtentN>> /\ k' = k + ExtentK
    <3>1. UNCHANGED <<DimM, DimN>>
      BY <1>2 DEF DimM, DimN
    <3> QED BY <1>2, <1>4, <1>5, <1>7, <3>1 DEF ExtentM, ExtentN, TileExtent, TILE
  <2>2. Accumulated(r, k + ExtentK)
    BY <1>2, <1>7 DEF ResultInv, AccuSide, After
  <2>3. \A lim : Accumulated(r, lim) => Accumulated(r, lim)'
    BY <1>3, <2>1, AccumulatedKept
  <2> QED BY <2>1, <2>2, <2>3
<1> QED BY <1>3, <1>6, <1>7 DEF AccuSide, Before, Fetching, Computing, Storing

LEMMA AccuStep ==
  ASSUME ResultInv, AllPlaced, Tick
  PROVE  AccuSide'
<1>1. StepInv /\ EngineTick(DmaRsp) /\ CfsTypeOK /\ state \in state_t /\ row_cnt \in Idx
  BY DEF ResultInv, FrameInv, PortInv, TypeInv, CfsTypeOK, Tick, CfsTick
<1>2. CASE NewTile
  BY <1>2, AccuNewTile
<1>3. CASE SameTile /\ state = "S_IDLE" /\ cmd.start = 1
  <2>1. state' = "S_FETCH_A" /\ \A r \in Idx : Accumulated(r, k)'
    BY <1>3, AccuStart
  <2> QED BY <2>1 DEF AccuSide, Before, After, Fetching, Computing, Storing
<1>4. CASE SameTile /\ ((state = "S_IDLE" /\ cmd.start # 1) \/ state = "S_DONE")
  <2>1. Idle \/ Done
    BY <1>1, <1>4 DEF EngineTick, FetchA, FetchAWait, FetchB, FetchBWait, CompInit, CompRowInit, CompMac, CompAccum, StoreC, StoreCWait
  <2>2. buf_C' = buf_C
    BY <1>4, <2>1 DEF Idle, Done
  <2>3. \A r, lim : Accumulated(r, lim) => Accumulated(r, lim)'
    BY <1>4, <2>2, SameTileKeeps, AccumulatedKept
  <2>4. UNCHANGED <<k, ExtentK>>
    BY <1>4, SameTileKeeps
  <2>5. cmd.start \in Bit
    BY <1>1 DEF StepInv, EngineSide
  <2>6. /\ state' \in {"S_IDLE", "S_DONE"}
        /\ Before' => Before
        /\ After' => After
    <3>1. CASE state = "S_IDLE"
      <4>1. state' = "S_IDLE"
        BY <1>4, <2>1, <3>1 DEF Idle, Done
      <4>2. pc \in 0..8 \cup {10, 11}
        BY <1>1, <3>1, IdlePlaces
      <4>3. pc' = pc \/ (pc \in 1..10 /\ pc' = pc + 1)
        BY <1>4 DEF SameTile
      <4>4. (pc' \in 1..8 => pc \in 1..8) /\ (pc' \in {10, 11} => pc \in {10, 11})
        BY <4>2, <4>3
      <4> QED BY <3>1, <4>1, <4>4 DEF Before, After
    <3>2. CASE state = "S_DONE" /\ cmd.start = 0
      <4>1. pc = 10 /\ state' = "S_IDLE"
        BY <1>1, <2>1, <3>2, DonePlaces DEF Idle, Done
      <4>2. pc' \in {10, 11}
        BY <1>4, <4>1 DEF SameTile
      <4> QED BY <3>2, <4>1, <4>2 DEF Before, After
    <3>3. CASE state = "S_DONE" /\ cmd.start = 1
      <4>1. state' = "S_DONE"
        BY <2>1, <3>3 DEF Idle, Done
      <4> QED BY <3>3, <4>1 DEF Before, After
    <3> QED BY <1>4, <2>5, <3>1, <3>2, <3>3 DEF Bit
  <2>7. Before /\ k # 0 => \A r \in Idx : Accumulated(r, k)
    BY DEF ResultInv, AccuSide
  <2>8. After => \A r \in Idx : Accumulated(r, k + ExtentK)
    BY DEF ResultInv, AccuSide
  <2>9. (Before' /\ k' # 0) => \A r \in Idx : Accumulated(r, k)'
    BY <2>3, <2>4, <2>6, <2>7
  <2>10. After' => \A r \in Idx : Accumulated(r, k + ExtentK)'
    BY <2>3, <2>4, <2>6, <2>8
  <2> QED BY <2>6, <2>9, <2>10 DEF AccuSide, Fetching, Computing, Storing
<1>5. CASE state \notin {"S_IDLE", "S_DONE"}
  <2>1. UNCHANGED <<job, m, n, k, ExtentM, ExtentN, ExtentK>>
    BY <1>5, Running
  <2>2. state' # "S_IDLE"
    BY <1>1, <1>5, EngineMoving DEF EngineMoves
  <2>3. \A r, lim : buf_C' = buf_C /\ Accumulated(r, lim) => Accumulated(r, lim)'
    BY <2>1, AccumulatedKept
  <2>4. \A r \in Idx : r \in Int /\ ~(r < 0)
    BY WordSizes DEF Idx
  <2>5. CASE FetchA \/ FetchAWait(DmaRsp) \/ FetchB \/ FetchBWait(DmaRsp) \/ CompInit
    <3>1. buf_C' = buf_C /\ state \in Fetching \cup {"S_COMP_INIT"}
      BY <2>5 DEF FetchA, FetchAWait, FetchB, FetchBWait, CompInit, Fetching
    <3>2. \/ state' \in Fetching \cup {"S_COMP_INIT"}
          \/ state' = "S_COMP_ROW_INIT" /\ row_cnt' = 0
      BY <1>1, <2>5, NextRowCases DEF FetchA, FetchAWait, FetchB, FetchBWait, CompInit, Fetching
    <3>3. \A r \in Idx : Accumulated(r, k)
      BY <3>1 DEF ResultInv, AccuSide
    <3>4. \A r \in Idx : Accumulated(r, k)'
      BY <2>1, <2>3, <3>1, <3>3
    <3>5. CASE state' \in Fetching \cup {"S_COMP_INIT"}
      BY <3>4, <3>5 DEF AccuSide, Before, After, Fetching, Computing, Storing
    <3>6. CASE state' = "S_COMP_ROW_INIT" /\ row_cnt' = 0
      <4>1. \A r \in Idx : Accumulated(r, IF r < row_cnt THEN k + ExtentK ELSE k)'
        BY <2>4, <3>4, <3>6
      <4> QED BY <3>6, <4>1 DEF AccuSide, Before, After, Fetching, Computing, Storing
    <3> QED BY <3>2, <3>5, <3>6
  <2>6. CASE CompRowInit \/ CompMac
    <3>1. UNCHANGED <<buf_C, row_cnt>> /\ state \in {"S_COMP_ROW_INIT", "S_COMP_MAC"}
          /\ state' \in {"S_COMP_MAC", "S_COMP_ACCUM"}
      BY <2>6 DEF CompRowInit, CompMac
    <3>2. \A r \in Idx : Accumulated(r, IF r < row_cnt THEN k + ExtentK ELSE k)
      BY <3>1 DEF ResultInv, AccuSide, Computing
    <3>3. \A r \in Idx : Accumulated(r, IF r < row_cnt THEN k + ExtentK ELSE k)'
      BY <2>1, <2>3, <3>1, <3>2
    <3> QED BY <3>1, <3>3 DEF AccuSide, Before, After, Fetching, Computing, Storing
  <2>7. CASE CompAccum
    <3>1. \A r \in Idx : /\ r <= row_cnt => \A lim : lim = k + ExtentK => Accumulated(r, lim)'
                         /\ r > row_cnt => \A lim : lim = k => Accumulated(r, lim)'
      BY <2>7, AccuRow
    <3>2. \/ row_cnt' = row_cnt + 1 /\ state' = "S_COMP_ROW_INIT"
          \/ row_cnt = LANES - 1 /\ state' \in {"S_STORE_C", "S_DONE"}
      BY <2>7 DEF CompAccum, LastRow
    <3>3. CASE row_cnt' = row_cnt + 1 /\ state' = "S_COMP_ROW_INIT"
      <4>1. \A r \in Idx : (r < row_cnt' <=> r <= row_cnt) /\ (~(r < row_cnt') <=> r > row_cnt)
        BY <1>1, <2>4, <3>3
      <4>2. \A r \in Idx : Accumulated(r, IF r < row_cnt THEN k + ExtentK ELSE k)'
        BY <2>1, <3>1, <4>1
      <4> QED BY <3>3, <4>2 DEF AccuSide, Before, After, Fetching, Computing, Storing
    <3>4. CASE row_cnt = LANES - 1 /\ state' \in {"S_STORE_C", "S_DONE"}
      <4>1. \A r \in Idx : r <= row_cnt
        BY <3>4, WordSizes DEF Idx
      <4>2. \A r \in Idx : Accumulated(r, k + ExtentK)'
        BY <2>1, <3>1, <4>1
      <4> QED BY <3>4, <4>2 DEF AccuSide, Before, After, Fetching, Computing, Storing
    <3> QED BY <3>2, <3>3, <3>4
  <2>8. CASE StoreC \/ StoreCWait(DmaRsp)
    <3>1. buf_C' = buf_C /\ state \in Storing
      BY <2>8 DEF StoreC, StoreCWait, Storing
    <3>2. state' \in Storing \cup {"S_DONE"}
      BY <1>1, <2>8, NextRowCases DEF StoreC, StoreCWait, Storing
    <3>3. \A r \in Idx : Accumulated(r, k + ExtentK)
      BY <3>1 DEF ResultInv, AccuSide
    <3>4. \A r \in Idx : Accumulated(r, k + ExtentK)'
      BY <2>1, <2>3, <3>1, <3>3
    <3> QED BY <3>2, <3>4 DEF AccuSide, Before, After, Fetching, Computing, Storing
  <2> QED BY <1>1, <1>5, <2>5, <2>6, <2>7, <2>8 DEF EngineTick, Idle, Done
<1> QED BY <1>1, <1>2, <1>3, <1>4, <1>5, DriverMoves

-----------------------------------------------------------------------------
(* Storing. *)

\* The word of the memory that C begins at.
WordC == job.C.data \div WORD_BYTES

LEMMA ElemWord ==
  ASSUME StepInv, WellFormed(job), NEW r \in 0..DimM - 1, NEW c \in Nat
  PROVE  /\ WordC \in Nat /\ r * job.C.stride + c \in Nat /\ WordC + (r * job.C.stride + c) \in Nat
         /\ ElemC(r, c) = (WordC + (r * job.C.stride + c)) * WORD_BYTES
<1> DEFINE D == job.C.data
           S == job.C.stride
           W == WORD_BYTES
           d == WordC
           x == r * S + c
<1>1. D \in Nat /\ S \in Nat /\ W \in Nat \ {0} /\ D % W = 0
  BY LoopTypes, WordSizes DEF WellFormed
<1>2. d \in Nat /\ D = d * W
  <2> HIDE DEF D, W
  <2>1. D \div W \in Nat /\ D = ((D \div W) * W) + (D % W)
    BY <1>1, DivMod
  <2> QED BY <1>1, <2>1 DEF WordC, D, W
<1>3. x \in Nat
  <2>1. r * S \in Nat
    BY <1>1, LoopTypes
  <2> QED BY <2>1
<1>4. ElemC(r, c) = D + x * W
  BY DEF ElemC
<1> HIDE DEF D, W, d, x
<1>5. (d + x) * W = d * W + x * W
  BY <1>1, <1>2, <1>3
<1>6. ElemC(r, c) = (d + x) * W /\ d + x \in Nat
  BY <1>1, <1>2, <1>3, <1>4, <1>5
<1> QED BY <1>2, <1>3, <1>6 DEF d, x, W

LEMMA ElemPlace ==
  ASSUME StepInv, AllPlaced, NEW r \in 0..DimM - 1, NEW c \in 0..DimN - 1, NEW b \in ByteSel
  PROVE  ElemC(r, c) + b \in MemBytes /\ ElemC(r, c) + b \notin OtherBytes
<1> DEFINE D == job.C.data
           S == job.C.stride
           W == WORD_BYTES
           y == (r * S + c) * W
           z == (DimM * S) * W
<1>1. /\ D \in Nat /\ S \in Nat /\ W \in Nat \ {0} /\ DimM \in Nat /\ r \in Nat /\ r < DimM /\ c \in Nat
      /\ b \in 0..W - 1
  BY LoopTypes, WordSizes DEF ByteSel
<1>2. WellFormed(job) /\ Placed(job)
  BY LoopTypes DEF AllPlaced
<1>3. c < S
  <2>1. DimN <= S /\ DimN \in Nat /\ S \in Nat
    BY <1>2, LoopTypes DEF WellFormed, DimN
  <2> HIDE DEF S
  <2> QED BY <2>1
<1>4. y + W <= z
  <2> HIDE DEF S, W
  <2> QED BY <1>1, <1>3, InsideArray
<1>5. y \in Nat /\ z \in Nat /\ ElemC(r, c) = D + y /\ ArrayC = D..D + z - 1
  <2>1. r * S + c \in Nat /\ DimM * S \in Nat
    BY <1>1
  <2> QED BY <1>1, <2>1 DEF ElemC, ArrayC, ArrayOf, DimM
<1> HIDE DEF y, z, D
<1>6. ElemC(r, c) + b \in ArrayC
  BY <1>1, <1>4, <1>5
<1>7. ArrayC \subseteq MemBytes \ OtherBytes
  BY <1>2 DEF Placed, ArrayC, MemBytes, OtherBytes
<1> QED BY <1>6, <1>7

\* The lanes of the words that follow word t in its row.
InLane(W, L, t, q, b, a) ==
  /\ (a % (L * W)) % W = b
  /\ (a % (L * W)) \div W = ((t * W) % (L * W)) \div W + q
  /\ ((t * W) % (L * W)) \div W \in Nat

LEMMA RowWords ==
  ASSUME NEW W \in Nat \ {0}, NEW L \in Nat \ {0}, NEW t \in Nat, NEW q \in 0..L - 1,
         NEW b \in 0..W - 1, NEW a \in Nat, a = (t + q) * W + b,
         a \div (L * W) = (t * W) \div (L * W)
  PROVE  InLane(W, L, t, q, b, a)
<1> DEFINE R == L * W
           i == a \div R
           ar == a % R
           tr == (t * W) % R
           lt == t - i * L
<1>1. R \in Nat \ {0} /\ t * W \in Nat
  OBVIOUS
<1>2. i \in Nat /\ ar \in 0..R - 1 /\ a = (i * R) + ar
  BY <1>1, DivMod
<1>3. tr \in 0..R - 1 /\ t * W = (i * R) + tr
  <2> DEFINE x == t * W
  <2>1. x \in Nat /\ x \div R = i
    OBVIOUS
  <2> HIDE DEF R, x, i
  <2>2. x % R \in 0..R - 1 /\ x = (i * R) + (x % R)
    BY <1>1, <2>1, DivMod
  <2> QED BY <2>2 DEF x
<1>4. i * R = (i * L) * W
  <2>1. i \in Nat
    BY <1>2
  <2> HIDE DEF i
  <2> QED BY <2>1
<1>5. lt \in Int /\ tr = lt * W /\ ar = (lt + q) * W + b
  <2> HIDE DEF i, R, ar, tr
  <2>1. lt \in Int /\ lt * W = t * W - (i * L) * W
    BY <1>2
  <2>2. (lt + q) * W = (t + q) * W - (i * L) * W
    BY <1>2
  <2> DEFINE u == (i * L) * W
             v == (t + q) * W
             w == t * W
  <2>3. u \in Nat /\ v \in Nat /\ w \in Nat
    BY <1>2
  <2> HIDE DEF u, v, w, lt
  <2> QED BY <1>2, <1>3, <1>4, <2>1, <2>2, <2>3 DEF u, v, w
<1> HIDE DEF lt, ar, tr, R
<1>6. lt \in Nat
  <2>1. (0 - 1) * W < lt * W
    BY <1>1, <1>3, <1>5
  <2>2. -1 < lt
    BY <1>5, <2>1, Less
  <2> QED BY <1>5, <2>2
<1>7. tr \div W = lt
  <2>1. ((lt * W) + 0) \div W = lt
    BY <1>6, DivModUnique
  <2> QED BY <1>5, <2>1
<1>8. ar \div W = lt + q /\ ar % W = b
  <2> DEFINE s == lt + q
  <2>1. s \in Nat /\ ar = (s * W) + b
    BY <1>5, <1>6
  <2> HIDE DEF s
  <2>2. ar \div W = s /\ ar % W = b
    BY <2>1, DivModUnique
  <2> QED BY <2>2 DEF s
<1> QED BY <1>6, <1>7, <1>8 DEF ar, tr, R, InLane

\* Whatever is written of an element of the row that is being stored is the
\* product.
LEMMA WrittenByte ==
  ASSUME ResultInv, AllPlaced, state = "S_STORE_C_WAIT", BramWrite(dma_req),
         NEW c \in 0..DimN - 1, c \in n..n + LANES - 1, NEW b \in ByteSel, NEW a \in Nat,
         a = ElemC(m + row_cnt, c) + b, a \div RowBytes = RowOf(AddrC)
  PROVE  ByteOf(mem', a) = WordOf(Product(m + row_cnt, c, DimK))[b]
<1> DEFINE W == WORD_BYTES
           S == job.C.stride
           r == m + row_cnt
           q == c - n
           t == WordC + StoreWord
           lane == OffsetOf(AddrC) \div W
           l == (a % RowBytes) \div W
           i == a \div RowBytes
<1>1. /\ StepInv /\ PortSide /\ PortInv /\ WellFormed(job) /\ DOMAIN mem = MemIndex
      /\ row_cnt \in Idx /\ CfsTypeOK
  <2>1. StepInv
    BY DEF ResultInv, FrameInv, PortInv
  <2> QED BY <2>1, LoopTypes DEF AllPlaced, ResultInv, FrameInv, PortInv, PortSide, TypeInv
<1>2. r \in 0..DimM - 1 /\ AddrC = job.C.data + StoreWord * W
  BY <1>1, StoreAddress
<1>3. n \in Nat /\ c \in Nat /\ LANES \in Nat \ {0} /\ W \in Nat \ {0} /\ S \in Nat
  BY <1>1, LoopTypes, WordSizes
<1>4. q \in 0..LANES - 1 /\ n + q = c
  BY <1>3
<1>5. StoreWord = r * S + n /\ r * S \in Nat
  <2>1. r \in Nat
    BY <1>1, <1>2, LoopTypes
  <2> QED BY <1>3, <2>1 DEF StoreWord
<1> HIDE DEF r, q, t
<1>6. /\ WordC \in Nat /\ StoreWord \in Nat /\ t \in Nat
      /\ ElemC(r, n) = t * W /\ ElemC(r, c) = (t + q) * W
  <2>1. /\ WordC \in Nat /\ r * S + n \in Nat /\ ElemC(r, n) = (WordC + (r * S + n)) * W
    BY <1>1, <1>2, <1>3, ElemWord
  <2>2. ElemC(r, c) = (WordC + (r * S + c)) * W
    BY <1>1, <1>2, <1>3, ElemWord
  <2>3. t \in Nat /\ t = WordC + (r * S + n)
    BY <1>5, <2>1 DEF t
  <2>4. WordC + (r * S + c) = t + q
    <3> DEFINE x == r * S
    <3>1. x \in Nat /\ t = WordC + (x + n)
      BY <1>5, <2>3
    <3> HIDE DEF x
    <3>2. WordC + (x + c) = t + q
      BY <1>3, <1>4, <2>1, <3>1
    <3> QED BY <3>2 DEF x
  <2> QED BY <1>5, <2>1, <2>2, <2>3, <2>4
<1>7. AddrC = t * W
  <2>1. ElemC(r, n) = job.C.data + (r * S + n) * W
    BY DEF ElemC
  <2> QED BY <1>2, <1>5, <1>6, <2>1
<1>8. l = lane + q /\ lane \in Nat /\ (a % RowBytes) % W = b
  <2>1. a = (t + q) * W + b /\ b \in 0..W - 1
    BY <1>6 DEF ByteSel, r
  <2>2. a \div (LANES * W) = (t * W) \div (LANES * W)
    BY <1>7 DEF RowOf, RowBytes
  <2> HIDE DEF W
  <2>3. InLane(W, LANES, t, q, b, a)
    <3>1. /\ W \in Nat \ {0} /\ LANES \in Nat \ {0} /\ t \in Nat /\ q \in 0..LANES - 1
          /\ b \in 0..W - 1 /\ a \in Nat
      BY <1>3, <1>4, <1>6, <2>1
    <3> QED BY <2>1, <2>2, <3>1, RowWords
  <2>4. RowBytes = LANES * W
    BY DEF RowBytes, W
  <2>5. OffsetOf(AddrC) = (t * W) % (LANES * W)
    BY <1>7, <2>4 DEF OffsetOf
  <2>6. /\ (a % RowBytes) % W = b
        /\ (a % RowBytes) \div W = OffsetOf(AddrC) \div W + q
        /\ OffsetOf(AddrC) \div W \in Nat
    BY <2>3, <2>4, <2>5 DEF InLane
  <2> QED BY <2>6
<1>9. /\ dma_req.row = i /\ dma_req.be = StoreBE(lane) /\ dma_req.wdata = StoreData(row_cnt, lane)
  BY <1>1 DEF PortSide, ResultInv, AnswerSide
<1>10. r = m + row_cnt /\ a = ElemC(r, c) + b
  BY DEF r
<1>11. a \in MemBytes
  BY <1>1, <1>2, <1>10, ElemPlace
<1>12. i \in MemIndex /\ l \in Lane
  BY <1>11, BytePlace
<1> HIDE DEF i, l, lane
<1>13. l >= lane /\ l - lane = q
  <2>1. q \in Nat
    BY <1>4
  <2> QED BY <1>8, <2>1
<1>14. mem'[i] = MergeRow(mem[i], dma_req.wdata, dma_req.be)
  BY <1>1, <1>9, <1>12 DEF BramWrite
<1>15. mem'[i][l] = MergeWord(mem[i][l], dma_req.wdata[l], dma_req.be[l])
  BY <1>12, <1>14 DEF MergeRow
<1>16. dma_req.be[l] = ByteSel
  <2>1. dma_req.be = [x \in Lane |-> IF x >= lane THEN ByteSel ELSE {}]
    BY <1>9 DEF StoreBE
  <2> QED BY <1>12, <1>13, <2>1
<1>17. dma_req.wdata[l] = WordOf(buf_C[row_cnt][q])
  <2>1. dma_req.wdata = [x \in Lane |-> IF x >= lane THEN WordOf(buf_C[row_cnt][x - lane]) ELSE ZeroWord]
    BY <1>9 DEF StoreData
  <2> QED BY <1>12, <1>13, <2>1
<1>18. mem'[i][l][b] = WordOf(buf_C[row_cnt][q])[b]
  BY <1>15, <1>16, <1>17 DEF MergeWord
<1>19. ByteOf(mem', a) = mem'[i][l][b]
  BY <1>8 DEF ByteOf, ByteAt, i, l
<1>20. buf_C[row_cnt][q] = Product(r, c, DimK)
  <2>1. pc # 0 /\ tile_M = ExtentM
    BY <1>1, RunPlaces, ReadRegs
  <2>2. row_cnt < ExtentM
    BY <1>1, <2>1 DEF PortSide
  <2>3. k + ExtentK = DimK
    BY <1>1, <2>1, TileRange DEF ResultInv, MemSide, Storing
  <2>4. q < ExtentN
    <3>1. c < DimN /\ DimN \in Nat
      BY <1>1, LoopTypes
    <3> QED BY <1>3, <1>4, <3>1, LoopTypes DEF ExtentN, TileExtent, TILE
  <2>5. Accumulated(row_cnt, k + ExtentK)
    BY <1>1 DEF ResultInv, AccuSide, Storing
  <2>6. q \in Idx
    BY <1>4 DEF Idx
  <2>7. buf_C[row_cnt][q] = Product(m + row_cnt, n + q, k + ExtentK)
    BY <2>2, <2>4, <2>5, <2>6 DEF Accumulated
  <2> QED BY <1>4, <2>3, <2>7 DEF r
<1> QED BY <1>18, <1>19, <1>20 DEF r

\* A store begins at a word of the memory.
StoreAt == WordC + StoreWord

LEMMA StoreStart ==
  ASSUME PortInv, state = "S_STORE_C_WAIT", WellFormed(job)
  PROVE  /\ m + row_cnt \in 0..DimM - 1 /\ StoreAt \in Nat /\ AddrC = StoreAt * WORD_BYTES
         /\ StoreAt = WordC + ((m + row_cnt) * job.C.stride + n)
<1> DEFINE r == m + row_cnt
<1>1. StepInv /\ r \in 0..DimM - 1 /\ AddrC = job.C.data + StoreWord * WORD_BYTES /\ n \in Nat
  BY StoreAddress, LoopTypes DEF PortInv
<1> HIDE DEF r
<1>2. /\ WordC + (r * job.C.stride + n) \in Nat
      /\ ElemC(r, n) = (WordC + (r * job.C.stride + n)) * WORD_BYTES
  BY <1>1, ElemWord
<1>3. ElemC(r, n) = AddrC /\ StoreAt = WordC + (r * job.C.stride + n)
  BY <1>1 DEF ElemC, StoreWord, StoreAt, r
<1> QED BY <1>1, <1>2, <1>3 DEF r

\* An element of C that a store reaches is one of the row it stores.
LEMMA StoredElement ==
  ASSUME PortInv, TileSide, state = "S_STORE_C_WAIT", WellFormed(job),
         NEW r \in 0..DimM - 1, NEW c \in 0..DimN - 1, NEW b \in ByteSel, NEW a \in Nat,
         a = ElemC(r, c) + b, a \div RowBytes = RowOf(AddrC),
         (a % RowBytes) \div WORD_BYTES >= OffsetOf(AddrC) \div WORD_BYTES
  PROVE  r = m + row_cnt /\ c \in n..n + LANES - 1
<1> DEFINE S == job.C.stride
           W == WORD_BYTES
           r0 == m + row_cnt
           t == StoreAt
           d == WordC
<1>1. StepInv /\ r0 \in 0..DimM - 1 /\ t \in Nat /\ AddrC = t * W /\ t = d + (r0 * S + n)
  BY StoreStart DEF PortInv
<1>2. /\ S \in Nat /\ W \in Nat \ {0} /\ LANES \in Nat \ {0} /\ n \in Nat /\ DimM \in Nat /\ DimN \in Nat
      /\ c \in Nat /\ r \in Nat
  BY <1>1, LoopTypes, WordSizes
<1> HIDE DEF t, d, r0
<1>3. PICK q \in 0..LANES - 1, e \in 0..W - 1 : a = (t + q) * W + e
  <2>1. InRowFrom(W, LANES, t, a)
    BY <1>1 DEF InRowFrom, RowOf, OffsetOf, RowBytes
  <2>2. InWordsFrom(W, LANES, t, a)
    BY <1>1, <1>2, <2>1, SameRow
  <2> QED BY <2>2 DEF InWordsFrom
<1> DEFINE x == d + (r * S + c)
           y == t + q
<1>4. d \in Nat /\ r * S + c \in Nat /\ x \in Nat /\ ElemC(r, c) = x * W
  BY <1>1, <1>2, ElemWord DEF d
<1>5. y \in Nat
  BY <1>1, <1>2, <1>3
<1>6. x = y
  <2> HIDE DEF x, y, W
  <2>1. b \in 0..W - 1 /\ a = (x * W) + b /\ a = (y * W) + e
    BY <1>3, <1>4 DEF ByteSel, W, y
  <2>2. ((x * W) + b) \div W = x /\ ((y * W) + e) \div W = y
    BY <1>2, <1>3, <1>4, <1>5, <2>1, DivModUnique
  <2> QED BY <2>1, <2>2
<1>7. n + q < S /\ c < S
  <2>1. PICK p \in Nat : n = p * TILE
    BY DEF TileSide
  <2>2. n < DimN
    <3>1. state \notin {"S_IDLE", "S_DONE"}
      OBVIOUS
    <3> QED BY <1>1, <3>1, StoreRegs
  <2>3. DimN <= S /\ S % TILE = 0 /\ TILE \in Nat \ {0} /\ TILE = LANES
    BY <1>2 DEF WellFormed, DimN, TILE
  <2>4. /\ p * TILE + q < ((DimN + TILE - 1) \div TILE) * TILE
        /\ ((DimN + TILE - 1) \div TILE) * TILE <= S
    BY <1>2, <1>3, <2>1, <2>2, <2>3, TileColumns
  <2>5. DimN + TILE - 1 \in Nat
    BY <1>2, <2>2, <2>3
  <2>6. (DimN + TILE - 1) \div TILE \in Nat
    BY <2>3, <2>5, DivMod
  <2> DEFINE w == ((DimN + TILE - 1) \div TILE) * TILE
  <2>7. w \in Nat /\ n + q < w /\ w <= S
    BY <2>1, <2>3, <2>4, <2>6
  <2> HIDE DEF w
  <2> QED BY <1>2, <1>3, <2>3, <2>7
<1>8. r0 \in Nat
  BY <1>1, <1>2
<1>9. r * S + c = r0 * S + (n + q)
  <2> DEFINE u == r * S
             v == r0 * S
  <2>1. u \in Nat /\ v \in Nat /\ d + (u + c) = (d + (v + n)) + q
    BY <1>1, <1>2, <1>6, <1>8
  <2> HIDE DEF u, v
  <2>2. u + c = v + (n + q)
    BY <1>2, <1>3, <1>4, <2>1
  <2> QED BY <2>2 DEF u, v
<1> DEFINE z == n + q
<1>10. z \in 0..S - 1 /\ c \in 0..S - 1 /\ S \in Nat \ {0}
  BY <1>2, <1>3, <1>7
<1> HIDE DEF z, S
<1>11. ((r * S) + c) \div S = r /\ ((r * S) + c) % S = c
  BY <1>2, <1>10, DivModUnique
<1>12. ((r0 * S) + z) \div S = r0 /\ ((r0 * S) + z) % S = z
  BY <1>8, <1>10, DivModUnique
<1>13. r = r0 /\ c = z
  BY <1>9, <1>11, <1>12 DEF z
<1> QED BY <1>2, <1>3, <1>13 DEF r0, z

\* What others write is in their rows.
LEMMA OthersRow ==
  ASSUME CpuSide, cpu_req.stb = 1, cpu_req.rw = 1, NEW a \in MemBytes, a \notin OtherBytes
  PROVE  a \div RowBytes # cpu_req.row
<1> DEFINE i == a \div RowBytes
<1>1. a \in Nat /\ RowBytes \in Nat \ {0}
  BY BytePlace, WordSizes
<1>2. i \in Nat /\ a % RowBytes \in 0..RowBytes - 1 /\ a = (i * RowBytes) + (a % RowBytes)
  BY <1>1, DivMod
<1> HIDE DEF i
<1>3. a \in i * RowBytes .. i * RowBytes + RowBytes - 1
  <2>1. i * RowBytes \in Nat
    BY <1>1, <1>2
  <2> QED BY <1>1, <1>2, <2>1
<1>4. job \in Disturbed /\ cpu_req \in OtherReqs
  BY DEF CpuSide
<1>5. cpu_req.row * RowBytes .. cpu_req.row * RowBytes + RowBytes - 1 \subseteq OtherBytes
  BY <1>4 DEF OtherBytes, WrittenDuring
<1> QED BY <1>3, <1>5 DEF i

\* A byte of C keeps its value or gets that of the product.
LEMMA ElementByte ==
  ASSUME ResultInv, AllPlaced, Tick,
         NEW r \in 0..DimM - 1, NEW c \in 0..DimN - 1, NEW b \in ByteSel, NEW a, a = ElemC(r, c) + b
  PROVE  \/ ByteOf(mem', a) = ByteOf(mem, a)
         \/ ByteOf(mem', a) = WordOf(Product(r, c, DimK))[b]
<1> DEFINE i == a \div RowBytes
           l == (a % RowBytes) \div WORD_BYTES
           e == (a % RowBytes) % WORD_BYTES
           lane == OffsetOf(AddrC) \div WORD_BYTES
<1>1. /\ StepInv /\ PortInv /\ PortSide /\ TileSide /\ CpuSide /\ DOMAIN mem = MemIndex
      /\ BramTick(MemPort)
  BY DEF ResultInv, FrameInv, PortInv, Tick
<1>2. WellFormed(job)
  BY <1>1, LoopTypes DEF AllPlaced
<1>3. a \in MemBytes /\ a \notin OtherBytes
  BY <1>1, ElemPlace
<1>4. a \in Nat /\ i \in MemIndex /\ l \in Lane
  BY <1>3, BytePlace
<1> HIDE DEF i, l, e, lane
<1>5. ASSUME MemPort.stb = 1 /\ MemPort.rw = 1 => i # MemPort.row \/ e \notin MemPort.be[l]
      PROVE  ByteOf(mem', a) = ByteOf(mem, a)
  BY <1>1, <1>3, <1>5, Untouched DEF i, l, e
<1>6. CASE ~(MemPort.stb = 1 /\ MemPort.rw = 1)
  BY <1>5, <1>6
<1>7. CASE MemPort.stb = 1 /\ MemPort.rw = 1 /\ MemPort = CpuToMem(cpu_req)
  <2>1. cpu_req.stb = 1 /\ cpu_req.rw = 1 /\ MemPort.row = cpu_req.row
    BY <1>7 DEF CpuToMem
  <2>2. i # cpu_req.row
    BY <1>1, <1>3, <2>1, OthersRow DEF i
  <2> QED BY <1>5, <2>1, <2>2
<1>8. CASE MemPort.stb = 1 /\ MemPort.rw = 1 /\ MemPort = dma_req
  <2>1. state = "S_STORE_C_WAIT" /\ dma_req.row = RowOf(AddrC) /\ dma_req.be = StoreBE(lane)
    BY <1>1, <1>8 DEF PortSide, Waits, lane
  <2>2. CASE i # RowOf(AddrC)
    BY <1>5, <1>8, <2>1, <2>2
  <2>3. CASE ~(l >= lane)
    <3>1. dma_req.be = [x \in Lane |-> IF x >= lane THEN ByteSel ELSE {}]
      BY <2>1 DEF StoreBE
    <3>2. dma_req.be[l] = {}
      BY <1>4, <2>3, <3>1
    <3> QED BY <1>5, <1>8, <3>2
  <2>4. CASE i = RowOf(AddrC) /\ l >= lane
    <3>1. r = m + row_cnt /\ c \in n..n + LANES - 1
      BY <1>1, <1>2, <1>4, <2>1, <2>4, StoredElement DEF i, l, lane
    <3>2. dma_req.row < NUM_WORDS /\ ~(dma_req.row >= NUM_WORDS)
      BY <1>4, <2>1, <2>4, WordSizes DEF MemIndex
    <3>3. BramTick(dma_req) /\ dma_req.stb = 1 /\ dma_req.rw = 1
      BY <1>1, <1>8
    <3>5. BramWrite(dma_req)
      BY <3>2, <3>3 DEF BramTick, BramRead, BramOutOfBounds, BramQuiet
    <3>4. ByteOf(mem', a) = WordOf(Product(m + row_cnt, c, DimK))[b]
      BY <1>4, <2>1, <2>4, <3>1, <3>5, WrittenByte DEF i
    <3> QED BY <3>1, <3>4
  <2> QED BY <2>2, <2>3, <2>4
<1>9. MemPort # MemReqIdle \/ ~(MemPort.stb = 1)
  BY DEF MemReqIdle
<1> QED BY <1>6, <1>7, <1>8, <1>9 DEF MemPort, mem_req

\* What is stored stays stored.
LEMMA StoredKept ==
  ASSUME ResultInv, AllPlaced, Tick, NEW r \in 0..DimM - 1, NEW c \in 0..DimN - 1, Stored(r, c)
  PROVE  Stored(r, c)'
<1>1. UNCHANGED job /\ DimK' = DimK
  BY TickPhases DEF ResultInv, FrameInv, PortInv, DimK
<1>2. \A b \in ByteSel : ByteOf(mem', ElemC(r, c) + b) = WordOf(Product(r, c, DimK))[b]
  <2> TAKE b \in ByteSel
  <2>1. ByteOf(mem, ElemC(r, c) + b) = WordOf(Product(r, c, DimK))[b]
    BY DEF Stored
  <2> QED BY <2>1, ElementByte
<1>3. Product(r, c, DimK)' = Product(r, c, DimK) /\ ElemC(r, c)' = ElemC(r, c)
  BY <1>1, SameCall
<1> QED BY <1>2, <1>3 DEF Stored

\* A byte of an element is in the row that its tile's row begins in.
LEMMA SameMemRow ==
  ASSUME NEW a \in Nat, NEW e \in Nat, OneRow(a, e), NEW x \in Nat, x < e
  PROVE  (a + x) \div RowBytes = RowOf(a)
<1> DEFINE o == a % RowBytes
           i == a \div RowBytes
           R == RowBytes
           p == o + x
<1>1. R \in Nat \ {0}
  BY WordSizes
<1>2. i \in Nat /\ o \in 0..R - 1 /\ a = (i * R) + o
  BY <1>1, DivMod
<1>3. o + e <= R
  BY DEF OneRow
<1>4. i * R \in Nat
  BY <1>1, <1>2
<1> HIDE DEF o, R, i
<1>5. p \in 0..R - 1 /\ a + x = (i * R) + p
  BY <1>1, <1>2, <1>3, <1>4
<1> HIDE DEF p
<1>6. ((i * R) + p) \div R = i
  BY <1>1, <1>2, <1>5, DivModUnique
<1> QED BY <1>5, <1>6 DEF RowOf, i, R

\* A write of the engine that is carried out stores its row of the tile.
LEMMA StoredNow ==
  ASSUME ResultInv, AllPlaced, state = "S_STORE_C_WAIT", BramTick(dma_req), UNCHANGED job,
         NEW r, r = m + row_cnt, NEW c \in 0..DimN - 1, c \in n..n + TILE - 1
  PROVE  Stored(r, c)'
<1>1. StepInv /\ PortInv /\ PortSide /\ TileSide /\ pc # 0 /\ state \notin {"S_IDLE", "S_DONE"}
  <2>1. StepInv /\ PortInv /\ PortSide /\ TileSide
    BY DEF ResultInv, FrameInv, PortInv
  <2> QED BY <2>1, RunPlaces
<1>2. WellFormed(job) /\ Placed(job)
  BY <1>1, LoopTypes DEF AllPlaced
<1>3. r \in 0..DimM - 1 /\ StoreAt \in Nat /\ AddrC = StoreAt * WORD_BYTES
  BY <1>1, <1>2, StoreStart
<1>4. /\ DimK' = DimK /\ n \in Nat /\ DimN \in Nat /\ n < DimN /\ c \in Nat
      /\ TILE \in Nat \ {0} /\ TILE = LANES /\ WORD_BYTES \in Nat \ {0} /\ ExtentN \in Nat
  <2>1. \A x \in 1..LANES : x \in Nat
    BY WordSizes
  <2>2. DimK' = DimK
    BY DEF DimK
  <2>3. n < DimN /\ ExtentN \in Nat
    BY <1>1, <2>1, TileRange
  <2>4. c \in Nat /\ n \in Nat /\ DimN \in Nat /\ TILE \in Nat \ {0} /\ TILE = LANES
    BY <1>1, LoopTypes
  <2> QED BY <2>2, <2>3, <2>4, WordSizes
<1> DEFINE q == c - n
<1>5. q \in Nat /\ q < ExtentN
  BY <1>4 DEF ExtentN, TileExtent
<1>6. AddrC \in Nat /\ OneRow(AddrC, ExtentN * WORD_BYTES)
  <2>1. AddrC \in Nat
    BY <1>3, <1>4
  <2>2. n \in Tiles(DimN)
    BY <1>1, <1>4, Corner DEF TileSide
  <2>3. OneRow(job.C.data + (r * job.C.stride + n) * WORD_BYTES, ExtentN * WORD_BYTES)
    BY <1>2, <1>3, <2>2 DEF Placed, DimM, DimN, ExtentN
  <2>4. AddrC = job.C.data + (r * job.C.stride + n) * WORD_BYTES
    BY <1>1, <1>2, StoreAddress DEF StoreWord
  <2> QED BY <2>1, <2>3, <2>4
<1>7. ElemC(r, c) = AddrC + q * WORD_BYTES
  <2>1. /\ ElemC(r, c) = (WordC + (r * job.C.stride + c)) * WORD_BYTES
        /\ WordC \in Nat /\ r * job.C.stride + n \in Nat
    BY <1>1, <1>2, <1>3, <1>4, ElemWord
  <2>2. StoreAt = WordC + (r * job.C.stride + n)
    BY <1>1, <1>2, StoreStart
  <2>3. r * job.C.stride \in Nat
    BY <1>1, <1>3, LoopTypes
  <2> DEFINE u == r * job.C.stride
  <2>4. WordC + (u + c) = StoreAt + q
    <3>1. StoreAt = WordC + (u + n) /\ u \in Nat
      BY <2>2, <2>3
    <3> HIDE DEF u
    <3> QED BY <1>4, <2>1, <3>1
  <2>5. ElemC(r, c) = (StoreAt + q) * WORD_BYTES
    BY <2>1, <2>4
  <2>6. (StoreAt + q) * WORD_BYTES = StoreAt * WORD_BYTES + q * WORD_BYTES
    <3> HIDE DEF q
    <3> QED BY <1>3, <1>4, <1>5
  <2> QED BY <1>3, <2>5, <2>6
<1> HIDE DEF q
<1>8. \A b \in ByteSel : ByteOf(mem', ElemC(r, c) + b) = WordOf(Product(r, c, DimK))[b]
  <2> TAKE b \in ByteSel
  <2> DEFINE a == ElemC(r, c) + b
             x == q * WORD_BYTES + b
             w == ExtentN * WORD_BYTES
  <2>1. a \in MemBytes
    BY <1>1, <1>3, ElemPlace
  <2>2. b \in Nat /\ b < WORD_BYTES
    BY <1>4 DEF ByteSel
  <2>3. q * WORD_BYTES + WORD_BYTES <= ExtentN * WORD_BYTES
    <3>1. (q + 1) * WORD_BYTES <= ExtentN * WORD_BYTES
      BY <1>4, <1>5, LessEq
    <3>2. (q + 1) * WORD_BYTES = q * WORD_BYTES + WORD_BYTES
      BY <1>4, <1>5
    <3> QED BY <3>1, <3>2
  <2>4. x \in Nat /\ x < w /\ w \in Nat /\ a = AddrC + x
    <3>1. q * WORD_BYTES \in Nat /\ w \in Nat
      BY <1>4, <1>5
    <3> QED BY <1>4, <1>6, <1>7, <2>2, <2>3, <3>1
  <2> HIDE DEF a, x, w
  <2>5. a \div RowBytes = RowOf(AddrC)
    <3>1. OneRow(AddrC, w)
      BY <1>6 DEF w
    <3>2. (AddrC + x) \div RowBytes = RowOf(AddrC)
      BY <1>6, <2>4, <3>1, SameMemRow
    <3> QED BY <2>4, <3>2
  <2>6. a \in Nat /\ a \div RowBytes \in MemIndex
    BY <2>1, BytePlace
  <2>7. dma_req.row = RowOf(AddrC) /\ dma_req.stb = 1 /\ dma_req.rw = 1
    BY <1>1 DEF PortSide, Waits
  <2>8. ~(dma_req.row >= NUM_WORDS)
    BY <2>5, <2>6, <2>7, WordSizes DEF MemIndex
  <2>9. BramWrite(dma_req)
    BY <2>7, <2>8 DEF BramTick, BramRead, BramOutOfBounds, BramQuiet
  <2>10. ByteOf(mem', a) = WordOf(Product(m + row_cnt, c, DimK))[b]
    BY <1>4, <2>5, <2>6, <2>9, WrittenByte DEF a
  <2> QED BY <2>10 DEF a
<1>9. Product(r, c, DimK)' = Product(r, c, DimK) /\ ElemC(r, c)' = ElemC(r, c)
  BY <1>4, SameCall
<1> QED BY <1>8, <1>9 DEF Stored

\* A request is raised, or held until it is answered.
Raised(addr) == dma_req' = ReadRequest(addr) /\ UNCHANGED <<row_cnt, reg>>

LEMMA Asking ==
  ASSUME PortInv, Tick, state' \in Waits
  PROVE  \/ state \in Waits /\ UNCHANGED <<state, row_cnt, dma_req, reg, buf_C>>
         \/ state' = "S_FETCH_A_WAIT" /\ row_cnt < tile_M /\ Raised(AddrA)
         \/ state' = "S_FETCH_B_WAIT" /\ row_cnt < tile_K /\ Raised(AddrB)
         \/ /\ state' = "S_STORE_C_WAIT" /\ UNCHANGED <<row_cnt, reg, buf_C>>
            /\ dma_req'.wdata = StoreData(row_cnt, OffsetOf(AddrC) \div WORD_BYTES)
<1>1. EngineTick(DmaRsp)
  BY DEF Tick, CfsTick
<1>2. CASE state \in Waits
  <2>1. FetchAWait(DmaRsp) \/ FetchBWait(DmaRsp) \/ StoreCWait(DmaRsp)
    BY <1>1, <1>2 DEF EngineTick, Waits, Idle, FetchA, FetchB, CompInit, CompRowInit, CompMac, CompAccum, StoreC, Done
  <2>2. DmaRsp.ack # 1
    BY <2>1, NextRowIdx DEF FetchAWait, FetchBWait, StoreCWait, Waits, PortInv, PortSide
  <2>3. HoldStrobe /\ UNCHANGED <<state, row_cnt, buf_C>>
    BY <2>1, <2>2 DEF FetchAWait, FetchBWait, StoreCWait
  <2>4. dma_req' = dma_req
    BY <1>2, <2>3, StrobeFields DEF PortInv, PortSide
  <2>5. reg' = reg
    BY <1>2, RegsKept DEF PortInv, Waits
  <2> QED BY <1>2, <2>3, <2>4, <2>5
<1>3. CASE state \notin Waits
  <2>1. row_cnt \in Idx
    BY DEF PortInv, PortSide
  <2>2. FetchA \/ FetchB \/ StoreC
    BY <1>1, <1>3, <2>1, NextRowIdx DEF EngineTick, Waits, Idle, CompInit, CompRowInit, CompMac, CompAccum, Done, FetchAWait, FetchBWait, StoreCWait
  <2>3. reg' = reg
    BY <2>2, RegsKept DEF PortInv, FetchA, FetchB, StoreC
  <2>4. CASE FetchA
    <3>1. row_cnt < tile_M
      BY <2>1, <2>4, NextRowIdx DEF FetchA, Waits
    <3> QED BY <2>3, <2>4, <3>1 DEF FetchA, Raised
  <2>5. CASE FetchB
    <3>1. row_cnt < tile_K
      BY <2>1, <2>5, NextRowIdx DEF FetchB, Waits
    <3> QED BY <2>3, <2>5, <3>1 DEF FetchB, Raised
  <2>6. CASE StoreC
    <3>1. row_cnt < tile_M
      BY <2>1, <2>6, NextRowIdx DEF StoreC, Waits
    <3> QED BY <2>3, <2>6, <3>1 DEF StoreC
  <2> QED BY <2>2, <2>4, <2>5, <2>6
<1> QED BY <1>2, <1>3

LEMMA AskedStep ==
  ASSUME ResultInv, Tick
  PROVE  /\ state' = "S_FETCH_A_WAIT" => (row_cnt < tile_M /\ dma_req.row = RowOf(AddrA))'
         /\ state' = "S_FETCH_B_WAIT" => (row_cnt < tile_K /\ dma_req.row = RowOf(AddrB))'
         /\ state' = "S_STORE_C_WAIT" =>
              (dma_req.wdata = StoreData(row_cnt, OffsetOf(AddrC) \div WORD_BYTES))'
<1> SUFFICES ASSUME state' \in Waits
             PROVE  /\ state' = "S_FETCH_A_WAIT" => (row_cnt < tile_M /\ dma_req.row = RowOf(AddrA))'
                    /\ state' = "S_FETCH_B_WAIT" => (row_cnt < tile_K /\ dma_req.row = RowOf(AddrB))'
                    /\ state' = "S_STORE_C_WAIT" =>
                         (dma_req.wdata = StoreData(row_cnt, OffsetOf(AddrC) \div WORD_BYTES))'
  BY DEF Waits
<1>1. PortInv /\ AnswerSide
  BY DEF ResultInv, FrameInv
<1>2. ASSUME UNCHANGED <<row_cnt, reg>>
      PROVE  /\ tile_M' = tile_M /\ tile_K' = tile_K /\ AddrA' = AddrA /\ AddrB' = AddrB /\ AddrC' = AddrC
             /\ RowOf(AddrA)' = RowOf(AddrA) /\ RowOf(AddrB)' = RowOf(AddrB)
             /\ OffsetOf(AddrC)' = OffsetOf(AddrC)
  BY <1>2 DEF tile_M, tile_K, AddrA, AddrB, AddrC, RowOf, OffsetOf
<1>3. ASSUME UNCHANGED <<row_cnt, reg, buf_C>>
      PROVE  StoreData(row_cnt, OffsetOf(AddrC) \div WORD_BYTES)' = StoreData(row_cnt, OffsetOf(AddrC) \div WORD_BYTES)
  BY <1>2, <1>3 DEF StoreData
<1>4. CASE state \in Waits /\ UNCHANGED <<state, row_cnt, dma_req, reg, buf_C>>
  BY <1>1, <1>2, <1>3, <1>4 DEF AnswerSide
<1>5. CASE state' = "S_FETCH_A_WAIT" /\ row_cnt < tile_M /\ Raised(AddrA)
  BY <1>2, <1>5 DEF Raised, ReadRequest
<1>6. CASE state' = "S_FETCH_B_WAIT" /\ row_cnt < tile_K /\ Raised(AddrB)
  BY <1>2, <1>6 DEF Raised, ReadRequest
<1>7. CASE /\ state' = "S_STORE_C_WAIT" /\ UNCHANGED <<row_cnt, reg, buf_C>>
           /\ dma_req'.wdata = StoreData(row_cnt, OffsetOf(AddrC) \div WORD_BYTES)
  BY <1>3, <1>7
<1> QED BY <1>1, <1>4, <1>5, <1>6, <1>7, Asking

\* A read that is carried out returns a row in which the clean bytes are
\* those of the image.
LEMMA ReadImage ==
  ASSUME FrameInv, BramTick(dma_req), dma_req.stb = 1, dma_req.rw = 0, UNCHANGED <<job, dma_req>>
  PROVE  ImageRow'
<1> DEFINE row == dma_req.row
<1>1. \A y \in MemBytes : y \div RowBytes = row /\ Clean(y) =>
        ByteAt(mem_rdata', y % RowBytes) = ByteOf(job.image, y)
  <2> SUFFICES ASSUME NEW y \in MemBytes, y \div RowBytes = row, Clean(y)
               PROVE  ByteAt(mem_rdata', y % RowBytes) = ByteOf(job.image, y)
    OBVIOUS
  <2>1. y \div RowBytes \in MemIndex
    BY BytePlace
  <2>2. ~(row >= NUM_WORDS)
    BY <2>1, WordSizes DEF MemIndex
  <2>3. mem_rdata' = mem[row]
    BY <2>2 DEF BramTick, BramWrite, BramRead, BramOutOfBounds, BramQuiet
  <2>4. ByteOf(mem, y) = ByteAt(mem_rdata', y % RowBytes)
    BY <2>3 DEF ByteOf
  <2>5. ByteOf(mem, y) = ByteOf(job.image, y)
    BY DEF FrameInv, FrameIntact, Clean, MemBytes
  <2> QED BY <2>4, <2>5
<1>2. \A y : Clean(y)' <=> Clean(y)
  BY SameFrame DEF Clean, MemBytes
<1>3. MemBytes' = MemBytes
  BY DEF MemBytes
<1>4. \A y \in MemBytes : ByteOf(job.image, y)' = ByteOf(job.image, y)
  BY DEF ByteOf
<1> QED BY <1>1, <1>2, <1>3, <1>4 DEF ImageRow, ByteAt

LEMMA AnswerStep ==
  ASSUME ResultInv, AllPlaced, Tick
  PROVE  AnswerSide'
<1>1. PortInv /\ FrameInv /\ StepInv
  BY DEF ResultInv, FrameInv, PortInv
<1>2. UNCHANGED job
  BY <1>1, TickPhases
<1>3. ASSUME Answered', state' \in Waits
      PROVE  /\ UNCHANGED <<state, row_cnt, dma_req, reg>> /\ dma_req.stb = 1 /\ BramTick(dma_req)
  BY <1>1, <1>3, HeldWait DEF Answered
<1>4. ASSUME Answered', state' \in {"S_FETCH_A_WAIT", "S_FETCH_B_WAIT"}
      PROVE  ImageRow'
  <2>1. state' \in Waits
    BY <1>4 DEF Waits
  <2>2. UNCHANGED <<state, row_cnt, dma_req, reg>> /\ dma_req.stb = 1 /\ BramTick(dma_req)
    BY <1>3, <1>4, <2>1
  <2>3. dma_req.rw = 0
    BY <1>1, <1>4, <2>2 DEF PortInv, PortSide
  <2> QED BY <1>1, <1>2, <2>2, <2>3, ReadImage
<1>5. ASSUME Answered', state' = "S_STORE_C_WAIT"
      PROVE  (\A c \in 0..DimN - 1 : c \in n..n + TILE - 1 => Stored(m + row_cnt, c))'
  <2>1. state' \in Waits
    BY <1>5 DEF Waits
  <2>2. UNCHANGED <<state, row_cnt, dma_req, reg>> /\ dma_req.stb = 1 /\ BramTick(dma_req)
    BY <1>3, <1>5, <2>1
  <2>3. \A r : r = m + row_cnt => \A c \in 0..DimN - 1 : c \in n..n + TILE - 1 => Stored(r, c)'
    BY <1>2, <1>5, <2>2, StoredNow
  <2>4. SameTile
    BY <1>1, <1>5, <2>2, DriverMoves DEF NewTile
  <2>5. UNCHANGED <<m, n, row_cnt, DimN, TILE>>
    BY <2>2, <2>4, SameTileKeeps DEF TILE
  <2> QED BY <2>3, <2>5
<1>6. /\ state' = "S_FETCH_A_WAIT" => (row_cnt < tile_M /\ dma_req.row = RowOf(AddrA))'
      /\ state' = "S_FETCH_B_WAIT" => (row_cnt < tile_K /\ dma_req.row = RowOf(AddrB))'
      /\ state' = "S_STORE_C_WAIT" =>
           (dma_req.wdata = StoreData(row_cnt, OffsetOf(AddrC) \div WORD_BYTES))'
  BY AskedStep
<1> QED BY <1>4, <1>5, <1>6 DEF AnswerSide

-----------------------------------------------------------------------------
(* The memory. *)

Spread == \A r \in 0..DimM - 1, c \in 0..DimN - 1 : Settled(r, c)' => Settled(r, c) \/ Stored(r, c)

\* The row being stored is done: it is in the memory, or beyond the matrix.
LEMMA RowDone ==
  ASSUME ResultInv, Tick, state \in Storing, NextRow("S_STORE_C", "S_DONE"),
         \A r \in 0..DimM - 1, c \in 0..DimN - 1 :
           r = m + row_cnt /\ c \in n..n + TILE - 1 => Stored(r, c)
  PROVE  Spread
<1>1. /\ UNCHANGED <<m, n, k, DimK>> /\ row_cnt \in Idx /\ StepInv
      /\ k + TILE >= DimK
  BY Running DEF Storing, ResultInv, MemSide
<1>2. m \in Nat /\ n \in Nat /\ row_cnt \in Nat /\ TILE \in Nat \ {0} /\ TILE = LANES /\ row_cnt <= LANES - 1
  BY <1>1, LoopTypes, WordSizes DEF Idx
<1>3. \/ state' = "S_DONE" /\ row_cnt' = 0 /\ row_cnt + 1 = LANES
      \/ state' = "S_STORE_C" /\ row_cnt' = row_cnt + 1 /\ row_cnt + 1 < LANES
  BY <1>1, NextRowCases
<1>4. state # "S_DONE"
  BY DEF Storing
<1> SUFFICES ASSUME NEW r \in 0..DimM - 1, NEW c \in 0..DimN - 1, Settled(r, c)'
             PROVE  Settled(r, c) \/ Stored(r, c)
  BY DEF Spread
<1>5. r \in Int /\ c \in Int
  OBVIOUS
<1>6. \/ r < m
      \/ r < m + TILE /\ c < n
      \/ c < n + TILE /\ r <= m + row_cnt
  <2>1. TILE' = TILE
    BY DEF TILE
  <2>2. CASE state' = "S_DONE" /\ row_cnt + 1 = LANES
    <3>1. \/ r < m \/ (r < m + TILE /\ c < n) \/ (c < n + TILE /\ r < m + TILE)
      BY <1>1, <2>1, <2>2 DEF Settled, Storing, After
    <3> QED BY <1>2, <1>5, <2>2, <3>1
  <2>3. CASE state' = "S_STORE_C" /\ row_cnt' = row_cnt + 1
    <3>1. \/ r < m \/ (r < m + TILE /\ c < n) \/ (c < n + TILE /\ r < m + (row_cnt + 1))
      BY <1>1, <2>1, <2>3 DEF Settled, Storing, After
    <3> QED BY <1>2, <1>5, <3>1
  <2> QED BY <1>3, <2>2, <2>3
<1>7. CASE r < m \/ (r < m + TILE /\ c < n)
  BY <1>7 DEF Settled
<1>8. CASE c < n + TILE /\ r < m + row_cnt
  BY <1>1, <1>8 DEF Settled
<1>9. CASE c < n + TILE /\ r = m + row_cnt
  <2>1. CASE c < n
    <3>1. r < m + TILE
      BY <1>2, <1>9
    <3> QED BY <2>1, <3>1 DEF Settled
  <2>2. CASE ~(c < n)
    <3>1. c \in n..n + TILE - 1
      BY <1>2, <1>5, <1>9, <2>2
    <3> QED BY <1>9, <3>1
  <2> QED BY <2>1, <2>2
<1>10. r < m + row_cnt \/ r = m + row_cnt \/ r > m + row_cnt
  BY <1>2, <1>5
<1>11. r > m + row_cnt => ~(r <= m + row_cnt)
  BY <1>2, <1>5
<1> QED BY <1>6, <1>7, <1>8, <1>9, <1>10, <1>11

\* Within a tile, only the store adds to what is settled.
LEMMA SettledSame ==
  ASSUME ResultInv, AllPlaced, Tick, SameTile
  PROVE  Spread /\ (state' \in Storing => k + TILE >= DimK)
<1>1. /\ StepInv /\ EngineTick(DmaRsp) /\ state \in state_t /\ TILE' = TILE
      /\ UNCHANGED <<m, n, k, DimM, DimN, DimK>>
  BY SameTileKeeps DEF ResultInv, FrameInv, PortInv, Tick, CfsTick, TypeInv, CfsTypeOK, TILE
<1>2. m \in Nat /\ n \in Nat /\ k \in Nat /\ TILE \in Nat \ {0} /\ DimM \in Nat /\ DimN \in Nat /\ DimK \in Nat
  BY <1>1, LoopTypes
<1>3. ASSUME After' => After, state' \notin Storing
      PROVE  Spread
  <2> SUFFICES ASSUME NEW r \in 0..DimM - 1, NEW c \in 0..DimN - 1, Settled(r, c)'
               PROVE  Settled(r, c) \/ Stored(r, c)
    BY DEF Spread
  <2> QED BY <1>1, <1>3 DEF Settled
<1>4. ASSUME state' = state \/ (state = "S_STORE_C" /\ state' = "S_STORE_C_WAIT"), state \in Storing,
             row_cnt' = row_cnt
      PROVE  Spread /\ k + TILE >= DimK
  <2>1. state' \in Storing /\ ~After'
    BY <1>4 DEF Storing, After
  <2> SUFFICES ASSUME NEW r \in 0..DimM - 1, NEW c \in 0..DimN - 1, Settled(r, c)'
               PROVE  Settled(r, c) \/ Stored(r, c)
    BY <1>4 DEF Spread, ResultInv, MemSide
  <2> QED BY <1>1, <1>4, <2>1 DEF Settled
<1>5. CASE state \in {"S_IDLE", "S_DONE"}
  <2>1. Idle \/ Done
    BY <1>1, <1>5 DEF EngineTick, FetchA, FetchAWait, FetchB, FetchBWait, CompInit, CompRowInit, CompMac, CompAccum, StoreC, StoreCWait
  <2>2. state' \notin Storing
    BY <2>1 DEF Idle, Done, Storing
  <2>3. After' => After
    <3>1. CASE state = "S_DONE"
      BY <3>1 DEF After
    <3>2. CASE state = "S_IDLE"
      <4>1. state' # "S_DONE"
        BY <2>1, <3>2 DEF Idle, Done
      <4>2. pc \in 0..8 \cup {10, 11} /\ (pc' = pc \/ (pc \in 1..10 /\ pc' = pc + 1))
        BY <1>1, <3>2, IdlePlaces DEF SameTile
      <4>3. pc' \in {10, 11} => pc \in {10, 11}
        BY <4>2
      <4> QED BY <3>2, <4>1, <4>3 DEF After
    <3> QED BY <1>5, <3>1, <3>2
  <2> QED BY <1>3, <2>2, <2>3
<1>6. CASE state \notin {"S_IDLE", "S_DONE"}
  <2>1. row_cnt \in Idx /\ tile_M = ExtentM
    BY <1>6, Running
  <2>2. CASE FetchA \/ FetchAWait(DmaRsp) \/ FetchB \/ FetchBWait(DmaRsp) \/ CompInit \/ CompRowInit \/ CompMac
    <3>1. state' \notin Storing \cup {"S_IDLE", "S_DONE"}
      BY <2>1, <2>2, NextRowIdx DEF FetchA, FetchAWait, FetchB, FetchBWait, CompInit, CompRowInit, CompMac, Storing
    <3> QED BY <1>3, <3>1 DEF After
  <2>3. CASE CompAccum
    <3>1. cmd.store = 1 <=> k + TILE >= DimK
      BY <1>1, <1>6, RunPlaces DEF StepInv, RegSide
    <3>2. \/ state' = "S_COMP_ROW_INIT"
          \/ state' = "S_STORE_C" /\ row_cnt' = 0 /\ cmd.store = 1
          \/ state' = "S_DONE" /\ cmd.store # 1
      BY <2>3 DEF CompAccum
    <3>3. CASE state' = "S_COMP_ROW_INIT"
      BY <1>3, <3>3 DEF Storing, After
    <3>4. CASE state' = "S_STORE_C" /\ row_cnt' = 0 /\ cmd.store = 1
      <4> SUFFICES ASSUME NEW r \in 0..DimM - 1, NEW c \in 0..DimN - 1, Settled(r, c)'
                   PROVE  Settled(r, c) \/ Stored(r, c)
        BY <3>1, <3>4 DEF Spread
      <4>1. ~After'
        BY <3>4 DEF After
      <4>2. \/ r < m \/ (r < m + TILE /\ c < n) \/ r < m + 0
        BY <1>1, <3>4, <4>1 DEF Settled
      <4>3. r < m \/ (r < m + TILE /\ c < n)
        BY <1>2, <4>2
      <4> QED BY <4>3 DEF Settled
    <3>5. CASE state' = "S_DONE" /\ cmd.store # 1
      <4> SUFFICES ASSUME NEW r \in 0..DimM - 1, NEW c \in 0..DimN - 1, Settled(r, c)'
                   PROVE  Settled(r, c) \/ Stored(r, c)
        BY <3>5 DEF Spread, Storing
      <4> QED BY <1>1, <3>1, <3>5 DEF Settled
    <3> QED BY <3>2, <3>3, <3>4, <3>5
  <2>4. CASE StoreC
    <3>1. state \in Storing
      BY <2>4 DEF StoreC, Storing
    <3>2. CASE row_cnt < tile_M
      <4>1. state = "S_STORE_C" /\ state' = "S_STORE_C_WAIT" /\ row_cnt' = row_cnt
        BY <2>4, <3>2 DEF StoreC
      <4> QED BY <1>4, <3>1, <4>1
    <3>3. CASE ~(row_cnt < tile_M)
      <4>1. NextRow("S_STORE_C", "S_DONE")
        BY <2>4, <3>3 DEF StoreC
      <4>2. \A r \in 0..DimM - 1 : r # m + row_cnt
        <5>1. pc # 0
          BY <1>1, <1>6, RunPlaces
        <5>2. ExtentM \in 1..LANES /\ (ExtentM = TILE \/ m + ExtentM = DimM) /\ TILE = LANES
          BY <1>1, <5>1, TileRange, LoopTypes
        <5>3. row_cnt >= ExtentM /\ row_cnt < LANES /\ row_cnt \in Nat
          <6>1. ExtentM \in Int /\ row_cnt \in Nat
            BY <2>1, <5>2, WordSizes DEF Idx
          <6> QED BY <2>1, <3>3, <6>1, WordSizes DEF Idx
        <5>4. m + ExtentM = DimM
          BY <1>2, <5>2, <5>3
        <5>5. DimM <= m + row_cnt
          BY <1>2, <5>2, <5>3, <5>4
        <5> QED BY <1>2, <5>3, <5>5
      <4>3. Spread
        BY <3>1, <4>1, <4>2, RowDone
      <4> QED BY <3>1, <4>3 DEF ResultInv, MemSide
    <3> QED BY <3>2, <3>3
  <2>5. CASE StoreCWait(DmaRsp)
    <3>1. state \in Storing /\ state = "S_STORE_C_WAIT"
      BY <2>5 DEF StoreCWait, Storing
    <3>2. CASE DmaRsp.ack = 1
      <4>1. NextRow("S_STORE_C", "S_DONE")
        BY <2>5, <3>2 DEF StoreCWait
      <4>2. \A c \in 0..DimN - 1 : c \in n..n + TILE - 1 => Stored(m + row_cnt, c)
        BY <3>1, <3>2, AckMeans DEF ResultInv, AnswerSide
      <4>3. \A r \in 0..DimM - 1, c \in 0..DimN - 1 :
              r = m + row_cnt /\ c \in n..n + TILE - 1 => Stored(r, c)
        BY <4>2
      <4>4. Spread
        BY <3>1, <4>1, <4>3, RowDone
      <4> QED BY <3>1, <4>4 DEF ResultInv, MemSide
    <3>3. CASE DmaRsp.ack # 1
      <4>1. UNCHANGED <<state, row_cnt>>
        BY <2>5, <3>3 DEF StoreCWait
      <4> QED BY <1>4, <3>1, <4>1
    <3> QED BY <3>2, <3>3
  <2> QED BY <1>1, <1>6, <2>2, <2>3, <2>4, <2>5 DEF EngineTick, Idle, Done
<1> QED BY <1>5, <1>6

\* The next tile begins when this one is settled.
LEMMA SettledNew ==
  ASSUME ResultInv, Tick, NewTile
  PROVE  Spread /\ state' \notin Storing /\ (pc' = 0 => m' >= DimM)
<1>1. /\ StepInv /\ EngineTick(DmaRsp) /\ state = "S_IDLE" /\ pc = 11 /\ TILE' = TILE
      /\ UNCHANGED <<DimM, DimN, DimK>> /\ cmd.start = 0
  BY DEF ResultInv, FrameInv, PortInv, Tick, CfsTick, NewTile, TILE, DimM, DimN, DimK
<1>2. m \in Nat /\ n \in Nat /\ k \in Nat /\ TILE \in Nat \ {0} /\ DimM \in Nat /\ DimN \in Nat /\ DimK \in Nat
  BY <1>1, LoopTypes
<1>3. state' = "S_IDLE"
  BY <1>1 DEF EngineTick, Idle, FetchA, FetchAWait, FetchB, FetchBWait, CompInit, CompRowInit, CompMac, CompAccum, StoreC, StoreCWait, Done
<1>4. pc' \in {0, 1} /\ (pc' = 0 => m' >= DimM)
  BY <1>2 DEF NewTile, NextTile
<1>5. state' \notin Storing /\ ~After' /\ After
  BY <1>1, <1>3, <1>4 DEF Storing, After
<1> SUFFICES ASSUME NEW r \in 0..DimM - 1, NEW c \in 0..DimN - 1, Settled(r, c)'
             PROVE  Settled(r, c)
  BY <1>4, <1>5 DEF Spread
<1>6. r < m' \/ (r < m' + TILE /\ c < n')
  BY <1>1, <1>5 DEF Settled
<1>7. CASE UNCHANGED <<m, n>>
  BY <1>6, <1>7 DEF Settled
<1>8. CASE ~(k + TILE < DimK) /\ n' = n + TILE /\ m' = m
  <2>1. k + TILE >= DimK
    BY <1>2, <1>8
  <2> QED BY <1>5, <1>6, <1>8, <2>1 DEF Settled
<1>9. CASE ~(k + TILE < DimK) /\ ~(n + TILE < DimN) /\ n' = 0 /\ m' = m + TILE
  <2>1. k + TILE >= DimK /\ c < n + TILE /\ ~(c < 0)
    BY <1>2, <1>9
  <2>2. r < m + TILE
    BY <1>6, <1>9, <2>1
  <2> QED BY <1>5, <2>1, <2>2 DEF Settled
<1> QED BY <1>7, <1>8, <1>9 DEF NewTile, NextTile

LEMMA MemStep ==
  ASSUME ResultInv, AllPlaced, Tick
  PROVE  MemSide'
<1>1. StepInv /\ MemSide
  BY DEF ResultInv, FrameInv, PortInv
<1>2. UNCHANGED <<DimM, DimN, DimK, TILE>>
  BY <1>1, TickPhases DEF DimM, DimN, DimK, TILE
<1>3. Spread
  BY <1>1, DriverMoves, SettledSame, SettledNew
<1>4. \A r \in 0..DimM - 1, c \in 0..DimN - 1 : Settled(r, c)' => Stored(r, c)'
  BY <1>1, <1>3, StoredKept DEF Spread, MemSide
<1>5. state' \in Storing => k' + TILE >= DimK
  <2>1. CASE SameTile
    BY <2>1, SettledSame DEF SameTile
  <2>2. CASE NewTile
    BY <2>2, SettledNew
  <2> QED BY <1>1, <2>1, <2>2, DriverMoves
<1>6. pc' = 0 => m' >= DimM
  <2>1. CASE SameTile
    <3>1. pc' = 0 => pc = 0
      BY <2>1 DEF SameTile
    <3> QED BY <1>1, <2>1, <3>1 DEF SameTile, MemSide
  <2>2. CASE NewTile
    BY <2>2, SettledNew
  <2> QED BY <1>1, <2>1, <2>2, DriverMoves
<1> QED BY <1>2, <1>4, <1>5, <1>6 DEF MemSide

-----------------------------------------------------------------------------
(* The program begins, or begins again. *)

LEMMA SomeProduct ==
  ASSUME AllPlaced, job \in Jobs
  PROVE  DimM > 0 /\ DimN > 0 /\ DimK > 0
<1>1. 0..DimM - 1 # {} /\ 0..DimN - 1 # {} /\ 0..DimK - 1 # {}
  BY DEF AllPlaced, Placed, DimM, DimN, DimK
<1>2. DimM \in Nat /\ DimN \in Nat /\ DimK \in Nat
  BY DimType
<1> QED BY <1>1, <1>2

LEMMA ResultInit ==
  ASSUME AllPlaced, Init
  PROVE  ResultInv
<1>1. FrameInv /\ TypeInv
  BY FrameInit, PlaceInvInit DEF PlaceInv
<1>2. job \in Jobs /\ m = 0 /\ n = 0 /\ k = 0 /\ pc = 1 /\ state = "S_IDLE"
  BY SomeProduct DEF Init, CfsInit, DriverInit
<1>3. KSide
  <2>1. 0 \in Nat /\ k = 0 * TILE
    BY <1>2, LanesAssumption DEF TILE
  <2> QED BY <2>1 DEF KSide
<1>4. FetchSide /\ MacSide /\ AccuSide /\ AnswerSide
  BY <1>2 DEF FetchSide, MacSide, AccuSide, AnswerSide, Fetching, Computing, Storing, Before, After
<1>5. MemSide
  <2>1. \A r \in 0..DimM - 1, c \in 0..DimN - 1 : ~Settled(r, c)
    BY <1>2 DEF Settled, Storing, After
  <2> QED BY <1>2, <2>1 DEF MemSide, Storing
<1> QED BY <1>1, <1>3, <1>4, <1>5 DEF ResultInv

LEMMA ResultReset ==
  ASSUME ResultInv, AllPlaced, Reset, FrameInv', TypeInv'
  PROVE  ResultInv'
<1>1. job \in Jobs
  BY LoopTypes DEF ResultInv, FrameInv, PortInv
<1>2. m' = 0 /\ n' = 0 /\ k' = 0 /\ pc' = 1 /\ state' = "S_IDLE"
  BY <1>1, SomeProduct DEF Reset, CfsReset, DriverRestart
<1>3. KSide'
  <2>1. 0 \in Nat /\ k' = 0 * TILE' /\ TILE' = TILE
    BY <1>2, LanesAssumption DEF TILE
  <2>2. \E p \in Nat : k' = p * TILE'
    BY <2>1
  <2> QED BY <2>2 DEF KSide
<1>4. FetchSide' /\ MacSide' /\ AccuSide' /\ AnswerSide'
  BY <1>2 DEF FetchSide, MacSide, AccuSide, AnswerSide, Fetching, Computing, Storing, Before, After
<1>5. MemSide'
  <2>1. (\A r \in 0..DimM - 1, c \in 0..DimN - 1 : ~Settled(r, c))'
    BY <1>2 DEF Settled, Storing, After
  <2> QED BY <1>2, <2>1 DEF MemSide, Storing
<1> QED BY <1>3, <1>4, <1>5 DEF ResultInv

LEMMA ResultStutter ==
  ASSUME ResultInv, UNCHANGED vars, FrameInv', TypeInv'
  PROVE  ResultInv'
<1>1. /\ UNCHANGED <<job, m, n, k, pc, state, row_cnt, k_cnt, reg, cmd>>
      /\ UNCHANGED <<buf_A, buf_B, buf_C, sum_reg, dma_req, mem, mem_rdata, mem_ack, arb_state>>
  BY DEF vars, cfsVars, regVars, engineVars, driverVars, bramVars, xbarVars
<1>2. /\ UNCHANGED <<DimM, DimN, DimK, TILE, ExtentM, ExtentN, ExtentK>>
      /\ Footprint' = Footprint /\ OtherBytes' = OtherBytes
  <2>1. SameTile
    BY <1>1 DEF SameTile
  <2> QED BY <2>1, SameTileKeeps DEF TILE
<1>3. KSide'
  BY <1>1, <1>2 DEF ResultInv, KSide
<1>4. FetchSide'
  <2>1. \A p : (RowsOfA(p) => RowsOfA(p)') /\ (RowsOfB(p) => RowsOfB(p)')
    BY <1>1, <1>2, SameFetched
  <2>2. (RowsOfA(row_cnt) => RowsOfA(row_cnt)') /\ (RowsOfB(row_cnt) => RowsOfB(row_cnt)')
    BY <1>1, <2>1
  <2>3. (RowsOfA(LANES) => RowsOfA(LANES)') /\ (RowsOfB(LANES) => RowsOfB(LANES)')
    BY <2>1
  <2> QED BY <1>1, <2>2, <2>3 DEF ResultInv, FetchSide, Computing
<1>5. MacSide'
  <2>1. \A p : Summed(p) => Summed(p)'
    BY <1>1, <1>2, SummedKept DEF Summed
  <2> QED BY <1>1, <1>2, <2>1 DEF ResultInv, MacSide
<1>6. AccuSide'
  <2>1. \A r, lim : Accumulated(r, lim) => Accumulated(r, lim)'
    BY <1>1, <1>2, AccumulatedKept
  <2>2. (\A r \in Idx : Accumulated(r, k)) => (\A r \in Idx : Accumulated(r, k))'
    BY <1>1, <2>1 DEF Idx
  <2>3. (\A r \in Idx : Accumulated(r, k + ExtentK)) => (\A r \in Idx : Accumulated(r, k + ExtentK))'
    BY <1>1, <1>2, <2>1 DEF Idx
  <2>4. (\A r \in Idx : Accumulated(r, IF r < row_cnt THEN k + ExtentK ELSE k))
        => (\A r \in Idx : Accumulated(r, IF r < row_cnt THEN k + ExtentK ELSE k))'
    BY <1>1, <1>2, <2>1 DEF Idx
  <2>5. (Before' <=> Before) /\ (After' <=> After)
    BY <1>1 DEF Before, After
  <2> QED BY <1>1, <2>2, <2>3, <2>4, <2>5 DEF ResultInv, AccuSide, Fetching, Computing, Storing
<1>7. \A r, c : (Settled(r, c)' <=> Settled(r, c)) /\ (Stored(r, c)' <=> Stored(r, c))
  <2>1. \A r, c : Settled(r, c)' <=> Settled(r, c)
    BY <1>1, <1>2 DEF Settled, Storing, After
  <2>2. \A r, c : Product(r, c, DimK)' = Product(r, c, DimK) /\ ElemC(r, c)' = ElemC(r, c)
    BY <1>1, <1>2, SameCall
  <2>3. \A r, c : Stored(r, c)' <=> Stored(r, c)
    BY <1>1, <2>2 DEF Stored, ByteOf
  <2> QED BY <2>1, <2>3
<1>8. MemSide'
  BY <1>1, <1>2, <1>7 DEF ResultInv, MemSide, Storing
<1>9. AnswerSide'
  <2>1. /\ tile_M' = tile_M /\ tile_K' = tile_K /\ RowOf(AddrA)' = RowOf(AddrA) /\ RowOf(AddrB)' = RowOf(AddrB)
        /\ OffsetOf(AddrC)' = OffsetOf(AddrC)
    BY <1>1 DEF tile_M, tile_K, AddrA, AddrB, AddrC, RowOf, OffsetOf
  <2>2. StoreData(row_cnt, OffsetOf(AddrC) \div WORD_BYTES)' = StoreData(row_cnt, OffsetOf(AddrC) \div WORD_BYTES)
    BY <1>1, <2>1 DEF StoreData
  <2>3. (Answered' <=> Answered) /\ (ImageRow => ImageRow')
    BY <1>1, <1>2 DEF Answered, ImageRow, Clean, MemBytes
  <2>4. \A c : Stored(m + row_cnt, c) => Stored(m + row_cnt, c)'
    BY <1>1, <1>7
  <2>5. (\A c \in 0..DimN - 1 : c \in n..n + TILE - 1 => Stored(m + row_cnt, c))
        => (\A c \in 0..DimN - 1 : c \in n..n + TILE - 1 => Stored(m + row_cnt, c))'
    BY <1>1, <1>2, <2>4
  <2> QED BY <1>1, <2>1, <2>2, <2>3, <2>5 DEF ResultInv, AnswerSide
<1> QED BY <1>3, <1>4, <1>5, <1>6, <1>8, <1>9 DEF ResultInv

LEMMA ResultNext ==
  ASSUME ResultInv, AllPlaced, [Next]_vars
  PROVE  ResultInv'
<1>1. FrameInv'
  BY FrameNext DEF ResultInv, AllPlaced
<1>2. TypeInv'
  BY PlaceInvNext DEF ResultInv, FrameInv, PlaceInv
<1>3. CASE Tick
  <2>1. KSide'
    BY <1>3, KSideStep DEF ResultInv, FrameInv, PortInv
  <2> QED BY <1>1, <1>2, <1>3, <2>1, FetchStep, MacStep, AccuStep, MemStep, AnswerStep DEF ResultInv
<1>4. CASE Reset
  BY <1>1, <1>2, <1>4, ResultReset
<1>5. CASE UNCHANGED vars
  BY <1>1, <1>2, <1>5, ResultStutter
<1> QED BY <1>3, <1>4, <1>5 DEF Next

LEMMA ResultAccu ==
  ASSUME ResultInv
  PROVE  AccumulatorsPartial
<1> SUFFICES ASSUME state = "S_DONE",
                    NEW r \in 0..TileExtent(DimM, m) - 1, NEW c \in 0..TileExtent(DimN, n) - 1
             PROVE  buf_C[r][c] = Product(m + r, n + c, k + TileExtent(DimK, k))
  BY DEF AccumulatorsPartial
<1>1. StepInv
  BY DEF ResultInv, FrameInv, PortInv
<1>2. DimM \in Nat /\ DimN \in Nat /\ m \in Nat /\ n \in Nat /\ TILE = LANES /\ LANES \in Nat
  BY <1>1, LoopTypes, WordSizes
<1>3. r \in Idx /\ r < ExtentM /\ c \in Idx /\ c < ExtentN
  BY <1>2 DEF Idx, ExtentM, ExtentN, TileExtent
<1>4. Accumulated(r, k + ExtentK)
  BY <1>3 DEF ResultInv, AccuSide, After
<1> QED BY <1>3, <1>4 DEF Accumulated, ExtentK

LEMMA ResultDone ==
  ASSUME ResultInv, AllPlaced
  PROVE  ResultCorrect
<1> SUFFICES ASSUME finished, NEW r \in 0..DimM - 1, NEW c \in 0..DimN - 1
             PROVE  WordAt(mem, ElemC(r, c)) = Product(r, c, DimK)
  BY DEF ResultCorrect
<1>1. StepInv
  BY DEF ResultInv, FrameInv, PortInv
<1>2. DimM \in Nat /\ DimK \in Nat /\ m \in Nat
  BY <1>1, LoopTypes
<1>3. r < m
  <2>1. m >= DimM
    BY DEF ResultInv, MemSide, finished
  <2> QED BY <1>2, <2>1
<1>4. Stored(r, c)
  BY <1>3 DEF ResultInv, MemSide, Settled
<1>5. Product(r, c, DimK) \in Accu
  <2>1. Dot(r, c, DimK) \in Int /\ Product(r, c, DimK) = Dot(r, c, DimK) % WordMod
    <3>1. DimK \in 0..DimK
      BY <1>2
    <3> QED BY <1>1, <3>1, Dots
  <2> DEFINE u == Dot(r, c, DimK)
             d == WordMod
  <2>2. u \in Int /\ d \in Nat \ {0}
    BY <2>1, Weights
  <2> HIDE DEF u, d
  <2>3. u % d \in 0..d - 1
    BY <2>2, IntDivMod
  <2> QED BY <2>1, <2>3 DEF u, d, Accu
<1> QED BY <1>4, <1>5, WordRead DEF Stored

\* When the engine reports done, its accumulators hold, in 32 bits, the sum of
\* the products over all tiles of K so far: they are cleared for the first of
\* them, kept while the engine is idle and the registers are rewritten between
\* two, and reset with the system.  The rows and columns that the bounds and
\* the matrices leave out of a tile are masked or never looked at
\* (neorv32_cfs.vhd:233-370, gemmrv_hw.c:58-80).
THEOREM Accumulates == AllPlaced => (Spec => []AccumulatorsPartial)
<1> SUFFICES ASSUME AllPlaced
             PROVE  Spec => []AccumulatorsPartial
  OBVIOUS
<1>1. Init => ResultInv
  BY ResultInit
<1>2. ResultInv /\ [Next]_vars => ResultInv'
  BY ResultNext
<1>3. ResultInv => AccumulatorsPartial
  BY ResultAccu
<1> QED BY <1>1, <1>2, <1>3, PTL DEF Spec

\* gemmrv_mult computes C = A * B.  For every size of the tile, the word and
\* the byte, for all matrices that are placed as the header and the engine ask
\* for, whatever their sizes and strides, and although other masters write the
\* memory and the system is reset meanwhile: when the program returns, each
\* element of C in the memory is the row of A times the column of B in the
\* memory before the call (gemmrv_hw.c:32-80, neorv32_cfs.vhd:178-370).
THEOREM Multiplies == AllPlaced => (Spec => []ResultCorrect)
<1> SUFFICES ASSUME AllPlaced
             PROVE  Spec => []ResultCorrect
  OBVIOUS
<1>1. Init => ResultInv
  BY ResultInit
<1>2. ResultInv /\ [Next]_vars => ResultInv'
  BY ResultNext
<1>3. ResultInv => ResultCorrect
  BY ResultDone
<1> QED BY <1>1, <1>2, <1>3, PTL DEF Spec
=============================================================================
