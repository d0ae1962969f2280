--------------------------- MODULE SpinLock_proofs ---------------------------
(* Why the spin locks exclude each other, for any set of cores: LockInv is   *)
(* inductive.  LockTells alone is not: a store-conditional is performed long *)
(* after the free lock was read, and WatchedFree says why that is no danger. *)
EXTENDS SpinLock, TLAPS

\* The invariant holds when no core has started.
LEMMA InitLockInv == Init => LockInv
  BY DEF Init, LockInv, TypeOK, LockTells, WatchedFree, MutualExclusion, Inside, Nobody, Place

\* A load-reserved moves its core between places outside, or inside, only.
LEMMA LookSteps ==
  ASSUME LockInv, NEW c \in Cores, Look(c) \/ See(c) \/ Begin(c)
  PROVE  LockInv'
<1>1. CASE Look(c)
  BY <1>1 DEF Look, Reserve, LockInv, TypeOK, LockTells, WatchedFree, MutualExclusion,
              Inside, Place
<1>2. CASE See(c)
  BY <1>2 DEF See, Reserve, Move, LockInv, TypeOK, LockTells, WatchedFree, MutualExclusion,
              Inside, Place
<1>3. CASE Begin(c)
  BY <1>3 DEF Begin, Reserve, Move, LockInv, TypeOK, LockTells, WatchedFree, MutualExclusion,
              Inside, Place
<1> QED BY <1>1, <1>2, <1>3

\* A store-conditional that succeeds in spin_lock finds the lock free, hence
\* nobody inside; in spin_unlock it ends the stay of the only core inside.
LEMMA SuccessSteps ==
  ASSUME LockInv, NEW c \in Cores, Win(c) \/ Leave(c)
  PROVE  LockInv'
<1>1. CASE Win(c)
  <2>1. lock = 0 /\ \A d \in Cores : ~Inside(d)
    BY <1>1 DEF Win, LockInv, WatchedFree, LockTells
  <2>2. TypeOK'
    BY <1>1 DEF Win, Write, Move, Nobody, LockInv, TypeOK, Place
  <2>3. \A d \in Cores : Inside(d)' => d = c
    BY <1>1, <2>1 DEF Win, Move, LockInv, TypeOK, Inside
  <2>4. LockTells' /\ WatchedFree'
    BY <1>1 DEF Win, Write, Nobody, LockTells, WatchedFree
  <2> QED BY <2>2, <2>3, <2>4 DEF LockInv, MutualExclusion
<1>2. CASE Leave(c)
  <2>1. TypeOK'
    BY <1>2 DEF Leave, Write, Move, Nobody, LockInv, TypeOK, Place
  <2>2. \A d \in Cores : ~Inside(d)'
    BY <1>2 DEF Leave, Move, LockInv, TypeOK, MutualExclusion, Inside
  <2>3. WatchedFree'
    BY <1>2 DEF Leave, Write, Nobody, WatchedFree
  <2> QED BY <2>1, <2>2, <2>3 DEF LockInv, LockTells, MutualExclusion
<1> QED BY <1>1, <1>2

\* A store-conditional that fails puts its core back where it came from.
LEMMA FailureSteps ==
  ASSUME LockInv, NEW c \in Cores, Lose(c) \/ Retry(c)
  PROVE  LockInv'
<1>1. CASE Lose(c)
  BY <1>1 DEF Lose, Drop, Move, LockInv, TypeOK, LockTells, WatchedFree, MutualExclusion,
              Inside, Place
<1>2. CASE Retry(c)
  BY <1>2 DEF Retry, Drop, Move, LockInv, TypeOK, LockTells, WatchedFree, MutualExclusion,
              Inside, Place
<1> QED BY <1>1, <1>2

\* A swap reads and writes at once, so there is nothing to become stale.
LEMMA SwapSteps ==
  ASSUME LockInv, NEW c \in Cores, Take(c) \/ Give(c)
  PROVE  LockInv'
<1>1. CASE Take(c)
  <2>1. TypeOK'
    BY <1>1 DEF Take, Write, Move, Nobody, LockInv, TypeOK, Place
  <2>2. LockTells' /\ WatchedFree'
    BY <1>1 DEF Take, Write, Nobody, LockTells, WatchedFree
  <2>3. CASE lock = 0
    <3>1. \A d \in Cores : ~Inside(d)
      BY <2>3 DEF LockInv, LockTells
    <3>2. \A d \in Cores : Inside(d)' => d = c
      BY <1>1, <3>1 DEF Take, Move, LockInv, TypeOK, Inside
    <3> QED BY <2>1, <2>2, <3>2 DEF LockInv, MutualExclusion
  <2>4. CASE lock # 0
    <3>1. \A d \in Cores : Inside(d)' => Inside(d)
      BY <1>1, <2>4 DEF Take, Move, LockInv, TypeOK, Inside
    <3> QED BY <2>1, <2>2, <3>1 DEF LockInv, MutualExclusion
  <2> QED BY <2>3, <2>4
<1>2. CASE Give(c)
  <2>1. TypeOK'
    BY <1>2 DEF Give, Write, Move, Nobody, LockInv, TypeOK, Place
  <2>2. \A d \in Cores : ~Inside(d)'
    BY <1>2 DEF Give, Move, LockInv, TypeOK, MutualExclusion, Inside
  <2>3. WatchedFree'
    BY <1>2 DEF Give, Write, Nobody, WatchedFree
  <2> QED BY <2>1, <2>2, <2>3 DEF LockInv, LockTells, MutualExclusion
<1> QED BY <1>1, <1>2

\* The invariant survives every step.
LEMMA NextLockInv == LockInv /\ [Next]_vars => LockInv'
<1> SUFFICES ASSUME LockInv, [Next]_vars PROVE LockInv'
  OBVIOUS
<1>1. ASSUME NEW c \in Cores,
             \/ Look(c) \/ See(c) \/ Win(c) \/ Lose(c)
             \/ Begin(c) \/ Leave(c) \/ Retry(c)
             \/ Take(c) \/ Give(c)
      PROVE  LockInv'
  BY <1>1, LookSteps, SuccessSteps, FailureSteps, SwapSteps
<1>2. CASE Disturb
  BY <1>2 DEF Disturb, Nobody, LockInv, TypeOK, LockTells, WatchedFree, MutualExclusion, Inside
<1>3. CASE UNCHANGED vars
  BY <1>3 DEF vars, LockInv, TypeOK, LockTells, WatchedFree, MutualExclusion, Inside
<1> QED BY <1>1, <1>2, <1>3 DEF Next

\* The lock word tells whether somebody is inside, and a reservation that was
\* taken on a free lock and still stands means that the lock is free.
THEOREM SpinLockInvariant == Spec => []LockInv
<1> QED BY InitLockInv, NextLockInv, PTL DEF Spec

\* At most one core is between spin_lock and spin_unlock, however many cores
\* there are and however often a store-conditional fails.
THEOREM SpinLockExcludes == Spec => []MutualExclusion
<1>1. LockInv => MutualExclusion
  BY DEF LockInv
<1> QED BY <1>1, SpinLockInvariant, PTL
=============================================================================
