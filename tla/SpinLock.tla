------------------------------ MODULE SpinLock ------------------------------
(* What the spin locks of the dual-core programs promise, one step per       *)
(* atomic access to the lock word: a load-reserved, a store-conditional or a *)
(* swap of one core, or a write of somebody else into the lock's granule.    *)
(* A store-conditional may fail for no reason; it may succeed only if nobody *)
(* wrote to the granule since the core's load-reserved.                      *)
CONSTANT Cores

VARIABLES
  lock,   \* the lock word: 0 or 1
  watch,  \* watch[c]: nothing was written to the granule since c's LR
  at      \* where core c is

vars == <<lock, watch, at>>

\* Outside; read a free lock; inside; inside and about to store 0.
Place == {"out", "try", "cs", "free"}

TypeOK ==
  /\ lock \in {0, 1}
  /\ watch \in [Cores -> BOOLEAN]
  /\ at \in [Cores -> Place]

Nobody == [c \in Cores |-> FALSE]

Init == lock = 0 /\ watch = Nobody /\ at = [c \in Cores |-> "out"]

Move(c, place) == at' = [at EXCEPT ![c] = place]
Reserve(c)     == watch' = [watch EXCEPT ![c] = TRUE]
Drop(c)        == watch' = [watch EXCEPT ![c] = FALSE]
Write(value)   == lock' = value /\ watch' = Nobody

(* spin_lock by compare-and-swap (LR, then SC if the lock is free), and the  *)
(* LR of spin_check.                                                         *)
Look(c)  == at[c] = "out" /\ Reserve(c) /\ UNCHANGED <<lock, at>>
See(c)   == at[c] = "out" /\ lock = 0 /\ Reserve(c) /\ Move(c, "try") /\ UNCHANGED lock
Win(c)   == at[c] = "try" /\ watch[c] /\ Write(1) /\ Move(c, "cs")
Lose(c)  == at[c] = "try" /\ Drop(c) /\ Move(c, "out") /\ UNCHANGED lock

(* spin_unlock by LR and SC. *)
Begin(c) == at[c] = "cs" /\ Reserve(c) /\ Move(c, "free") /\ UNCHANGED lock
Leave(c) == at[c] = "free" /\ watch[c] /\ Write(0) /\ Move(c, "out")
Retry(c) == at[c] = "free" /\ Drop(c) /\ Move(c, "cs") /\ UNCHANGED lock

(* spin_lock and spin_unlock by swaps. *)
Take(c)  == at[c] = "out" /\ Write(1) /\ Move(c, IF lock = 0 THEN "cs" ELSE "out")
Give(c)  == at[c] = "cs" /\ Write(0) /\ Move(c, "out")

\* A write of anybody to another word of the granule.
Disturb == watch' = Nobody /\ UNCHANGED <<lock, at>>

Next ==
  \/ \E c \in Cores :
       \/ Look(c) \/ See(c) \/ Win(c) \/ Lose(c)
       \/ Begin(c) \/ Leave(c) \/ Retry(c)
       \/ Take(c) \/ Give(c)
  \/ Disturb

Spec == Init /\ [][Next]_vars

-----------------------------------------------------------------------------
Inside(c) == at[c] \in {"cs", "free"}

\* At most one core is between spin_lock and spin_unlock.
MutualExclusion == \A c, d \in Cores : Inside(c) /\ Inside(d) => c = d

\* Why: the lock word is 0 only if nobody is inside, and a reservation taken
\* on a free lock is worth something only as long as the lock is free.
LockTells    == lock = 0 => \A c \in Cores : ~Inside(c)
WatchedFree  == \A c \in Cores : at[c] = "try" /\ watch[c] => lock = 0

LockInv == TypeOK /\ LockTells /\ WatchedFree /\ MutualExclusion
=============================================================================
