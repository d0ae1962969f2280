---------------------------- MODULE DualCoreCode ----------------------------
(* The programs of the two cores, access by access: the launch of core 1     *)
(* (neorv32_smp.c on core 0, the wake-up code of crt0.S on core 1), then one *)
(* of the demos.  "lrsc" guards its output with the compare-and-swap lock of *)
(* demo_dual_core, "swap" with the swap lock of demo_dual_core_rte; in "add" *)
(* both cores count with amoadd.                                             *)
EXTENDS BusSwitch

Core    == {0, 1}
Flavour == {"lrsc", "swap", "add"}

\* Addresses: the lock, a variable behind it, a counter, MTIMECMP[1], MSWI[1],
\* the UART.  The lock and its neighbour share a granule.
CodeAddr == {"lock", "near", "count", "sp", "entry", "mswi", "uart"}
CodeGranule == [a \in CodeAddr |-> CASE a \in {"lock", "near"} -> "data"
                                     [] a = "count" -> "other" [] OTHER -> "io"]

\* Values: spin_lock stores LOCKED; STACK, CRT0 and MAIN stand for addresses.
LOCKED == 1
STACK  == 2
CRT0   == 3
MAIN   == 4

Load(a)        == [op |-> "none", rw |-> 0, addr |-> a, data |-> 0]
Store(a, v)    == [op |-> "none", rw |-> 1, addr |-> a, data |-> v]
LR(a)          == [op |-> "LR", rw |-> 0, addr |-> a, data |-> 0]
SC(a, v)       == [op |-> "SC", rw |-> 1, addr |-> a, data |-> v]
Amo(op, a, v)  == [op |-> op, rw |-> 0, addr |-> a, data |-> v]

\* Places without an access: asleep in wfi, returned, launch given up.
Resting == {"sleep", "done", "failed"}

smp_boot   == [i \in {"sp1", "entry1", "msi1", "poll1", "sp2", "entry2", "msi2", "poll2"} |->
  CASE i \in {"sp1", "sp2"}     -> Store("sp", STACK)
    [] i = "entry1"             -> Store("entry", CRT0)
    [] i = "entry2"             -> Store("entry", MAIN)
    [] i \in {"msi1", "msi2"}   -> Store("mswi", 1)
    [] i \in {"poll1", "poll2"} -> Load("mswi")]

\* Mutant: the software interrupt is not acknowledged.
smp_wakeupDeaf == [i \in {"wake_sp", "wake_entry", "wake_ack"} |->
  CASE i = "wake_sp" -> Load("sp") [] i = "wake_entry" -> Load("entry") [] OTHER -> Load("mswi")]

smp_wakeup == [i \in {"wake_sp", "wake_entry", "wake_ack"} |->
  CASE i = "wake_sp"    -> Load("sp")
    [] i = "wake_entry" -> Load("entry")
    [] i = "wake_ack"   -> Store("mswi", 0)]

spin_lock   == [lock_lr |-> LR("lock"), lock_sc |-> SC("lock", LOCKED),
                lock_swap |-> Amo("SWAP", "lock", LOCKED)]
spin_unlock == [unlock_lr |-> LR("lock"), unlock_sc |-> SC("lock", 0),
                unlock_swap |-> Amo("SWAP", "lock", 0)]
spin_check  == [check |-> LR("lock")]
printing    == [print |-> Store("uart", 0)]
counting    == [i \in {"count1", "count2"} |-> Amo("ADD", "count", 1)]

Instr(pc) ==
  CASE pc \in DOMAIN smp_boot    -> smp_boot[pc]
    [] pc \in DOMAIN smp_wakeup  -> smp_wakeup[pc]
    [] pc \in DOMAIN spin_lock   -> spin_lock[pc]
    [] pc \in DOMAIN spin_unlock -> spin_unlock[pc]
    [] pc \in DOMAIN spin_check  -> spin_check[pc]
    [] pc \in DOMAIN printing    -> printing[pc]
    [] pc \in DOMAIN counting    -> counting[pc]
    [] OTHER                     -> Load("uart")

\* Where main and main_core1 begin after the launch, and what follows unlock.
Begin(flavour) ==
  CASE flavour = "lrsc" -> "lock_lr" [] flavour = "swap" -> "lock_swap" [] OTHER -> "count1"
Unlocked(flavour, c) == IF flavour = "lrsc" /\ c = 0 THEN "check" ELSE "done"

\* Mutant: the second interrupt is raised before the entry point is written.
StraightHasty ==
  [sp1 |-> "entry1", entry1 |-> "msi1", msi1 |-> "poll1",
   sp2 |-> "msi2", msi2 |-> "entry2", entry2 |-> "poll2",
   wake_sp |-> "wake_entry", wake_entry |-> "wake_ack",
   unlock_lr |-> "unlock_sc", count1 |-> "count2", count2 |-> "done"]

Straight == [sp1 |-> "entry1", entry1 |-> "msi1", msi1 |-> "poll1",
             sp2 |-> "entry2", entry2 |-> "msi2", msi2 |-> "poll2",
             wake_sp |-> "wake_entry", wake_entry |-> "wake_ack",
             unlock_lr |-> "unlock_sc", count1 |-> "count2", count2 |-> "done"]

\* The next place, given what the access returned and the entry point core 1
\* has read.
After(flavour, c, pc, val, entry) ==
  CASE pc \in DOMAIN Straight -> Straight[pc]
    [] pc = "poll1"     -> IF val = 0 THEN "sp2" ELSE "poll1"
    [] pc = "poll2"     -> IF val = 0 THEN Begin(flavour) ELSE "poll2"
    [] pc = "wake_ack"  -> IF entry = MAIN THEN Begin(flavour) ELSE "sleep"
    [] pc = "lock_lr"   -> IF val = 0 THEN "lock_sc" ELSE "lock_lr"
    [] pc = "lock_sc"   -> IF val = 0 THEN "print" ELSE "lock_lr"
    [] pc = "lock_swap" -> IF val = 0 THEN "print" ELSE "lock_swap"
    [] pc = "print"     -> IF flavour = "lrsc" THEN "unlock_lr" ELSE "unlock_swap"
    [] pc = "unlock_sc" -> IF val = 0 THEN Unlocked(flavour, c) ELSE "unlock_lr"
    [] pc = "unlock_swap" -> Unlocked(flavour, c)
    [] pc = "check"     -> IF val = 0 THEN "done" ELSE "check"
    [] OTHER            -> pc
=============================================================================
