----------------------------- MODULE MCDualCore -----------------------------
(* Small instances of DualCore: the DMA writes the neighbour of the lock     *)
(* guarded by reservations, and reads the counter; an access of the swapping *)
(* and counting programs ends with a bus error.                              *)
EXTENDS DualCore

Access(rw, a) == [rw |-> rw, addr |-> a, data |-> rw]
MCDmaReqs ==
  [lrsc |-> {Access(1, "near")}, swap |-> {}, add |-> {Access(0, "count")}]
MCMaxErrs == [lrsc |-> 0, swap |-> 1, add |-> 1]
MCNoDma   == [f \in Flavour |-> {}]
MCNoErrs  == [f \in Flavour |-> 0]
=============================================================================
