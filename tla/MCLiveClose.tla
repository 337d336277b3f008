----------------------------- MODULE MCLiveClose -----------------------------
(* Instances of LiveClose for TLC.                                         *)
EXTENDS LiveClose, TLC

CONSTANTS o1, o2, o3

TwoOrders == {o1, o2}
ThreeOrders == {o1, o2, o3}

(* Rows that have not been staged are interchangeable; the resting order   *)
(* is not one of them.                                                     *)
Symmetry == Permutations(Orders \ {Gtc}) \cup Permutations(Closers)
              \cup Permutations(Syncs)
=============================================================================
