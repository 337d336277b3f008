----------------------------- MODULE MCSingleLeg -----------------------------
(***************************************************************************)
(* Instances of SingleLeg for TLC.                                         *)
(***************************************************************************)
EXTENDS SingleLeg, TLC

CONSTANTS a1, d1, d2, r1, r2, k1, k2, k3, s1, s2, m1, m2

(* Two decisions for one portfolio: the first with two candidates, the     *)
(* second with one.                                                        *)
TwoDecisions == r1 :> d1 @@ r2 :> d2
SamePolicy == r1 :> a1 @@ r2 :> a1
TwoAndOne == k1 :> r1 @@ k2 :> r1 @@ k3 :> r2

(* Two of the contracts have a quote: one of each decision, affordable     *)
(* together, or both of the first, the second affordable only once the     *)
(* first has settled. The third is rejected.                               *)
SomeTapes == {k1 :> 1 @@ k2 :> 0 @@ k3 :> 1,
              k1 :> 1 @@ k2 :> 2 @@ k3 :> 0}

Alike == Permutations(Settlers) \cup Permutations(Scans)
=============================================================================
