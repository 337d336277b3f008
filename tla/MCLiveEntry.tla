----------------------------- MODULE MCLiveEntry -----------------------------
(***************************************************************************)
(* Instances of LiveEntry for TLC.                                         *)
(***************************************************************************)
EXTENDS LiveEntry, TLC

CONSTANTS s1, s2, y1

(* Two suggestions on one symbol.                                          *)
SameSymbol == [s \in Suggestions |-> y1]

Alike == Permutations(Suggestions)
=============================================================================
