----------------------------- MODULE MCPaperBook -----------------------------
(***************************************************************************)
(* Instances of PaperBook for TLC.                                         *)
(***************************************************************************)
EXTENDS PaperBook, TLC

CONSTANTS e1, e2

(* Two entries of different strategies, or a second entry into the same.   *)
OwnKeys == [e \in Entries |-> e]
SameKey == [e \in Entries |-> e1]

Sizes == [e \in Entries |-> IF e = e1 THEN 2 ELSE 1]
=============================================================================
