--------------------------- MODULE PositionTruth ---------------------------
(***************************************************************************)
(* What the close path of a live position promises: the broker holds some  *)
(* contracts, the database says whether the position is closed, and the    *)
(* database follows the broker.  The position is booked closed once, only  *)
(* after the broker sold the last contract, and never reopens.             *)
(***************************************************************************)
EXTENDS Integers

CONSTANT Qty   \* contracts of the position

VARIABLES held,    \* contracts still held at the broker
          booked   \* paper_positions.status: "open" or "closed"

Init == held = Qty /\ booked = "open"

(* The broker fills some of the contracts of a close order.                *)
Sell == /\ held' \in 0 .. Qty
        /\ held' < held
        /\ UNCHANGED booked

(* The close of the row, one way.                                          *)
Book == /\ held = 0
        /\ booked = "open"
        /\ booked' = "closed"
        /\ UNCHANGED held

Next == Sell \/ Book

Spec == Init /\ [][Next]_<<held, booked>>
=============================================================================
