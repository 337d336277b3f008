----------------------------- MODULE ShadowBook -----------------------------
(***************************************************************************)
(* What the open and close RPCs of the single-leg experiment promise of    *)
(* its books: whatever calls overlap, are repeated or given up, each       *)
(* candidate is bought at most once and settled at most once, in one step  *)
(* against the balance of that moment, and a pause lets one order of each  *)
(* run (of each decision and portfolio) through.                           *)
(***************************************************************************)
EXTENDS Integers

CONSTANTS Arms, Runs, Candidates, Arm, Run, Tapes, Start, Payoffs

VARIABLES
  tape,     \* the ask of each candidate
  epoch,    \* state of the experiment
  posn,     \* the position of each candidate
  cash,     \* balance of each portfolio
  netliq,   \* its net liquidation value
  late      \* history: orders per run since the pause

vars == <<tape, epoch, posn, cash, netliq, late>>

Init ==
  /\ tape \in Tapes
  /\ epoch = "absent"
  /\ posn = [k \in Candidates |-> "none"]
  /\ cash = [a \in Arms |-> Start]
  /\ netliq = [a \in Arms |-> Start]
  /\ late = [r \in Runs |-> 0]

(* Buy a candidate for its ask, out of money that is there.                *)
Open(k) ==
  LET a == Arm[k] IN
  /\ \/ epoch = "enabled" /\ UNCHANGED late
     \/ /\ epoch = "paused" /\ late[Run[k]] = 0
        /\ late' = [late EXCEPT ![Run[k]] = 1]
  /\ posn[k] = "none" /\ cash[a] >= tape[k]
  /\ posn' = [posn EXCEPT ![k] = "open"]
  /\ cash' = [cash EXCEPT ![a] = @ - tape[k]]
  /\ UNCHANGED <<tape, epoch, netliq>>

(* Take its payoff, and book the profit.                                   *)
Settle(k, v) ==
  /\ posn[k] = "open"
  /\ posn' = [posn EXCEPT ![k] = "closed"]
  /\ cash' = [cash EXCEPT ![Arm[k]] = @ + v]
  /\ netliq' = [netliq EXCEPT ![Arm[k]] = @ + (v - tape[k])]
  /\ UNCHANGED <<tape, epoch, late>>

Setup ==
  /\ epoch = "absent"
  /\ epoch' = "disabled"
  /\ UNCHANGED <<tape, posn, cash, netliq, late>>

Enable ==
  /\ epoch \in {"disabled", "paused"}
  /\ epoch' = "enabled"
  /\ UNCHANGED <<tape, posn, cash, netliq, late>>

Pause ==
  /\ epoch \in {"disabled", "enabled"}
  /\ epoch' = "paused"
  /\ late' = [r \in Runs |-> 0]
  /\ UNCHANGED <<tape, posn, cash, netliq>>

Next ==
  \/ Setup \/ Enable \/ Pause
  \/ \E k \in Candidates : Open(k) \/ \E v \in Payoffs : Settle(k, v)

Spec == Init /\ [][Next]_vars
=============================================================================
