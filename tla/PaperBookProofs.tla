--------------------------- MODULE PaperBookProofs ---------------------------
(***************************************************************************)
(* Theorems about PaperBook, for every set of orders, positions, runs and  *)
(* closers and every bound on overlaps, failures and crashes.              *)
(***************************************************************************)
EXTENDS PaperBook, SumLemmas, TLAPS

-----------------------------------------------------------------------------
(* However runs overlap, fail or die.                                      *)

Present(o) == orders[o].status # "absent"

(* Stages of a repair, and of a commit.                                    *)
Repairing == {"fix", "link", "audit"}
Committing == {"order", "cashUpdate", "ledger", "find", "position", "newLink",
               "rollback", "status"}

(* A close, once staged, has its position.                                 *)
RowsFit == \A o \in Orders \ Entries : Present(o) => orders[o].link # None

(* The orders in the table.                                                *)
Table == {o \in Orders : Present(o)}

(* What a run holds, of the orders in the table: orphans are entries, and  *)
(* a close it works on has its position.                                   *)
RunOk(s, table) ==
  /\ s.orphans \subseteq Entries /\ s.orphans \subseteq table
  /\ s.todo \subseteq table
  /\ \A o \in s.todo \ Entries : s.snap[o].link # None
  /\ s.pc = "stage" => /\ s.target \in Manual /\ s.found \in Positions
                       /\ s.qty \in Nat
  /\ s.pc \in Repairing => s.cur \in s.orphans
  /\ s.pc = "link" => s.found \in Positions
  /\ s.pc \in Committing => s.cur \in s.todo
  /\ s.pc = "newLink" => s.cur \in Entries /\ s.found \in Positions
  /\ s.pc = "position" /\ s.found = None => s.cur \in Entries

RunFits(r) == RunOk(run[r], Table)

(* What an evaluator holds: an id of its own, not yet in the table, or the *)
(* row it staged, with the position it read.                               *)
CloserFits(c) ==
  /\ closer[c].pc = "idle" => closer[c].order = None
  /\ closer[c].pc # "idle" => /\ closer[c].order \in Internal
                              /\ closer[c].pos \in Positions
                              /\ closer[c].qty \in Nat
  /\ closer[c].pc \in {"check", "stage"} => ~Present(closer[c].order)
  /\ closer[c].pc = "commit" => /\ Present(closer[c].order)
                                /\ orders[closer[c].order].link = closer[c].pos

OwnIds ==
  \A c, d \in Closers :
    c # d /\ closer[c].order # None => closer[c].order # closer[d].order

Fits ==
  /\ TypeOK /\ RowsFit
  /\ \A r \in Runs : RunFits(r)
  /\ \A c \in Closers : CloserFits(c)
  /\ OwnIds

-----------------------------------------------------------------------------
(* While nothing overlaps, fails or dies.                                  *)

(* One run or evaluator at a time.                                         *)
Alone ==
  /\ \A r, q \in Runs : run[r].pc # "idle" /\ run[q].pc # "idle" => r = q
  /\ \A c, d \in Closers : closer[c].pc # "idle" /\ closer[d].pc # "idle" => c = d
  /\ \A r \in Runs, c \in Closers : run[r].pc = "idle" \/ closer[c].pc = "idle"

(* Run r is at one of the stages with order o.                             *)
At(r, stages, o) == run[r].pc \in stages /\ run[r].cur = o

(* The tables.                                                             *)
Tidy ==
  /\ \A o \in Orders : ~Present(o) => orders[o].filled = 0 /\ ledger[o].fill = 0
  /\ \A p \in Positions : /\ pos[p].status = "absent" => pos[p].qty = 0
                          /\ pos[p].status = "closed" => pos[p].qty <= 0
  /\ \A o \in Orders : orders[o].link # None => pos[orders[o].link].status # "absent"

(* A strategy's position is its entry's, linked to it or about to be; a    *)
(* linked entry is filled or about to be; a filled one is linked or being  *)
(* committed; an internal close is committed by the RPC.                   *)
Linked ==
  /\ \A e \in Entries, p \in Positions :
       pos[p].status = "open" /\ pos[p].key = Key[e] =>
         orders[e].link # None \/ \E r \in Runs : At(r, {"newLink"}, e)
  /\ \A e \in Entries : orders[e].link # None =>
         orders[e].status = "filled" \/ \E r \in Runs : At(r, {"status"}, e)
  /\ \A e \in Entries : orders[e].status = "filled" /\ orders[e].link = None =>
         \E r \in Runs : At(r, {"cashUpdate", "ledger", "find", "position",
                                "newLink"}, e)
  /\ \A x \in Internal : Present(x) =>
         orders[x].status = "filled"
           \/ \E c \in Closers : closer[c].pc = "commit" /\ closer[c].order = x

(* What a run read is still so.                                            *)
RunHolds(r) ==
  /\ run[r].pc \notin Repairing \cup {"rollback"} /\ run[r].orphans = {}
  /\ run[r].pc = "idle" => run[r].todo = {}
  /\ run[r].pc = "stage" => /\ ~Present(run[r].target)
                            /\ pos[run[r].found].status # "absent"
  /\ run[r].pc \notin {"idle", "stage", "cash"} => run[r].cash = cash
  /\ run[r].todo \cap Internal = {}
  /\ \A o \in run[r].todo :
       /\ run[r].snap[o].link = orders[o].link \/ At(r, {"status"}, o)
       /\ run[r].snap[o].filled = orders[o].filled
            \/ At(r, Committing \ {"order"}, o)
       /\ o \in Entries => run[r].snap[o].link = None
  /\ run[r].pc \in Committing => run[r].inc > 0
  /\ run[r].pc \in Committing \ {"order"} =>
       orders[run[r].cur].filled = run[r].snap[run[r].cur].filled + run[r].inc
  /\ run[r].pc = "position" =>
       /\ run[r].cur \in Entries => run[r].found = None
       /\ run[r].cur \notin Entries =>
            run[r].found # None /\ run[r].found = orders[run[r].cur].link
       /\ run[r].found # None => run[r].qty = pos[run[r].found].qty
  /\ run[r].pc = "newLink" => pos[run[r].found].status # "absent"
  /\ run[r].pc = "status" /\ run[r].cur \in Entries =>
       orders[run[r].cur].link # None

CloserHolds(c) ==
  closer[c].pc # "idle" =>
    /\ pos[closer[c].pos].status = "open"
    /\ pos[closer[c].pos].qty = closer[c].qty
    /\ closer[c].pc = "commit" => /\ orders[closer[c].order].filled = 0
                                  /\ ~orders[closer[c].order].marked
                                  /\ ledger[closer[c].order].fill = 0

(* The sums of the books, and what a commit under way has not yet written. *)
Contracts == SumOf([p \in Positions |-> pos[p].qty], Positions)
Amounts == SumOf([o \in Orders |-> ledger[o].amount], Orders)
Filled == SumOf([o \in Orders |-> Signed(o, orders[o].filled)], Orders)

Pending(r, stages) ==
  IF run[r].pc \in stages THEN Signed(run[r].cur, run[r].inc) ELSE 0

Balanced(a, b, f) ==
  /\ cash + Contracts + a = Start
  /\ cash + b = Start + Amounts
  /\ Filled = Contracts + f

BooksHold ==
  /\ (\A r \in Runs : run[r].pc = "idle") => Balanced(0, 0, 0)
  /\ \A r \in Runs : run[r].pc # "idle" =>
       Balanced(Pending(r, {"ledger", "find", "position"}),
                Pending(r, {"ledger"}),
                Pending(r, {"cashUpdate", "ledger", "find", "position"}))

Calm ==
  /\ Alone /\ Tidy /\ Linked
  /\ \A r \in Runs : RunHolds(r)
  /\ \A c \in Closers : CloserHolds(c)

Serial == troubles = 0 => Calm /\ BooksHold

-----------------------------------------------------------------------------
(* Lemmas on the values.                                                   *)

(* Ids and constants.                                                      *)
LEMMA Ids ==
  /\ Entries \subseteq Orders /\ Manual \subseteq Orders
  /\ Internal \subseteq Orders
  /\ None \notin Orders /\ None \notin Positions
  /\ \A e \in Entries : e \notin Manual /\ e \notin Internal /\ Qty[e] \in Nat
                       /\ Key[e] \in Keys
  /\ \A m \in Manual : m \notin Entries /\ m \notin Internal
  /\ \A x \in Internal : x \notin Entries /\ x \notin Manual
  /\ \A o \in Orders : o \in Entries \/ o \in Manual \/ o \in Internal
BY BookAssumption DEF Orders

(* The fields of a run.                                                    *)
LEMMA RunParts ==
  ASSUME TypeOK, NEW r \in Runs
  PROVE  /\ run[r] \in RunState
         /\ run[r].target \in Orders \cup {None} /\ run[r].cash \in Int
         /\ run[r].todo \in SUBSET Orders /\ run[r].orphans \in SUBSET Orders
         /\ run[r].snap \in [Orders -> OrderRow]
         /\ run[r].filled \in [Orders -> Nat]
         /\ run[r].cur \in Orders \cup {None} /\ run[r].inc \in Nat
         /\ run[r].found \in Positions \cup {None} /\ run[r].qty \in Int
<1>1. run[r] \in RunState
  BY DEF TypeOK
<1> QED
  BY <1>1 DEF RunState

(* Of an order, and of a position.                                         *)
LEMMA RowParts ==
  ASSUME NEW row \in OrderRow
  PROVE  row.qty \in Nat /\ row.filled \in Nat /\ row.link \in Positions \cup {None}
BY DEF OrderRow

(* A staged row.                                                           *)
LEMMA StagedRow ==
  ASSUME NEW q \in Nat, NEW p \in Positions \cup {None}
  PROVE  /\ Staged(q, p) \in OrderRow /\ Staged(q, p).status = "staged"
         /\ Staged(q, p).filled = 0 /\ Staged(q, p).link = p
         /\ Staged(q, p).marked = FALSE
<1>1. NoOrder \in OrderRow /\ NoOrder.filled = 0 /\ NoOrder.marked = FALSE
  BY DEF NoOrder, OrderRow
<1> QED
  BY <1>1 DEF Staged, OrderRow

(* The states at rest.                                                     *)
LEMMA AtRest ==
  /\ NoOrder \in OrderRow /\ IdleRun \in RunState
  /\ IdleRun.pc = "idle" /\ IdleRun.todo = {} /\ IdleRun.orphans = {}
  /\ IdleRun.target = None /\ IdleRun.cur = None
  /\ IdleCloser \in CloserState /\ IdleCloser.pc = "idle"
  /\ IdleCloser.order = None
<1>1. NoOrder \in OrderRow
  BY DEF NoOrder, OrderRow
<1>2. /\ [o \in Orders |-> NoOrder] \in [Orders -> OrderRow]
      /\ [o \in Orders |-> 0] \in [Orders -> Nat]
  BY <1>1
<1>3. IdleRun \in RunState
  BY <1>2 DEF IdleRun, RunState
<1>4. IdleCloser \in CloserState
  BY DEF IdleCloser, CloserState
<1> QED
  BY <1>1, <1>3, <1>4 DEF IdleRun, IdleCloser

-----------------------------------------------------------------------------
(* What a run may do to the tables.                                        *)

RunSteps(r) == RunBegins(r) \/ RunGoesOn(r) \/ RunCrash(r)

(* Which of its statements touch what.                                     *)
RunTouches(r) ==
  /\ UNCHANGED closer
  /\ \/ UNCHANGED orders
     \/ \E e \in Entries : RunStageEntry(r, e)
     \/ \E o \in Orders : StaleCancel(r, o) \/ NoFill(r, o)
     \/ RunStageClose(r) \/ RepairLink(r) \/ CommitOrder(r) \/ CommitLink(r)
     \/ CommitStatus(r) \/ Rollback(r)
  /\ \/ UNCHANGED pos
     \/ RepairInsert(r) \/ RepairMerge(r) \/ CommitPosition(r) \/ CommitClose(r)
  /\ UNCHANGED cash \/ CommitCash(r)
  /\ UNCHANGED ledger \/ RepairLedger(r) \/ CommitLedger(r)
  /\ troubles \in Nat => troubles' \in Nat /\ troubles <= troubles'

(* Every step of a run does.                                               *)
LEMMA RunTouching ==
  ASSUME NEW r \in Runs, RunSteps(r)
  PROVE  RunTouches(r)
<1> USE DEF RunTouches, Steady, Fails, Begin
<1>1. CASE RunBegins(r)
  <2>1. CASE RunStart(r)
    BY <2>1 DEF RunStart
  <2>2. ASSUME NEW e \in Entries, RunStageEntry(r, e) PROVE RunTouches(r)
    <3>1. /\ UNCHANGED <<closer, pos, cash, ledger>>
          /\ troubles \in Nat => troubles' \in Nat /\ troubles <= troubles'
      BY <2>2 DEF RunStageEntry
    <3> QED
      BY <2>2, <3>1
  <2>3. ASSUME NEW m \in Manual, NEW p \in Positions,
               RunReadPosition(r, m, p)
        PROVE  RunTouches(r)
    BY <2>3 DEF RunReadPosition
  <2> QED
    BY <1>1, <2>1, <2>2, <2>3 DEF RunBegins
<1>2. CASE RunGoesOn(r)
  <2>1. CASE RunStageClose(r)
    BY <2>1 DEF RunStageClose
  <2>2. CASE RunReadCash(r)
    BY <2>2 DEF RunReadCash
  <2>3. CASE RunSelect(r)
    BY <2>3 DEF RunSelect
  <2>4. CASE RunSelectOrphans(r)
    BY <2>4 DEF RunSelectOrphans
  <2>5. ASSUME NEW o \in Orders, RepairFind(r, o) PROVE RunTouches(r)
    BY <2>5 DEF RepairFind
  <2>6. CASE RepairInsert(r)
    <3>1. /\ UNCHANGED <<closer, orders, cash, ledger>>
          /\ troubles \in Nat => troubles' \in Nat /\ troubles <= troubles'
      BY <2>6 DEF RepairInsert
    <3> QED
      BY <2>6, <3>1
  <2>7. CASE RepairMerge(r)
    BY <2>7 DEF RepairMerge
  <2>8. CASE RepairLink(r)
    BY <2>8 DEF RepairLink
  <2>9. CASE RepairLedger(r)
    BY <2>9 DEF RepairLedger
  <2>10. CASE RepairFails(r)
    BY <2>10 DEF RepairFails
  <2>11. ASSUME NEW o \in Orders, StaleCancel(r, o) PROVE RunTouches(r)
    <3>1. /\ UNCHANGED <<closer, pos, cash, ledger>>
          /\ troubles \in Nat => troubles' \in Nat /\ troubles <= troubles'
      BY <2>11 DEF StaleCancel
    <3> QED
      BY <2>11, <3>1
  <2>12. ASSUME NEW o \in Orders, NoFill(r, o) PROVE RunTouches(r)
    <3>1. /\ UNCHANGED <<closer, pos, cash, ledger>>
          /\ troubles \in Nat => troubles' \in Nat /\ troubles <= troubles'
      BY <2>12 DEF NoFill
    <3> QED
      BY <2>12, <3>1
  <2>13. ASSUME NEW o \in Orders, Fill(r, o) PROVE RunTouches(r)
    BY <2>13 DEF Fill
  <2>14. CASE CommitOrder(r)
    BY <2>14 DEF CommitOrder
  <2>15. CASE CommitCash(r)
    BY <2>15 DEF CommitCash
  <2>16. CASE CommitLedger(r)
    BY <2>16 DEF CommitLedger
  <2>17. CASE CommitFind(r)
    BY <2>17 DEF CommitFind
  <2>18. CASE CommitPosition(r)
    <3>1. UNCHANGED <<closer, orders, cash, ledger, troubles>>
      BY <2>18, Zenon DEF CommitPosition
    <3> QED
      BY <2>18, <3>1
  <2>19. CASE CommitClose(r)
    BY <2>19 DEF CommitClose
  <2>20. CASE CommitLink(r)
    BY <2>20 DEF CommitLink
  <2>21. CASE CommitStatus(r)
    BY <2>21 DEF CommitStatus
  <2>22. CASE CommitFails(r)
    BY <2>22 DEF CommitFails
  <2>23. CASE PositionFails(r)
    BY <2>23 DEF PositionFails
  <2>24. CASE Rollback(r)
    BY <2>24 DEF Rollback
  <2>25. CASE RunDone(r)
    BY <2>25 DEF RunDone
  <2> QED
    BY <1>2, <2>1, <2>2, <2>3, <2>4, <2>5, <2>6, <2>7, <2>8, <2>9, <2>10,
       <2>11, <2>12, <2>13, <2>14, <2>15, <2>16, <2>17, <2>18, <2>19, <2>20,
       <2>21, <2>22, <2>23, <2>24, <2>25 DEF RunGoesOn
<1>3. CASE RunCrash(r)
  BY <1>3 DEF RunCrash
<1> QED
  BY <1>1, <1>2, <1>3 DEF RunSteps

(* A row stays in the table; an internal close is not linked, marked or    *)
(* inserted by a run; nothing is marked by one.                            *)
Edit(o) ==
  /\ Present(o) => Present(o)'
  /\ o \in Internal => /\ Present(o)' => Present(o)
                       /\ orders'[o].link = orders[o].link
                       /\ orders'[o].marked = orders[o].marked
  /\ o \in Manual => (Present(o)' => orders'[o].link # None)
  /\ orders'[o].marked => orders[o].marked

Edits == orders' \in [Orders -> OrderRow] /\ \A o \in Orders : Edit(o)

(* One row is rewritten.                                                   *)
LEMMA EditOne ==
  ASSUME TypeOK, RowsFit, NEW o \in Orders, NEW row \in OrderRow,
         orders' = [orders EXCEPT ![o] = row], row.status # "absent",
         o \in Internal => /\ Present(o) /\ row.link = orders[o].link
                          /\ row.marked = orders[o].marked,
         o \in Manual => row.link # None,
         row.marked => orders[o].marked
  PROVE  Edits
<1>1. orders \in [Orders -> OrderRow]
  BY DEF TypeOK
<1>2. orders'[o] = row /\ \A q \in Orders : q # o => orders'[q] = orders[q]
  BY <1>1
<1>3. orders' \in [Orders -> OrderRow]
  BY <1>1
<1>4. Edit(o)
  BY <1>2 DEF Edit, Present
<1>5. ASSUME NEW q \in Orders, q # o PROVE Edit(q)
  BY <1>2, <1>5, Ids DEF Edit, Present, RowsFit
<1> QED
  BY <1>3, <1>4, <1>5 DEF Edits

(* None is.                                                                *)
LEMMA EditNone == ASSUME TypeOK, RowsFit, UNCHANGED orders PROVE Edits
  BY Ids DEF TypeOK, RowsFit, Edits, Edit, Present

(* An order a run works on: its row, and what is known of it.              *)
LEMMA RunOrder ==
  ASSUME Fits, NEW r \in Runs
  PROVE  /\ run[r].todo \subseteq Table /\ run[r].orphans \subseteq Table
         /\ run[r].orphans \subseteq Entries
         /\ Table \subseteq Orders
         /\ \A o \in Table : /\ o \in Orders /\ Present(o)
                             /\ orders[o] \in OrderRow
                             /\ o \in Manual => orders[o].link # None
         /\ run[r].pc \in Repairing => run[r].cur \in run[r].orphans
         /\ run[r].pc \in Committing => run[r].cur \in run[r].todo
<1>1. RunOk(run[r], Table)
  BY DEF Fits, RunFits
<1>2. orders \in [Orders -> OrderRow] /\ RowsFit
  BY DEF Fits, TypeOK
<1> QED
  BY <1>1, <1>2, Ids DEF RunOk, Table, RowsFit

(* A row in the table gets a status, and a fill.                           *)
LEMMA EditStatus ==
  ASSUME Fits, NEW o \in Table, NEW q \in Nat,
         NEW st \in {"working", "partial", "filled", "cancelled"},
         \/ orders' = [orders EXCEPT ![o] = [@ EXCEPT !.status = st]]
         \/ SetFill(o, st, q)
  PROVE  Edits
<1>0. /\ TypeOK /\ RowsFit /\ o \in Orders /\ orders[o] \in OrderRow /\ Present(o)
      /\ o \in Manual => orders[o].link # None
  BY Ids DEF Fits, TypeOK, Table, RowsFit
<1>1. CASE orders' = [orders EXCEPT ![o] = [@ EXCEPT !.status = st]]
  <2> DEFINE row == [orders[o] EXCEPT !.status = st]
  <2>1. /\ row \in OrderRow /\ row.status # "absent" /\ row.link = orders[o].link
        /\ row.marked = orders[o].marked
    BY <1>0 DEF OrderRow
  <2>2. orders' = [orders EXCEPT ![o] = row]
    BY <1>1
  <2> HIDE DEF row
  <2> QED
    BY <1>0, <2>1, <2>2, EditOne
<1>2. CASE SetFill(o, st, q)
  <2> DEFINE row == [orders[o] EXCEPT !.status = st, !.filled = q]
  <2>1. /\ row \in OrderRow /\ row.status # "absent" /\ row.link = orders[o].link
        /\ row.marked = orders[o].marked
    BY <1>0 DEF OrderRow
  <2>2. orders' = [orders EXCEPT ![o] = row]
    BY <1>2 DEF SetFill
  <2> HIDE DEF row
  <2> QED
    BY <1>0, <2>1, <2>2, EditOne
<1> QED
  BY <1>1, <1>2

(* An entry in the table gets its position.                                *)
LEMMA EditLink ==
  ASSUME Fits, NEW o \in Table, o \in Entries, NEW p \in Positions,
         orders' = [orders EXCEPT ![o] = [@ EXCEPT !.link = p]]
  PROVE  Edits
<1>0. /\ TypeOK /\ RowsFit /\ o \in Orders /\ orders[o] \in OrderRow /\ Present(o)
      /\ o \notin Manual /\ o \notin Internal
  BY Ids DEF Fits, TypeOK, Table
<1> DEFINE row == [orders[o] EXCEPT !.link = p]
<1>1. /\ row \in OrderRow /\ row.status # "absent"
      /\ row.marked = orders[o].marked
  BY <1>0 DEF OrderRow, Present
<1>2. orders' = [orders EXCEPT ![o] = row]
  OBVIOUS
<1> HIDE DEF row
<1> QED
  BY <1>0, <1>1, <1>2, EditOne

(* A run's new order.                                                      *)
LEMMA EditStaged ==
  ASSUME Fits, NEW o \in Entries \cup Manual, NEW q \in Nat,
         NEW p \in Positions \cup {None}, o \in Manual => p # None,
         orders' = [orders EXCEPT ![o] = Staged(q, p)]
  PROVE  Edits
<1>1. TypeOK /\ RowsFit /\ o \in Orders /\ o \notin Internal
  BY Ids DEF Fits
<1>2. /\ Staged(q, p) \in OrderRow /\ Staged(q, p).status = "staged"
      /\ Staged(q, p).link = p /\ Staged(q, p).marked = FALSE
  BY StagedRow
<1> QED
  BY <1>1, <1>2, EditOne

(* What a commit computes.                                                 *)
LEMMA Computed ==
  ASSUME Fits, NEW r \in Runs, run[r].pc \in Committing
  PROVE  /\ run[r].cur \in Orders /\ run[r].cur \in Table
         /\ Total(r) \in Nat /\ Delta(r) \in Int
         /\ Signed(run[r].cur, run[r].inc) \in Int
<1>0. TypeOK
  BY DEF Fits
<1>1. run[r].cur \in Orders /\ run[r].cur \in Table
  BY RunOrder
<1>2. run[r].snap[run[r].cur] \in OrderRow /\ run[r].inc \in Nat
  BY <1>0, <1>1, RunParts
<1>3. run[r].snap[run[r].cur].filled \in Nat
  BY <1>2, RowParts
<1> QED
  BY <1>1, <1>2, <1>3 DEF Total, Delta, Signed

(* Whatever a run does, the orders are edited.                             *)
LEMMA RunEdits ==
  ASSUME Fits, NEW r \in Runs, RunSteps(r)
  PROVE  Edits
<1>0. /\ TypeOK /\ RowsFit /\ RunTouches(r) /\ RunFits(r)
      /\ run[r].pc \in Committing => run[r].cur \in Table /\ Total(r) \in Nat
  BY RunTouching, Computed DEF Fits
<1>1. CASE UNCHANGED orders
  BY <1>0, <1>1, EditNone
<1>2. ASSUME NEW e \in Entries, RunStageEntry(r, e) PROVE Edits
  <2>1. orders' = [orders EXCEPT ![e] = Staged(Qty[e], None)]
    BY <1>2 DEF RunStageEntry
  <2> QED
    BY <2>1, Ids, EditStaged
<1>3. ASSUME NEW o \in Orders, StaleCancel(r, o) PROVE Edits
  <2>1. /\ o \in Table
        /\ orders' = [orders EXCEPT ![o] = [@ EXCEPT !.status = "cancelled"]]
    BY <1>3, RunOrder DEF StaleCancel
  <2> QED
    BY <2>1, EditStatus
<1>4. ASSUME NEW o \in Orders, NoFill(r, o) PROVE Edits
  <2>1. /\ o \in Table
        /\ \/ orders' = [orders EXCEPT ![o] = [@ EXCEPT !.status = "working"]]
           \/ UNCHANGED orders
    BY <1>4, RunOrder DEF NoFill, InLoop
  <2> QED
    BY <1>0, <2>1, EditStatus, EditNone
<1>5. CASE RunStageClose(r)
  <2>1. /\ run[r].target \in Manual /\ run[r].found \in Positions
        /\ run[r].qty \in Nat
        /\ orders' = [orders EXCEPT ![run[r].target] =
                        Staged(run[r].qty, run[r].found)]
    BY <1>0, <1>5 DEF RunStageClose, RunFits, RunOk
  <2> QED
    BY <2>1, Ids, EditStaged
<1>6. CASE RepairLink(r)
  <2>1. /\ run[r].cur \in Table /\ run[r].cur \in Entries
        /\ run[r].found \in Positions
        /\ orders' = [orders EXCEPT ![run[r].cur] =
                        [@ EXCEPT !.link = run[r].found]]
    BY <1>0, <1>6, RunOrder DEF RepairLink, RunFits, RunOk, Repairing
  <2> QED
    BY <2>1, EditLink
<1>7. CASE CommitOrder(r)
  <2>1. /\ run[r].pc \in Committing
        /\ SetFill(run[r].cur, IF IsPartial(r) THEN "partial" ELSE "filled",
                   Total(r))
    BY <1>7 DEF CommitOrder, Committing
  <2>2. (IF IsPartial(r) THEN "partial" ELSE "filled") \in {"partial", "filled"}
    OBVIOUS
  <2> QED
    BY <1>0, <2>1, <2>2, EditStatus
<1>8. CASE CommitLink(r)
  <2>1. /\ run[r].cur \in Table /\ run[r].cur \in Entries
        /\ run[r].found \in Positions
        /\ orders' = [orders EXCEPT ![run[r].cur] =
                        [@ EXCEPT !.link = run[r].found]]
    BY <1>0, <1>8, RunOrder DEF CommitLink, RunFits, RunOk, Committing
  <2> QED
    BY <2>1, EditLink
<1>9. CASE CommitStatus(r)
  <2>1. /\ run[r].pc \in Committing
        /\ UNCHANGED orders \/ SetFill(run[r].cur, "filled", Total(r))
    BY <1>9 DEF CommitStatus, Committing
  <2> QED
    BY <1>0, <2>1, EditStatus, EditNone
<1>10. CASE Rollback(r)
  <2>1. /\ run[r].pc \in Committing
        /\ UNCHANGED orders \/ SetFill(run[r].cur, "working", 0)
    BY <1>10 DEF Rollback, Committing
  <2> QED
    BY <1>0, <2>1, EditStatus, EditNone
<1> QED
  BY <1>0, <1>1, <1>2, <1>3, <1>4, <1>5, <1>6, <1>7, <1>8, <1>9, <1>10
     DEF RunTouches

-----------------------------------------------------------------------------
(* The other tables.                                                       *)

(* A closed position stays closed.                                         *)
Closes ==
  /\ pos' \in [Positions -> PosRow]
  /\ \A p \in Positions : pos[p].status = "closed" => pos'[p].status = "closed"

(* One position is rewritten.                                              *)
LEMMA CloseOne ==
  ASSUME TypeOK, NEW p \in Positions, NEW row \in PosRow,
         pos' = [pos EXCEPT ![p] = row],
         pos[p].status = "closed" => row.status = "closed"
  PROVE  Closes
BY DEF TypeOK, Closes

(* A position with a new status and quantity; one that is closed.          *)
LEMMA PosSet ==
  ASSUME NEW row \in PosRow, NEW q \in Int,
         NEW st \in {"absent", "open", "closed"}
  PROVE  /\ [row EXCEPT !.status = st, !.qty = q] \in PosRow
         /\ [row EXCEPT !.status = st, !.qty = q].status = st
         /\ [row EXCEPT !.status = st, !.qty = q].qty = q
         /\ [row EXCEPT !.status = st, !.qty = q].key = row.key
BY DEF PosRow

(* A position closed with nothing left.                                    *)
LEMMA Shut ==
  ASSUME NEW row \in PosRow
  PROVE  /\ [row EXCEPT !.status = "closed", !.qty = 0] \in PosRow
         /\ [row EXCEPT !.status = "closed", !.qty = 0].status = "closed"
         /\ [row EXCEPT !.status = "closed", !.qty = 0].qty = 0
         /\ [row EXCEPT !.status = "closed", !.qty = 0].key = row.key
<1>1. 0 \in Int /\ "closed" \in {"absent", "open", "closed"}
  OBVIOUS
<1> QED
  BY <1>1, PosSet, Zenon

(* An insert takes an unused id.                                           *)
LEMMA InsertCloses ==
  ASSUME TypeOK, NEW e \in Entries, NEW q \in Int, NEW p \in Fresh,
         Insert(e, q, p)
  PROVE  Closes /\ p \in Positions
<1> DEFINE row == [status |-> "open", qty |-> q, key |-> Key[e]]
<1>1. row \in PosRow
  BY Ids DEF PosRow
<1>2. /\ p \in Positions /\ pos[p].status = "absent"
      /\ pos' = [pos EXCEPT ![p] = row]
  BY DEF Insert, Fresh
<1> HIDE DEF row
<1> QED
  BY <1>1, <1>2, CloseOne

(* Whatever a run does.                                                    *)
LEMMA RunCloses ==
  ASSUME Fits, NEW r \in Runs, RunSteps(r)
  PROVE  Closes
<1>0. TypeOK /\ RunTouches(r) /\ RunFits(r)
  BY RunTouching DEF Fits
<1>t. /\ run[r].found \in Positions \cup {None} /\ run[r].qty \in Int
      /\ run[r].inc \in Nat /\ run[r].filled \in [Orders -> Nat]
      /\ run[r].cur \in Orders \cup {None}
      /\ \A p \in Positions : pos[p] \in PosRow
  BY <1>0, RunParts DEF TypeOK
<1>1. CASE UNCHANGED pos
  BY <1>0, <1>1 DEF TypeOK, Closes
<1>2. CASE RepairInsert(r)
  <2>1. run[r].cur \in Entries
    BY <1>0, <1>2 DEF RepairInsert, RunFits, RunOk, Repairing
  <2>2. run[r].filled[run[r].cur] \in Nat
    BY <1>t, <2>1, Ids
  <2>3. PICK p \in Fresh : Insert(run[r].cur, run[r].filled[run[r].cur], p)
    BY <1>2, Zenon DEF RepairInsert
  <2>4. run[r].filled[run[r].cur] \in Int
    BY <2>2
  <2> QED
    BY <1>0, <2>1, <2>3, <2>4, InsertCloses
<1>3. CASE RepairMerge(r)
  <2> DEFINE p == run[r].found
             q == run[r].qty + run[r].filled[run[r].cur]
             st == IF q = 0 THEN "closed" ELSE pos[p].status
             row == [pos[p] EXCEPT !.qty = q, !.status = st]
  <2>1. run[r].cur \in Orders /\ p \in Positions
    BY <1>0, <1>3, <1>t, RunOrder DEF RepairMerge, Repairing
  <2>2. pos[p] \in PosRow /\ q \in Int
    BY <1>t, <2>1
  <2>3. pos[p].status \in {"absent", "open", "closed"}
    BY <2>2 DEF PosRow
  <2> HIDE DEF q
  <2>4. st \in {"absent", "open", "closed"}
    BY <2>3
  <2>6. pos[p].status = "closed" => st = "closed"
    OBVIOUS
  <2>7. UNCHANGED pos \/ pos' = [pos EXCEPT ![p] = row]
    BY <1>3, Zenon DEF RepairMerge, q
  <2> HIDE DEF st
  <2>5. row \in PosRow /\ row.status = st
    BY <2>2, <2>4 DEF PosRow
  <2> HIDE DEF row
  <2>8. CASE pos' = [pos EXCEPT ![p] = row]
    BY <1>0, <2>1, <2>5, <2>6, <2>8, CloseOne
  <2> QED
    BY <1>1, <2>7, <2>8
<1>4. CASE CommitPosition(r)
  <2> DEFINE q == run[r].qty + Signed(run[r].cur, run[r].inc)
  <2>0. run[r].pc = "position"
    BY <1>4, Zenon DEF CommitPosition
  <2>1. q \in Int
    BY <1>t DEF Signed
  <2>2. CASE run[r].found = None
    <3>1. run[r].cur \in Entries
      BY <1>0, <2>0, <2>2 DEF RunFits, RunOk
    <3>2. PICK p \in Fresh : Insert(run[r].cur, run[r].inc, p)
      BY <1>4, <2>2, Zenon DEF CommitPosition
    <3>3. run[r].inc \in Int
      BY <1>t
    <3> QED
      BY <1>0, <3>1, <3>2, <3>3, InsertCloses
  <2>3. CASE run[r].found # None
    <3> DEFINE p == run[r].found
               row == [pos[p] EXCEPT !.qty = q]
    <3>1. p \in Positions
      BY <1>t, <2>3
    <3>2. row \in PosRow /\ row.status = pos[p].status
      BY <1>t, <2>1, <3>1 DEF PosRow
    <3>3. SetQty(run[r].found, q)
      BY <1>4, <2>3, Zenon DEF CommitPosition
    <3>4. pos' = [pos EXCEPT ![p] = row]
      BY <3>3 DEF SetQty
    <3> HIDE DEF row
    <3> QED
      BY <1>0, <3>1, <3>2, <3>4, CloseOne
  <2> QED
    BY <2>2, <2>3
<1>5. CASE CommitClose(r)
  <2> DEFINE p == run[r].found
             row == [pos[p] EXCEPT !.status = "closed", !.qty = 0]
  <2>1. p \in Positions
    BY <1>5, <1>t DEF CommitClose
  <2>2. row \in PosRow /\ row.status = "closed"
    <3>1. pos[p] \in PosRow
      BY <1>t, <2>1
    <3> QED
      BY <3>1, Shut
  <2>3. UNCHANGED pos \/ pos' = [pos EXCEPT ![p] = row]
    BY <1>5 DEF CommitClose
  <2> HIDE DEF row
  <2>4. CASE pos' = [pos EXCEPT ![p] = row]
    BY <1>0, <2>1, <2>2, <2>4, CloseOne
  <2> QED
    BY <1>1, <2>3, <2>4
<1> QED
  BY <1>0, <1>1, <1>2, <1>3, <1>4, <1>5 DEF RunTouches

(* Cash and ledger.                                                        *)
Entered ==
  /\ cash' \in Int
  /\ ledger' \in [Orders -> [fill : Nat, partial : Nat, amount : Int]]

(* A ledger row gets another entry.                                        *)
LEMMA LedgerSet ==
  ASSUME NEW row \in [fill : Nat, partial : Nat, amount : Int], NEW a \in Int
  PROVE  /\ [row EXCEPT !.fill = @ + 1, !.amount = @ + a]
              \in [fill : Nat, partial : Nat, amount : Int]
         /\ [row EXCEPT !.partial = @ + 1, !.amount = @ + a]
              \in [fill : Nat, partial : Nat, amount : Int]
         /\ [row EXCEPT !.fill = 1, !.amount = a]
              \in [fill : Nat, partial : Nat, amount : Int]
<1>1. row.fill \in Nat /\ row.partial \in Nat /\ row.amount \in Int
  OBVIOUS
<1>2. row.fill + 1 \in Nat /\ row.partial + 1 \in Nat /\ row.amount + a \in Int
  BY <1>1
<1>3. [row EXCEPT !.fill = @ + 1, !.amount = @ + a]
         \in [fill : Nat, partial : Nat, amount : Int]
  BY <1>2
<1>4. [row EXCEPT !.partial = @ + 1, !.amount = @ + a]
         \in [fill : Nat, partial : Nat, amount : Int]
  BY <1>2
<1>5. [row EXCEPT !.fill = 1, !.amount = a]
         \in [fill : Nat, partial : Nat, amount : Int]
  OBVIOUS
<1> QED
  BY <1>3, <1>4, <1>5

(* Whatever a run does.                                                    *)
LEMMA RunEnters ==
  ASSUME Fits, NEW r \in Runs, RunSteps(r)
  PROVE  Entered
<1> DEFINE L == [fill : Nat, partial : Nat, amount : Int]
<1>0. TypeOK /\ RunTouches(r)
  BY RunTouching DEF Fits
<1>t. /\ cash \in Int /\ ledger \in [Orders -> L] /\ run[r].cash \in Int
      /\ run[r].filled \in [Orders -> Nat]
      /\ run[r].pc \in Committing => run[r].cur \in Orders /\ Delta(r) \in Int
  BY <1>0, RunParts, Computed DEF TypeOK
<1> HIDE DEF L
<1>1. CommitCash(r) => cash' \in Int
  BY <1>t DEF CommitCash, Committing
<1>2. ASSUME RepairLedger(r) PROVE ledger' \in [Orders -> L]
  <2> DEFINE o == run[r].cur
             row == [ledger[o] EXCEPT !.fill = 1, !.amount = 0 - run[r].filled[o]]
  <2>1. o \in Orders
    BY <1>2, RunOrder DEF RepairLedger, Repairing
  <2>2. ledger[o] \in L /\ 0 - run[r].filled[o] \in Int
    BY <1>t, <2>1
  <2>3. row \in L
    BY <2>2, LedgerSet DEF L
  <2>4. UNCHANGED ledger \/ ledger' = [ledger EXCEPT ![o] = row]
    BY <1>2 DEF RepairLedger
  <2> HIDE DEF row
  <2> QED
    BY <1>t, <2>1, <2>3, <2>4
<1>3. ASSUME CommitLedger(r) PROVE ledger' \in [Orders -> L]
  <2> DEFINE o == run[r].cur
             part == IF IsPartial(r) THEN 1 ELSE 0
             row == [fill |-> ledger[o].fill + 1 - part,
                     partial |-> ledger[o].partial + part,
                     amount |-> ledger[o].amount + Delta(r)]
  <2>1. o \in Orders /\ Delta(r) \in Int
    BY <1>3, <1>t DEF CommitLedger, Committing
  <2>2. ledger[o] \in L
    BY <1>t, <2>1
  <2>3. row \in L
    <3>1. /\ ledger[o].fill \in Nat /\ ledger[o].partial \in Nat
          /\ ledger[o].amount \in Int /\ part \in {0, 1}
      BY <2>2 DEF L
    <3> HIDE DEF part
    <3> QED
      BY <2>1, <3>1 DEF L
  <2>4. UNCHANGED ledger \/ ledger' = [ledger EXCEPT ![o] = row]
    BY <1>3, Zenon DEF CommitLedger
  <2> HIDE DEF row
  <2> QED
    BY <1>t, <2>1, <2>3, <2>4
<1>4. cash' \in Int
  BY <1>0, <1>1, <1>t DEF RunTouches
<1>5. ledger' \in [Orders -> L]
  BY <1>0, <1>2, <1>3, <1>t DEF RunTouches
<1> QED
  BY <1>4, <1>5 DEF Entered, L

-----------------------------------------------------------------------------
(* What a run holds, after its own steps.                                  *)

(* The run's new state is s, and it fits.                                  *)
RunGoesTo(r, s) ==
  /\ s \in RunState /\ run' = [run EXCEPT ![r] = s] /\ RunOk(s, Table')

(* A run that only moves on.                                               *)
LEMMA GoesOk ==
  ASSUME Fits, Edits, NEW r \in Runs,
         NEW pc \in {"rollback", "status", "link", "audit", "cashUpdate", "find"},
         Goes(r, pc),
         pc = "link" => run[r].pc \in Repairing /\ run[r].found \in Positions,
         pc = "audit" => run[r].pc \in Repairing,
         pc \in Committing => run[r].pc \in Committing
  PROVE  \E s \in RunState : RunGoesTo(r, s)
<1> DEFINE s == [run[r] EXCEPT !.pc = pc]
<1>1. run[r] \in RunState /\ RunOk(run[r], Table) /\ Table \subseteq Table'
  BY DEF Fits, TypeOK, RunFits, Edits, Edit, Table
<1>2. run' = [run EXCEPT ![r] = s]
  BY DEF Goes
<1>3. /\ s \in RunState /\ s.pc = pc /\ s.orphans = run[r].orphans
      /\ s.todo = run[r].todo /\ s.snap = run[r].snap /\ s.cur = run[r].cur
      /\ s.found = run[r].found
  BY <1>1 DEF RunState
<1> HIDE DEF s
<1>4. RunOk(s, Table')
  BY <1>1, <1>3 DEF RunOk, Repairing, Committing
<1> QED
  BY <1>2, <1>3, <1>4 DEF RunGoesTo

(* On to the next orphan, or the next order.                               *)
LEMMA NextOk ==
  ASSUME Fits, Edits, NEW r \in Runs,
         \/ NextOrphan(r) /\ run[r].pc \in Repairing
         \/ NextOrder(r) /\ run[r].pc \in Committing
  PROVE  \E s \in RunState : RunGoesTo(r, s)
<1>1. /\ run[r] \in RunState /\ RunOk(run[r], Table) /\ Table \subseteq Table'
      /\ TypeOK
  BY DEF Fits, TypeOK, RunFits, Edits, Edit, Table
<1>2. CASE NextOrphan(r) /\ run[r].pc \in Repairing
  <2> DEFINE zero == 0
             rest == run[r].orphans \ {run[r].cur}
             fill == [run[r].filled EXCEPT ![run[r].cur] = 0]
             s == [run[r] EXCEPT !.pc = "loop", !.cur = None, !.found = None,
                     !.qty = zero, !.orphans = rest, !.filled = fill]
  <2>1. run' = [run EXCEPT ![r] = s] /\ zero \in Int
    BY <1>2 DEF NextOrphan
  <2>2. rest \in SUBSET Orders /\ fill \in [Orders -> Nat]
    BY <1>1, RunParts
  <2> HIDE DEF rest, fill, zero
  <2>3. /\ s \in RunState /\ s.pc = "loop" /\ s.orphans = rest
        /\ s.todo = run[r].todo /\ s.snap = run[r].snap
    BY <1>1, <2>1, <2>2 DEF RunState
  <2> HIDE DEF s
  <2>4. RunOk(s, Table')
    BY <1>1, <2>3 DEF RunOk, rest, Repairing, Committing
  <2> QED
    BY <2>1, <2>3, <2>4 DEF RunGoesTo
<1>3. CASE NextOrder(r) /\ run[r].pc \in Committing
  <2> DEFINE zero == 0
             rest == run[r].todo \ {run[r].cur}
             seen == [run[r].snap EXCEPT ![run[r].cur] = NoOrder]
             w == [run[r] EXCEPT !.todo = rest, !.snap = seen]
             nil == 0
             s == [w EXCEPT !.pc = "loop", !.cur = None, !.inc = zero,
                            !.found = None, !.qty = nil]
  <2>1. run' = [run EXCEPT ![r] = s] /\ zero \in Nat /\ nil \in Int
    BY <1>3 DEF NextOrder, Without
  <2>2. rest \in SUBSET Orders /\ seen \in [Orders -> OrderRow]
    BY <1>1, RunParts, AtRest
  <2>3. \A o \in rest : seen[o] = run[r].snap[o]
    BY <1>1, RunParts
  <2> HIDE DEF rest, seen, zero, nil
  <2>4. /\ w \in RunState /\ w.orphans = run[r].orphans /\ w.todo = rest
        /\ w.snap = seen
    BY <1>1, <2>2 DEF RunState
  <2> HIDE DEF w
  <2>5. /\ s \in RunState /\ s.pc = "loop" /\ s.orphans = run[r].orphans
        /\ s.todo = rest /\ s.snap = seen
    BY <2>1, <2>4 DEF RunState
  <2> HIDE DEF s
  <2>6. RunOk(s, Table')
    BY <1>1, <2>3, <2>5 DEF RunOk, rest, Repairing, Committing
  <2> QED
    BY <2>1, <2>5, <2>6 DEF RunGoesTo
<1> QED
  BY <1>2, <1>3

(* An order is left as it is.                                              *)
LEMMA WithoutOk ==
  ASSUME Fits, Edits, NEW r \in Runs, NEW o \in Orders, run[r].pc = "loop",
         run' = [run EXCEPT ![r] = Without(@, o)]
  PROVE  \E s \in RunState : RunGoesTo(r, s)
<1>1. /\ run[r] \in RunState /\ RunOk(run[r], Table) /\ Table \subseteq Table'
      /\ TypeOK
  BY DEF Fits, TypeOK, RunFits, Edits, Edit, Table
<1> DEFINE rest == run[r].todo \ {o}
           seen == [run[r].snap EXCEPT ![o] = NoOrder]
           w == [run[r] EXCEPT !.todo = rest, !.snap = seen]
<1>2. run' = [run EXCEPT ![r] = w]
  BY DEF Without
<1>3. rest \in SUBSET Orders /\ seen \in [Orders -> OrderRow]
  BY <1>1, RunParts, AtRest
<1>4. \A q \in rest : seen[q] = run[r].snap[q]
  BY <1>1, RunParts
<1> HIDE DEF rest, seen
<1>5. /\ w \in RunState /\ w.orphans = run[r].orphans /\ w.todo = rest
      /\ w.snap = seen /\ w.pc = "loop"
  BY <1>1, <1>3 DEF RunState
<1> HIDE DEF w
<1>6. RunOk(w, Table')
  BY <1>1, <1>4, <1>5 DEF RunOk, rest, Repairing, Committing
<1> QED
  BY <1>2, <1>5, <1>6 DEF RunGoesTo

(* A position is looked for.                                               *)
LEMMA FindOk ==
  ASSUME Fits, Edits, NEW r \in Runs, NEW o \in Entries,
         \/ Find(r, o, "fix") /\ o \in run[r].orphans
         \/ Find(r, o, "position") /\ o \in run[r].todo
  PROVE  \E s \in RunState : RunGoesTo(r, s)
<1>1. /\ run[r] \in RunState /\ RunOk(run[r], Table) /\ Table \subseteq Table'
      /\ pos \in [Positions -> PosRow] /\ o \in Orders
  BY Ids DEF Fits, TypeOK, RunFits, Edits, Edit, Table
<1>2. PICK pc \in {"fix", "position"} :
        /\ Find(r, o, pc)
        /\ pc = "fix" => o \in run[r].orphans
        /\ pc = "position" => o \in run[r].todo
  OBVIOUS
<1>3. PICK p \in Positions \cup {None} :
        run' = [run EXCEPT ![r] = [@ EXCEPT !.pc = pc, !.cur = o, !.found = p,
                  !.qty = IF p = None THEN 0 ELSE pos[p].qty]]
  BY <1>2, Zenon DEF Find
<1> DEFINE q == IF p = None THEN 0 ELSE pos[p].qty
           s == [run[r] EXCEPT !.pc = pc, !.cur = o, !.found = p, !.qty = q]
<1>4. q \in Int
  <2>1. CASE p = None
    BY <2>1
  <2>2. CASE p # None
    BY <1>1, <2>2 DEF PosRow
  <2> QED
    BY <2>1, <2>2
<1>5. run' = [run EXCEPT ![r] = s]
  BY <1>3, Zenon
<1> HIDE DEF q
<1>6. /\ s \in RunState /\ s.pc = pc /\ s.cur = o /\ s.todo = run[r].todo
      /\ s.orphans = run[r].orphans /\ s.snap = run[r].snap
  BY <1>1, <1>4 DEF RunState
<1> HIDE DEF s
<1>7. RunOk(s, Table')
  BY <1>1, <1>2, <1>6 DEF RunOk, Repairing, Committing
<1> QED
  BY <1>5, <1>6, <1>7 DEF RunGoesTo

(* A position is inserted.                                                 *)
LEMMA InsertOk ==
  ASSUME Fits, Edits, NEW r \in Runs, NEW p \in Positions,
         NEW pc \in {"link", "newLink"}, run[r].cur \in Entries,
         pc = "link" => run[r].pc \in Repairing,
         pc = "newLink" => run[r].pc \in Committing,
         run' = [run EXCEPT ![r] = [@ EXCEPT !.pc = pc, !.found = p]]
  PROVE  \E s \in RunState : RunGoesTo(r, s)
<1>1. run[r] \in RunState /\ RunOk(run[r], Table) /\ Table \subseteq Table'
  BY DEF Fits, TypeOK, RunFits, Edits, Edit, Table
<1> DEFINE s == [run[r] EXCEPT !.pc = pc, !.found = p]
<1>2. run' = [run EXCEPT ![r] = s]
  BY Zenon
<1>3. /\ s \in RunState /\ s.pc = pc /\ s.found = p /\ s.todo = run[r].todo
      /\ s.orphans = run[r].orphans /\ s.snap = run[r].snap
      /\ s.cur = run[r].cur
  BY <1>1 DEF RunState
<1> HIDE DEF s
<1>4. RunOk(s, Table')
  BY <1>1, <1>3 DEF RunOk, Repairing, Committing
<1> QED
  BY <1>2, <1>3, <1>4 DEF RunGoesTo

(* A run that holds nothing.                                               *)
LEMMA EmptyOk ==
  ASSUME NEW s \in RunState, NEW table, s.todo = {}, s.orphans = {},
         s.pc \in {"idle", "cash", "select"}
  PROVE  RunOk(s, table)
BY DEF RunOk, Repairing, Committing

(* Whatever a run does.                                                    *)
LEMMA RunOks ==
  ASSUME Fits, NEW r \in Runs, RunSteps(r)
  PROVE  \E s \in RunState : RunGoesTo(r, s)
<1>0. TypeOK
  BY DEF Fits
<1>t. /\ Fits /\ Edits /\ run[r] \in RunState /\ RunOk(run[r], Table)
      /\ Table \subseteq Table' /\ RowsFit /\ orders \in [Orders -> OrderRow]
      /\ pos \in [Positions -> PosRow] /\ cash \in Int
  BY RunEdits DEF Fits, TypeOK, RunFits, Edits, Edit, Table
<1>1. CASE RunBegins(r)
  <2>1. CASE RunStart(r)
    <3> DEFINE s == [run[r] EXCEPT !.pc = "select", !.cash = cash]
    <3>1. run' = [run EXCEPT ![r] = s]
      BY <2>1 DEF RunStart
    <3>2. /\ s \in RunState /\ s.pc = "select" /\ s.todo = run[r].todo
          /\ s.orphans = run[r].orphans /\ s.snap = run[r].snap
      BY <1>t DEF RunState
    <3> HIDE DEF s
    <3>3. RunOk(s, Table')
      BY <1>t, <3>2 DEF RunOk, Repairing, Committing
    <3> QED
      BY <3>1, <3>2, <3>3 DEF RunGoesTo
  <2>2. ASSUME NEW e \in Entries, RunStageEntry(r, e)
        PROVE  \E s \in RunState : RunGoesTo(r, s)
    <3> DEFINE s == [IdleRun EXCEPT !.pc = "cash", !.target = e]
    <3>1. run' = [run EXCEPT ![r] = s]
      BY <2>2 DEF RunStageEntry
    <3>2. /\ s \in RunState /\ s.pc = "cash" /\ s.todo = {} /\ s.orphans = {}
      BY AtRest, Ids DEF RunState
    <3> HIDE DEF s
    <3> QED
      BY <3>1, <3>2, EmptyOk DEF RunGoesTo
  <2>3. ASSUME NEW m \in Manual, NEW p \in Positions,
               RunReadPosition(r, m, p)
        PROVE  \E s \in RunState : RunGoesTo(r, s)
    <3> DEFINE s == [IdleRun EXCEPT !.pc = "stage", !.target = m, !.found = p,
                                    !.qty = pos[p].qty]
    <3>1. run' = [run EXCEPT ![r] = s] /\ pos[p].qty > 0
      BY <2>3 DEF RunReadPosition
    <3>2. pos[p].qty \in Int
      BY <1>t DEF PosRow
    <3>3. /\ s \in RunState /\ s.pc = "stage" /\ s.todo = {} /\ s.orphans = {}
          /\ s.target = m /\ s.found = p /\ s.qty = pos[p].qty
      BY AtRest, Ids, <3>2 DEF RunState
    <3> HIDE DEF s
    <3>4. RunOk(s, Table')
      BY <3>1, <3>2, <3>3 DEF RunOk, Repairing, Committing
    <3> QED
      BY <3>1, <3>3, <3>4 DEF RunGoesTo
  <2> QED
    BY <1>1, <2>1, <2>2, <2>3 DEF RunBegins
<1>2. CASE RunGoesOn(r)
  <2>1. CASE RunStageClose(r)
    <3> DEFINE s == [IdleRun EXCEPT !.pc = "cash", !.target = run[r].target]
    <3>1. run' = [run EXCEPT ![r] = s]
      BY <2>1 DEF RunStageClose
    <3>2. /\ s \in RunState /\ s.pc = "cash" /\ s.todo = {} /\ s.orphans = {}
      BY <1>0, RunParts, AtRest DEF RunState
    <3> HIDE DEF s
    <3> QED
      BY <3>1, <3>2, EmptyOk DEF RunGoesTo
  <2>2. CASE RunReadCash(r)
    <3> DEFINE s == [run[r] EXCEPT !.pc = "select", !.cash = cash]
    <3>1. run' = [run EXCEPT ![r] = s]
      BY <2>2 DEF RunReadCash
    <3>2. /\ s \in RunState /\ s.pc = "select" /\ s.todo = run[r].todo
          /\ s.orphans = run[r].orphans /\ s.snap = run[r].snap
      BY <1>t DEF RunState
    <3> HIDE DEF s
    <3>3. RunOk(s, Table')
      BY <1>t, <3>2 DEF RunOk, Repairing, Committing
    <3> QED
      BY <3>1, <3>2, <3>3 DEF RunGoesTo
  <2>3. CASE RunSelect(r)
    <3> DEFINE todo == {o \in Orders :
                 /\ orders[o].status \in {"staged", "working", "partial"}
                 /\ Stale(orders[o]) \/ run[r].target \in {None, o}}
               seen == [o \in Orders |-> IF o \in todo THEN orders[o] ELSE NoOrder]
               s == [run[r] EXCEPT !.pc = "orphans", !.todo = todo, !.snap = seen]
    <3>1. run' = [run EXCEPT ![r] = s] /\ UNCHANGED orders
      BY <2>3 DEF RunSelect
    <3>2. todo \in SUBSET Orders /\ todo \subseteq Table'
      BY <3>1 DEF Table, Present
    <3>3. seen \in [Orders -> OrderRow]
      BY <1>t, AtRest
    <3>4. \A o \in todo \ Entries : seen[o].link # None
      BY <1>t DEF RowsFit, Present
    <3> HIDE DEF todo, seen
    <3>5. /\ s \in RunState /\ s.pc = "orphans" /\ s.todo = todo /\ s.snap = seen
          /\ s.orphans = run[r].orphans
      BY <1>t, <3>2, <3>3 DEF RunState
    <3> HIDE DEF s
    <3>6. RunOk(s, Table')
      BY <1>t, <3>2, <3>4, <3>5 DEF RunOk, Repairing, Committing
    <3> QED
      BY <3>1, <3>5, <3>6 DEF RunGoesTo
  <2>4. CASE RunSelectOrphans(r)
    <3> DEFINE orphans == {o \in Orders : /\ orders[o].status = "filled"
                                          /\ orders[o].link = None
                                          /\ orders[o].filled > 0}
               fill == [o \in Orders |-> IF o \in orphans THEN orders[o].filled
                                         ELSE 0]
               s == [run[r] EXCEPT !.pc = "loop", !.orphans = orphans,
                                   !.filled = fill]
    <3>1. run' = [run EXCEPT ![r] = s] /\ UNCHANGED orders
      BY <2>4 DEF RunSelectOrphans
    <3>2. /\ orphans \in SUBSET Orders /\ orphans \subseteq Table'
          /\ orphans \subseteq Entries
      BY <1>t, <3>1 DEF Table, Present, RowsFit
    <3>3. fill \in [Orders -> Nat]
      BY <1>t, RowParts
    <3> HIDE DEF orphans, fill
    <3>4. /\ s \in RunState /\ s.pc = "loop" /\ s.orphans = orphans
          /\ s.todo = run[r].todo /\ s.snap = run[r].snap
      BY <1>t, <3>2, <3>3 DEF RunState
    <3> HIDE DEF s
    <3>5. RunOk(s, Table')
      BY <1>t, <3>2, <3>4 DEF RunOk, Repairing, Committing
    <3> QED
      BY <3>1, <3>4, <3>5 DEF RunGoesTo
  <2>5. ASSUME NEW o \in Orders, RepairFind(r, o)
        PROVE  \E s \in RunState : RunGoesTo(r, s)
    <3>1. o \in run[r].orphans /\ Find(r, o, "fix")
      BY <2>5, Zenon DEF RepairFind
    <3> QED
      BY <1>t, <3>1, FindOk DEF RunOk
  <2>6. CASE RepairInsert(r)
    <3>1. PICK p \in Fresh :
            run' = [run EXCEPT ![r] = [@ EXCEPT !.pc = "link", !.found = p]]
      BY <2>6, Zenon DEF RepairInsert
    <3>2. p \in Positions
      BY DEF Fresh
    <3>3. run[r].pc = "fix"
      BY <2>6, Zenon DEF RepairInsert
    <3>4. run[r].pc \in Repairing /\ run[r].cur \in Entries
      BY <1>t, <3>3 DEF Repairing, RunOk
    <3> QED
      BY <1>t, <3>1, <3>2, <3>4, InsertOk
  <2>7. CASE RepairMerge(r)
    <3>1. /\ run[r].pc \in Repairing /\ run[r].found \in Positions
          /\ NextOrphan(r) \/ Goes(r, "link")
      BY <2>7, <1>0, RunParts DEF RepairMerge, Repairing
    <3> QED
      BY <1>t, <3>1, NextOk, GoesOk DEF Committing
  <2>8. CASE RepairLink(r)
    <3>1. run[r].pc \in Repairing /\ Goes(r, "audit")
      BY <2>8 DEF RepairLink, Repairing
    <3> QED
      BY <1>t, <3>1, GoesOk DEF Committing
  <2>9. CASE RepairLedger(r)
    <3>1. run[r].pc \in Repairing /\ NextOrphan(r)
      BY <2>9 DEF RepairLedger, Repairing
    <3> QED
      BY <1>t, <3>1, NextOk
  <2>10. CASE RepairFails(r)
    <3>1. run[r].pc \in Repairing /\ NextOrphan(r)
      BY <2>10 DEF RepairFails, Repairing
    <3> QED
      BY <1>t, <3>1, NextOk
  <2>11. ASSUME NEW o \in Orders, StaleCancel(r, o)
        PROVE  \E s \in RunState : RunGoesTo(r, s)
    <3>1. run[r].pc = "loop" /\ run' = [run EXCEPT ![r] = Without(@, o)]
      BY <2>11 DEF StaleCancel, InLoop
    <3> QED
      BY <1>t, <3>1, WithoutOk
  <2>12. ASSUME NEW o \in Orders, NoFill(r, o)
        PROVE  \E s \in RunState : RunGoesTo(r, s)
    <3>1. run[r].pc = "loop" /\ run' = [run EXCEPT ![r] = Without(@, o)]
      BY <2>12 DEF NoFill, InLoop
    <3> QED
      BY <1>t, <3>1, WithoutOk
  <2>13. ASSUME NEW o \in Orders, Fill(r, o)
        PROVE  \E s \in RunState : RunGoesTo(r, s)
    <3>0. o \in run[r].todo
      BY <2>13 DEF Fill, InLoop
    <3> DEFINE left == run[r].snap[o].qty - run[r].snap[o].filled
    <3>1. left \in Int
      <4>1. run[r].snap[o] \in OrderRow
        BY <1>0, RunParts
      <4> QED
        BY <4>1, RowParts
    <3>2. PICK q \in {left, left \div 2} :
            /\ q > 0
            /\ run' = [run EXCEPT ![r] = [@ EXCEPT !.pc = "order", !.cur = o,
                                                   !.inc = q]]
      BY <2>13, Zenon DEF Fill
    <3>3. q \in Nat
      BY <3>1, <3>2
    <3> DEFINE s == [run[r] EXCEPT !.pc = "order", !.cur = o, !.inc = q]
    <3>4. run' = [run EXCEPT ![r] = s]
      BY <3>2, Zenon
    <3>5. /\ s \in RunState /\ s.pc = "order" /\ s.cur = o
          /\ s.todo = run[r].todo /\ s.orphans = run[r].orphans
          /\ s.snap = run[r].snap
      BY <1>t, <3>3 DEF RunState
    <3> HIDE DEF s
    <3>6. RunOk(s, Table')
      BY <1>t, <3>0, <3>5 DEF RunOk, Repairing, Committing
    <3> QED
      BY <3>4, <3>5, <3>6 DEF RunGoesTo
  <2>14. CASE CommitOrder(r)
    <3>1. run[r].pc \in Committing /\ Goes(r, "cashUpdate")
      BY <2>14 DEF CommitOrder, Committing
    <3> QED
      BY <1>t, <3>1, GoesOk
  <2>15. CASE CommitCash(r)
    <3> DEFINE new == run[r].cash + Delta(r)
               s == [run[r] EXCEPT !.pc = "ledger", !.cash = new]
    <3>1. run' = [run EXCEPT ![r] = s] /\ run[r].pc \in Committing
      BY <2>15 DEF CommitCash, Committing
    <3>2. new \in Int
      BY <1>0, <3>1, RunParts, Computed
    <3> HIDE DEF new
    <3>3. /\ s \in RunState /\ s.pc = "ledger" /\ s.cur = run[r].cur
          /\ s.todo = run[r].todo /\ s.orphans = run[r].orphans
          /\ s.snap = run[r].snap
      BY <1>t, <3>2 DEF RunState
    <3> HIDE DEF s
    <3>4. RunOk(s, Table')
      BY <1>t, <3>1, <3>3 DEF RunOk, Repairing, Committing
    <3> QED
      BY <3>1, <3>3, <3>4 DEF RunGoesTo
  <2>16. CASE CommitLedger(r)
    <3>1. run[r].pc \in Committing /\ Goes(r, "find")
      BY <2>16 DEF CommitLedger, Committing
    <3> QED
      BY <1>t, <3>1, GoesOk
  <2>17. CASE CommitFind(r)
    <3> DEFINE o == run[r].cur
               p == run[r].snap[o].link
    <3>1. run[r].pc = "find"
      BY <2>17, Zenon DEF CommitFind
    <3>2. o \in run[r].todo /\ o \in Orders
      BY <1>0, <1>t, <3>1, RunParts DEF RunOk, Committing
    <3>3. p \in Positions \cup {None}
      <4>1. run[r].snap[o] \in OrderRow
        BY <1>0, <3>2, RunParts
      <4> QED
        BY <4>1, RowParts
    <3>4. CASE p = None
      <4>1. o \in Entries
        BY <1>t, <3>2, <3>4 DEF RunOk
      <4>2. Find(r, o, "position")
        BY <2>17, <3>4, Zenon DEF CommitFind
      <4> QED
        BY <1>t, <3>2, <4>1, <4>2, FindOk
    <3>5. CASE p # None
      <4> DEFINE q == pos[p].qty
                 s == [run[r] EXCEPT !.pc = "position", !.found = p, !.qty = q]
      <4>1. run' = [run EXCEPT ![r] = s]
        BY <2>17, <3>5, Zenon DEF CommitFind
      <4>2. p \in Positions /\ q \in Int
        BY <1>t, <3>3, <3>5 DEF PosRow
      <4> HIDE DEF p, q
      <4>3. /\ s \in RunState /\ s.pc = "position" /\ s.cur = run[r].cur
            /\ s.todo = run[r].todo /\ s.orphans = run[r].orphans
            /\ s.snap = run[r].snap /\ s.found = p
        BY <1>t, <4>2 DEF RunState
      <4> HIDE DEF s
      <4>4. RunOk(s, Table')
        BY <1>t, <3>2, <4>2, <4>3, Ids DEF RunOk, Repairing, Committing
      <4> QED
        BY <4>1, <4>3, <4>4 DEF RunGoesTo
    <3> QED
      BY <3>4, <3>5
  <2>18. CASE CommitPosition(r)
    <3>1. run[r].pc = "position"
      BY <2>18, Zenon DEF CommitPosition
    <3>2. CASE run[r].found = None
      <4>1. PICK p \in Fresh :
              run' = [run EXCEPT ![r] = [@ EXCEPT !.pc = "newLink", !.found = p]]
        BY <2>18, <3>2, Zenon DEF CommitPosition
      <4>2. p \in Positions
        BY DEF Fresh
      <4>3. run[r].pc \in Committing /\ run[r].cur \in Entries
        BY <1>t, <3>1, <3>2 DEF Committing, RunOk
      <4> QED
        BY <1>t, <4>1, <4>2, <4>3, InsertOk
    <3>3. CASE run[r].found # None
      <4>1. Goes(r, "status")
        BY <2>18, <3>3, Zenon DEF CommitPosition
      <4> QED
        BY <1>t, <3>1, <4>1, GoesOk DEF Committing
    <3> QED
      BY <3>2, <3>3
  <2>19. CASE CommitClose(r)
    <3>1. run[r].pc \in Committing /\ (Goes(r, "status") \/ NextOrder(r))
      BY <2>19 DEF CommitClose, Committing
    <3> QED
      BY <1>t, <3>1, GoesOk, NextOk
  <2>20. CASE CommitLink(r)
    <3>1. run[r].pc \in Committing /\ Goes(r, "status")
      BY <2>20 DEF CommitLink, Committing
    <3> QED
      BY <1>t, <3>1, GoesOk
  <2>21. CASE CommitStatus(r)
    <3>1. run[r].pc \in Committing /\ NextOrder(r)
      BY <2>21 DEF CommitStatus, Committing
    <3> QED
      BY <1>t, <3>1, NextOk
  <2>22. CASE CommitFails(r)
    <3>1. run[r].pc \in Committing /\ NextOrder(r)
      BY <2>22 DEF CommitFails, Committing
    <3> QED
      BY <1>t, <3>1, NextOk
  <2>23. CASE PositionFails(r)
    <3>1. run[r].pc \in Committing /\ Goes(r, "rollback")
      BY <2>23 DEF PositionFails, Committing
    <3> QED
      BY <1>t, <3>1, GoesOk
  <2>24. CASE Rollback(r)
    <3>1. run[r].pc \in Committing /\ NextOrder(r)
      BY <2>24 DEF Rollback, Committing
    <3> QED
      BY <1>t, <3>1, NextOk
  <2>25. CASE RunDone(r)
    <3>1. run' = [run EXCEPT ![r] = IdleRun]
      BY <2>25 DEF RunDone
    <3> QED
      BY <3>1, AtRest, EmptyOk DEF RunGoesTo
  <2> QED
    BY <1>2, <2>1, <2>2, <2>3, <2>4, <2>5, <2>6, <2>7, <2>8, <2>9, <2>10,
       <2>11, <2>12, <2>13, <2>14, <2>15, <2>16, <2>17, <2>18, <2>19, <2>20,
       <2>21, <2>22, <2>23, <2>24, <2>25 DEF RunGoesOn
<1>3. CASE RunCrash(r)
  <2>1. run' = [run EXCEPT ![r] = IdleRun]
  BY <1>3 DEF RunCrash
  <2> QED
  BY <2>1, AtRest, EmptyOk DEF RunGoesTo
<1> QED
  BY <1>1, <1>2, <1>3 DEF RunSteps

(* A run's state fits as the table grows.                                  *)
LEMMA RunOkGrows ==
  ASSUME NEW s, NEW table, NEW more, table \subseteq more, RunOk(s, table)
  PROVE  RunOk(s, more)
BY DEF RunOk

(* Whatever a run does, everything fits.                                   *)
LEMMA RunStepFits ==
  ASSUME Fits, NEW r \in Runs, RunSteps(r)
  PROVE  Fits'
<1>0. /\ TypeOK /\ RowsFit /\ \A q \in Runs : RunOk(run[q], Table)
      /\ \A c \in Closers : CloserFits(c)
      /\ OwnIds
  BY DEF Fits, RunFits
<1>1. Edits /\ Closes /\ Entered
  BY RunEdits, RunCloses, RunEnters
<1>2. UNCHANGED closer /\ troubles' \in Nat
  BY <1>0, RunTouching DEF RunTouches, TypeOK
<1>3. PICK s \in RunState : RunGoesTo(r, s)
  BY RunOks
<1>4. run \in [Runs -> RunState] /\ run' = [run EXCEPT ![r] = s]
  BY <1>0, <1>3 DEF TypeOK, RunGoesTo
<1>5. run' \in [Runs -> RunState]
  BY <1>4
<1>6. TypeOK'
  BY <1>0, <1>1, <1>2, <1>5 DEF TypeOK, Edits, Closes, Entered
<1>7. RowsFit'
  <2> SUFFICES ASSUME NEW o \in Orders \ Entries, Present(o)'
               PROVE  orders'[o].link # None
    BY DEF RowsFit
  <2>1. Edit(o)
    BY <1>1 DEF Edits
  <2>2. CASE o \in Manual
    BY <2>1, <2>2 DEF Edit
  <2>3. CASE o \in Internal
    BY <1>0, <2>1, <2>3 DEF Edit, RowsFit
  <2> QED
    BY <2>2, <2>3, Ids
<1>8. Table \subseteq Table'
  BY <1>1 DEF Edits, Edit, Table
<1>9. ASSUME NEW q \in Runs PROVE RunOk(run'[q], Table')
  <2>1. CASE q = r
    BY <1>3, <1>4, <2>1 DEF RunGoesTo
  <2>2. CASE q # r
    <3>1. run'[q] = run[q]
      BY <1>4, <2>2
    <3> QED
      BY <1>0, <1>8, <3>1, RunOkGrows
  <2> QED
    BY <2>1, <2>2
<1>10. ASSUME NEW c \in Closers PROVE CloserFits(c)'
  <2>1. CASE closer[c].pc = "idle"
    BY <1>0, <1>2, <2>1 DEF CloserFits
  <2>2. CASE closer[c].pc # "idle"
    <3> DEFINE x == closer[c].order
    <3>1. x \in Internal /\ x \in Orders
      BY <1>0, <2>2, Ids DEF CloserFits
    <3>2. /\ Present(x) <=> orders'[x].status # "absent"
          /\ orders'[x].link = orders[x].link
      BY <1>1, <3>1 DEF Edits, Edit, Present
    <3> QED
      BY <1>0, <1>2, <3>2 DEF CloserFits, Present
  <2> QED
    BY <2>1, <2>2
<1>11. OwnIds'
  BY <1>0, <1>2 DEF OwnIds
<1> QED
  BY <1>6, <1>7, <1>9, <1>10, <1>11 DEF Fits, RunFits

-----------------------------------------------------------------------------
(* The exit evaluator's steps.                                             *)

CloserSteps(c) ==
  \/ \E x \in Internal, p \in Positions : CloserRead(c, x, p)
  \/ CloserGoesOn(c)
  \/ CloserCrash(c)

(* The fields of an evaluator's run.                                       *)
LEMMA CloserParts ==
  ASSUME Fits, NEW c \in Closers, closer[c].pc # "idle"
  PROVE  /\ closer[c] \in CloserState
         /\ closer[c].order \in Internal /\ closer[c].order \in Orders
         /\ closer[c].order \notin Entries
         /\ closer[c].pos \in Positions /\ closer[c].qty \in Nat
<1>1. CloserFits(c) /\ closer[c] \in CloserState
  BY DEF Fits, TypeOK
<1> QED
  BY <1>1, Ids DEF CloserFits

(* Nothing but the evaluator itself changes.                               *)
LEMMA CloserAlone ==
  ASSUME Fits, NEW c \in Closers, NEW s \in CloserState,
         closer' = [closer EXCEPT ![c] = s],
         UNCHANGED <<orders, pos, cash, ledger, run>>, troubles' \in Nat,
         s.pc = "idle" => s.order = None,
         s.pc # "idle" => /\ s.order \in Internal /\ s.pos \in Positions
                          /\ s.qty \in Nat
                          /\ ~Present(s.order),
         s.pc # "commit",
         s.order # None =>
           \A d \in Closers : d # c => closer[d].order # s.order
  PROVE  Fits'
<1>0. /\ TypeOK /\ RowsFit /\ \A r \in Runs : RunFits(r)
      /\ \A d \in Closers : CloserFits(d)
      /\ OwnIds /\ closer \in [Closers -> CloserState]
  BY DEF Fits, TypeOK
<1>1. closer'[c] = s /\ \A d \in Closers : d # c => closer'[d] = closer[d]
  BY <1>0
<1>2. TypeOK'
  BY <1>0 DEF TypeOK
<1>3. RowsFit' /\ \A r \in Runs : RunFits(r)'
  BY <1>0 DEF RowsFit, RunFits, RunOk, Table, Present
<1>4. CloserFits(c)'
  BY <1>1 DEF CloserFits, Present
<1>5. ASSUME NEW d \in Closers, d # c PROVE CloserFits(d)'
  <2>1. CloserFits(d) /\ closer'[d] = closer[d]
    BY <1>0, <1>1, <1>5
  <2> QED
    BY <2>1 DEF CloserFits, Present
<1>6. OwnIds'
  BY <1>0, <1>1 DEF OwnIds
<1> QED
  BY <1>2, <1>3, <1>4, <1>5, <1>6 DEF Fits

(* An internal close's row is written.                                     *)
LEMMA CloserWrites ==
  ASSUME Fits, NEW c \in Closers, closer[c].pc # "idle",
         NEW s \in CloserState, NEW row \in OrderRow,
         closer' = [closer EXCEPT ![c] = s],
         orders' = [orders EXCEPT ![closer[c].order] = row],
         row.status # "absent", row.link = closer[c].pos,
         pos' \in [Positions -> PosRow], cash' \in Int,
         ledger' \in [Orders -> [fill : Nat, partial : Nat, amount : Int]],
         UNCHANGED <<run, troubles>>,
         s = IdleCloser \/ s = [closer[c] EXCEPT !.pc = "commit"]
  PROVE  Fits'
<1> DEFINE x == closer[c].order
<1>0. /\ TypeOK /\ RowsFit /\ \A r \in Runs : RunOk(run[r], Table)
      /\ \A d \in Closers : CloserFits(d)
      /\ OwnIds /\ closer \in [Closers -> CloserState]
      /\ orders \in [Orders -> OrderRow]
  BY DEF Fits, TypeOK, RunFits
<1>x. /\ x \in Internal /\ x \in Orders /\ closer[c].pos \in Positions
      /\ closer[c].qty \in Nat /\ x # None /\ closer[c].pos # None
      /\ closer[c] \in CloserState
  BY CloserParts, Ids
<1>1. closer'[c] = s /\ \A d \in Closers : d # c => closer'[d] = closer[d]
  BY <1>0
<1>2. orders'[x] = row /\ \A o \in Orders : o # x => orders'[o] = orders[o]
  BY <1>0, <1>x
<1>3. orders' \in [Orders -> OrderRow] /\ closer' \in [Closers -> CloserState]
  BY <1>0
<1>4. TypeOK'
  BY <1>0, <1>3 DEF TypeOK
<1>5. RowsFit'
  BY <1>0, <1>2, <1>x DEF RowsFit, Present
<1>6. Table \subseteq Table'
  BY <1>2 DEF Table, Present
<1>7. \A r \in Runs : RunOk(run'[r], Table')
  BY <1>0, <1>6, RunOkGrows
<1>8. \/ s.pc = "idle" /\ s.order = None
      \/ /\ s.pc = "commit" /\ s.order = x /\ s.pos = closer[c].pos
         /\ s.qty = closer[c].qty
  <2>1. CASE s = IdleCloser
    BY <2>1, AtRest
  <2>2. CASE s = [closer[c] EXCEPT !.pc = "commit"]
    BY <1>x, <2>2 DEF CloserState
  <2> QED
    BY <2>1, <2>2
<1>9. CloserFits(c)'
  BY <1>1, <1>2, <1>8, <1>x DEF CloserFits, Present
<1>10. ASSUME NEW d \in Closers, d # c PROVE CloserFits(d)'
  <2>1. CloserFits(d) /\ closer'[d] = closer[d] /\ closer[d].order # x
    BY <1>0, <1>1, <1>10, <1>x DEF OwnIds
  <2>2. CASE closer[d].pc = "idle"
    BY <2>1, <2>2 DEF CloserFits
  <2>3. CASE closer[d].pc # "idle"
    <3>1. closer[d].order \in Orders
      BY <2>3, CloserParts
    <3>2. orders'[closer[d].order] = orders[closer[d].order]
      BY <1>2, <2>1, <3>1
    <3> QED
      BY <2>1, <3>2 DEF CloserFits, Present
  <2> QED
    BY <2>2, <2>3
<1>11. OwnIds'
  BY <1>0, <1>1, <1>8 DEF OwnIds
<1> QED
  BY <1>4, <1>5, <1>7, <1>9, <1>10, <1>11 DEF Fits, RunFits

(* Whatever an evaluator does, everything fits.                            *)
LEMMA CloserStepFits ==
  ASSUME Fits, NEW c \in Closers, CloserSteps(c)
  PROVE  Fits'
<1> USE DEF Steady, Fails
<1>0. /\ TypeOK /\ CloserFits(c) /\ OwnIds /\ troubles \in Nat
      /\ closer \in [Closers -> CloserState]
  BY DEF Fits, TypeOK
<1>i. ASSUME closer' = [closer EXCEPT ![c] = IdleCloser], troubles' \in Nat,
             UNCHANGED <<orders, pos, cash, ledger, run>>
      PROVE  Fits'
  BY <1>i, AtRest, CloserAlone
<1>1. ASSUME NEW x \in Internal, NEW p \in Positions, CloserRead(c, x, p)
      PROVE  Fits'
  <2> DEFINE q == pos[p].qty
             s == [pc |-> "check", order |-> x, pos |-> p, qty |-> q]
  <2>1. q \in Int /\ q > 0
    BY <1>0, <1>1 DEF CloserRead, TypeOK, PosRow
  <2>2. /\ closer' = [closer EXCEPT ![c] = s] /\ orders[x].status = "absent"
        /\ UNCHANGED <<orders, pos, cash, ledger, run>> /\ troubles' \in Nat
        /\ \A d \in Closers : closer[d].order # x
    BY <1>0, <1>1 DEF CloserRead, Begin
  <2> HIDE DEF q
  <2>3. s \in CloserState
    BY <2>1, Ids DEF CloserState
  <2>4. /\ s.pc = "check" /\ s.order = x /\ s.pos = p /\ s.qty = q
        /\ s.qty \in Nat /\ ~Present(x)
    BY <2>1, <2>2 DEF Present
  <2> HIDE DEF s
  <2> QED
    BY <2>2, <2>3, <2>4, CloserAlone
<1>2. CASE CloserCheck(c)
  <2>1. /\ UNCHANGED <<orders, pos, cash, ledger, run>> /\ troubles' \in Nat
        /\ closer[c].pc = "check"
        /\ \/ closer' = [closer EXCEPT ![c] = [@ EXCEPT !.pc = "stage"]]
           \/ closer' = [closer EXCEPT ![c] = IdleCloser]
    BY <1>0, <1>2 DEF CloserCheck
  <2>2. CASE closer' = [closer EXCEPT ![c] = [@ EXCEPT !.pc = "stage"]]
    <3> DEFINE s == [closer[c] EXCEPT !.pc = "stage"]
    <3>1. closer' = [closer EXCEPT ![c] = s]
      BY <2>2
    <3>2. /\ s \in CloserState /\ s.pc = "stage" /\ s.order = closer[c].order
          /\ s.pos = closer[c].pos /\ s.qty = closer[c].qty
      BY <1>0 DEF CloserState
    <3> HIDE DEF s
    <3>3. /\ s.order \in Internal /\ s.pos \in Positions /\ s.qty \in Nat
          /\ ~Present(s.order)
      BY <1>0, <2>1, <3>2 DEF CloserFits
    <3>4. s.order # None => \A d \in Closers : d # c => closer[d].order # s.order
      BY <1>0, <3>2 DEF OwnIds
    <3> QED
      BY <2>1, <3>1, <3>2, <3>3, <3>4, CloserAlone
  <2> QED
    BY <1>i, <2>1, <2>2
<1>3. CASE CloserStage(c)
  <2> DEFINE s == [closer[c] EXCEPT !.pc = "commit"]
             row == Staged(closer[c].qty, closer[c].pos)
  <2>1. /\ closer[c].pc # "idle"
        /\ closer' = [closer EXCEPT ![c] = s]
        /\ orders' = [orders EXCEPT ![closer[c].order] = row]
        /\ UNCHANGED <<pos, cash, ledger, run, troubles>>
    BY <1>3 DEF CloserStage
  <2>2. s \in CloserState
    BY <1>0 DEF CloserState
  <2>3. row \in OrderRow /\ row.status # "absent" /\ row.link = closer[c].pos
    BY <2>1, CloserParts, StagedRow
  <2>4. /\ pos' \in [Positions -> PosRow] /\ cash' \in Int
        /\ ledger' \in [Orders -> [fill : Nat, partial : Nat, amount : Int]]
    BY <1>0, <2>1 DEF TypeOK
  <2>5. s = IdleCloser \/ s = [closer[c] EXCEPT !.pc = "commit"]
    OBVIOUS
  <2> HIDE DEF s, row
  <2> QED
    BY <2>1, <2>2, <2>3, <2>4, <2>5, CloserWrites
<1>4. CASE CloserCommit(c)
  <2> DEFINE x == closer[c].order
             p == closer[c].pos
             q == closer[c].qty
             row == [orders[x] EXCEPT !.status = "filled", !.filled = q,
                                      !.marked = TRUE]
             entry == [ledger[x] EXCEPT !.fill = ledger[x].fill + 1,
                                        !.amount = ledger[x].amount + q]
             shut == [pos[p] EXCEPT !.status = "closed", !.qty = 0]
  <2>1. /\ closer[c].pc = "commit"
        /\ closer' = [closer EXCEPT ![c] = IdleCloser]
        /\ orders' = [orders EXCEPT ![x] = row]
        /\ pos' = [pos EXCEPT ![p] = shut] /\ cash' = cash + q
        /\ ledger' = [ledger EXCEPT ![x] = entry]
        /\ UNCHANGED <<run, troubles>>
    BY <1>4 DEF CloserCommit
  <2>2. /\ x \in Orders /\ p \in Positions /\ q \in Nat
        /\ orders[x].link = p
    BY <1>0, <2>1, CloserParts DEF CloserFits
  <2>3. /\ orders[x] \in OrderRow /\ pos[p] \in PosRow /\ cash \in Int
        /\ ledger[x] \in [fill : Nat, partial : Nat, amount : Int]
        /\ pos \in [Positions -> PosRow]
        /\ ledger \in [Orders -> [fill : Nat, partial : Nat, amount : Int]]
    BY <1>0, <2>2 DEF TypeOK
  <2>4. row \in OrderRow /\ row.status # "absent" /\ row.link = p
    BY <2>2, <2>3 DEF OrderRow
  <2>5. shut \in PosRow
    BY <2>3, Shut
  <2>6. entry \in [fill : Nat, partial : Nat, amount : Int]
    <3>1. q \in Int
      BY <2>2
    <3> HIDE DEF q
    <3> QED
      BY <2>3, <3>1, LedgerSet
  <2> HIDE DEF row, entry, shut
  <2>7. /\ pos' \in [Positions -> PosRow] /\ cash' \in Int
        /\ ledger' \in [Orders -> [fill : Nat, partial : Nat, amount : Int]]
    BY <2>1, <2>2, <2>3, <2>5, <2>6
  <2> QED
    BY <2>1, <2>2, <2>4, <2>7, AtRest, CloserWrites
<1>5. CASE CloserRejected(c)
  BY <1>0, <1>5, <1>i DEF CloserRejected
<1>6. CASE CloserCrash(c)
  BY <1>0, <1>6, <1>i DEF CloserCrash
<1> QED
  BY <1>1, <1>2, <1>3, <1>4, <1>5, <1>6 DEF CloserSteps, CloserGoesOn

(* Two hours pass.                                                         *)
LEMMA AgeFits ==
  ASSUME Fits, NEW o \in Orders, Age(o)
  PROVE  Fits' /\ Edits
<1>0. /\ TypeOK /\ RowsFit /\ \A r \in Runs : RunOk(run[r], Table)
      /\ \A c \in Closers : CloserFits(c)
      /\ OwnIds /\ orders \in [Orders -> OrderRow] /\ orders[o] \in OrderRow
  BY DEF Fits, TypeOK, RunFits
<1> DEFINE row == [orders[o] EXCEPT !.old = TRUE]
<1>1. /\ orders' = [orders EXCEPT ![o] = row] /\ orders[o].status = "working"
      /\ UNCHANGED <<pos, cash, ledger, run, closer, troubles>>
  BY DEF Age, Steady
<1>2. /\ row \in OrderRow /\ row.status # "absent" /\ row.link = orders[o].link
      /\ row.marked = orders[o].marked
  BY <1>0, <1>1 DEF OrderRow
<1> HIDE DEF row
<1>3. Present(o)
  BY <1>1 DEF Present
<1>4. Edits
  BY <1>0, <1>1, <1>2, <1>3, Ids, EditOne DEF RowsFit
<1>5. /\ Table \subseteq Table'
      /\ \A q \in Orders : /\ orders'[q].link = orders[q].link
                           /\ (orders'[q].status # "absent") = Present(q)
  BY <1>0, <1>1, <1>2, <1>3 DEF Table, Present
<1>6. TypeOK'
  BY <1>0, <1>1, <1>4 DEF TypeOK, Edits
<1>7. RowsFit'
  BY <1>0, <1>5 DEF RowsFit, Present
<1>8. \A r \in Runs : RunOk(run'[r], Table')
  BY <1>0, <1>1, <1>5, RunOkGrows
<1>9. ASSUME NEW c \in Closers PROVE CloserFits(c)'
  <2>1. CASE closer[c].pc = "idle"
    BY <1>0, <1>1, <2>1 DEF CloserFits
  <2>2. CASE closer[c].pc # "idle"
    BY <1>0, <1>1, <1>5, <2>2, CloserParts DEF CloserFits, Present
  <2> QED
    BY <2>1, <2>2
<1>10. OwnIds'
  BY <1>0, <1>1 DEF OwnIds
<1> QED
  BY <1>4, <1>6, <1>7, <1>8, <1>9, <1>10 DEF Fits, RunFits

(* A step of the book is a run's, an evaluator's, or time's.               *)
LEMMA Stepping ==
  ASSUME Next
  PROVE  \/ \E r \in Runs : RunSteps(r)
         \/ \E c \in Closers : CloserSteps(c)
         \/ \E o \in Orders : Age(o)
BY Zenon DEF Next, RunSteps, CloserSteps

(* Everything fits at the start, and after every step.                     *)
LEMMA FitsInit == Init => Fits
<1> SUFFICES ASSUME Init PROVE Fits
  OBVIOUS
<1> USE DEF Init
<1>1. TypeOK
  BY AtRest, BookAssumption DEF TypeOK, NoPos, PosRow
<1>2. \A o \in Orders : ~Present(o)
  BY DEF Present, NoOrder
<1>3. RowsFit
  BY <1>2 DEF RowsFit
<1>4. ASSUME NEW r \in Runs PROVE RunFits(r)
  <2>1. run[r] = IdleRun
    OBVIOUS
  <2> QED
    BY <2>1, AtRest, EmptyOk DEF RunFits
<1>5. ASSUME NEW c \in Closers PROVE CloserFits(c) /\ closer[c].order = None
  <2>1. closer[c] = IdleCloser
    OBVIOUS
  <2> QED
    BY <2>1, AtRest DEF CloserFits
<1> QED
  BY <1>1, <1>3, <1>4, <1>5 DEF Fits, OwnIds

(* Every step keeps what fits.                                             *)
LEMMA FitsNext == Fits /\ [Next]_vars => Fits'
<1> SUFFICES ASSUME Fits, [Next]_vars PROVE Fits'
  OBVIOUS
<1>1. CASE Next
  BY <1>1, Stepping, RunStepFits, CloserStepFits, AgeFits
<1>2. CASE UNCHANGED vars
  BY <1>2 DEF vars, Fits, TypeOK, RowsFit, RunFits, RunOk, Table, CloserFits,
              OwnIds, Present
<1> QED
  BY <1>1, <1>2

(* However runs of the sweep and of the evaluator overlap, fail or die, a  *)
(* run only works on what its queries can have returned and the tables     *)
(* keep their types: _repair_filled_order_commit meets entries only, a     *)
(* close _commit_fill takes up has its position.                           *)
THEOREM TypeCorrect == Spec => []TypeOK
<1>1. Fits => TypeOK
  BY DEF Fits
<1> QED
  BY <1>1, FitsInit, FitsNext, PTL DEF Spec

-----------------------------------------------------------------------------
(* The close RPC pays for a position once.                                 *)

(* A step that marks nothing, keeps the links of internal closes and       *)
(* reopens nothing.                                                        *)
LEMMA PaidKept ==
  ASSUME Fits, PaidOnce,
         \A o \in Orders : /\ orders'[o].marked => orders[o].marked
                           /\ o \in Internal => orders'[o].link = orders[o].link,
         \A p \in Positions : pos[p].status = "closed" => pos'[p].status = "closed"
  PROVE  PaidOnce'
<1>1. \A o \in Orders : orders[o].link # None => orders[o].link \in Positions
  BY RowParts DEF Fits, TypeOK
<1> QED
  BY <1>1, Ids DEF PaidOnce

(* Every step keeps a position paid for at most once.                      *)
LEMMA PaidNext == Fits /\ PaidOnce /\ [Next]_vars => PaidOnce'
<1> SUFFICES ASSUME Fits, PaidOnce, [Next]_vars PROVE PaidOnce'
  OBVIOUS
<1>0. TypeOK /\ orders \in [Orders -> OrderRow]
  BY DEF Fits, TypeOK
<1>1. ASSUME NEW r \in Runs, RunSteps(r) PROVE PaidOnce'
  BY <1>1, RunEdits, RunCloses, PaidKept DEF Edits, Edit, Closes
<1>2. ASSUME NEW o \in Orders, Age(o) PROVE PaidOnce'
  <2>1. Edits /\ UNCHANGED pos
    BY <1>2, AgeFits DEF Age
  <2> QED
    BY <2>1, PaidKept DEF Edits, Edit
<1>3. ASSUME UNCHANGED <<orders, pos>> PROVE PaidOnce'
  BY <1>3 DEF PaidOnce
<1>4. ASSUME NEW c \in Closers, CloserStage(c) PROVE PaidOnce'
  <2> DEFINE x == closer[c].order
             row == Staged(closer[c].qty, closer[c].pos)
  <2>1. /\ closer[c].pc = "stage" /\ UNCHANGED pos
        /\ orders' = [orders EXCEPT ![x] = row]
    BY <1>4 DEF CloserStage
  <2>2. x \in Orders /\ row.marked = FALSE
    BY <2>1, CloserParts, StagedRow
  <2> HIDE DEF row
  <2>3. /\ ~orders'[x].marked
        /\ \A o \in Orders : o # x => orders'[o] = orders[o]
    BY <1>0, <2>1, <2>2
  <2> QED
    BY <2>1, <2>3 DEF PaidOnce
<1>5. ASSUME NEW c \in Closers, CloserCommit(c) PROVE PaidOnce'
  <2> DEFINE x == closer[c].order
             p == closer[c].pos
             row == [orders[x] EXCEPT !.status = "filled",
                                      !.filled = closer[c].qty, !.marked = TRUE]
             shut == [pos[p] EXCEPT !.status = "closed", !.qty = 0]
  <2>1. /\ closer[c].pc = "commit" /\ pos[p].status = "open"
        /\ orders' = [orders EXCEPT ![x] = row]
        /\ pos' = [pos EXCEPT ![p] = shut]
    BY <1>5 DEF CloserCommit, Accepts
  <2>2. /\ x \in Orders /\ x \in Internal /\ p \in Positions
        /\ closer[c].qty \in Nat /\ orders[x].link = p /\ p # None
    BY <2>1, CloserParts, Ids DEF Fits, CloserFits
  <2>3. orders[x] \in OrderRow /\ pos[p] \in PosRow /\ pos \in [Positions -> PosRow]
    BY <1>0, <2>2 DEF TypeOK
  <2>4. row.link = p /\ shut.status = "closed"
    <3>1. row.link = p
      BY <2>2, <2>3 DEF OrderRow
    <3>2. shut.status = "closed"
      BY <2>3, Shut
    <3> QED
      BY <3>1, <3>2
  <2> HIDE DEF row, shut
  <2>5. /\ orders'[x].link = p
        /\ \A o \in Orders : o # x => orders'[o] = orders[o]
    BY <1>0, <2>1, <2>2, <2>4
  <2>6. /\ pos'[p].status = "closed"
        /\ \A q \in Positions : q # p => pos'[q] = pos[q]
    BY <2>1, <2>2, <2>3, <2>4
  <2>7. \A o \in Orders : o # x /\ orders[o].marked =>
          /\ o \in Internal /\ orders[o].link # None /\ orders[o].link # p
          /\ pos[orders[o].link].status = "closed"
          /\ orders[o].link \in Positions
    BY <1>0, <2>1, RowParts DEF PaidOnce
  <2> QED
    BY <2>2, <2>5, <2>6, <2>7 DEF PaidOnce
<1>6. ASSUME NEW c \in Closers, CloserSteps(c) PROVE PaidOnce'
  <2>1. \/ CloserStage(c) \/ CloserCommit(c)
        \/ UNCHANGED <<orders, pos>>
    BY <1>6, Zenon DEF CloserSteps, CloserGoesOn, CloserRead, CloserCheck,
                       CloserRejected, CloserCrash
  <2> QED
    BY <1>3, <1>4, <1>5, <2>1
<1>7. CASE Next
  BY <1>1, <1>2, <1>6, <1>7, Stepping
<1>8. CASE UNCHANGED vars
  BY <1>3, <1>8 DEF vars
<1> QED
  BY <1>7, <1>8

(* However runs of the sweep and of the evaluator overlap, fail or die,    *)
(* rpc_commit_internal_close_v1 pays for a position at most once: it       *)
(* commits only into an open position and closes it in the same            *)
(* transaction, and no statement of a sweep reopens a closed position or   *)
(* moves the link of an internal close.                                    *)
THEOREM PositionPaidOnce == Spec => []PaidOnce
<1>1. Init => PaidOnce
  BY DEF Init, PaidOnce, NoOrder
<1> QED
  BY <1>1, FitsInit, FitsNext, PaidNext, PTL DEF Spec

-----------------------------------------------------------------------------
(* The books, while nothing overlaps, fails or dies.                       *)

(* Finitely many rows, and one entry of each strategy.                     *)
OneEntryEach ==
  /\ IsFiniteSet(Orders) /\ IsFiniteSet(Positions)
  /\ \A e, f \in Entries : Key[e] = Key[f] => e = f

(* The sums are the ones BooksAgree takes.                                 *)
LEMMA SumIs ==
  /\ SumFunction([p \in Positions |-> pos[p].qty]) = Contracts
  /\ SumFunction([o \in Orders |-> ledger[o].amount]) = Amounts
  /\ SumFunction([o \in Orders |-> Signed(o, orders[o].filled)]) = Filled
<1>1. ASSUME NEW f, NEW S, DOMAIN f = S PROVE SumFunction(f) = SumOf(f, S)
  BY <1>1 DEF SumFunction, SumFunctionOnSet, FoldFunctionOnSet, SumOf,
              MapThenSumSet
<1> DEFINE fp == [p \in Positions |-> pos[p].qty]
           fa == [o \in Orders |-> ledger[o].amount]
           ff == [o \in Orders |-> Signed(o, orders[o].filled)]
<1>2. DOMAIN fp = Positions /\ DOMAIN fa = Orders /\ DOMAIN ff = Orders
  OBVIOUS
<1>3. Contracts = SumOf(fp, Positions) /\ Amounts = SumOf(fa, Orders)
      /\ Filled = SumOf(ff, Orders)
  BY DEF Contracts, Amounts, Filled
<1> HIDE DEF fp, fa, ff
<1>4. /\ SumFunction(fp) = Contracts /\ SumFunction(fa) = Amounts
      /\ SumFunction(ff) = Filled
  BY <1>1, <1>2, <1>3
<1> QED
  BY <1>4 DEF fp, fa, ff

(* What is signed is an integer.                                           *)
LEMMA SignedInt == \A o, q : q \in Nat => Signed(o, q) \in Int
BY DEF Signed

(* The sums are integers.                                                  *)
LEMMA TotalsInt ==
  ASSUME TypeOK, OneEntryEach
  PROVE  Contracts \in Int /\ Amounts \in Int /\ Filled \in Int /\ cash \in Int
<1>1. /\ \A p \in Positions : pos[p].qty \in Int
      /\ \A o \in Orders : ledger[o].amount \in Int
      /\ \A o \in Orders : orders[o].filled \in Nat
  BY RowParts DEF TypeOK, PosRow
<1> DEFINE fp == [p \in Positions |-> pos[p].qty]
           fa == [o \in Orders |-> ledger[o].amount]
           ff == [o \in Orders |-> Signed(o, orders[o].filled)]
<1>2. /\ \A p \in Positions : fp[p] \in Int
      /\ \A o \in Orders : fa[o] \in Int
      /\ \A o \in Orders : ff[o] \in Int
  BY <1>1, SignedInt
<1>3. IsFiniteSet(Orders) /\ IsFiniteSet(Positions)
  BY DEF OneEntryEach
<1>4. Contracts = SumOf(fp, Positions) /\ Amounts = SumOf(fa, Orders)
      /\ Filled = SumOf(ff, Orders)
  BY DEF Contracts, Amounts, Filled
<1> HIDE DEF fp, fa, ff
<1>5. SumOf(fp, Positions) \in Int
  BY <1>2, <1>3, SumType
<1>6. SumOf(fa, Orders) \in Int
  BY <1>2, <1>3, SumType
<1>7. SumOf(ff, Orders) \in Int
  BY <1>2, <1>3, SumType
<1> QED
  BY <1>4, <1>5, <1>6, <1>7 DEF TypeOK

(* A position is rewritten.                                                *)
LEMMA ContractsChange ==
  ASSUME TypeOK, OneEntryEach, NEW p \in Positions, NEW row \in PosRow,
         pos' = [pos EXCEPT ![p] = row]
  PROVE  Contracts' = Contracts - pos[p].qty + row.qty
<1>1. pos \in [Positions -> PosRow] /\ IsFiniteSet(Positions)
  BY DEF TypeOK, OneEntryEach
<1>2. row.qty \in Int /\ \A q \in Positions : pos[q].qty \in Int
  BY <1>1 DEF PosRow
<1> DEFINE f == [q \in Positions |-> pos[q].qty]
           g == [q \in Positions |-> pos'[q].qty]
<1>3. /\ f[p] = pos[p].qty /\ g[p] = row.qty
      /\ OneChanges(f, g, p, Positions)
  BY <1>1, <1>2 DEF OneChanges
<1>4. Contracts = SumOf(f, Positions) /\ Contracts' = SumOf(g, Positions)
  BY DEF Contracts
<1> HIDE DEF f, g
<1>5. SumOf(g, Positions) = SumOf(f, Positions) - f[p] + g[p]
  BY <1>1, <1>3, SumChange
<1> QED
  BY <1>3, <1>4, <1>5

(* An order is.                                                            *)
LEMMA FilledChange ==
  ASSUME TypeOK, OneEntryEach, NEW o \in Orders, NEW row \in OrderRow,
         orders' = [orders EXCEPT ![o] = row]
  PROVE  Filled' = Filled - Signed(o, orders[o].filled) + Signed(o, row.filled)
<1>1. orders \in [Orders -> OrderRow] /\ IsFiniteSet(Orders)
  BY DEF TypeOK, OneEntryEach
<1>2. /\ Signed(o, row.filled) \in Int
      /\ \A q \in Orders : Signed(q, orders[q].filled) \in Int
  BY <1>1, RowParts, SignedInt
<1> DEFINE f == [q \in Orders |-> Signed(q, orders[q].filled)]
           g == [q \in Orders |-> Signed(q, orders'[q].filled)]
<1>3. /\ f[o] = Signed(o, orders[o].filled) /\ g[o] = Signed(o, row.filled)
      /\ OneChanges(f, g, o, Orders)
  BY <1>1, <1>2 DEF OneChanges
<1>4. Filled = SumOf(f, Orders) /\ Filled' = SumOf(g, Orders)
  BY DEF Filled, Signed
<1> HIDE DEF f, g
<1>5. SumOf(g, Orders) = SumOf(f, Orders) - f[o] + g[o]
  BY <1>1, <1>3, SumChange
<1> QED
  BY <1>3, <1>4, <1>5

(* An order keeps what is filled.                                          *)
LEMMA FilledKept ==
  ASSUME TypeOK, OneEntryEach, NEW o \in Orders, NEW row \in OrderRow,
         orders' = [orders EXCEPT ![o] = row], row.filled = orders[o].filled
  PROVE  Filled' = Filled
<1>1. Signed(o, orders[o].filled) \in Int /\ Filled \in Int
  BY TotalsInt, RowParts, SignedInt DEF TypeOK
<1>2. Filled' = Filled - Signed(o, orders[o].filled)
                  + Signed(o, orders[o].filled)
  BY FilledChange
<1> QED
  BY <1>1, <1>2

(* A ledger row is.                                                        *)
LEMMA AmountsChange ==
  ASSUME TypeOK, OneEntryEach, NEW o \in Orders,
         NEW row \in [fill : Nat, partial : Nat, amount : Int],
         ledger' = [ledger EXCEPT ![o] = row]
  PROVE  Amounts' = Amounts - ledger[o].amount + row.amount
<1>1. /\ ledger \in [Orders -> [fill : Nat, partial : Nat, amount : Int]]
      /\ IsFiniteSet(Orders)
  BY DEF TypeOK, OneEntryEach
<1>2. row.amount \in Int /\ \A q \in Orders : ledger[q].amount \in Int
  BY <1>1
<1> DEFINE f == [q \in Orders |-> ledger[q].amount]
           g == [q \in Orders |-> ledger'[q].amount]
<1>3. /\ f[o] = ledger[o].amount /\ g[o] = row.amount
      /\ OneChanges(f, g, o, Orders)
  BY <1>1, <1>2 DEF OneChanges
<1>4. Amounts = SumOf(f, Orders) /\ Amounts' = SumOf(g, Orders)
  BY DEF Amounts
<1> HIDE DEF f, g
<1>5. SumOf(g, Orders) = SumOf(f, Orders) - f[o] + g[o]
  BY <1>1, <1>3, SumChange
<1> QED
  BY <1>3, <1>4, <1>5

(* Tables that do not change have the same sums.                           *)
LEMMA SumsKept ==
  /\ UNCHANGED pos => Contracts' = Contracts
  /\ UNCHANGED ledger => Amounts' = Amounts
  /\ UNCHANGED orders => Filled' = Filled
BY DEF Contracts, Amounts, Filled, Signed

(* What holds of the tables while nothing but run r is under way.          *)
LinkedBy(r) ==
  /\ \A e \in Entries, p \in Positions :
       pos[p].status = "open" /\ pos[p].key = Key[e] =>
         orders[e].link # None \/ At(r, {"newLink"}, e)
  /\ \A e \in Entries : orders[e].link # None =>
         orders[e].status = "filled" \/ At(r, {"status"}, e)
  /\ \A e \in Entries : orders[e].status = "filled" /\ orders[e].link = None =>
         At(r, {"cashUpdate", "ledger", "find", "position", "newLink"}, e)
  /\ \A x \in Internal : Present(x) => orders[x].status = "filled"

Books(r) == Balanced(Pending(r, {"ledger", "find", "position"}),
                     Pending(r, {"ledger"}),
                     Pending(r, {"cashUpdate", "ledger", "find", "position"}))

View(r) == Tidy /\ LinkedBy(r) /\ RunHolds(r) /\ Books(r)

(* Nothing but run r is under way.                                         *)
Only(r) ==
  /\ \A q \in Runs : q # r => run[q].pc = "idle"
  /\ \A c \in Closers : closer[c].pc = "idle"

(* From the invariant to the view, and back.                               *)
LEMMA ViewOf ==
  ASSUME NEW r \in Runs, Only(r), Calm, BooksHold
  PROVE  View(r)
<1>1. \A q \in Runs : \A o, st : "idle" \notin st /\ At(q, st, o) => q = r
  BY DEF Only, At
<1>2. LinkedBy(r)
  <2>1. Linked
    BY DEF Calm
  <2>2. /\ \A e \in Entries, p \in Positions :
             pos[p].status = "open" /\ pos[p].key = Key[e] =>
               orders[e].link # None \/ At(r, {"newLink"}, e)
        /\ \A e \in Entries : orders[e].link # None =>
               orders[e].status = "filled" \/ At(r, {"status"}, e)
    BY <1>1, <2>1 DEF Linked
  <2>3. \A e \in Entries : orders[e].status = "filled" /\ orders[e].link = None =>
          At(r, {"cashUpdate", "ledger", "find", "position", "newLink"}, e)
    BY <1>1, <2>1 DEF Linked
  <2>4. \A x \in Internal : Present(x) => orders[x].status = "filled"
    BY <2>1 DEF Linked, Only
  <2> QED
    BY <2>2, <2>3, <2>4 DEF LinkedBy
<1>3. Books(r)
  <2>1. CASE run[r].pc = "idle"
    <3>1. \A q \in Runs : run[q].pc = "idle"
      BY <2>1 DEF Only
    <3>2. Balanced(0, 0, 0)
      BY <3>1 DEF BooksHold
    <3>3. /\ Pending(r, {"ledger", "find", "position"}) = 0
          /\ Pending(r, {"ledger"}) = 0
          /\ Pending(r, {"cashUpdate", "ledger", "find", "position"}) = 0
      BY <2>1 DEF Pending
    <3> QED
      BY <3>2, <3>3 DEF Books
  <2>2. CASE run[r].pc # "idle"
    BY <2>2 DEF BooksHold, Books
  <2> QED
    BY <2>1, <2>2
<1> QED
  BY <1>2, <1>3 DEF View, Calm

(* The view after a step of the run gives the invariant back.              *)
LEMMA CalmOf ==
  ASSUME NEW r \in Runs, Calm, Only(r), Only(r)', View(r)',
         \A q \in Runs : q # r => run'[q] = run[q]
  PROVE  Calm' /\ BooksHold'
<1>0. /\ \A q \in Runs : q # r => run'[q].pc = "idle"
      /\ \A c \in Closers : closer'[c].pc = "idle"
  BY DEF Only
<1>1. Alone'
  BY <1>0 DEF Alone
<1>2. Linked'
  <2>1. LinkedBy(r)'
    BY DEF View
  <2> QED
    BY <2>1 DEF LinkedBy, Linked
<1>3. (\A c \in Closers : CloserHolds(c))'
  BY <1>0 DEF CloserHolds
<1>4. ASSUME NEW q \in Runs PROVE RunHolds(q)'
  <2>1. CASE q = r
    BY <2>1 DEF View
  <2>2. CASE q # r
    <3>1. run'[q] = run[q] /\ run[q].pc = "idle" /\ RunHolds(q)
      BY <2>2 DEF Only, Calm
    <3> QED
      BY <3>1 DEF RunHolds, Repairing, Committing
  <2> QED
    BY <2>1, <2>2
<1>5. BooksHold'
  <2>1. Books(r)'
    BY DEF View
  <2>2. ASSUME \A q \in Runs : run'[q].pc = "idle" PROVE Balanced(0, 0, 0)'
    <3>1. /\ Pending(r, {"ledger", "find", "position"})' = 0
          /\ Pending(r, {"ledger"})' = 0
          /\ Pending(r, {"cashUpdate", "ledger", "find", "position"})' = 0
      BY <2>2 DEF Pending
    <3> QED
      BY <2>1, <3>1 DEF Books, Balanced
  <2>3. ASSUME NEW q \in Runs, run'[q].pc # "idle" PROVE q = r
    BY <1>0, <2>3
  <2> QED
    BY <2>1, <2>2, <2>3 DEF BooksHold, Books
<1> QED
  BY <1>1, <1>2, <1>3, <1>4, <1>5 DEF Calm, View

(* The run itself, after a step.                                           *)
LEMMA RunNow ==
  ASSUME TypeOK, NEW r \in Runs, NEW s, run' = [run EXCEPT ![r] = s]
  PROVE  run'[r] = s
BY DEF TypeOK

(* The fields of a run that only moves on.                                 *)
LEMMA GoesFields ==
  ASSUME TypeOK, NEW r \in Runs,
         NEW pc \in {"loop", "cashUpdate", "find", "position", "status"},
         Goes(r, pc)
  PROVE  /\ run'[r].pc = pc /\ run'[r].target = run[r].target
         /\ run'[r].cash = run[r].cash /\ run'[r].todo = run[r].todo
         /\ run'[r].snap = run[r].snap /\ run'[r].orphans = run[r].orphans
         /\ run'[r].cur = run[r].cur /\ run'[r].inc = run[r].inc
         /\ run'[r].found = run[r].found /\ run'[r].qty = run[r].qty
<1> DEFINE s == [run[r] EXCEPT !.pc = pc]
<1>1. run' = [run EXCEPT ![r] = s] /\ run[r] \in RunState
  BY RunParts DEF Goes
<1>2. /\ s.pc = pc /\ s.target = run[r].target /\ s.cash = run[r].cash
      /\ s.todo = run[r].todo /\ s.snap = run[r].snap
      /\ s.orphans = run[r].orphans /\ s.cur = run[r].cur /\ s.inc = run[r].inc
      /\ s.found = run[r].found /\ s.qty = run[r].qty
  BY <1>1 DEF RunState
<1> HIDE DEF s
<1> QED
  BY <1>1, <1>2, RunNow

(* Of one that leaves an order.                                            *)
LEMMA WithoutFields ==
  ASSUME NEW s \in RunState, NEW o \in Orders
  PROVE  /\ Without(s, o) \in RunState
         /\ Without(s, o).pc = s.pc /\ Without(s, o).cash = s.cash
         /\ Without(s, o).todo = s.todo \ {o}
         /\ Without(s, o).orphans = s.orphans
         /\ Without(s, o).target = s.target
         /\ \A q \in s.todo \ {o} : Without(s, o).snap[q] = s.snap[q]
<1> DEFINE rest == s.todo \ {o}
           seen == [s.snap EXCEPT ![o] = NoOrder]
           w == [s EXCEPT !.todo = rest, !.snap = seen]
<1>1. Without(s, o) = w
  BY DEF Without
<1>2. s.todo \in SUBSET Orders /\ s.snap \in [Orders -> OrderRow]
  BY DEF RunState
<1>3. rest \in SUBSET Orders /\ seen \in [Orders -> OrderRow]
  BY <1>2, AtRest
<1>4. \A q \in rest : seen[q] = s.snap[q]
  BY <1>2
<1> HIDE DEF seen
<1>5. w \in RunState /\ w.pc = s.pc /\ w.cash = s.cash /\ w.todo = rest
      /\ w.orphans = s.orphans /\ w.target = s.target /\ w.snap = seen
  BY <1>3 DEF RunState
<1> HIDE DEF w
<1> QED
  BY <1>1, <1>4, <1>5

(* Of one that goes on to the next order.                                  *)
LEMMA NextOrderFields ==
  ASSUME TypeOK, NEW r \in Runs, run[r].cur \in Orders, NextOrder(r)
  PROVE  /\ run'[r].pc = "loop" /\ run'[r].cash = run[r].cash
         /\ run'[r].todo = run[r].todo \ {run[r].cur}
         /\ run'[r].orphans = run[r].orphans
         /\ \A q \in run'[r].todo : run'[r].snap[q] = run[r].snap[q]
<1> DEFINE zero == 0
           w == Without(run[r], run[r].cur)
           s == [w EXCEPT !.pc = "loop", !.cur = None, !.inc = zero,
                          !.found = None, !.qty = zero]
<1>0. run[r] \in RunState
  BY RunParts
<1>1. run' = [run EXCEPT ![r] = s]
  BY DEF NextOrder
<1>2. /\ w \in RunState /\ w.cash = run[r].cash
      /\ w.todo = run[r].todo \ {run[r].cur} /\ w.orphans = run[r].orphans
      /\ \A q \in w.todo : w.snap[q] = run[r].snap[q]
  BY <1>0, WithoutFields
<1> HIDE DEF w, zero
<1>3. /\ s.pc = "loop" /\ s.cash = w.cash /\ s.todo = w.todo
      /\ s.orphans = w.orphans /\ s.snap = w.snap
  BY <1>2 DEF RunState
<1> HIDE DEF s
<1>4. run'[r] = s
  BY <1>1, RunNow
<1> QED
  BY <1>2, <1>3, <1>4

-----------------------------------------------------------------------------
(* Between commits.                                                        *)

Resting == {"idle", "stage", "cash", "select", "orphans", "loop"}

Settled ==
  /\ \A e \in Entries, p \in Positions :
       pos[p].status = "open" /\ pos[p].key = Key[e] => orders[e].link # None
  /\ \A e \in Entries : orders[e].link # None <=> orders[e].status = "filled"
  /\ \A x \in Internal : Present(x) => orders[x].status = "filled"

(* What a run read is what is there.                                       *)
Knows(s) ==
  /\ s.orphans = {} /\ s.todo \cap Internal = {}
  /\ \A o \in s.todo : /\ s.snap[o].link = orders[o].link
                       /\ s.snap[o].filled = orders[o].filled
                       /\ o \in Entries => s.snap[o].link = None

(* Between commits the view says more, ...                                 *)
LEMMA RestView ==
  ASSUME NEW r \in Runs, View(r), run[r].pc \in Resting
  PROVE  Tidy /\ Settled /\ Balanced(0, 0, 0) /\ Knows(run[r])
<1>1. Settled
  BY DEF View, LinkedBy, At, Settled, Resting
<1>2. Knows(run[r])
  BY DEF View, RunHolds, At, Knows, Resting, Committing
<1>3. /\ Pending(r, {"ledger", "find", "position"}) = 0
      /\ Pending(r, {"ledger"}) = 0
      /\ Pending(r, {"cashUpdate", "ledger", "find", "position"}) = 0
  BY DEF Pending, Resting
<1> QED
  BY <1>1, <1>2, <1>3 DEF View, Books

(* ... and follows from what it says.                                      *)
LEMMA ViewRest ==
  ASSUME NEW r \in Runs, run'[r].pc \in Resting \cup {"order"}, Tidy', Settled',
         Balanced(0, 0, 0)', RunHolds(r)'
  PROVE  View(r)'
<1>1. LinkedBy(r)'
  BY DEF LinkedBy, Settled
<1>2. /\ Pending(r, {"ledger", "find", "position"})' = 0
      /\ Pending(r, {"ledger"})' = 0
      /\ Pending(r, {"cashUpdate", "ledger", "find", "position"})' = 0
  BY DEF Pending, Resting
<1> QED
  BY <1>1, <1>2 DEF View, Books, Balanced

(* A run that only read.                                                   *)
LEMMA ViewReads ==
  ASSUME NEW r \in Runs, View(r), run[r].pc \in Resting,
         UNCHANGED <<orders, pos, cash, ledger>>,
         run'[r].pc \in Resting \cup {"order"}, RunHolds(r)'
  PROVE  View(r)'
<1>1. Tidy /\ Settled /\ Balanced(0, 0, 0)
  BY RestView
<1>2. Tidy' /\ Settled'
  BY <1>1 DEF Tidy, Settled, Present
<1>3. Balanced(0, 0, 0)'
  BY <1>1, SumsKept DEF Balanced
<1> QED
  BY <1>2, <1>3, ViewRest

(* A run at rest holds what it knows.                                      *)
LEMMA RestHolds ==
  ASSUME NEW r \in Runs, run'[r].pc \in Resting,
         run'[r].orphans = {}, run'[r].todo \cap Internal = {},
         \A o \in run'[r].todo : /\ run'[r].snap[o].link = orders'[o].link
                                 /\ run'[r].snap[o].filled = orders'[o].filled
                                 /\ o \in Entries => run'[r].snap[o].link = None,
         run'[r].pc = "idle" => run'[r].todo = {},
         run'[r].pc = "stage" => /\ orders'[run'[r].target].status = "absent"
                                 /\ pos'[run'[r].found].status # "absent",
         run'[r].pc \in {"select", "orphans", "loop"} => run'[r].cash = cash'
  PROVE  RunHolds(r)'
BY DEF RunHolds, Resting, Repairing, Committing, Present

(* A sweep reads the portfolio.                                            *)
LEMMA ViewStart ==
  ASSUME Fits, NEW r \in Runs, View(r), RunStart(r) \/ RunReadCash(r)
  PROVE  View(r)'
<1> DEFINE s == [run[r] EXCEPT !.pc = "select", !.cash = cash]
<1>0. TypeOK /\ run[r] \in RunState /\ cash \in Int
  BY RunParts DEF Fits, TypeOK
<1>1. /\ run' = [run EXCEPT ![r] = s] /\ run[r].pc \in Resting
      /\ UNCHANGED <<orders, pos, cash, ledger>>
  BY DEF RunStart, RunReadCash, Resting
<1>2. /\ s.pc = "select" /\ s.cash = cash /\ s.todo = run[r].todo
      /\ s.snap = run[r].snap /\ s.orphans = run[r].orphans
  BY <1>0 DEF RunState
<1> HIDE DEF s
<1>3. run'[r] = s
  BY <1>0, <1>1, RunNow
<1>4. Knows(run[r])
  BY <1>1, RestView
<1>5. RunHolds(r)'
  BY <1>1, <1>2, <1>3, <1>4, RestHolds DEF Knows, Resting
<1> QED
  BY <1>1, <1>2, <1>3, <1>5, ViewReads DEF Resting

(* A close reads its position.                                             *)
LEMMA ViewReadPosition ==
  ASSUME Fits, NEW r \in Runs, NEW m \in Manual, NEW p \in Positions,
         View(r), RunReadPosition(r, m, p)
  PROVE  View(r)'
<1> DEFINE s == [IdleRun EXCEPT !.pc = "stage", !.target = m, !.found = p,
                                !.qty = pos[p].qty]
<1>0. TypeOK
  BY DEF Fits
<1>1. /\ run' = [run EXCEPT ![r] = s] /\ run[r].pc \in Resting
      /\ orders[m].status = "absent" /\ pos[p].qty > 0
      /\ UNCHANGED <<orders, pos, cash, ledger>>
  BY DEF RunReadPosition, Resting
<1>2. /\ s.pc = "stage" /\ s.todo = {} /\ s.orphans = {} /\ s.target = m
      /\ s.found = p
  BY AtRest DEF RunState
<1> HIDE DEF s
<1>3. run'[r] = s
  BY <1>0, <1>1, RunNow
<1>4. pos[p].status # "absent"
  BY <1>1, RestView DEF Tidy
<1>5. RunHolds(r)'
  BY <1>1, <1>2, <1>3, <1>4, RestHolds DEF Resting
<1> QED
  BY <1>1, <1>2, <1>3, <1>5, ViewReads DEF Resting

(* The in-flight orders are selected.                                      *)
LEMMA ViewSelect ==
  ASSUME Fits, NEW r \in Runs, View(r), RunSelect(r)
  PROVE  View(r)'
<1> DEFINE todo == {o \in Orders :
             /\ orders[o].status \in {"staged", "working", "partial"}
             /\ Stale(orders[o]) \/ run[r].target \in {None, o}}
           seen == [o \in Orders |-> IF o \in todo THEN orders[o] ELSE NoOrder]
           s == [run[r] EXCEPT !.pc = "orphans", !.todo = todo, !.snap = seen]
<1>0. TypeOK /\ run[r] \in RunState
  BY RunParts DEF Fits
<1>1. /\ run' = [run EXCEPT ![r] = s] /\ run[r].pc = "select"
      /\ UNCHANGED <<orders, pos, cash, ledger>>
  BY DEF RunSelect
<1>t. todo \in SUBSET Orders
  OBVIOUS
<1>e. Settled /\ Knows(run[r]) /\ run[r].cash = cash
  BY <1>1, RestView DEF Resting, View, RunHolds
<1>2. todo \cap Internal = {} /\ \A o \in todo \cap Entries : orders[o].link = None
  BY <1>e DEF Settled, Present
<1>3. \A o \in todo : seen[o] = orders[o]
  OBVIOUS
<1> HIDE DEF todo, seen
<1>4. /\ s.pc = "orphans" /\ s.cash = run[r].cash /\ s.todo = todo
      /\ s.snap = seen /\ s.orphans = run[r].orphans
  BY <1>0, <1>t DEF RunState
<1> HIDE DEF s
<1>5. run'[r] = s
  BY <1>0, <1>1, RunNow
<1>6. RunHolds(r)'
  BY <1>1, <1>2, <1>3, <1>4, <1>5, <1>e, RestHolds DEF Knows, Resting
<1> QED
  BY <1>1, <1>4, <1>5, <1>6, ViewReads DEF Resting

(* There are no orphans to select.                                         *)
LEMMA ViewSelectOrphans ==
  ASSUME Fits, NEW r \in Runs, View(r), RunSelectOrphans(r)
  PROVE  View(r)'
<1> DEFINE orphans == {o \in Orders : /\ orders[o].status = "filled"
                                      /\ orders[o].link = None
                                      /\ orders[o].filled > 0}
           fill == [o \in Orders |-> IF o \in orphans THEN orders[o].filled ELSE 0]
           s == [run[r] EXCEPT !.pc = "loop", !.orphans = orphans, !.filled = fill]
<1>0. TypeOK /\ run[r] \in RunState /\ RowsFit
  BY RunParts DEF Fits
<1>1. /\ run' = [run EXCEPT ![r] = s] /\ run[r].pc = "orphans"
      /\ UNCHANGED <<orders, pos, cash, ledger>>
  BY DEF RunSelectOrphans
<1>e. Settled /\ Knows(run[r]) /\ run[r].cash = cash
  BY <1>1, RestView DEF Resting, View, RunHolds
<1>2. orphans = {}
  BY <1>0, <1>e DEF Settled, RowsFit, Present
<1> HIDE DEF orphans, fill
<1>4. /\ s.pc = "loop" /\ s.cash = run[r].cash /\ s.todo = run[r].todo
      /\ s.snap = run[r].snap /\ s.orphans = orphans
  BY <1>0 DEF RunState
<1> HIDE DEF s
<1>5. run'[r] = s
  BY <1>0, <1>1, RunNow
<1>6. RunHolds(r)'
  BY <1>1, <1>2, <1>4, <1>5, <1>e, RestHolds DEF Knows, Resting
<1> QED
  BY <1>1, <1>4, <1>5, <1>6, ViewReads DEF Resting

(* A fill is simulated.                                                    *)
LEMMA ViewFill ==
  ASSUME Fits, NEW r \in Runs, NEW o \in Orders, View(r), Fill(r, o)
  PROVE  View(r)'
<1> DEFINE left == run[r].snap[o].qty - run[r].snap[o].filled
<1>0. TypeOK /\ run[r] \in RunState
  BY RunParts DEF Fits
<1>1. /\ run[r].pc = "loop" /\ o \in run[r].todo
      /\ UNCHANGED <<orders, pos, cash, ledger>>
  BY Zenon DEF Fill, InLoop
<1>2. PICK q \in {left, left \div 2} :
        /\ q > 0
        /\ run' = [run EXCEPT ![r] = [@ EXCEPT !.pc = "order", !.cur = o, !.inc = q]]
  BY Zenon DEF Fill
<1> DEFINE s == [run[r] EXCEPT !.pc = "order", !.cur = o, !.inc = q]
<1>3. run' = [run EXCEPT ![r] = s]
  BY <1>2, Zenon
<1>4. /\ s.pc = "order" /\ s.cur = o /\ s.inc = q /\ s.todo = run[r].todo
      /\ s.orphans = run[r].orphans /\ s.snap = run[r].snap
      /\ s.cash = run[r].cash
  BY <1>0 DEF RunState
<1> HIDE DEF s
<1>5. run'[r] = s
  BY <1>0, <1>3, RunNow
<1>e. Knows(run[r]) /\ run[r].cash = cash
  BY <1>1, RestView DEF Resting, View, RunHolds
<1>6. RunHolds(r)'
  BY <1>1, <1>2, <1>4, <1>5, <1>e
     DEF RunHolds, Knows, Repairing, Committing
<1> QED
  BY <1>1, <1>4, <1>5, <1>6, ViewReads DEF Resting

(* A run ends.                                                             *)
LEMMA ViewDone ==
  ASSUME Fits, NEW r \in Runs, View(r), RunDone(r)
  PROVE  View(r)'
<1>1. /\ run' = [run EXCEPT ![r] = IdleRun] /\ run[r].pc \in Resting
      /\ UNCHANGED <<orders, pos, cash, ledger>>
  BY DEF RunDone, Resting
<1>2. run'[r] = IdleRun
  BY <1>1, RunNow DEF Fits
<1>3. RunHolds(r)'
  BY <1>2, AtRest, RestHolds DEF Resting
<1> QED
  BY <1>1, <1>2, <1>3, AtRest, ViewReads DEF Resting

(* A row is written between commits.                                       *)
LEMMA RestEdit ==
  ASSUME Fits, OneEntryEach, Tidy, Settled, Balanced(0, 0, 0),
         NEW o \in Orders, NEW row \in OrderRow,
         orders' = [orders EXCEPT ![o] = row], UNCHANGED <<pos, cash, ledger>>,
         o \notin Internal, row.status \notin {"absent", "filled"},
         row.filled = orders[o].filled,
         o \in Entries => row.link = None /\ orders[o].link = None,
         row.link # None => pos[row.link].status # "absent"
  PROVE  Tidy' /\ Settled' /\ Balanced(0, 0, 0)'
<1>0. TypeOK /\ orders \in [Orders -> OrderRow]
  BY DEF Fits, TypeOK
<1>1. orders'[o] = row /\ \A q \in Orders : q # o => orders'[q] = orders[q]
  BY <1>0
<1>2. Tidy'
  BY <1>1 DEF Tidy, Present
<1>3. Settled'
  BY <1>1, Ids DEF Settled, Present
<1>4. Filled' = Filled
  BY <1>0, FilledKept
<1> QED
  BY <1>2, <1>3, <1>4, SumsKept DEF Balanced

(* An entry is staged.                                                     *)
LEMMA ViewStageEntry ==
  ASSUME Fits, OneEntryEach, NEW r \in Runs, NEW e \in Entries, View(r),
         RunStageEntry(r, e)
  PROVE  View(r)'
<1> DEFINE s == [IdleRun EXCEPT !.pc = "cash", !.target = e]
           row == Staged(Qty[e], None)
<1>0. TypeOK /\ e \in Orders /\ e \notin Internal
  BY Ids DEF Fits
<1>1. /\ run' = [run EXCEPT ![r] = s] /\ run[r].pc \in Resting
      /\ orders[e].status = "absent" /\ orders' = [orders EXCEPT ![e] = row]
      /\ UNCHANGED <<pos, cash, ledger>>
  BY DEF RunStageEntry, Resting
<1>2. s.pc = "cash" /\ s.todo = {} /\ s.orphans = {}
  BY AtRest DEF RunState
<1> HIDE DEF s
<1>3. run'[r] = s
  BY <1>0, <1>1, RunNow
<1>4. Tidy /\ Settled /\ Balanced(0, 0, 0)
  BY <1>1, RestView
<1>5. orders[e].link = None /\ orders[e].filled = 0
  BY <1>0, <1>1, <1>4 DEF Settled, Tidy, Present
<1>6. row \in OrderRow /\ row.status = "staged" /\ row.filled = 0 /\ row.link = None
  BY Ids, StagedRow
<1> HIDE DEF row
<1>7. Tidy' /\ Settled' /\ Balanced(0, 0, 0)'
  BY <1>0, <1>1, <1>4, <1>5, <1>6, RestEdit
<1>8. RunHolds(r)'
  BY <1>2, <1>3, RestHolds DEF Resting
<1> QED
  BY <1>2, <1>3, <1>7, <1>8, ViewRest DEF Resting

(* A close is staged.                                                      *)
LEMMA ViewStageClose ==
  ASSUME Fits, OneEntryEach, NEW r \in Runs, View(r), RunStageClose(r)
  PROVE  View(r)'
<1> DEFINE m == run[r].target
           s == [IdleRun EXCEPT !.pc = "cash", !.target = m]
           row == Staged(run[r].qty, run[r].found)
<1>1. /\ run' = [run EXCEPT ![r] = s] /\ run[r].pc = "stage"
      /\ orders' = [orders EXCEPT ![m] = row]
      /\ UNCHANGED <<pos, cash, ledger>>
  BY DEF RunStageClose
<1>0. /\ TypeOK /\ m \in Orders /\ m \notin Internal /\ m \notin Entries
      /\ run[r].qty \in Nat /\ run[r].found \in Positions
  BY <1>1, Ids DEF Fits, RunFits, RunOk
<1>2. s.pc = "cash" /\ s.todo = {} /\ s.orphans = {}
  BY AtRest, <1>0 DEF RunState
<1> HIDE DEF s
<1>3. run'[r] = s
  BY <1>0, <1>1, RunNow
<1>4. /\ Tidy /\ Settled /\ Balanced(0, 0, 0)
      /\ ~Present(m) /\ pos[run[r].found].status # "absent"
  BY <1>1, RestView DEF Resting, View, RunHolds
<1>5. orders[m].filled = 0
  BY <1>0, <1>4 DEF Tidy
<1>6. /\ row \in OrderRow /\ row.status = "staged" /\ row.filled = 0
      /\ row.link = run[r].found
  BY <1>0, StagedRow
<1> HIDE DEF row
<1>7. Tidy' /\ Settled' /\ Balanced(0, 0, 0)'
  BY <1>0, <1>1, <1>4, <1>5, <1>6, RestEdit
<1>8. RunHolds(r)'
  BY <1>2, <1>3, RestHolds DEF Resting
<1> QED
  BY <1>2, <1>3, <1>7, <1>8, ViewRest DEF Resting

(* An order of the loop is left cancelled, working or as it is.            *)
LEMMA ViewLeave ==
  ASSUME Fits, OneEntryEach, NEW r \in Runs, NEW o \in Orders, View(r),
         StaleCancel(r, o) \/ NoFill(r, o)
  PROVE  View(r)'
<1>1. /\ run[r].pc = "loop" /\ o \in run[r].todo
      /\ run' = [run EXCEPT ![r] = Without(@, o)]
      /\ UNCHANGED <<pos, cash, ledger>>
      /\ \/ orders' = [orders EXCEPT ![o] = [@ EXCEPT !.status = "cancelled"]]
         \/ orders' = [orders EXCEPT ![o] = [@ EXCEPT !.status = "working"]]
         \/ orders' = orders
  BY DEF StaleCancel, NoFill, InLoop
<1>0. /\ TypeOK /\ run[r] \in RunState /\ orders \in [Orders -> OrderRow]
      /\ orders[o] \in OrderRow
  BY RunParts DEF Fits, TypeOK
<1>2. /\ Tidy /\ Settled /\ Balanced(0, 0, 0) /\ Knows(run[r])
      /\ run[r].cash = cash
  BY <1>1, RestView DEF Resting, View, RunHolds
<1>3. /\ run'[r].pc = "loop" /\ run'[r].cash = run[r].cash
      /\ run'[r].todo = run[r].todo \ {o} /\ run'[r].orphans = run[r].orphans
      /\ \A q \in run'[r].todo : run'[r].snap[q] = run[r].snap[q]
  <2>1. run'[r] = Without(run[r], o)
    BY <1>0, <1>1, RunNow
  <2> QED
    BY <1>0, <1>1, <2>1, WithoutFields
<1>4. o \notin Internal /\ (o \in Entries => orders[o].link = None)
  BY <1>1, <1>2 DEF Knows
<1>5. orders[o].link # None => pos[orders[o].link].status # "absent"
  BY <1>2 DEF Tidy
<1>6. ASSUME NEW st \in {"cancelled", "working"},
             orders' = [orders EXCEPT ![o] = [@ EXCEPT !.status = st]]
      PROVE  Tidy' /\ Settled' /\ Balanced(0, 0, 0)' /\
             \A q \in Orders : q # o => orders'[q] = orders[q]
  <2> DEFINE row == [orders[o] EXCEPT !.status = st]
  <2>1. orders' = [orders EXCEPT ![o] = row]
    BY <1>6
  <2>2. /\ row \in OrderRow /\ row.status = st /\ row.link = orders[o].link
        /\ row.filled = orders[o].filled
    BY <1>0 DEF OrderRow
  <2> HIDE DEF row
  <2>3. row.status \notin {"absent", "filled"}
    BY <2>2
  <2>4. Tidy' /\ Settled' /\ Balanced(0, 0, 0)'
    BY <1>1, <1>2, <1>4, <1>5, <2>1, <2>2, <2>3, RestEdit
  <2> QED
    BY <1>0, <2>1, <2>4
<1>7. ASSUME orders' = orders PROVE Tidy' /\ Settled' /\ Balanced(0, 0, 0)'
  <2>1. Tidy' /\ Settled'
    BY <1>1, <1>2, <1>7 DEF Tidy, Settled, Present
  <2> QED
    BY <1>1, <1>2, <1>7, <2>1, SumsKept DEF Balanced
<1>8. /\ Tidy' /\ Settled' /\ Balanced(0, 0, 0)'
      /\ \A q \in Orders : q # o => orders'[q] = orders[q]
  BY <1>1, <1>6, <1>7
<1>9. RunHolds(r)'
  <2>1. run[r].todo \subseteq Orders
    BY <1>0 DEF RunState
  <2> QED
    BY <1>1, <1>2, <1>3, <1>8, <2>1, RestHolds DEF Resting, Knows
<1> QED
  BY <1>3, <1>8, <1>9, ViewRest DEF Resting

-----------------------------------------------------------------------------
(* A commit, statement by statement.                                       *)

(* What is known of a run in a commit.                                     *)
LEMMA InCommit ==
  ASSUME Fits, NEW r \in Runs, View(r), run[r].pc \in Committing
  PROVE  /\ TypeOK /\ Tidy /\ LinkedBy(r) /\ RunHolds(r) /\ Books(r)
         /\ run[r].cur \in run[r].todo /\ run[r].cur \in Orders
         /\ run[r].cur \notin Internal /\ Present(run[r].cur)
         /\ orders[run[r].cur] \in OrderRow
         /\ run[r].snap[run[r].cur] \in OrderRow
         /\ run[r].todo \subseteq Orders
         /\ run[r].cash = cash /\ run[r].inc \in Nat /\ run[r].inc > 0
         /\ run[r].orphans = {} /\ run[r].todo \cap Internal = {}
         /\ Signed(run[r].cur, run[r].inc) \in Int
         /\ Delta(r) = 0 - Signed(run[r].cur, run[r].inc)
         /\ run[r].cur \in Entries => run[r].snap[run[r].cur].link = None
         /\ run[r].cur \notin Entries => run[r].snap[run[r].cur].link # None
<1>0. TypeOK /\ Tidy /\ LinkedBy(r) /\ RunHolds(r) /\ Books(r)
  BY DEF Fits, View
<1>1. run[r].cur \in run[r].todo /\ run[r].cur \in Orders /\ Present(run[r].cur)
  BY RunOrder
<1>2. /\ run[r].todo \subseteq Orders /\ run[r].inc \in Nat
      /\ run[r].snap[run[r].cur] \in OrderRow /\ orders[run[r].cur] \in OrderRow
  BY <1>0, <1>1, RunParts DEF TypeOK
<1>3. /\ run[r].cash = cash /\ run[r].inc > 0 /\ run[r].orphans = {}
      /\ run[r].todo \cap Internal = {}
      /\ run[r].cur \in Entries => run[r].snap[run[r].cur].link = None
  BY <1>0, <1>1 DEF RunHolds, Committing
<1>4. run[r].cur \notin Entries => run[r].snap[run[r].cur].link # None
  BY <1>1 DEF Fits, RunFits, RunOk
<1> QED
  BY <1>0, <1>1, <1>2, <1>3, <1>4, SignedInt DEF Delta

(* What is still to be written, by stage.                                  *)
LEMMA PendingNow ==
  ASSUME NEW r \in Runs, Books(r)
  PROVE  LET d == Signed(run[r].cur, run[r].inc)
         IN  /\ run[r].pc = "order" => Balanced(0, 0, 0)
             /\ run[r].pc = "cashUpdate" => Balanced(0, 0, d)
             /\ run[r].pc = "ledger" => Balanced(d, d, d)
             /\ run[r].pc \in {"find", "position"} => Balanced(d, 0, d)
             /\ run[r].pc \in {"newLink", "status", "loop"} => Balanced(0, 0, 0)
BY DEF Books, Pending

BalancedNext(a, b, f) ==
  /\ cash' + Contracts' + a = Start
  /\ cash' + b = Start + Amounts'
  /\ Filled' = Contracts' + f

(* What is still to be written after a step.                               *)
LEMMA PendingNext ==
  ASSUME NEW r \in Runs, NEW d, d = Signed(run'[r].cur, run'[r].inc),
         \/ run'[r].pc = "cashUpdate" /\ BalancedNext(0, 0, d)
         \/ run'[r].pc = "ledger" /\ BalancedNext(d, d, d)
         \/ run'[r].pc \in {"find", "position"} /\ BalancedNext(d, 0, d)
         \/ run'[r].pc \in {"newLink", "status", "loop"} /\ BalancedNext(0, 0, 0)
  PROVE  Books(r)'
BY DEF Books, Pending, Signed, Balanced, BalancedNext

(* The order is filled, in part or in full.                                *)
LEMMA ViewCommitOrder ==
  ASSUME Fits, OneEntryEach, NEW r \in Runs, View(r), CommitOrder(r)
  PROVE  View(r)'
<1> DEFINE o == run[r].cur
           st == IF IsPartial(r) THEN "partial" ELSE "filled"
           row == [orders[o] EXCEPT !.status = st, !.filled = Total(r)]
           d == Signed(o, run[r].inc)
<1>1. /\ run[r].pc = "order" /\ orders' = [orders EXCEPT ![o] = row]
      /\ Goes(r, "cashUpdate") /\ UNCHANGED <<pos, cash, ledger>>
  BY DEF CommitOrder, SetFill
<1>2. run[r].pc \in Committing
  BY <1>1 DEF Committing
<1>3. /\ TypeOK /\ Tidy /\ LinkedBy(r) /\ RunHolds(r) /\ Books(r)
      /\ o \in run[r].todo /\ o \in Orders /\ o \notin Internal /\ Present(o)
      /\ orders[o] \in OrderRow /\ run[r].snap[o] \in OrderRow
      /\ run[r].cash = cash /\ run[r].inc \in Nat /\ run[r].inc > 0
      /\ run[r].orphans = {} /\ run[r].todo \cap Internal = {}
      /\ run[r].todo \subseteq Orders
      /\ o \in Entries => run[r].snap[o].link = None
  BY <1>2, InCommit
<1>4. /\ run[r].snap[o].filled = orders[o].filled
      /\ run[r].snap[o].link = orders[o].link
  BY <1>1, <1>3 DEF RunHolds, At
<1>5. orders[o].filled \in Nat /\ Total(r) = orders[o].filled + run[r].inc
  BY <1>3, <1>4, RowParts DEF Total
<1>6. /\ row \in OrderRow /\ row.status \in {"partial", "filled"}
      /\ row.filled = Total(r) /\ row.link = orders[o].link
  <2>1. st \in {"partial", "filled"} /\ Total(r) \in Nat
    BY <1>3, <1>5
  <2> HIDE DEF st
  <2> QED
    BY <1>3, <2>1 DEF OrderRow
<1> HIDE DEF row
<1>7. orders'[o] = row /\ \A q \in Orders : q # o => orders'[q] = orders[q]
  BY <1>1, <1>3 DEF TypeOK
<1>8. /\ run'[r].pc = "cashUpdate" /\ run'[r].cash = run[r].cash
      /\ run'[r].todo = run[r].todo /\ run'[r].snap = run[r].snap
      /\ run'[r].orphans = run[r].orphans /\ run'[r].cur = run[r].cur
      /\ run'[r].inc = run[r].inc /\ run'[r].found = run[r].found
      /\ run'[r].qty = run[r].qty
  BY <1>1, <1>3, GoesFields
<1>9. Tidy'
  BY <1>1, <1>3, <1>6, <1>7 DEF Tidy, Present
<1>10. LinkedBy(r)'
  BY <1>1, <1>3, <1>4, <1>6, <1>7, <1>8, Ids DEF LinkedBy, At, Present
<1>11. RunHolds(r)'
  BY <1>1, <1>3, <1>4, <1>5, <1>6, <1>7, <1>8
     DEF RunHolds, At, Committing, Repairing
<1>12. Books(r)'
  <2>1. Filled' = Filled - Signed(o, orders[o].filled) + Signed(o, Total(r))
    BY <1>1, <1>3, <1>6, FilledChange
  <2>2. Signed(o, Total(r)) = Signed(o, orders[o].filled) + d
    BY <1>3, <1>5 DEF Signed
  <2>3. Balanced(0, 0, 0)
    BY <1>1, <1>3, PendingNow
  <2>4. Signed(o, orders[o].filled) \in Int /\ d \in Int
    BY <1>3, <1>5, SignedInt
  <2>5. Contracts \in Int /\ Amounts \in Int /\ Filled \in Int /\ cash \in Int
    BY <1>3, TotalsInt
  <2>6. Contracts' = Contracts /\ Amounts' = Amounts
    BY <1>1, SumsKept
  <2>7. BalancedNext(0, 0, d)
    <3> HIDE DEF d
    <3> QED
      BY <1>1, <2>1, <2>2, <2>3, <2>4, <2>5, <2>6 DEF Balanced, BalancedNext
  <2> QED
    BY <1>8, <2>7, PendingNext
<1> QED
  BY <1>9, <1>10, <1>11, <1>12 DEF View

(* Cash pays: what the run read is what is there.                          *)
LEMMA ViewCommitCash ==
  ASSUME Fits, OneEntryEach, NEW r \in Runs, View(r), CommitCash(r)
  PROVE  View(r)'
<1> DEFINE new == run[r].cash + Delta(r)
           s == [run[r] EXCEPT !.pc = "ledger", !.cash = new]
           d == Signed(run[r].cur, run[r].inc)
<1>1. /\ run[r].pc = "cashUpdate" /\ run' = [run EXCEPT ![r] = s]
      /\ cash' = new /\ UNCHANGED <<orders, pos, ledger>>
  BY DEF CommitCash
<1>2. run[r].pc \in Committing
  BY <1>1 DEF Committing
<1>3. /\ TypeOK /\ Tidy /\ LinkedBy(r) /\ RunHolds(r) /\ Books(r)
      /\ run[r].cash = cash /\ run[r] \in RunState /\ cash \in Int
      /\ d \in Int /\ Delta(r) = 0 - d
  BY <1>2, InCommit, RunParts DEF TypeOK
<1>4. new = cash - d
  BY <1>3
<1>5. new \in Int
  BY <1>3, <1>4
<1> HIDE DEF new, d
<1>6. /\ s.pc = "ledger" /\ s.cash = new /\ s.todo = run[r].todo
      /\ s.snap = run[r].snap /\ s.orphans = run[r].orphans
      /\ s.cur = run[r].cur /\ s.inc = run[r].inc
  BY <1>3, <1>5 DEF RunState
<1> HIDE DEF s
<1>7. run'[r] = s
  BY <1>1, <1>3, RunNow
<1>8. Tidy'
  BY <1>1, <1>3 DEF Tidy, Present
<1>9. LinkedBy(r)'
  BY <1>1, <1>3, <1>6, <1>7 DEF LinkedBy, At, Present
<1>10. RunHolds(r)'
  BY <1>1, <1>3, <1>6, <1>7 DEF RunHolds, At, Committing, Repairing
<1>11. Books(r)'
  <2>1. Balanced(0, 0, d)
    BY <1>1, <1>3, PendingNow DEF d
  <2>2. Contracts \in Int /\ Amounts \in Int /\ Filled \in Int
    BY <1>3, TotalsInt
  <2>3. Contracts' = Contracts /\ Amounts' = Amounts /\ Filled' = Filled
    BY <1>1, SumsKept
  <2>4. BalancedNext(d, d, d)
    BY <1>1, <1>3, <1>4, <2>1, <2>2, <2>3 DEF Balanced, BalancedNext
  <2>5. d = Signed(run'[r].cur, run'[r].inc)
    BY <1>6, <1>7 DEF d
  <2> QED
    BY <1>6, <1>7, <2>4, <2>5, PendingNext
<1> QED
  BY <1>8, <1>9, <1>10, <1>11 DEF View

(* The ledger gets its row.                                                *)
LEMMA ViewCommitLedger ==
  ASSUME Fits, OneEntryEach, NEW r \in Runs, View(r), CommitLedger(r), Steady,
         troubles \in Nat
  PROVE  View(r)'
<1> DEFINE o == run[r].cur
           part == IF IsPartial(r) THEN 1 ELSE 0
           row == [fill |-> ledger[o].fill + 1 - part,
                   partial |-> ledger[o].partial + part,
                   amount |-> ledger[o].amount + Delta(r)]
           d == Signed(o, run[r].inc)
<1>1. /\ run[r].pc = "ledger" /\ Goes(r, "find")
      /\ UNCHANGED <<orders, pos, cash>>
      /\ ledger' = [ledger EXCEPT ![o] = row] \/ Fails
  BY Zenon DEF CommitLedger
<1>2. ledger' = [ledger EXCEPT ![o] = row]
  <2>1. ~Fails
    BY DEF Steady, Fails
  <2> QED
    BY <1>1, <2>1
<1>3. run[r].pc \in Committing
  BY <1>1 DEF Committing
<1>4. /\ TypeOK /\ Tidy /\ LinkedBy(r) /\ RunHolds(r) /\ Books(r)
      /\ o \in Orders /\ Present(o) /\ d \in Int /\ Delta(r) = 0 - d
  BY <1>3, InCommit
<1>5. /\ ledger[o].fill \in Nat /\ ledger[o].partial \in Nat
      /\ ledger[o].amount \in Int /\ part \in {0, 1}
  BY <1>4 DEF TypeOK
<1> HIDE DEF part, d
<1>6. /\ row \in [fill : Nat, partial : Nat, amount : Int]
      /\ row.amount = ledger[o].amount - d
  BY <1>4, <1>5
<1> HIDE DEF row
<1>7. \A q \in Orders : q # o => ledger'[q] = ledger[q]
  BY <1>2, <1>4 DEF TypeOK
<1>8. /\ run'[r].pc = "find" /\ run'[r].cash = run[r].cash
      /\ run'[r].todo = run[r].todo /\ run'[r].snap = run[r].snap
      /\ run'[r].orphans = run[r].orphans /\ run'[r].cur = run[r].cur
      /\ run'[r].inc = run[r].inc
  BY <1>1, <1>4, GoesFields
<1>9. Tidy'
  BY <1>1, <1>4, <1>7 DEF Tidy, Present
<1>10. LinkedBy(r)'
  BY <1>1, <1>4, <1>8 DEF LinkedBy, At, Present
<1>11. RunHolds(r)'
  BY <1>1, <1>4, <1>8 DEF RunHolds, At, Committing, Repairing
<1>12. Books(r)'
  <2>1. Amounts' = Amounts - ledger[o].amount + row.amount
    BY <1>2, <1>4, <1>6, AmountsChange
  <2>2. Balanced(d, d, d)
    BY <1>1, <1>4, PendingNow DEF d
  <2>3. Contracts \in Int /\ Amounts \in Int /\ Filled \in Int /\ cash \in Int
    BY <1>4, TotalsInt
  <2>4. Contracts' = Contracts /\ Filled' = Filled
    BY <1>1, SumsKept
  <2>5. BalancedNext(d, 0, d)
    BY <1>1, <1>4, <1>5, <1>6, <2>1, <2>2, <2>3, <2>4 DEF Balanced, BalancedNext
  <2>6. d = Signed(run'[r].cur, run'[r].inc)
    BY <1>8 DEF d
  <2> QED
    BY <1>8, <2>5, <2>6, PendingNext
<1> QED
  BY <1>9, <1>10, <1>11, <1>12 DEF View

(* An entry being committed has no position of its strategy yet.           *)
LEMMA NoneOpen ==
  ASSUME Fits, NEW r \in Runs, View(r), run[r].pc \in {"find", "position"},
         run[r].cur \in Entries
  PROVE  OpenWithKey(run[r].cur) = {}
<1>1. /\ LinkedBy(r) /\ RunHolds(r) /\ run[r].cur \in run[r].todo
      /\ run[r].snap[run[r].cur].link = None
  BY InCommit DEF Committing
<1>2. orders[run[r].cur].link = None
  BY <1>1 DEF RunHolds, At
<1>3. \A p \in Positions :
        pos[p].status = "open" /\ pos[p].key = Key[run[r].cur] => FALSE
  BY <1>1, <1>2 DEF LinkedBy, At
<1> QED
  BY <1>3 DEF OpenWithKey

(* A close finds its position, an entry none.                              *)
LEMMA ViewCommitFind ==
  ASSUME Fits, OneEntryEach, NEW r \in Runs, View(r), CommitFind(r)
  PROVE  View(r)'
<1> DEFINE o == run[r].cur
           d == Signed(o, run[r].inc)
<1>1. run[r].pc = "find" /\ UNCHANGED <<orders, pos, cash, ledger>>
  BY Zenon DEF CommitFind
<1>2. run[r].pc \in Committing
  BY <1>1 DEF Committing
<1>3. /\ TypeOK /\ Tidy /\ LinkedBy(r) /\ RunHolds(r) /\ Books(r)
      /\ o \in run[r].todo /\ o \in Orders /\ run[r] \in RunState
      /\ run[r].snap[o] \in OrderRow
      /\ o \in Entries => run[r].snap[o].link = None
      /\ o \notin Entries => run[r].snap[o].link # None
  BY <1>2, InCommit, RunParts
<1>4. run[r].snap[o].link = orders[o].link
  BY <1>1, <1>3 DEF RunHolds, At
<1>5. PICK p \in Positions \cup {None}, q \in Int :
        /\ run' = [run EXCEPT ![r] = [@ EXCEPT !.pc = "position", !.cur = o,
                                               !.found = p, !.qty = q]]
        /\ o \in Entries => p = None
        /\ o \notin Entries => p # None /\ p = orders[o].link /\ q = pos[p].qty
  <2>1. CASE o \in Entries
    <3>1. OpenWithKey(o) = {}
      BY <1>1, <2>1, NoneOpen
    <3>2. Find(r, o, "position")
      BY <1>3, <2>1, Zenon DEF CommitFind
    <3>3. run' = [run EXCEPT ![r] = [@ EXCEPT !.pc = "position", !.cur = o,
                    !.found = None, !.qty = IF None = None THEN 0
                                            ELSE pos[None].qty]]
      BY <3>1, <3>2, Zenon DEF Find
    <3>4. run' = [run EXCEPT ![r] = [@ EXCEPT !.pc = "position", !.cur = o,
                    !.found = None, !.qty = 0]]
      BY <3>3, Zenon
    <3>5. 0 \in Int /\ None \in Positions \cup {None}
      OBVIOUS
    <3> QED
      BY <2>1, <3>4, <3>5, Zenon
  <2>2. CASE o \notin Entries
    <3> DEFINE p == run[r].snap[o].link
    <3>1. p \in Positions /\ p # None /\ p = orders[o].link
      BY <1>3, <1>4, <2>2, RowParts
    <3>2. pos[p].qty \in Int
      BY <1>3, <3>1 DEF TypeOK, PosRow
    <3>3. run' = [run EXCEPT ![r] = [@ EXCEPT !.pc = "position", !.found = p,
                                              !.qty = pos[p].qty]]
      BY <3>1, Zenon DEF CommitFind
    <3> DEFINE v == pos[p].qty
               a == [run[r] EXCEPT !.pc = "position", !.found = p, !.qty = v]
               b == [run[r] EXCEPT !.pc = "position", !.cur = o, !.found = p,
                                   !.qty = v]
    <3>4. a = b
      <4> HIDE DEF p, v
      <4> QED
        BY <1>3 DEF RunState
    <3>5. run' = [run EXCEPT ![r] = b]
      BY <3>3, <3>4, Zenon
    <3> QED
      BY <2>2, <3>1, <3>2, <3>5, Zenon
  <2> QED
    BY <2>1, <2>2
<1> DEFINE s == [run[r] EXCEPT !.pc = "position", !.cur = o, !.found = p, !.qty = q]
<1>6. /\ s.pc = "position" /\ s.cash = run[r].cash /\ s.todo = run[r].todo
      /\ s.snap = run[r].snap /\ s.orphans = run[r].orphans
      /\ s.cur = o /\ s.inc = run[r].inc /\ s.found = p /\ s.qty = q
  BY <1>3 DEF RunState
<1>7. run' = [run EXCEPT ![r] = s]
  BY <1>5, Zenon
<1> HIDE DEF s
<1>8. run'[r] = s
  BY <1>3, <1>7, RunNow
<1>9. Tidy'
  BY <1>1, <1>3 DEF Tidy, Present
<1>10. LinkedBy(r)'
  BY <1>1, <1>3, <1>6, <1>8 DEF LinkedBy, At, Present
<1>11. RunHolds(r)'
  BY <1>1, <1>3, <1>5, <1>6, <1>8 DEF RunHolds, At, Committing, Repairing
<1>12. Books(r)'
  <2>1. Balanced(d, 0, d)
    BY <1>1, <1>3, PendingNow
  <2>2. BalancedNext(d, 0, d)
    <3> HIDE DEF d
    <3> QED
      BY <1>1, <2>1, SumsKept DEF Balanced, BalancedNext
  <2> QED
    BY <1>6, <1>8, <2>2, PendingNext
<1> QED
  BY <1>9, <1>10, <1>11, <1>12 DEF View

(* The position of a commit is rewritten: the contracts are accounted for. *)
LEMMA ContractsWritten ==
  ASSUME Fits, OneEntryEach, NEW r \in Runs, Books(r), run[r].pc = "position",
         NEW p \in Positions, NEW row \in PosRow,
         pos' = [pos EXCEPT ![p] = row], UNCHANGED <<orders, cash, ledger>>,
         NEW d \in Int, d = Signed(run[r].cur, run[r].inc),
         row.qty = pos[p].qty + d,
         run'[r].pc \in {"newLink", "status"}
  PROVE  Books(r)'
<1>1. TypeOK /\ pos[p].qty \in Int
  BY DEF Fits, TypeOK, PosRow
<1>2. Contracts' = Contracts - pos[p].qty + row.qty
  BY <1>1, ContractsChange
<1>3. Balanced(d, 0, d)
  BY PendingNow
<1>4. Contracts \in Int /\ Amounts \in Int /\ Filled \in Int /\ cash \in Int
  BY <1>1, TotalsInt
<1>5. Amounts' = Amounts /\ Filled' = Filled
  BY SumsKept
<1>6. BalancedNext(0, 0, 0)
  BY <1>1, <1>2, <1>3, <1>4, <1>5 DEF Balanced, BalancedNext
<1> QED
  BY <1>6, PendingNext

(* A new position.                                                         *)
LEMMA ViewInsert ==
  ASSUME Fits, OneEntryEach, NEW r \in Runs, View(r), CommitPosition(r),
         run[r].found = None
  PROVE  View(r)'
<1> DEFINE o == run[r].cur
           d == Signed(o, run[r].inc)
<1>1. run[r].pc = "position" /\ UNCHANGED <<orders, cash, ledger>>
  BY Zenon DEF CommitPosition
<1>2. run[r].pc \in Committing
  BY <1>1 DEF Committing
<1>3. /\ TypeOK /\ Tidy /\ LinkedBy(r) /\ RunHolds(r) /\ Books(r)
      /\ o \in run[r].todo /\ o \in Orders /\ run[r] \in RunState
      /\ run[r].inc \in Nat /\ run[r].inc > 0 /\ d \in Int
      /\ o \in Entries => run[r].snap[o].link = None
  BY <1>2, InCommit, RunParts
<1>4. o \in Entries
  BY <1>1 DEF Fits, RunFits, RunOk
<1>5. orders[o].link = None /\ d = run[r].inc
  BY <1>1, <1>3, <1>4 DEF RunHolds, At, Signed
<1>6. PICK p \in Fresh :
        /\ Insert(o, run[r].inc, p)
        /\ run' = [run EXCEPT ![r] = [@ EXCEPT !.pc = "newLink", !.found = p]]
  BY Zenon DEF CommitPosition
<1> DEFINE row == [status |-> "open", qty |-> run[r].inc, key |-> Key[o]]
           s == [run[r] EXCEPT !.pc = "newLink", !.found = p]
<1>7. /\ p \in Positions /\ pos[p].status = "absent"
      /\ pos' = [pos EXCEPT ![p] = row]
  BY <1>6 DEF Insert, Fresh
<1>8. /\ row \in PosRow /\ row.status = "open" /\ row.qty = run[r].inc
      /\ row.key = Key[o]
  BY <1>3, <1>4, Ids DEF PosRow
<1>9. run' = [run EXCEPT ![r] = s]
  BY <1>6, Zenon
<1>10. /\ s.pc = "newLink" /\ s.cash = run[r].cash /\ s.todo = run[r].todo
       /\ s.snap = run[r].snap /\ s.orphans = run[r].orphans
       /\ s.cur = o /\ s.inc = run[r].inc /\ s.found = p
  BY <1>3, <1>7 DEF RunState
<1> HIDE DEF row, s
<1>11. run'[r] = s
  BY <1>3, <1>9, RunNow
<1>12. pos'[p] = row /\ \A x \in Positions : x # p => pos'[x] = pos[x]
  BY <1>3, <1>7 DEF TypeOK
<1>13. pos[p].qty = 0
  BY <1>3, <1>7 DEF Tidy
<1>l. \A x \in Orders : orders[x].link # None => orders[x].link \in Positions
  BY <1>3, RowParts DEF TypeOK
<1>14. Tidy'
  BY <1>1, <1>3, <1>7, <1>8, <1>12, <1>l DEF Tidy, Present
<1>15. LinkedBy(r)'
  <2>1. ASSUME NEW e \in Entries, NEW x \in Positions, pos'[x].status = "open",
               pos'[x].key = Key[e], orders[e].link = None
        PROVE  e = o
    <3>1. CASE x = p
      BY <1>4, <1>8, <1>12, <2>1, <3>1 DEF OneEntryEach
    <3>2. CASE x # p
      BY <1>1, <1>3, <1>12, <2>1, <3>2 DEF LinkedBy, At
    <3> QED
      BY <3>1, <3>2
  <2>2. /\ \A e \in Entries : orders[e].link # None => orders[e].status = "filled"
        /\ \A e \in Entries : orders[e].status = "filled" /\ orders[e].link = None
             => e = o
        /\ \A x \in Internal : Present(x) => orders[x].status = "filled"
    BY <1>1, <1>3 DEF LinkedBy, At
  <2> QED
    BY <1>1, <1>10, <1>11, <2>1, <2>2 DEF LinkedBy, At, Present
<1>16. RunHolds(r)'
  BY <1>1, <1>3, <1>8, <1>10, <1>11, <1>12
     DEF RunHolds, At, Committing, Repairing
<1>17. Books(r)'
  <2>1. row.qty = pos[p].qty + d
    BY <1>3, <1>5, <1>8, <1>13
  <2> HIDE DEF d
  <2> QED
    BY <1>1, <1>3, <1>7, <1>8, <1>10, <1>11, <2>1, ContractsWritten DEF d
<1> QED
  BY <1>14, <1>15, <1>16, <1>17 DEF View

(* A close changes or closes its position.                                 *)
LEMMA ViewReduce ==
  ASSUME Fits, OneEntryEach, NEW r \in Runs, View(r), run[r].pc = "position",
         run[r].found # None, UNCHANGED <<orders, cash, ledger>>,
         Goes(r, "status"), NEW row \in PosRow,
         pos' = [pos EXCEPT ![run[r].found] = row],
         row.qty = run[r].qty + Signed(run[r].cur, run[r].inc),
         row.key = pos[run[r].found].key,
         \/ row.status = pos[run[r].found].status
         \/ row.status = "closed" /\ row.qty = 0
  PROVE  View(r)'
<1> DEFINE o == run[r].cur
           p == run[r].found
           d == Signed(o, run[r].inc)
<1>1. run[r].pc \in Committing
  BY DEF Committing
<1>2. /\ TypeOK /\ Tidy /\ LinkedBy(r) /\ RunHolds(r) /\ Books(r)
      /\ o \in run[r].todo /\ o \in Orders
      /\ run[r].inc \in Nat /\ run[r].inc > 0 /\ d \in Int
      /\ p \in Positions /\ pos[p] \in PosRow /\ pos[p].qty \in Int
  <2>1. p \in Positions
    BY RunParts DEF Fits
  <2> QED
    BY <1>1, <2>1, InCommit DEF Fits, TypeOK, PosRow
<1>3. o \notin Entries /\ p = orders[o].link /\ run[r].qty = pos[p].qty
  BY <1>2 DEF RunHolds
<1>4. d = 0 - run[r].inc
  BY <1>3 DEF Signed
<1>5. pos[p].status # "absent"
  BY <1>2, <1>3 DEF Tidy
<1>6. pos'[p] = row /\ \A x \in Positions : x # p => pos'[x] = pos[x]
  BY <1>2 DEF TypeOK
<1>7. /\ run'[r].pc = "status" /\ run'[r].cash = run[r].cash
      /\ run'[r].todo = run[r].todo /\ run'[r].snap = run[r].snap
      /\ run'[r].orphans = run[r].orphans /\ run'[r].cur = run[r].cur
      /\ run'[r].inc = run[r].inc
  BY <1>2, GoesFields
<1>l. \A x \in Orders : orders[x].link # None => orders[x].link \in Positions
  BY <1>2, RowParts DEF TypeOK
<1>8. /\ row.status # "absent"
      /\ row.status = "open" => pos[p].status = "open"
      /\ row.status = "closed" => row.qty <= 0
  <2>1. pos[p].status = "closed" => pos[p].qty <= 0
    BY <1>2 DEF Tidy
  <2>2. row.qty = pos[p].qty - run[r].inc
    BY <1>2, <1>3, <1>4
  <2>3. CASE row.status = pos[p].status
    BY <1>2, <1>5, <2>1, <2>2, <2>3
  <2>4. CASE row.status = "closed" /\ row.qty = 0
    BY <2>4
  <2> QED
    BY <2>3, <2>4
<1>9. Tidy'
  BY <1>2, <1>6, <1>8, <1>l DEF Tidy, Present
<1>10. LinkedBy(r)'
  <2>1. \A e \in Entries, x \in Positions :
          pos'[x].status = "open" /\ pos'[x].key = Key[e] => orders[e].link # None
    <3>1. \A e \in Entries, x \in Positions :
            pos[x].status = "open" /\ pos[x].key = Key[e] => orders[e].link # None
      BY <1>2 DEF LinkedBy, At
    <3>2. row.status = "open" => pos[p].status = "open" /\ row.key = pos[p].key
      BY <1>8
    <3> QED
      BY <1>2, <1>6, <3>1, <3>2
  <2>2. /\ \A e \in Entries : orders[e].link # None => orders[e].status = "filled"
        /\ \A e \in Entries : orders[e].status = "filled" => orders[e].link # None
        /\ \A x \in Internal : Present(x) => orders[x].status = "filled"
    BY <1>2, <1>3 DEF LinkedBy, At
  <2> QED
    BY <2>1, <2>2 DEF LinkedBy, Present
<1>11. RunHolds(r)'
  BY <1>2, <1>3, <1>7 DEF RunHolds, At, Committing, Repairing
<1>12. Books(r)'
  <2>1. row.qty = pos[p].qty + d
    BY <1>3
  <2> HIDE DEF d
  <2> QED
    BY <1>2, <1>7, <2>1, ContractsWritten DEF d
<1> QED
  BY <1>9, <1>10, <1>11, <1>12 DEF View

(* ... by what is filled, ...                                              *)
LEMMA ViewSet ==
  ASSUME Fits, OneEntryEach, NEW r \in Runs, View(r), CommitPosition(r),
         run[r].found # None
  PROVE  View(r)'
<1> DEFINE p == run[r].found
           q == run[r].qty + Signed(run[r].cur, run[r].inc)
           row == [pos[p] EXCEPT !.qty = q]
<1>1. /\ run[r].pc = "position" /\ UNCHANGED <<orders, cash, ledger>>
      /\ Goes(r, "status") /\ SetQty(p, q)
  BY Zenon DEF CommitPosition
<1>2. run[r].pc \in Committing
  BY <1>1 DEF Committing
<1>3. p \in Positions /\ pos[p] \in PosRow /\ q \in Int
  <2>1. p \in Positions /\ run[r].qty \in Int
    BY RunParts DEF Fits
  <2>2. Signed(run[r].cur, run[r].inc) \in Int
    BY <1>2, InCommit
  <2> QED
    BY <2>1, <2>2 DEF Fits, TypeOK
<1>4. pos' = [pos EXCEPT ![p] = row]
  BY <1>1 DEF SetQty
<1> HIDE DEF q
<1>5. /\ row \in PosRow /\ row.qty = q /\ row.key = pos[p].key
      /\ row.status = pos[p].status
  BY <1>3 DEF PosRow
<1> HIDE DEF row
<1> QED
  BY <1>1, <1>4, <1>5, ViewReduce DEF q

(* ... or to zero.                                                         *)
LEMMA ViewShut ==
  ASSUME Fits, OneEntryEach, NEW r \in Runs, View(r), CommitClose(r), Steady
  PROVE  View(r)'
<1> DEFINE o == run[r].cur
           p == run[r].found
           row == [pos[p] EXCEPT !.status = "closed", !.qty = 0]
<1>1. /\ run[r].pc = "position" /\ p # None /\ UNCHANGED <<orders, cash, ledger>>
      /\ run[r].qty + Signed(o, run[r].inc) = 0
  BY Zenon DEF CommitClose
<1>2. run[r].pc \in Committing
  BY <1>1 DEF Committing
<1>3. /\ TypeOK /\ Tidy /\ RunHolds(r) /\ o \in Orders /\ o \notin Internal
      /\ run[r].inc \in Nat /\ run[r].inc > 0 /\ p \in Positions
      /\ pos[p] \in PosRow /\ run[r].qty \in Int
  <2>1. p \in Positions /\ run[r].qty \in Int
    BY <1>1, RunParts DEF Fits
  <2> QED
    BY <1>2, <2>1, InCommit DEF TypeOK
<1>4. o \in Manual /\ run[r].qty = pos[p].qty /\ o \notin Entries
  BY <1>1, <1>3, Ids DEF RunHolds
<1>5. run[r].qty = run[r].inc
  BY <1>1, <1>3, <1>4 DEF Signed
<1>6. pos[p].status # "closed"
  <2>1. pos[p].qty > 0
    BY <1>3, <1>4, <1>5
  <2>2. pos[p].status = "closed" => pos[p].qty <= 0
    BY <1>3 DEF Tidy
  <2> QED
    BY <1>3, <2>1, <2>2 DEF PosRow
<1>7. troubles \in Nat /\ ~Fails
  BY <1>3 DEF TypeOK, Fails, Steady
<1>8. /\ Goes(r, "status")
      /\ pos' = [pos EXCEPT ![p] = [@ EXCEPT !.status = "closed", !.qty = 0]]
  BY <1>4, <1>6, <1>7, Zenon DEF CommitClose
<1>9. pos' = [pos EXCEPT ![p] = row]
  BY <1>8, Zenon
<1>10. /\ row \in PosRow /\ row.qty = 0 /\ row.key = pos[p].key
       /\ row.status = "closed"
  BY <1>3, Shut
<1> HIDE DEF row
<1>11. row.qty = run[r].qty + Signed(run[r].cur, run[r].inc)
  BY <1>1, <1>10
<1> QED
  BY <1>1, <1>8, <1>9, <1>10, <1>11, ViewReduce

(* The entry is linked to its new position.                                *)
LEMMA ViewCommitLink ==
  ASSUME Fits, OneEntryEach, NEW r \in Runs, View(r), CommitLink(r)
  PROVE  View(r)'
<1> DEFINE o == run[r].cur
           p == run[r].found
           row == [orders[o] EXCEPT !.link = p]
<1>1. /\ run[r].pc = "newLink" /\ orders' = [orders EXCEPT ![o] = row]
      /\ Goes(r, "status") /\ UNCHANGED <<pos, cash, ledger>>
  BY DEF CommitLink
<1>2. run[r].pc \in Committing
  BY <1>1 DEF Committing
<1>3. /\ TypeOK /\ Tidy /\ LinkedBy(r) /\ RunHolds(r) /\ Books(r)
      /\ o \in run[r].todo /\ o \in Orders /\ o \notin Internal /\ Present(o)
      /\ orders[o] \in OrderRow /\ run[r].snap[o] \in OrderRow
      /\ run[r].cash = cash /\ run[r].inc \in Nat /\ run[r].inc > 0
      /\ run[r].orphans = {} /\ run[r].todo \cap Internal = {}
      /\ run[r].todo \subseteq Orders
      /\ o \in Entries => run[r].snap[o].link = None
  BY <1>2, InCommit
<1>4. o \in Entries /\ p \in Positions /\ p # None
  BY <1>1, Ids DEF Fits, RunFits, RunOk
<1>5. pos[p].status # "absent"
  BY <1>1, <1>3 DEF RunHolds
<1>6. /\ row \in OrderRow /\ row.status = orders[o].status
      /\ row.filled = orders[o].filled /\ row.link = p
  BY <1>3, <1>4 DEF OrderRow
<1> HIDE DEF row
<1>7. orders'[o] = row /\ \A q \in Orders : q # o => orders'[q] = orders[q]
  BY <1>1, <1>3 DEF TypeOK
<1>8. /\ run'[r].pc = "status" /\ run'[r].cash = run[r].cash
      /\ run'[r].todo = run[r].todo /\ run'[r].snap = run[r].snap
      /\ run'[r].orphans = run[r].orphans /\ run'[r].cur = run[r].cur
      /\ run'[r].inc = run[r].inc
  BY <1>1, <1>3, GoesFields
<1>9. Tidy'
  BY <1>1, <1>3, <1>5, <1>6, <1>7 DEF Tidy, Present
<1>10. LinkedBy(r)'
  BY <1>1, <1>3, <1>4, <1>6, <1>7, <1>8, Ids DEF LinkedBy, At, Present
<1>11. RunHolds(r)'
  BY <1>1, <1>3, <1>4, <1>6, <1>7, <1>8
     DEF RunHolds, At, Committing, Repairing
<1>12. Books(r)'
  <2>1. Filled' = Filled
    BY <1>1, <1>3, <1>6, FilledKept
  <2>2. Balanced(0, 0, 0)
    BY <1>1, <1>3, PendingNow
  <2>3. BalancedNext(0, 0, 0)
    BY <1>1, <2>1, <2>2, SumsKept DEF Balanced, BalancedNext
  <2> QED
    BY <1>8, <2>3, PendingNext
<1> QED
  BY <1>9, <1>10, <1>11, <1>12 DEF View

(* The order gets its final status.                                        *)
LEMMA ViewCommitStatus ==
  ASSUME Fits, OneEntryEach, NEW r \in Runs, View(r), CommitStatus(r), Steady
  PROVE  View(r)'
<1> DEFINE o == run[r].cur
           row == [orders[o] EXCEPT !.status = "filled", !.filled = Total(r)]
<1>1. /\ run[r].pc = "status" /\ NextOrder(r) /\ UNCHANGED <<pos, cash, ledger>>
  BY Zenon DEF CommitStatus
<1>2. run[r].pc \in Committing
  BY <1>1 DEF Committing
<1>3. /\ TypeOK /\ Tidy /\ LinkedBy(r) /\ RunHolds(r) /\ Books(r)
      /\ o \in run[r].todo /\ o \in Orders /\ o \notin Internal /\ Present(o)
      /\ orders[o] \in OrderRow /\ run[r].snap[o] \in OrderRow
      /\ run[r].cash = cash /\ run[r].orphans = {}
      /\ run[r].todo \cap Internal = {} /\ run[r].todo \subseteq Orders
  BY <1>2, InCommit
<1>4. ~Fails
  BY <1>3 DEF TypeOK, Fails, Steady
<1>5. orders' = [orders EXCEPT ![o] = row]
  BY <1>4, Zenon DEF CommitStatus, SetFill
<1>6. Total(r) = orders[o].filled /\ (o \in Entries => orders[o].link # None)
  BY <1>1, <1>3 DEF RunHolds, Committing, Total
<1>7. /\ row \in OrderRow /\ row.status = "filled"
      /\ row.filled = orders[o].filled /\ row.link = orders[o].link
  <2>1. Total(r) \in Nat
    BY <1>2, Computed
  <2> QED
    BY <1>3, <1>6, <2>1 DEF OrderRow
<1> HIDE DEF row
<1>8. orders'[o] = row /\ \A q \in Orders : q # o => orders'[q] = orders[q]
  BY <1>3, <1>5 DEF TypeOK
<1>9. /\ run'[r].pc = "loop" /\ run'[r].cash = run[r].cash
      /\ run'[r].todo = run[r].todo \ {o} /\ run'[r].orphans = run[r].orphans
      /\ \A q \in run'[r].todo : run'[r].snap[q] = run[r].snap[q]
  BY <1>1, <1>3, NextOrderFields
<1>10. Tidy'
  BY <1>1, <1>3, <1>7, <1>8 DEF Tidy, Present
<1>11. Settled'
  <2>1. /\ \A e \in Entries, p \in Positions :
             pos[p].status = "open" /\ pos[p].key = Key[e] => orders[e].link # None
        /\ \A e \in Entries :
             e # o => (orders[e].link # None <=> orders[e].status = "filled")
        /\ \A x \in Internal : Present(x) => orders[x].status = "filled"
    BY <1>1, <1>3 DEF LinkedBy, At
  <2> QED
    BY <1>1, <1>3, <1>6, <1>7, <1>8, <2>1, Ids DEF Settled, Present
<1>12. RunHolds(r)'
  <2>1. \A q \in run[r].todo \ {o} :
          /\ run[r].snap[q].link = orders[q].link
          /\ run[r].snap[q].filled = orders[q].filled
          /\ q \in Entries => run[r].snap[q].link = None
    BY <1>3 DEF RunHolds, At
  <2>2. \A q \in run'[r].todo :
          /\ run'[r].snap[q].link = orders'[q].link
          /\ run'[r].snap[q].filled = orders'[q].filled
          /\ q \in Entries => run'[r].snap[q].link = None
    BY <1>3, <1>8, <1>9, <2>1
  <2> QED
    BY <1>1, <1>3, <1>9, <2>2, RestHolds DEF Resting
<1>13. Balanced(0, 0, 0)'
  <2>1. Filled' = Filled
    BY <1>3, <1>5, <1>7, FilledKept
  <2>2. Balanced(0, 0, 0)
    BY <1>1, <1>3, PendingNow
  <2> QED
    BY <1>1, <2>1, <2>2, SumsKept DEF Balanced
<1> QED
  BY <1>9, <1>10, <1>11, <1>12, <1>13, ViewRest DEF Resting

-----------------------------------------------------------------------------
(* Nothing but the run is under way, before and after its step.            *)

(* A run that goes on had begun.                                           *)
LEMMA UnderWay ==
  ASSUME NEW r, RunGoesOn(r)
  PROVE  run[r].pc # "idle"
<1>1. CASE RunStageClose(r)
  BY <1>1 DEF RunStageClose
<1>2. CASE RunReadCash(r)
  BY <1>2 DEF RunReadCash
<1>3. CASE RunSelect(r)
  BY <1>3 DEF RunSelect
<1>4. CASE RunSelectOrphans(r)
  BY <1>4 DEF RunSelectOrphans
<1>5. CASE RepairInsert(r)
  BY <1>5 DEF RepairInsert
<1>6. CASE RepairMerge(r)
  BY <1>6 DEF RepairMerge
<1>7. CASE RepairLink(r)
  BY <1>7 DEF RepairLink
<1>8. CASE RepairLedger(r)
  BY <1>8 DEF RepairLedger
<1>9. CASE RepairFails(r)
  BY <1>9 DEF RepairFails
<1>10. CASE CommitOrder(r)
  BY <1>10 DEF CommitOrder
<1>11. CASE CommitCash(r)
  BY <1>11 DEF CommitCash
<1>12. CASE CommitLedger(r)
  BY <1>12 DEF CommitLedger
<1>13. CASE CommitFind(r)
  BY <1>13 DEF CommitFind
<1>14. CASE CommitPosition(r)
  BY <1>14 DEF CommitPosition
<1>15. CASE CommitClose(r)
  BY <1>15 DEF CommitClose
<1>16. CASE CommitLink(r)
  BY <1>16 DEF CommitLink
<1>17. CASE CommitStatus(r)
  BY <1>17 DEF CommitStatus
<1>18. CASE CommitFails(r)
  BY <1>18 DEF CommitFails
<1>19. CASE PositionFails(r)
  BY <1>19 DEF PositionFails
<1>20. CASE Rollback(r)
  BY <1>20 DEF Rollback
<1>21. CASE RunDone(r)
  BY <1>21 DEF RunDone
<1>22. ASSUME NEW o \in Orders, RepairFind(r, o) PROVE run[r].pc # "idle"
  BY <1>22 DEF RepairFind
<1>23. ASSUME NEW o \in Orders, StaleCancel(r, o) PROVE run[r].pc # "idle"
  BY <1>23 DEF StaleCancel
<1>24. ASSUME NEW o \in Orders, NoFill(r, o) PROVE run[r].pc # "idle"
  BY <1>24 DEF NoFill, InLoop
<1>25. ASSUME NEW o \in Orders, Fill(r, o) PROVE run[r].pc # "idle"
  BY <1>25 DEF Fill, InLoop
<1> QED
  BY <1>1, <1>2, <1>3, <1>4, <1>5, <1>6, <1>7, <1>8, <1>9, <1>10, <1>11,
     <1>12, <1>13, <1>14, <1>15, <1>16, <1>17, <1>18, <1>19, <1>20, <1>21,
     <1>22, <1>23, <1>24, <1>25
     DEF RunGoesOn

(* The run that takes a step is the only one.                              *)
LEMMA OnlyRun ==
  ASSUME Fits, NEW r \in Runs, RunSteps(r), Alone, ~Fails
  PROVE  /\ Only(r) /\ Only(r)'
         /\ \A q \in Runs : q # r => run'[q] = run[q]
<1>1. Only(r)
  <2>1. CASE RunBegins(r)
    <3>1. Begin
      BY <2>1 DEF RunBegins, RunStart, RunStageEntry, RunReadPosition
    <3>2. Quiet
      BY <3>1 DEF Begin
    <3> QED
      BY <3>2 DEF Quiet, Active, Only
  <2>2. CASE RunGoesOn(r)
    BY <2>2, UnderWay DEF Alone, Only
  <2> QED
    BY <2>1, <2>2 DEF RunSteps, RunCrash
<1>2. PICK s \in RunState : RunGoesTo(r, s)
  BY RunOks
<1>3. \A q \in Runs : q # r => run'[q] = run[q]
  BY <1>2 DEF RunGoesTo, Fits, TypeOK
<1>4. UNCHANGED closer
  BY RunTouching DEF RunTouches
<1>5. Only(r)'
  BY <1>1, <1>3, <1>4 DEF Only
<1> QED
  BY <1>1, <1>3, <1>5

(* What holds while nothing else is under way still does.                  *)
LEMMA ViewNext ==
  ASSUME Fits, OneEntryEach, NEW r \in Runs, View(r), RunSteps(r), Steady
  PROVE  View(r)'
<1>0. ~Fails
  BY DEF Fits, TypeOK, Fails, Steady
<1>h. RunHolds(r)
  BY DEF View
<1>1. CASE RunBegins(r)
  BY <1>1, ViewStart, ViewStageEntry, ViewReadPosition DEF RunBegins
<1>2. CASE RunGoesOn(r)
  <2>1. CASE RunStageClose(r)
    BY <2>1, ViewStageClose
  <2>2. CASE RunReadCash(r)
    BY <2>2, ViewStart
  <2>3. CASE RunSelect(r)
    BY <2>3, ViewSelect
  <2>4. CASE RunSelectOrphans(r)
    BY <2>4, ViewSelectOrphans
  <2>5. CASE CommitOrder(r)
    BY <2>5, ViewCommitOrder
  <2>6. CASE CommitCash(r)
    BY <2>6, ViewCommitCash
  <2>7. CASE CommitLedger(r)
    BY <2>7, ViewCommitLedger DEF Fits, TypeOK
  <2>8. CASE CommitFind(r)
    BY <2>8, ViewCommitFind
  <2>9. CASE CommitPosition(r)
    BY <2>9, ViewInsert, ViewSet
  <2>10. CASE CommitClose(r)
    BY <2>10, ViewShut
  <2>11. CASE CommitLink(r)
    BY <2>11, ViewCommitLink
  <2>12. CASE CommitStatus(r)
    BY <2>12, ViewCommitStatus
  <2>13. CASE RunDone(r)
    BY <2>13, ViewDone
  <2>14. CASE RepairInsert(r)
    BY <1>0, <1>h, <2>14 DEF RepairInsert, RunHolds, Repairing
  <2>15. CASE RepairMerge(r)
    BY <1>0, <1>h, <2>15 DEF RepairMerge, RunHolds, Repairing
  <2>16. CASE RepairLink(r)
    BY <1>0, <1>h, <2>16 DEF RepairLink, RunHolds, Repairing
  <2>17. CASE RepairLedger(r)
    BY <1>0, <1>h, <2>17 DEF RepairLedger, RunHolds, Repairing
  <2>18. CASE RepairFails(r)
    BY <1>0, <1>h, <2>18 DEF RepairFails, RunHolds, Repairing
  <2>19. CASE CommitFails(r)
    BY <1>0, <1>h, <2>19 DEF CommitFails, RunHolds, Repairing
  <2>20. CASE Rollback(r)
    BY <1>0, <1>h, <2>20 DEF Rollback, RunHolds, Repairing
  <2>21. CASE PositionFails(r)
    <3>1. /\ run[r].pc = "position" /\ run[r].found = None
          /\ OpenWithKey(run[r].cur) # {}
      BY <1>0, <2>21 DEF PositionFails
    <3>2. run[r].cur \in Entries
      BY <3>1 DEF Fits, RunFits, RunOk
    <3> QED
      BY <3>1, <3>2, NoneOpen
  <2>22. ASSUME NEW o \in Orders, RepairFind(r, o) PROVE View(r)'
    BY <1>h, <2>22 DEF RepairFind, RunHolds
  <2>23. ASSUME NEW o \in Orders, StaleCancel(r, o) PROVE View(r)'
    BY <2>23, ViewLeave
  <2>24. ASSUME NEW o \in Orders, NoFill(r, o) PROVE View(r)'
    BY <2>24, ViewLeave
  <2>25. ASSUME NEW o \in Orders, Fill(r, o) PROVE View(r)'
    BY <2>25, ViewFill
  <2> QED
    BY <1>2, <2>1, <2>2, <2>3, <2>4, <2>5, <2>6, <2>7, <2>8, <2>9, <2>10,
       <2>11, <2>12, <2>13, <2>14, <2>15, <2>16, <2>17, <2>18, <2>19, <2>20,
       <2>21, <2>22, <2>23, <2>24, <2>25
       DEF RunGoesOn
<1>3. CASE RunCrash(r)
  BY <1>0, <1>3 DEF RunCrash
<1> QED
  BY <1>1, <1>2, <1>3 DEF RunSteps

(* A run's step, while nothing overlaps, fails or dies.                    *)
LEMMA RunCalm ==
  ASSUME Fits, OneEntryEach, Calm, BooksHold, NEW r \in Runs, RunSteps(r), Steady
  PROVE  Calm' /\ BooksHold'
<1>1. ~Fails /\ Alone
  BY DEF Fits, TypeOK, Fails, Steady, Calm
<1>2. /\ Only(r) /\ Only(r)'
      /\ \A q \in Runs : q # r => run'[q] = run[q]
  BY <1>1, OnlyRun
<1>3. View(r)
  BY <1>2, ViewOf
<1>4. View(r)'
  BY <1>3, ViewNext
<1> QED
  BY <1>2, <1>4, CalmOf

-----------------------------------------------------------------------------
(* The exit evaluator, alone.                                              *)

(* Nothing but evaluator c is under way.                                   *)
OnlyCloser(c) ==
  /\ \A r \in Runs : run[r].pc = "idle"
  /\ \A d \in Closers : d # c => closer[d].pc = "idle"

(* What holds then.                                                        *)
Held(c) ==
  /\ Tidy
  /\ \A e \in Entries, p \in Positions :
       pos[p].status = "open" /\ pos[p].key = Key[e] => orders[e].link # None
  /\ \A e \in Entries : orders[e].link # None <=> orders[e].status = "filled"
  /\ \A x \in Internal : Present(x) =>
       orders[x].status = "filled"
         \/ (closer[c].pc = "commit" /\ closer[c].order = x)
  /\ CloserHolds(c)
  /\ Balanced(0, 0, 0)

(* From the invariant, ...                                                 *)
LEMMA HeldOf ==
  ASSUME NEW c \in Closers, OnlyCloser(c), Calm, BooksHold
  PROVE  Held(c)
<1>1. Balanced(0, 0, 0) /\ Tidy /\ CloserHolds(c)
  BY DEF OnlyCloser, BooksHold, Calm
<1>2. \A r \in Runs : \A o, st : "idle" \notin st => ~At(r, st, o)
  BY DEF OnlyCloser, At
<1>3. Linked
  BY DEF Calm
<1>4. \A e \in Entries, p \in Positions :
        pos[p].status = "open" /\ pos[p].key = Key[e] => orders[e].link # None
  BY <1>2, <1>3 DEF Linked
<1>5. \A e \in Entries : orders[e].link # None <=> orders[e].status = "filled"
  BY <1>2, <1>3 DEF Linked
<1>6. \A x \in Internal : Present(x) =>
        orders[x].status = "filled"
          \/ (closer[c].pc = "commit" /\ closer[c].order = x)
  BY <1>3 DEF Linked, OnlyCloser
<1> QED
  BY <1>1, <1>4, <1>5, <1>6 DEF Held

(* ... and back to it.                                                     *)
LEMMA CalmHeld ==
  ASSUME NEW c \in Closers, OnlyCloser(c), Calm, UNCHANGED run, Held(c)',
         \A d \in Closers : d # c => closer'[d] = closer[d]
  PROVE  Calm' /\ BooksHold'
<1>1. /\ \A r \in Runs : run'[r].pc = "idle"
      /\ \A d \in Closers : d # c => closer'[d].pc = "idle"
  BY DEF OnlyCloser
<1>2. Alone'
  BY <1>1 DEF Alone
<1>3. Tidy' /\ BooksHold'
  BY <1>1 DEF Held, BooksHold
<1>4. Linked'
  BY DEF Held, Linked
<1>5. ASSUME NEW r \in Runs PROVE RunHolds(r)'
  <2>1. run'[r] = run[r] /\ run[r].pc = "idle" /\ RunHolds(r)
    BY DEF OnlyCloser, Calm
  <2> QED
    BY <2>1 DEF RunHolds, Repairing, Committing
<1>6. ASSUME NEW d \in Closers PROVE CloserHolds(d)'
  <2>1. CASE d = c
    BY <2>1 DEF Held
  <2>2. CASE d # c
    BY <1>1, <2>2 DEF CloserHolds
  <2> QED
    BY <2>1, <2>2
<1> QED
  BY <1>2, <1>3, <1>4, <1>5, <1>6 DEF Calm

(* The position is read, or the look for another close is over.            *)
LEMMA HeldReads ==
  ASSUME NEW c \in Closers, Held(c), UNCHANGED <<orders, pos, cash, ledger>>,
         closer[c].pc # "commit", closer'[c].pc # "commit",
         closer'[c].pc # "idle" =>
           /\ pos[closer'[c].pos].status = "open"
           /\ pos[closer'[c].pos].qty = closer'[c].qty
  PROVE  Held(c)'
<1>1. Tidy'
  BY DEF Held, Tidy, Present
<1>2. Balanced(0, 0, 0)'
  BY SumsKept DEF Held, Balanced
<1>3. CloserHolds(c)'
  BY DEF CloserHolds
<1> QED
  BY <1>1, <1>2, <1>3 DEF Held, Present

(* The close is staged.                                                    *)
LEMMA HeldStage ==
  ASSUME Fits, OneEntryEach, NEW c \in Closers, Held(c), CloserStage(c)
  PROVE  Held(c)'
<1> DEFINE x == closer[c].order
           p == closer[c].pos
           s == [closer[c] EXCEPT !.pc = "commit"]
           row == Staged(closer[c].qty, p)
<1>1. /\ closer[c].pc = "stage" /\ closer' = [closer EXCEPT ![c] = s]
      /\ orders' = [orders EXCEPT ![x] = row]
      /\ UNCHANGED <<pos, cash, ledger>>
  BY DEF CloserStage
<1>2. /\ TypeOK /\ Tidy /\ CloserHolds(c) /\ Balanced(0, 0, 0)
      /\ x \in Internal /\ x \in Orders /\ x \notin Entries /\ p \in Positions
      /\ closer[c].qty \in Nat /\ closer[c] \in CloserState
  BY <1>1, CloserParts DEF Held, Fits
<1>3. ~Present(x)
  BY <1>1 DEF Fits, CloserFits
<1>4. orders[x].filled = 0 /\ ledger[x].fill = 0
  BY <1>2, <1>3 DEF Tidy
<1>5. /\ s.pc = "commit" /\ s.order = x /\ s.pos = p /\ s.qty = closer[c].qty
  BY <1>2 DEF CloserState
<1>6. /\ row \in OrderRow /\ row.status = "staged" /\ row.filled = 0
      /\ row.link = p /\ row.marked = FALSE
  BY <1>2, StagedRow
<1> HIDE DEF s, row
<1>7. orders'[x] = row /\ \A o \in Orders : o # x => orders'[o] = orders[o]
  BY <1>1, <1>2 DEF TypeOK
<1>8. closer'[c] = s
  BY <1>1, <1>2 DEF TypeOK
<1>9. pos[p].status = "open" /\ pos[p].qty = closer[c].qty
  BY <1>1, <1>2 DEF CloserHolds
<1>10. Tidy'
  BY <1>1, <1>2, <1>6, <1>7, <1>9 DEF Tidy, Present
<1>11. CloserHolds(c)'
  BY <1>1, <1>4, <1>5, <1>6, <1>7, <1>8, <1>9 DEF CloserHolds
<1>12. Balanced(0, 0, 0)'
  <2>1. Filled' = Filled
    BY <1>1, <1>2, <1>4, <1>6, FilledKept
  <2> QED
    BY <1>1, <1>2, <2>1, SumsKept DEF Balanced
<1>13. \A e \in Entries : e \in Orders /\ e # x /\ orders'[e] = orders[e]
  BY <1>2, <1>7, Ids
<1>14. \A y \in Internal : Present(y)' =>
         orders'[y].status = "filled"
           \/ (closer'[c].pc = "commit" /\ closer'[c].order = y)
  <2>1. \A y \in Internal : Present(y) => orders[y].status = "filled"
    BY <1>1 DEF Held
  <2> QED
    BY <1>5, <1>7, <1>8, <2>1, Ids DEF Present
<1> QED
  BY <1>1, <1>10, <1>11, <1>12, <1>13, <1>14 DEF Held

(* The RPC commits it.                                                     *)
LEMMA HeldCommit ==
  ASSUME Fits, OneEntryEach, NEW c \in Closers, Held(c), CloserCommit(c)
  PROVE  Held(c)'
<1> DEFINE x == closer[c].order
           p == closer[c].pos
           q == closer[c].qty
           fill == ledger[x].fill + 1
           amount == ledger[x].amount + q
           row == [orders[x] EXCEPT !.status = "filled", !.filled = q,
                                    !.marked = TRUE]
           entry == [ledger[x] EXCEPT !.fill = fill, !.amount = amount]
           shut == [pos[p] EXCEPT !.status = "closed", !.qty = 0]
<1>1. /\ closer[c].pc = "commit"
      /\ closer' = [closer EXCEPT ![c] = IdleCloser]
      /\ orders' = [orders EXCEPT ![x] = row]
      /\ pos' = [pos EXCEPT ![p] = shut] /\ cash' = cash + q
      /\ ledger' = [ledger EXCEPT ![x] = entry]
  BY DEF CloserCommit
<1>2. /\ TypeOK /\ Tidy /\ CloserHolds(c) /\ Balanced(0, 0, 0)
      /\ x \in Internal /\ x \in Orders /\ x \notin Entries /\ p \in Positions
      /\ q \in Nat
  BY <1>1, CloserParts DEF Held, Fits
<1>3. /\ pos[p].qty = q /\ pos[p].status = "open" /\ orders[x].filled = 0
      /\ orders[x].link = p
  BY <1>1, <1>2 DEF CloserHolds, Fits, CloserFits
<1>4. /\ orders[x] \in OrderRow /\ pos[p] \in PosRow
      /\ ledger[x] \in [fill : Nat, partial : Nat, amount : Int]
      /\ cash \in Int
  BY <1>2 DEF TypeOK
<1>5. fill \in Nat /\ amount \in Int /\ ledger[x].amount \in Int
  BY <1>2, <1>4
<1>6. /\ row \in OrderRow /\ row.status = "filled" /\ row.filled = q
      /\ row.link = p
  BY <1>2, <1>3, <1>4 DEF OrderRow
<1>7. shut \in PosRow /\ shut.status = "closed" /\ shut.qty = 0
  BY <1>4, Shut
<1>8. /\ entry \in [fill : Nat, partial : Nat, amount : Int]
      /\ entry.amount = ledger[x].amount + q
  <2> HIDE DEF fill, amount
  <2>1. /\ entry \in [fill : Nat, partial : Nat, amount : Int]
        /\ entry.amount = amount
    BY <1>4, <1>5
  <2> QED
    BY <2>1 DEF amount
<1> HIDE DEF row, entry, shut
<1>9. /\ orders'[x] = row /\ \A o \in Orders : o # x => orders'[o] = orders[o]
      /\ pos'[p] = shut /\ \A y \in Positions : y # p => pos'[y] = pos[y]
      /\ \A o \in Orders : o # x => ledger'[o] = ledger[o]
      /\ closer'[c] = IdleCloser
  BY <1>1, <1>2 DEF TypeOK
<1>10. Tidy'
  <2>1. \A o \in Orders : orders[o].link # None => orders[o].link \in Positions
    BY <1>2, RowParts DEF TypeOK
  <2>2. \A o \in Orders :
          orders'[o].status = "absent" => orders'[o].filled = 0 /\ ledger'[o].fill = 0
    BY <1>2, <1>6, <1>9 DEF Tidy, Present
  <2>3. \A y \in Positions : /\ pos'[y].status = "absent" => pos'[y].qty = 0
                             /\ pos'[y].status = "closed" => pos'[y].qty <= 0
    BY <1>2, <1>7, <1>9 DEF Tidy
  <2>4. \A o \in Orders :
          orders'[o].link # None => pos'[orders'[o].link].status # "absent"
    BY <1>2, <1>6, <1>7, <1>9, <2>1 DEF Tidy
  <2> QED
    BY <2>2, <2>3, <2>4 DEF Tidy, Present
<1>11. CloserHolds(c)'
  BY <1>9, AtRest DEF CloserHolds
<1>12. Balanced(0, 0, 0)'
  <2>1. Filled' = Filled - Signed(x, orders[x].filled) + Signed(x, row.filled)
    BY <1>1, <1>2, <1>6, FilledChange
  <2>2. Signed(x, orders[x].filled) = 0 /\ Signed(x, row.filled) = 0 - q
    BY <1>2, <1>3, <1>6 DEF Signed
  <2>3. Contracts' = Contracts - pos[p].qty + shut.qty
    BY <1>1, <1>2, <1>7, ContractsChange
  <2>4. Amounts' = Amounts - ledger[x].amount + entry.amount
    BY <1>1, <1>2, <1>8, AmountsChange
  <2>5. Contracts \in Int /\ Amounts \in Int /\ Filled \in Int
    BY <1>2, TotalsInt
  <2>6. /\ Filled' = Filled - q /\ Contracts' = Contracts - q
        /\ Amounts' = Amounts + q
    BY <1>2, <1>3, <1>5, <1>7, <1>8, <2>1, <2>2, <2>3, <2>4, <2>5
  <2> QED
    BY <1>1, <1>2, <1>4, <2>5, <2>6 DEF Balanced
<1>13. \A e \in Entries : e \in Orders /\ e # x /\ orders'[e] = orders[e]
  BY <1>2, <1>9, Ids
<1>14. \A e \in Entries, y \in Positions :
         pos'[y].status = "open" /\ pos'[y].key = Key[e] => orders'[e].link # None
  BY <1>7, <1>9, <1>13 DEF Held
<1>15. \A y \in Internal : Present(y)' => orders'[y].status = "filled"
  BY <1>6, <1>9, Ids DEF Held, Present
<1> QED
  BY <1>10, <1>11, <1>12, <1>13, <1>14, <1>15 DEF Held

(* An evaluator's step, while nothing overlaps, fails or dies.             *)
LEMMA CloserCalm ==
  ASSUME Fits, OneEntryEach, Calm, BooksHold, NEW c \in Closers,
         CloserSteps(c), Steady
  PROVE  Calm' /\ BooksHold'
<1>0. ~Fails /\ Alone /\ TypeOK
  BY DEF Fits, TypeOK, Fails, Steady, Calm
<1>1. ASSUME NEW s \in CloserState, closer' = [closer EXCEPT ![c] = s]
      PROVE  /\ closer'[c] = s
             /\ \A d \in Closers : d # c => closer'[d] = closer[d]
  BY <1>0, <1>1 DEF TypeOK
<1>2. ASSUME closer[c].pc # "idle" PROVE OnlyCloser(c) /\ Held(c)
  BY <1>0, <1>2, HeldOf DEF Alone, OnlyCloser
<1>3. ASSUME NEW x \in Internal, NEW p \in Positions, CloserRead(c, x, p)
      PROVE  Calm' /\ BooksHold'
  <2> DEFINE q == pos[p].qty
             s == [pc |-> "check", order |-> x, pos |-> p, qty |-> q]
  <2>1. /\ closer' = [closer EXCEPT ![c] = s] /\ closer[c].pc = "idle"
        /\ UNCHANGED <<orders, pos, cash, ledger, run>> /\ Quiet
        /\ pos[p].status = "open"
    BY <1>0, <1>3 DEF CloserRead, Begin
  <2>2. q \in Int
    BY <1>0 DEF TypeOK, PosRow
  <2> HIDE DEF q
  <2>3. /\ s \in CloserState /\ s.pc = "check" /\ s.pos = p /\ s.qty = q
    BY <2>2, Ids DEF CloserState
  <2> HIDE DEF s
  <2>4. OnlyCloser(c)
    BY <2>1 DEF Quiet, Active, OnlyCloser
  <2>5. Held(c)
    BY <2>4, HeldOf
  <2>6. closer'[c] = s /\ \A d \in Closers : d # c => closer'[d] = closer[d]
    BY <1>1, <2>1, <2>3
  <2>7. Held(c)'
    BY <2>1, <2>3, <2>5, <2>6, HeldReads DEF q
  <2> QED
    BY <2>1, <2>4, <2>6, <2>7, CalmHeld
<1>4. CASE CloserCheck(c)
  <2> DEFINE s == [closer[c] EXCEPT !.pc = "stage"]
  <2>1. /\ UNCHANGED <<orders, pos, cash, ledger, run>> /\ closer[c].pc = "check"
        /\ \/ closer' = [closer EXCEPT ![c] = s]
           \/ closer' = [closer EXCEPT ![c] = IdleCloser]
    BY <1>4 DEF CloserCheck
  <2>2. OnlyCloser(c) /\ Held(c)
    BY <1>2, <2>1
  <2>3. /\ s \in CloserState /\ s.pc = "stage" /\ s.pos = closer[c].pos
        /\ s.qty = closer[c].qty
    BY <1>0 DEF TypeOK, CloserState
  <2> HIDE DEF s
  <2>4. /\ closer'[c] = s \/ closer'[c] = IdleCloser
        /\ \A d \in Closers : d # c => closer'[d] = closer[d]
    BY <1>1, <2>1, <2>3, AtRest
  <2>5. /\ pos[closer[c].pos].status = "open"
        /\ pos[closer[c].pos].qty = closer[c].qty
    BY <2>1, <2>2 DEF Held, CloserHolds
  <2>6. Held(c)'
    BY <2>1, <2>2, <2>3, <2>4, <2>5, AtRest, HeldReads
  <2> QED
    BY <2>1, <2>2, <2>4, <2>6, CalmHeld
<1>5. CASE CloserStage(c)
  <2> DEFINE s == [closer[c] EXCEPT !.pc = "commit"]
  <2>1. /\ UNCHANGED run /\ closer[c].pc = "stage"
        /\ closer' = [closer EXCEPT ![c] = s]
    BY <1>5 DEF CloserStage
  <2>2. s \in CloserState
    BY <1>0 DEF TypeOK, CloserState
  <2> HIDE DEF s
  <2>3. \A d \in Closers : d # c => closer'[d] = closer[d]
    BY <1>1, <2>1, <2>2
  <2>4. OnlyCloser(c) /\ Held(c)
    BY <1>2, <2>1
  <2>5. Held(c)'
    BY <1>5, <2>4, HeldStage
  <2> QED
    BY <2>1, <2>3, <2>4, <2>5, CalmHeld
<1>6. CASE CloserCommit(c)
  <2>1. /\ UNCHANGED run /\ closer[c].pc = "commit"
        /\ closer' = [closer EXCEPT ![c] = IdleCloser]
    BY <1>6 DEF CloserCommit
  <2>2. \A d \in Closers : d # c => closer'[d] = closer[d]
    BY <1>1, <2>1, AtRest
  <2>3. OnlyCloser(c) /\ Held(c)
    BY <1>2, <2>1
  <2>4. Held(c)'
    BY <1>6, <2>3, HeldCommit
  <2> QED
    BY <2>1, <2>2, <2>3, <2>4, CalmHeld
<1>7. CASE CloserRejected(c)
  <2>1. closer[c].pc = "commit" /\ ~Accepts(c)
    BY <1>0, <1>7 DEF CloserRejected
  <2>2. CloserHolds(c)
    BY DEF Calm
  <2> QED
    BY <2>1, <2>2 DEF CloserHolds, Accepts
<1>8. CASE CloserCrash(c)
  BY <1>0, <1>8 DEF CloserCrash
<1> QED
  BY <1>3, <1>4, <1>5, <1>6, <1>7, <1>8 DEF CloserSteps, CloserGoesOn

(* Time passes.                                                            *)
LEMMA AgeCalm ==
  ASSUME Fits, OneEntryEach, Calm, BooksHold, NEW o \in Orders, Age(o)
  PROVE  Calm' /\ BooksHold'
<1> DEFINE row == [orders[o] EXCEPT !.old = TRUE]
<1>0. TypeOK /\ orders[o] \in OrderRow
  BY DEF Fits, TypeOK
<1>1. /\ orders' = [orders EXCEPT ![o] = row]
      /\ UNCHANGED <<pos, cash, ledger, run, closer>>
  BY DEF Age
<1>2. /\ row \in OrderRow /\ row.status = orders[o].status
      /\ row.filled = orders[o].filled /\ row.link = orders[o].link
      /\ row.marked = orders[o].marked
  BY <1>0 DEF OrderRow
<1> HIDE DEF row
<1>3. \A q \in Orders :
        /\ orders'[q].status = orders[q].status
        /\ orders'[q].filled = orders[q].filled
        /\ orders'[q].link = orders[q].link
        /\ orders'[q].marked = orders[q].marked
  BY <1>0, <1>1, <1>2 DEF TypeOK
<1>4. Alone' /\ Tidy'
  BY <1>1, <1>3 DEF Calm, Alone, Tidy, Present
<1>5. Linked'
  BY <1>1, <1>3, Ids DEF Calm, Linked, At, Present
<1>6. ASSUME NEW r \in Runs PROVE RunHolds(r)'
  <2>1. /\ run[r].todo \subseteq Orders
        /\ run[r].pc \in Committing => run[r].cur \in Orders
        /\ run[r].pc = "stage" => run[r].target \in Orders
    BY <1>0, RunParts, RunOrder, Ids DEF Fits, RunFits, RunOk
  <2>2. RunHolds(r)
    BY DEF Calm
  <2> QED
    BY <1>1, <1>3, <2>1, <2>2 DEF RunHolds, At, Present, Committing
<1>7. ASSUME NEW c \in Closers PROVE CloserHolds(c)'
  <2>1. closer[c].pc # "idle" => closer[c].order \in Orders
    BY CloserParts
  <2> QED
    BY <1>1, <1>3, <2>1 DEF Calm, CloserHolds
<1>8. BooksHold'
  <2>1. Filled' = Filled /\ Contracts' = Contracts /\ Amounts' = Amounts
    BY <1>0, <1>1, <1>2, FilledKept, SumsKept
  <2> QED
    BY <1>1, <2>1 DEF BooksHold, Balanced, Pending, Signed
<1> QED
  BY <1>4, <1>5, <1>6, <1>7, <1>8 DEF Calm

-----------------------------------------------------------------------------
(* The inductive invariant.                                                *)

(* At the start there is nothing to sum.                                   *)
LEMMA SerialInit ==
  ASSUME OneEntryEach, Init
  PROVE  Serial
<1> USE DEF Init
<1>1. IsFiniteSet(Orders) /\ IsFiniteSet(Positions) /\ Start \in Int
  BY BookAssumption DEF OneEntryEach
<1>2. Contracts = 0
  <2> DEFINE f == [p \in Positions |-> pos[p].qty]
  <2>1. \A p \in Positions : f[p] = 0
    BY DEF NoPos
  <2>2. Contracts = SumOf(f, Positions)
    BY DEF Contracts
  <2> HIDE DEF f
  <2> QED
    BY <1>1, <2>1, <2>2, SumZero
<1>3. Amounts = 0
  <2> DEFINE f == [o \in Orders |-> ledger[o].amount]
  <2>1. \A o \in Orders : f[o] = 0
    OBVIOUS
  <2>2. Amounts = SumOf(f, Orders)
    BY DEF Amounts
  <2> HIDE DEF f
  <2> QED
    BY <1>1, <2>1, <2>2, SumZero
<1>4. Filled = 0
  <2> DEFINE f == [o \in Orders |-> Signed(o, orders[o].filled)]
  <2>1. \A o \in Orders : f[o] = 0
    BY DEF NoOrder, Signed
  <2>2. Filled = SumOf(f, Orders)
    BY DEF Filled
  <2> HIDE DEF f
  <2> QED
    BY <1>1, <2>1, <2>2, SumZero
<1>5. \A r \in Runs : run[r] = IdleRun
  OBVIOUS
<1>6. \A c \in Closers : closer[c] = IdleCloser
  OBVIOUS
<1>7. \A o \in Orders : /\ orders[o].status = "absent" /\ orders[o].filled = 0
                        /\ orders[o].link = None /\ ledger[o].fill = 0
  BY DEF NoOrder
<1>8. \A p \in Positions : pos[p].status = "absent" /\ pos[p].qty = 0
  BY DEF NoPos
<1>9. Tidy
  BY <1>7, <1>8 DEF Tidy
<1>10. Linked
  BY <1>7, <1>8, Ids DEF Linked, Present
<1>11. Alone /\ \A c \in Closers : CloserHolds(c)
  BY <1>5, <1>6, AtRest DEF Alone, CloserHolds
<1>12. \A r \in Runs : RunHolds(r)
  BY <1>5, AtRest DEF RunHolds, Repairing, Committing
<1>13. BooksHold
  BY <1>1, <1>2, <1>3, <1>4, <1>5, AtRest DEF BooksHold, Balanced
<1> QED
  BY <1>9, <1>10, <1>11, <1>12, <1>13 DEF Serial, Calm

(* Every step keeps it: as long as nothing overlapped, failed or died, the *)
(* step is one of the only run or evaluator under way, or time's.          *)
LEMMA SerialNext ==
  ASSUME OneEntryEach, Fits, Serial, [Next]_vars
  PROVE  Serial'
<1>1. SUFFICES ASSUME troubles' = 0 PROVE Calm' /\ BooksHold'
  BY DEF Serial
<1>2. CASE Next
  <2>1. troubles \in Nat
    BY DEF Fits, TypeOK
  <2>2. ASSUME NEW r \in Runs, RunSteps(r) PROVE Calm' /\ BooksHold'
    <3>1. troubles = 0
      BY <1>1, <2>1, <2>2, RunTouching DEF RunTouches
    <3> QED
      BY <1>1, <2>2, <3>1, RunCalm DEF Serial, Steady
  <2>3. ASSUME NEW c \in Closers, CloserSteps(c) PROVE Calm' /\ BooksHold'
    <3>1. Steady \/ Fails
      BY <2>3 DEF CloserSteps, CloserGoesOn, CloserRead, CloserCheck,
                  CloserStage, CloserCommit, CloserRejected, CloserCrash, Begin
    <3>2. troubles = 0 /\ Steady
      BY <1>1, <2>1, <3>1 DEF Steady, Fails
    <3> QED
      BY <2>3, <3>2, CloserCalm DEF Serial
  <2>4. ASSUME NEW o \in Orders, Age(o) PROVE Calm' /\ BooksHold'
    <3>1. troubles = 0
      BY <1>1, <2>4 DEF Age, Steady
    <3> QED
      BY <2>4, <3>1, AgeCalm DEF Serial
  <2> QED
    BY <1>2, <2>2, <2>3, <2>4, Stepping
<1>3. CASE UNCHANGED vars
  <2>1. UNCHANGED <<orders, pos, cash, ledger, run, closer, troubles>>
    BY <1>3 DEF vars
  <2>2. Calm /\ BooksHold
    BY <1>1, <2>1 DEF Serial
  <2>3. Alone' /\ Tidy' /\ Linked'
    BY <2>1, <2>2 DEF Calm, Alone, Tidy, Linked, Present, At
  <2>4. \A r \in Runs : RunHolds(r)'
    BY <2>1, <2>2 DEF Calm, RunHolds, At, Present
  <2>5. \A c \in Closers : CloserHolds(c)'
    BY <2>1, <2>2 DEF Calm, CloserHolds
  <2>6. BooksHold'
    BY <2>1, <2>2, SumsKept DEF BooksHold, Balanced, Pending, Signed
  <2> QED
    BY <2>3, <2>4, <2>5, <2>6 DEF Calm
<1> QED
  BY <1>2, <1>3

(* With one entry of each strategy, and while runs neither overlap nor     *)
(* fail, the records _commit_fill and rpc_commit_internal_close_v1 write   *)
(* one after the other agree whenever no run is under way: what cash paid  *)
(* is what the positions hold, what the ledger says, and what the orders   *)
(* say was filled, for any number of entries, closes and sweeps.           *)
THEOREM BooksAgreed ==
  ASSUME OneEntryEach
  PROVE  Spec => []BooksAgree
<1>1. Fits /\ Serial => BooksAgree
  <2> SUFFICES ASSUME Fits, Serial, troubles = 0, Quiet
               PROVE  /\ cash + Contracts = Start
                      /\ cash = Start + Amounts
                      /\ Filled = Contracts
    BY SumIs DEF BooksAgree
  <2>1. \A r \in Runs : run[r].pc = "idle"
    BY DEF Quiet, Active
  <2>2. Balanced(0, 0, 0)
    BY <2>1 DEF Serial, BooksHold
  <2>3. Contracts \in Int /\ Amounts \in Int /\ Filled \in Int /\ cash \in Int
    BY TotalsInt DEF Fits
  <2> QED
    BY <2>2, <2>3, BookAssumption DEF Balanced
<1>2. Init => Serial
  BY SerialInit
<1>3. Fits /\ Serial /\ [Next]_vars => Serial'
  BY SerialNext
<1> QED
  BY <1>1, <1>2, <1>3, FitsInit, FitsNext, PTL DEF Spec
=============================================================================
