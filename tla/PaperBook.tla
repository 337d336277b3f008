------------------------------ MODULE PaperBook ------------------------------
(***************************************************************************)
(* A simulated book: one portfolio routed shadow_only, its paper_orders,   *)
(* paper_positions, cash balance and ledger, the runs of                   *)
(* _process_orders_for_user that fill orders and repair orphans, and the   *)
(* exit evaluator's internal close, one RPC.                               *)
(*                                                                         *)
(* Runs are started by workers (autopilot, order sync) and by HTTP         *)
(* requests (order/process, execute, close), so they overlap. One step is  *)
(* one statement. Every contract costs 1 and there are no fees, so that    *)
(* cash plus contracts is the book's value.                                *)
(***************************************************************************)
EXTENDS Integers, FiniteSets, Functions

CONSTANTS
  Entries,      \* ids of entry orders (buy)
  Manual,       \* ids of closes staged by /paper/close or the autopilot
  Internal,     \* ids of closes staged by the exit evaluator
  Keys, Key,    \* strategy keys, and the one of each entry
  Qty,          \* requested_qty of each entry
  Positions,    \* position ids
  Runs,         \* runs of _process_orders_for_user
  Closers,      \* runs of _close_position
  None,         \* SQL NULL
  Start,        \* cash at the start
  MaxTroubles   \* bound: runs begun while another is under way,
                \* statements that fail, processes that die

Orders == Entries \cup Manual \cup Internal

ASSUME BookAssumption ==
  /\ Entries \cap (Manual \cup Internal) = {}
  /\ Manual \cap Internal = {}
  /\ Qty \in [Entries -> Nat \ {0}]
  /\ Key \in [Entries -> Keys]
  /\ None \notin Orders \cup Positions \cup Keys
  /\ Start \in Int
  /\ MaxTroubles \in Nat

VARIABLES
  orders,   \* paper_orders
  pos,      \* paper_positions
  cash,     \* paper_portfolios.cash_balance
  ledger,   \* paper_ledger: per order, rows by kind and the sum of amounts
  run,      \* per run of _process_orders_for_user
  closer,   \* per run of _close_position
  troubles  \* history: overlaps, failures and crashes so far

vars == <<orders, pos, cash, ledger, run, closer, troubles>>

-----------------------------------------------------------------------------
(* Rows.                                                                   *)

(* old: working for more than STALE_WORKING_MINUTES. marked: the write-once *)
(* internal_close_committed_at.                                            *)
OrderRow == [status : {"absent", "staged", "working", "partial", "filled",
                       "cancelled"},
             qty : Nat, filled : Nat, link : Positions \cup {None},
             old : BOOLEAN, marked : BOOLEAN]

NoOrder == [status |-> "absent", qty |-> 0, filled |-> 0, link |-> None,
            old |-> FALSE, marked |-> FALSE]

PosRow == [status : {"absent", "open", "closed"}, qty : Int,
           key : Keys \cup {None}]

NoPos == [status |-> "absent", qty |-> 0, key |-> None]

(* The select by strategy key; the partial unique index allows one.        *)
OpenWithKey(e) ==
  {p \in Positions : pos[p].status = "open" /\ pos[p].key = Key[e]}

Staged(q, p) ==
  [NoOrder EXCEPT !.status = "staged", !.qty = q, !.link = p]

(* The contracts an order adds to a position (fill_sign).                  *)
Signed(o, q) == IF o \in Entries THEN q ELSE 0 - q

IdleRun == [pc |-> "idle", target |-> None, cash |-> 0, todo |-> {},
            snap |-> [o \in Orders |-> NoOrder], orphans |-> {},
            filled |-> [o \in Orders |-> 0], cur |-> None, inc |-> 0,
            found |-> None, qty |-> 0]
IdleCloser == [pc |-> "idle", order |-> None, pos |-> None, qty |-> 0]

Active == {r \in Runs : run[r].pc # "idle"}
            \cup {c \in Closers : closer[c].pc # "idle"}
Quiet == Active = {}

RunState ==
  [pc : {"idle", "stage", "cash", "select", "orphans", "loop", "fix",
         "link", "audit", "order", "cashUpdate", "ledger", "find",
         "position", "newLink", "rollback", "status"},
   target : Orders \cup {None}, cash : Int, todo : SUBSET Orders,
   snap : [Orders -> OrderRow], orphans : SUBSET Orders,
   filled : [Orders -> Nat], cur : Orders \cup {None}, inc : Nat,
   found : Positions \cup {None}, qty : Int]
CloserState ==
  [pc : {"idle", "check", "stage", "commit"}, order : Orders \cup {None},
   pos : Positions \cup {None}, qty : Int]

TypeOK ==
  /\ orders \in [Orders -> OrderRow]
  /\ pos \in [Positions -> PosRow]
  /\ cash \in Int
  /\ ledger \in [Orders -> [fill : Nat, partial : Nat, amount : Int]]
  /\ run \in [Runs -> RunState]
  /\ closer \in [Closers -> CloserState]
  /\ troubles \in Nat

Init ==
  /\ orders = [o \in Orders |-> NoOrder]
  /\ pos = [p \in Positions |-> NoPos]
  /\ cash = Start
  /\ ledger = [o \in Orders |-> [fill |-> 0, partial |-> 0, amount |-> 0]]
  /\ run = [r \in Runs |-> IdleRun]
  /\ closer = [c \in Closers |-> IdleCloser]
  /\ troubles = 0

Fails == troubles < MaxTroubles /\ troubles' = troubles + 1

Steady == UNCHANGED troubles

(* A run may begin while others are under way.                             *)
Begin == IF Quiet THEN Steady ELSE Fails

Goes(r, pc) == run' = [run EXCEPT ![r] = [@ EXCEPT !.pc = pc]]

-----------------------------------------------------------------------------
(* Starting a run.                                                         *)

(* A sweep: the autopilot, order/process, a live fill's poll;               *)
(* execute's second pass over its own order is taken for one. The           *)
(* portfolio, with its cash balance, is read once.                         *)
RunStart(r) ==
  /\ run[r].pc = "idle"
  /\ Begin
  /\ run' = [run EXCEPT ![r] = [@ EXCEPT !.pc = "select", !.cash = cash]]
  /\ UNCHANGED <<orders, pos, cash, ledger, closer>>

(* _stage_order_internal for an entry; the run is then for that order.     *)
RunStageEntry(r, e) ==
  /\ run[r].pc = "idle"
  /\ orders[e].status = "absent"
  /\ Begin
  /\ orders' = [orders EXCEPT ![e] = Staged(Qty[e], None)]
  /\ run' = [run EXCEPT ![r] = [IdleRun EXCEPT !.pc = "cash", !.target = e]]
  /\ UNCHANGED <<pos, cash, ledger, closer>>

(* close_paper_position and close_positions: the position as read, ...     *)
RunReadPosition(r, m, p) ==
  /\ run[r].pc = "idle"
  /\ orders[m].status = "absent"
  /\ \A q \in Runs : run[q].target # m
  /\ pos[p].qty > 0
  /\ Begin
  /\ run' = [run EXCEPT ![r] = [IdleRun EXCEPT !.pc = "stage", !.target = m,
                                  !.found = p, !.qty = pos[p].qty]]
  /\ UNCHANGED <<orders, pos, cash, ledger, closer>>

(* ... then the close order staged for it, with no look for another one.   *)
RunStageClose(r) ==
  /\ run[r].pc = "stage"
  /\ orders' = [orders EXCEPT ![run[r].target] =
                  Staged(run[r].qty, run[r].found)]
  /\ run' = [run EXCEPT ![r] = [IdleRun EXCEPT !.pc = "cash",
                                  !.target = run[r].target]]
  /\ Steady /\ UNCHANGED <<pos, cash, ledger, closer>>

(* The portfolio, for a run that staged its own order first.               *)
RunReadCash(r) ==
  /\ run[r].pc = "cash"
  /\ run' = [run EXCEPT ![r] = [@ EXCEPT !.pc = "select", !.cash = cash]]
  /\ Steady /\ UNCHANGED <<orders, pos, cash, ledger, closer>>

Stale(row) == row.status = "working" /\ row.filled = 0 /\ row.old

(* The in-flight orders, then (another query) the orphans. Kept of the     *)
(* first are the ones the run acts on: the stale, and its target or all.   *)
RunSelect(r) ==
  LET todo == {o \in Orders :
                 /\ orders[o].status \in {"staged", "working", "partial"}
                 /\ Stale(orders[o]) \/ run[r].target \in {None, o}}
  IN  /\ run[r].pc = "select"
      /\ run' = [run EXCEPT ![r] = [@ EXCEPT !.pc = "orphans", !.todo = todo,
             !.snap = [o \in Orders |-> IF o \in todo THEN orders[o]
                                        ELSE NoOrder]]]
      /\ Steady /\ UNCHANGED <<orders, pos, cash, ledger, closer>>

(* Mutant: the orphans filtered by the target too.                         *)
RunSelectTargetOrphans(r) ==
  LET orphans == {o \in Orders : /\ orders[o].status = "filled"
                                 /\ orders[o].link = None
                                 /\ orders[o].filled > 0
                                 /\ run[r].target = o}
  IN  /\ run[r].pc = "orphans"
      /\ run' = [run EXCEPT ![r] = [@ EXCEPT !.pc = "loop",
             !.orphans = orphans,
             !.filled = [o \in Orders |-> IF o \in orphans
                                          THEN orders[o].filled ELSE 0]]]
      /\ Steady /\ UNCHANGED <<orders, pos, cash, ledger, closer>>

RunSelectOrphans(r) ==
  LET orphans == {o \in Orders : /\ orders[o].status = "filled"
                                 /\ orders[o].link = None
                                 /\ orders[o].filled > 0}
  IN  /\ run[r].pc = "orphans"
      /\ run' = [run EXCEPT ![r] = [@ EXCEPT !.pc = "loop",
             !.orphans = orphans,
             !.filled = [o \in Orders |-> IF o \in orphans
                                          THEN orders[o].filled ELSE 0]]]
      /\ Steady /\ UNCHANGED <<orders, pos, cash, ledger, closer>>

-----------------------------------------------------------------------------
(* _repair_filled_order_commit, for each orphan, whatever the target.      *)

(* The open position with the order's strategy key, if there is one.       *)
Find(r, o, pc) ==
  \E p \in Positions \cup {None} :
    /\ IF OpenWithKey(o) = {} THEN p = None ELSE p \in OpenWithKey(o)
    /\ run' = [run EXCEPT ![r] = [@ EXCEPT !.pc = pc, !.cur = o, !.found = p,
                 !.qty = IF p = None THEN 0 ELSE pos[p].qty]]

NextOrphan(r) ==
  run' = [run EXCEPT ![r] = [@ EXCEPT !.pc = "loop", !.cur = None,
            !.found = None, !.qty = 0, !.orphans = run[r].orphans \ {run[r].cur},
            !.filled = [run[r].filled EXCEPT ![run[r].cur] = 0]]]

RepairFind(r, o) ==
  /\ run[r].pc = "loop"
  /\ o \in run[r].orphans
  /\ Find(r, o, "fix")
  /\ Steady /\ UNCHANGED <<orders, pos, cash, ledger, closer>>

(* INSERT of a position: refused by the unique index while one with the    *)
(* key is open.                                                            *)
Fresh == {p \in Positions : pos[p].status = "absent"}
Insert(e, q, p) ==
  /\ OpenWithKey(e) = {}
  /\ p = CHOOSE x \in Fresh : TRUE
  /\ pos' = [pos EXCEPT ![p] = [status |-> "open", qty |-> q, key |-> Key[e]]]

(* UPDATE ... SET quantity, by id alone.                                   *)
SetQty(p, q) == pos' = [pos EXCEPT ![p] = [@ EXCEPT !.qty = q]]

RepairInsert(r) ==
  /\ run[r].pc = "fix" /\ run[r].found = None
  /\ \E p \in Fresh :
       /\ Insert(run[r].cur, run[r].filled[run[r].cur], p)
       /\ run' = [run EXCEPT ![r] = [@ EXCEPT !.pc = "link", !.found = p]]
  /\ Steady /\ UNCHANGED <<orders, cash, ledger, closer>>

(* The orphan's contracts are added to the position found by its key. When *)
(* that brings it (it was short) to zero it is closed, unless it was       *)
(* meanwhile: then an alert, and the order stays an orphan.                *)
RepairMerge(r) ==
  LET p == run[r].found
      q == run[r].qty + run[r].filled[run[r].cur]
  IN  /\ run[r].pc = "fix" /\ p # None
      /\ IF q = 0 /\ pos[p].status = "closed"
         THEN NextOrphan(r) /\ UNCHANGED pos
         ELSE /\ Goes(r, "link")
              /\ pos' = [pos EXCEPT ![p] =
                   [@ EXCEPT !.qty = q,
                             !.status = IF q = 0 THEN "closed"
                                         ELSE pos[p].status]]
      /\ Steady /\ UNCHANGED <<orders, cash, ledger, closer>>

RepairLink(r) ==
  /\ run[r].pc = "link"
  /\ orders' = [orders EXCEPT ![run[r].cur] = [@ EXCEPT !.link = run[r].found]]
  /\ Goes(r, "audit")
  /\ Steady /\ UNCHANGED <<pos, cash, ledger, closer>>

(* A ledger row only if the order has none; cash is left as it is. (The    *)
(* look-up and the insert are one step.)                                   *)
RepairLedger(r) ==
  LET o == run[r].cur
  IN  /\ run[r].pc = "audit"
      /\ ledger' = IF ledger[o].fill + ledger[o].partial > 0 THEN ledger
                   ELSE [ledger EXCEPT ![o] =
                           [@ EXCEPT !.fill = 1, !.amount = 0 - run[r].filled[o]]]
      /\ NextOrphan(r)
      /\ Steady /\ UNCHANGED <<orders, pos, cash, closer>>

(* A statement raises (the unique index included): the orphan is left.     *)
RepairFails(r) ==
  /\ run[r].pc \in {"fix", "link", "audit"}
  /\ \/ Fails
     \/ /\ run[r].pc = "fix" /\ run[r].found = None
        /\ OpenWithKey(run[r].cur) # {}
        /\ Steady
  /\ NextOrphan(r)
  /\ UNCHANGED <<orders, pos, cash, ledger, closer>>

-----------------------------------------------------------------------------
(* The loop over the in-flight orders as they were selected.               *)

Without(s, o) == [s EXCEPT !.todo = @ \ {o}, !.snap = [@ EXCEPT ![o] = NoOrder]]

NextOrder(r) ==
  run' = [run EXCEPT ![r] = [Without(@, run[r].cur) EXCEPT !.pc = "loop",
            !.cur = None, !.inc = 0, !.found = None, !.qty = 0]]

(* Cancelled before the target is looked at.                               *)
StaleCancel(r, o) ==
  /\ run[r].pc = "loop" /\ run[r].orphans = {}
  /\ o \in run[r].todo
  /\ Stale(run[r].snap[o])
  /\ orders' = [orders EXCEPT ![o] = [@ EXCEPT !.status = "cancelled"]]
  /\ run' = [run EXCEPT ![r] = Without(@, o)]
  /\ Steady /\ UNCHANGED <<pos, cash, ledger, closer>>

InLoop(r, o) ==
  /\ run[r].pc = "loop" /\ run[r].orphans = {}
  /\ o \in run[r].todo
  /\ \A x \in run[r].todo : ~Stale(run[r].snap[x])

(* simulate_fill gives no fill, or no price to trust: a staged order is    *)
(* working from now on.                                                    *)
NoFill(r, o) ==
  /\ InLoop(r, o)
  /\ orders' = IF run[r].snap[o].status = "staged"
               THEN [orders EXCEPT ![o] = [@ EXCEPT !.status = "working"]]
               ELSE orders
  /\ run' = [run EXCEPT ![r] = Without(@, o)]
  /\ Steady /\ UNCHANGED <<pos, cash, ledger, closer>>

(* simulate_fill fills what the snapshot says is left, or half of it.      *)
Fill(r, o) ==
  LET left == run[r].snap[o].qty - run[r].snap[o].filled
  IN  /\ InLoop(r, o)
      /\ \E q \in {left, left \div 2} :
           /\ q > 0
           /\ run' = [run EXCEPT ![r] = [@ EXCEPT !.pc = "order", !.cur = o,
                                                  !.inc = q]]
      /\ Steady /\ UNCHANGED <<orders, pos, cash, ledger, closer>>

RunDone(r) ==
  /\ run[r].pc = "loop"
  /\ run[r].orphans = {} /\ run[r].todo = {}
  /\ run' = [run EXCEPT ![r] = IdleRun]
  /\ Steady /\ UNCHANGED <<orders, pos, cash, ledger, closer>>

-----------------------------------------------------------------------------
(* _commit_fill: order, cash, ledger, position, link, status.              *)

Total(r) == run[r].snap[run[r].cur].filled + run[r].inc
IsPartial(r) == Total(r) < run[r].snap[run[r].cur].qty
Delta(r) == 0 - Signed(run[r].cur, run[r].inc)

SetFill(o, s, q) ==
  orders' = [orders EXCEPT ![o] = [@ EXCEPT !.status = s, !.filled = q]]

CommitOrder(r) ==
  /\ run[r].pc = "order"
  /\ SetFill(run[r].cur, IF IsPartial(r) THEN "partial" ELSE "filled", Total(r))
  /\ Goes(r, "cashUpdate")
  /\ Steady /\ UNCHANGED <<pos, cash, ledger, closer>>

(* The balance read at the start of the run, plus this fill.               *)
CommitCash(r) ==
  LET new == run[r].cash + Delta(r)
  IN  /\ run[r].pc = "cashUpdate"
      /\ cash' = new
      /\ run' = [run EXCEPT ![r] = [@ EXCEPT !.pc = "ledger", !.cash = new]]
      /\ Steady /\ UNCHANGED <<orders, pos, ledger, closer>>

(* emit swallows its errors: a failure only leaves the row out.            *)
CommitLedger(r) ==
  LET o == run[r].cur
      row == ledger[o]
      part == IF IsPartial(r) THEN 1 ELSE 0
  IN  /\ run[r].pc = "ledger"
      /\ \/ /\ ledger' = [ledger EXCEPT ![o] =
                 [fill |-> row.fill + 1 - part, partial |-> row.partial + part,
                  amount |-> row.amount + Delta(r)]]
            /\ Steady
         \/ /\ Fails
            /\ UNCHANGED ledger
      /\ Goes(r, "find")
      /\ UNCHANGED <<orders, pos, cash, closer>>

(* By the order's position_id, else by strategy key.                       *)
CommitFind(r) ==
  LET o == run[r].cur
      p == run[r].snap[o].link
  IN  /\ run[r].pc = "find"
      /\ IF p = None
         THEN Find(r, o, "position")
         ELSE run' = [run EXCEPT ![r] = [@ EXCEPT !.pc = "position",
                                    !.found = p, !.qty = pos[p].qty]]
      /\ Steady /\ UNCHANGED <<orders, pos, cash, ledger, closer>>

(* Mutant: a new position takes the quantity that was requested.           *)
CommitPositionRequested(r) ==
  LET o == run[r].cur
      q == run[r].qty + Signed(o, run[r].inc)
  IN  /\ run[r].pc = "position"
      /\ IF run[r].found = None
         THEN \E p \in Fresh :
                /\ Insert(o, run[r].snap[o].qty, p)
                /\ run' = [run EXCEPT ![r] = [@ EXCEPT !.pc = "newLink",
                                                       !.found = p]]
         ELSE /\ q # 0
              /\ SetQty(run[r].found, q)
              /\ Goes(r, "status")
      /\ Steady /\ UNCHANGED <<orders, cash, ledger, closer>>

(* Insert, or set the new quantity. An order added to a position found by  *)
(* its key is not linked to it.                                            *)
CommitPosition(r) ==
  LET o == run[r].cur
      q == run[r].qty + Signed(o, run[r].inc)
  IN  /\ run[r].pc = "position"
      /\ IF run[r].found = None
         THEN \E p \in Fresh :
                /\ Insert(o, run[r].inc, p)
                /\ run' = [run EXCEPT ![r] = [@ EXCEPT !.pc = "newLink",
                                                       !.found = p]]
         ELSE /\ q # 0
              /\ SetQty(run[r].found, q)
              /\ Goes(r, "status")
      /\ Steady /\ UNCHANGED <<orders, cash, ledger, closer>>

(* The new quantity is zero. close_position_shared for closes staged by    *)
(* hand or by the autopilot; a failed attribution keeps the position open  *)
(* and the order goes on to its final status; another source, or a         *)
(* position closed meanwhile, is an alert and the commit ends here.        *)
CommitClose(r) ==
  LET o == run[r].cur
      p == run[r].found
  IN  /\ run[r].pc = "position"
      /\ p # None
      /\ run[r].qty + Signed(o, run[r].inc) = 0
      /\ \/ /\ o \in Manual /\ pos[p].status = "open"
            /\ pos' = [pos EXCEPT ![p] = [@ EXCEPT !.status = "closed",
                                                   !.qty = 0]]
            /\ Goes(r, "status")
            /\ Steady
         \/ /\ o \notin Manual \/ pos[p].status = "closed"
            /\ NextOrder(r)
            /\ Steady /\ UNCHANGED pos
         \/ /\ Fails
            /\ Goes(r, "status")
            /\ UNCHANGED pos
      /\ UNCHANGED <<orders, cash, ledger, closer>>

CommitLink(r) ==
  /\ run[r].pc = "newLink"
  /\ orders' = [orders EXCEPT ![run[r].cur] = [@ EXCEPT !.link = run[r].found]]
  /\ Goes(r, "status")
  /\ Steady /\ UNCHANGED <<pos, cash, ledger, closer>>

(* The "defensive" update: filled, also after a partial fill. An error is  *)
(* logged.                                                                 *)
CommitStatus(r) ==
  /\ run[r].pc = "status"
  /\ \/ SetFill(run[r].cur, "filled", Total(r)) /\ Steady
     \/ Fails /\ UNCHANGED orders
  /\ NextOrder(r)
  /\ UNCHANGED <<pos, cash, ledger, closer>>

(* The order or the cash update raises: the loop takes the next order.     *)
CommitFails(r) ==
  /\ run[r].pc \in {"order", "cashUpdate"}
  /\ Fails
  /\ NextOrder(r)
  /\ UNCHANGED <<orders, pos, cash, ledger, closer>>

(* A statement of the position block raises (the unique index included).   *)
PositionFails(r) ==
  /\ run[r].pc \in {"find", "position", "newLink"}
  /\ \/ Fails
     \/ /\ run[r].pc = "position" /\ run[r].found = None
        /\ OpenWithKey(run[r].cur) # {}
        /\ Steady
  /\ Goes(r, "rollback")
  /\ UNCHANGED <<orders, pos, cash, ledger, closer>>

(* Mutant: this fill taken off what was filled before it.                  *)
RollbackSubtract(r) ==
  /\ run[r].pc = "rollback"
  /\ SetFill(run[r].cur, "working", run[r].snap[run[r].cur].filled - run[r].inc)
  /\ Steady
  /\ NextOrder(r)
  /\ UNCHANGED <<pos, cash, ledger, closer>>

(* Back to working with nothing filled; cash and ledger are not restored.  *)
Rollback(r) ==
  /\ run[r].pc = "rollback"
  /\ \/ SetFill(run[r].cur, "working", 0) /\ Steady
     \/ Fails /\ UNCHANGED orders
  /\ NextOrder(r)
  /\ UNCHANGED <<pos, cash, ledger, closer>>

(* The process dies, or a statement outside the per-order handlers raises. *)
RunCrash(r) ==
  /\ run[r].pc # "idle"
  /\ Fails
  /\ run' = [run EXCEPT ![r] = IdleRun]
  /\ UNCHANGED <<orders, pos, cash, ledger, closer>>

-----------------------------------------------------------------------------
(* _close_position of a shadow position: read, look for another close,     *)
(* stage, and one RPC for the whole commit.                                *)

CloserRead(c, x, p) ==
  /\ closer[c].pc = "idle"
  /\ orders[x].status = "absent"
  /\ \A d \in Closers : closer[d].order # x
  /\ pos[p].status = "open" /\ pos[p].qty > 0
  /\ Begin
  /\ closer' = [closer EXCEPT ![c] = [pc |-> "check", order |-> x, pos |-> p,
                                      qty |-> pos[p].qty]]
  /\ UNCHANGED <<orders, pos, cash, ledger, run>>

(* The idempotency query. A cancelled close blocks for a time              *)
(* (filter_blocking_close_orders): here it may or may not.                 *)
Blocking(p) ==
  {o \in Orders \ Entries : orders[o].link = p /\
     orders[o].status \in {"staged", "working", "partial", "filled"}}
Cooling(p) ==
  {o \in Orders \ Entries : orders[o].link = p /\ orders[o].status = "cancelled"}

CloserCheck(c) ==
  /\ closer[c].pc = "check"
  /\ \/ /\ Blocking(closer[c].pos) = {}
        /\ closer' = [closer EXCEPT ![c] = [@ EXCEPT !.pc = "stage"]]
     \/ /\ Blocking(closer[c].pos) \cup Cooling(closer[c].pos) # {}
        /\ closer' = [closer EXCEPT ![c] = IdleCloser]
  /\ Steady /\ UNCHANGED <<orders, pos, cash, ledger, run>>

CloserStage(c) ==
  /\ closer[c].pc = "stage"
  /\ orders' = [orders EXCEPT ![closer[c].order] =
                  Staged(closer[c].qty, closer[c].pos)]
  /\ closer' = [closer EXCEPT ![c] = [@ EXCEPT !.pc = "commit"]]
  /\ Steady /\ UNCHANGED <<pos, cash, ledger, run>>

(* Mutant: without the test that the position is still open.               *)
AcceptsClosed(c) ==
  /\ ~orders[closer[c].order].marked
  /\ ledger[closer[c].order].fill = 0

(* rpc_commit_internal_close_v1 accepts the close.                         *)
Accepts(c) ==
  LET x == closer[c].order
      p == closer[c].pos
  IN  /\ ~orders[x].marked
      /\ pos[p].status = "open"
      /\ pos[p].qty = closer[c].qty
      /\ ledger[x].fill = 0

CloserCommit(c) ==
  LET x == closer[c].order
      p == closer[c].pos
      q == closer[c].qty
  IN  /\ closer[c].pc = "commit"
      /\ Accepts(c)
      /\ orders' = [orders EXCEPT ![x] = [@ EXCEPT !.status = "filled",
                                            !.filled = q, !.marked = TRUE]]
      /\ cash' = cash + q
      /\ ledger' = [ledger EXCEPT ![x] =
                      [@ EXCEPT !.fill = ledger[x].fill + 1,
                                !.amount = ledger[x].amount + q]]
      /\ pos' = [pos EXCEPT ![p] = [@ EXCEPT !.status = "closed", !.qty = 0]]
      /\ closer' = [closer EXCEPT ![c] = IdleCloser]
      /\ Steady /\ UNCHANGED run

(* The RPC raises: nothing is written and the order stays as it is.        *)
CloserRejected(c) ==
  /\ closer[c].pc = "commit"
  /\ \/ ~Accepts(c) /\ Steady
     \/ Fails
  /\ closer' = [closer EXCEPT ![c] = IdleCloser]
  /\ UNCHANGED <<orders, pos, cash, ledger, run>>

CloserCrash(c) ==
  /\ closer[c].pc # "idle"
  /\ Fails
  /\ closer' = [closer EXCEPT ![c] = IdleCloser]
  /\ UNCHANGED <<orders, pos, cash, ledger, run>>

-----------------------------------------------------------------------------
(* Two hours pass for a working order.                                     *)
Age(o) ==
  /\ orders[o].status = "working" /\ ~orders[o].old
  /\ orders' = [orders EXCEPT ![o] = [@ EXCEPT !.old = TRUE]]
  /\ Steady /\ UNCHANGED <<pos, cash, ledger, run, closer>>

RunBegins(r) ==
  \/ RunStart(r)
  \/ \E e \in Entries : RunStageEntry(r, e)
  \/ \E m \in Manual, p \in Positions : RunReadPosition(r, m, p)

RunGoesOn(r) ==
  \/ RunStageClose(r) \/ RunReadCash(r) \/ RunSelect(r) \/ RunSelectOrphans(r)
  \/ \E o \in Orders : RepairFind(r, o)
  \/ RepairInsert(r) \/ RepairMerge(r)
  \/ RepairLink(r) \/ RepairLedger(r) \/ RepairFails(r)
  \/ \E o \in Orders : StaleCancel(r, o) \/ NoFill(r, o) \/ Fill(r, o)
  \/ CommitOrder(r) \/ CommitCash(r) \/ CommitLedger(r) \/ CommitFind(r)
  \/ CommitPosition(r) \/ CommitClose(r) \/ CommitLink(r) \/ CommitStatus(r)
  \/ CommitFails(r) \/ PositionFails(r) \/ Rollback(r)
  \/ RunDone(r)

CloserGoesOn(c) ==
  CloserCheck(c) \/ CloserStage(c) \/ CloserCommit(c) \/ CloserRejected(c)

Next ==
  \/ \E r \in Runs : RunBegins(r) \/ RunGoesOn(r) \/ RunCrash(r)
  \/ \E c \in Closers : \/ \E x \in Internal, p \in Positions :
                             CloserRead(c, x, p)
                        \/ CloserGoesOn(c)
                        \/ CloserCrash(c)
  \/ \E o \in Orders : Age(o)

Spec == Init /\ [][Next]_vars

(* A run that has begun goes on (a failing statement is a step too), and   *)
(* sweeps are started again and again: in internal_paper mode the autopilot *)
(* begins every scheduled run with one. Staging, closing and time are not  *)
(* fair.                                                                   *)
FairSpec ==
  /\ Spec
  /\ \A r \in Runs : WF_vars(RunGoesOn(r)) /\ SF_vars(RunStart(r))
  /\ \A c \in Closers : WF_vars(CloserGoesOn(c))

-----------------------------------------------------------------------------
(* Properties.                                                             *)

(* While runs do not overlap and nothing fails, the four records of a fill *)
(* that _commit_fill and the close RPC write one after the other agree     *)
(* whenever no run is under way: cash, ledger, positions and orders,       *)
(* through partial fills, closes by hand, by the autopilot and by the exit *)
(* evaluator, stale cancels and repeated sweeps.                           *)
BooksAgree ==
  LET contracts == SumFunction([p \in Positions |-> pos[p].qty])
      amounts == SumFunction([o \in Orders |-> ledger[o].amount])
      filled == SumFunction([o \in Orders |-> Signed(o, orders[o].filled)])
  IN  troubles = 0 /\ Quiet => /\ cash + contracts = Start
                       /\ cash = Start + amounts
                       /\ filled = contracts

(* However runs overlap, fail or die, the close RPC pays for a position at *)
(* most once: an order that carries its commit marker is filled, its       *)
(* position is closed, and no other marked order has the same position.    *)
PaidOnce ==
  \A x \in Orders : orders[x].marked =>
    /\ x \in Internal
    /\ orders[x].link # None /\ pos[orders[x].link].status = "closed"
    /\ \A y \in Orders \ {x} :
         orders[y].marked => orders[y].link # orders[x].link

(* A filled entry without a position gets one, or goes back to working,    *)
(* however its commit was cut short: every run repairs orphans first,      *)
(* whatever order it was started for.                                      *)
FilledIsLinked ==
  \A e \in Entries :
    orders[e].status = "filled" /\ orders[e].filled > 0 /\ orders[e].link = None
      ~> orders[e].status # "filled" \/ orders[e].link # None

(* What paper_endpoints.py says of the orders it repairs: "These need      *)
(* repair because previous commits failed". An order is repaired only      *)
(* after something failed or two runs overlapped.                          *)
RepairMeansFailure ==
  [][\A r \in Runs : run[r].pc = "loop" /\ run'[r].pc = "fix" =>
       troubles > 0]_vars
=============================================================================
