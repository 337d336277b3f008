------------------------------ MODULE LiveClose ------------------------------
(***************************************************************************)
(* Closing a live position through the broker: _close_position (run by the *)
(* exit evaluator and by the intraday risk monitor), submit_and_track, the *)
(* alpaca_order_sync job (poll, lost-submit reconcile, stuck-open repair)  *)
(* and the simulated-fill sweep _process_orders_for_user.                  *)
(*                                                                         *)
(* The model follows one long live position of Qty contracts and the close *)
(* orders staged for it.  One step is one statement sent to Postgres or    *)
(* one request to the broker, so what an actor read may be stale when it   *)
(* writes; the updates of a row are by id, without a condition.            *)
(***************************************************************************)
EXTENDS Integers, FiniteSets

CONSTANTS
  Orders,          \* ids of the close orders (paper_orders rows)
  Gtc,             \* the resting profit-limit order, or None
  Closers,         \* runs of _close_position for the position
  Syncs,           \* runs of the alpaca_order_sync job
  None,
  Qty,             \* contracts of the position
  OtcWorkers,      \* RQ workers that serve the otc queue
  MaxSubmit,       \* MAX_SUBMIT_ATTEMPTS
  RetryBudget,     \* CLOSE_REARM_RETRY_BUDGET
  DuplicateIdFirst,\* the broker checks the client order id before the intent
  Sweeping,        \* is _process_orders_for_user called for the user?
  MaxFaults,       \* bound: failed statements and lost requests or answers
  MaxCrashes       \* bound: crashes of a run, failed client_order_id stamps,
                   \* review marks that fail twice

ASSUME LiveAssumption ==
  /\ None \notin Orders
  /\ Gtc \in Orders \cup {None}
  /\ Qty \in Nat /\ Qty > 0
  /\ OtcWorkers \in Nat
  /\ MaxSubmit \in Nat /\ MaxSubmit > 0
  /\ RetryBudget \in Nat /\ RetryBudget > 0
  /\ DuplicateIdFirst \in BOOLEAN
  /\ Sweeping \in BOOLEAN
  /\ MaxFaults \in Nat
  /\ MaxCrashes \in Nat

VARIABLES
  rows,    \* paper_orders, one row per order id
  broker,  \* the broker's orders, one per client_order_id
  held,    \* contracts the broker still holds
  pos,     \* the paper_positions row: [status, qty]
  closer,  \* per run of _close_position: [pc, order, qty, tries]
  sync,    \* per run of the order sync: [pc, todo, order, seen]
  sweep,   \* the sweep: orders left and the rows it selected
  budget   \* faults and crashes still allowed (bounds only)

vars == <<rows, broker, held, pos, closer, sync, sweep, budget>>

-----------------------------------------------------------------------------
(* State.                                                                  *)

(* paper_orders.status; "absent": not inserted yet.                        *)
OrderStatus == {"absent", "staged", "submitted", "working", "partial",
                "filled", "cancelled", "watchdog_cancelled",
                "needs_manual_review"}

(* coid, alp: client_order_id and alpaca_order_id, NULL or set.  filled is *)
(* filled_qty; resp the filled quantity in the stored broker_response (0:  *)
(* none there); age places a cancelled row in the re-arm windows.          *)
Row == [status : OrderStatus, engine : {"exit", "gtc"}, qty : Int,
        coid : {"null", "set"}, alp : {"null", "set"},
        filled : Int, resp : Int, age : {"fresh", "stale", "old"}]

NoRow == [status |-> "absent", engine |-> "exit", qty |-> 0,
          coid |-> "null", alp |-> "null",
          filled |-> 0, resp |-> 0, age |-> "fresh"]

GtcRow == [NoRow EXCEPT !.status = "submitted", !.engine = "gtc",
                        !.qty = Qty, !.coid = "set", !.alp = "set"]

(* An order at the broker; "expired" stands for expired and rejected.      *)
BrokerOrder == [state : {"none", "open", "filled", "canceled", "expired"},
                fill : Int]

NoOrder == [state |-> "none", fill |-> 0]
NewOrder == [state |-> "open", fill |-> 0]

Position == [status : {"open", "closed"}, qty : Int]

CloserState ==
  [pc : {"idle", "query", "stage"},
   order : {None}, qty : Int, tries : {0}]
  \cup
  [pc : {"precancel", "submit", "ack", "review"},
   order : Orders, qty : Int, tries : Nat]
SyncState ==
  [pc : {"idle", "poll", "lost", "stuck"},
   todo : SUBSET Orders, order : {None}, seen : {NoOrder}]
  \cup
  [pc : {"fetched", "refetch", "write", "commit", "found"},
   todo : SUBSET Orders, order : Orders, seen : BrokerOrder]
SweepState == [todo : SUBSET Orders, prior : [Orders -> Row]]

IdleCloser == [pc |-> "idle", order |-> None, qty |-> 0, tries |-> 0]
IdleSync == [pc |-> "idle", todo |-> {}, order |-> None, seen |-> NoOrder]
IdleSweep == [todo |-> {}, prior |-> [o \in Orders |-> NoRow]]

TypeOK ==
  /\ rows \in [Orders -> Row]
  /\ broker \in [Orders -> BrokerOrder]
  /\ held \in Nat
  /\ pos \in Position
  /\ closer \in [Closers -> CloserState]
  /\ sync \in [Syncs -> SyncState]
  /\ sweep \in SweepState
  /\ budget \in [faults : Nat, crashes : Nat]

(* The position is open at the broker and in the database; a resting       *)
(* profit limit may have been placed when the entry filled.                *)
Init ==
  /\ rows = [o \in Orders |-> IF o = Gtc THEN GtcRow ELSE NoRow]
  /\ broker = [o \in Orders |-> IF o = Gtc THEN NewOrder ELSE NoOrder]
  /\ held = Qty
  /\ pos = [status |-> "open", qty |-> Qty]
  /\ closer = [c \in Closers |-> IdleCloser]
  /\ sync = [s \in Syncs |-> IdleSync]
  /\ sweep = IdleSweep
  /\ budget = [faults |-> MaxFaults, crashes |-> MaxCrashes]

Fault == /\ budget.faults > 0
         /\ budget' = [budget EXCEPT !.faults = @ - 1]
Crash == /\ budget.crashes > 0
         /\ budget' = [budget EXCEPT !.crashes = @ - 1]

(* The otc queue's workers run one job each.                               *)
HasWorker ==
  Cardinality({c \in Closers : closer[c].pc # "idle"})
    + Cardinality({s \in Syncs : sync[s].pc # "idle"}) < OtcWorkers

-----------------------------------------------------------------------------
(* The broker, modelled from how the code uses it.  It accepts a close     *)
(* only while no other open order holds the contracts and enough of them   *)
(* are left, keeps client order ids unique, and may end an order any time. *)

Accepts(o) == /\ held >= rows[o].qty
              /\ \A p \in Orders : broker[p].state # "open"

BrokerFill(o) ==
  /\ broker[o].state = "open"
  /\ \E n \in 1 .. held :
       /\ broker[o].fill + n <= rows[o].qty
       /\ held' = held - n
       /\ broker' = [broker EXCEPT ![o] =
            [state |-> IF @.fill + n = rows[o].qty THEN "filled" ELSE "open",
             fill |-> @.fill + n]]
  /\ UNCHANGED <<rows, pos, closer, sync, sweep, budget>>

BrokerEnd(o) ==
  /\ broker[o].state = "open"
  /\ \E st \in {"canceled", "expired"} :
       broker' = [broker EXCEPT ![o] = [@ EXCEPT !.state = st]]
  /\ UNCHANGED <<rows, held, pos, closer, sync, sweep, budget>>

-----------------------------------------------------------------------------
(* _close_position: routing is live (the position's entry has a broker id  *)
(* and its portfolio routes to the broker).                                *)

(* The steps of a run: the position read, an order staged, an attempt made. *)
Querying(qty) == [IdleCloser EXCEPT !.pc = "query", !.qty = qty]
Holding(st, o) == [st EXCEPT !.pc = "precancel", !.order = o]
Attempted(st) ==
  [st EXCEPT !.pc = IF st.tries + 1 < MaxSubmit THEN "submit" ELSE "review",
             !.tries = st.tries + 1]

ToCloser(c, pc) == closer' = [closer EXCEPT ![c] = [@ EXCEPT !.pc = pc]]
CloserDone(c) == closer' = [closer EXCEPT ![c] = IdleCloser]

(* Mutant: the guard before the re-arm fix, any cancelled close blocks.    *)
BlockingForever ==
  {o \in Orders : rows[o].engine # "gtc" /\ rows[o].status \in
     {"staged", "submitted", "working", "partial", "needs_manual_review",
      "filled", "cancelled"}}

(* filter_blocking_close_orders on the rows the idempotency query selects: *)
(* active, filled and needs_manual_review rows block; cancelled ones while *)
(* fresh, or while RetryBudget of them are inside the budget window.       *)
Blocking ==
  LET candidates == {o \in Orders : rows[o].engine # "gtc"}
      failed == {o \in candidates : rows[o].status = "cancelled"}
      recent == {o \in failed : rows[o].age # "old"}
  IN  {o \in candidates : rows[o].status \in
         {"staged", "submitted", "working", "partial",
          "needs_manual_review", "filled"}}
      \cup (IF Cardinality(recent) >= RetryBudget THEN failed
            ELSE {o \in failed : rows[o].age = "fresh"})

(* The position is read; a closed or empty one is left alone.              *)
CloseStart(c) ==
  /\ closer[c].pc = "idle"
  /\ HasWorker
  /\ pos.status # "closed" /\ pos.qty # 0
  /\ closer' = [closer EXCEPT ![c] = Querying(pos.qty)]
  /\ UNCHANGED <<rows, broker, held, pos, sync, sweep, budget>>

(* The idempotency query.  A failed query lets the close proceed.          *)
CloseQuery(c) ==
  /\ closer[c].pc = "query"
  /\ \/ /\ Blocking = {}
        /\ ToCloser(c, "stage")
        /\ UNCHANGED budget
     \/ /\ Fault
        /\ ToCloser(c, "stage")
  /\ UNCHANGED <<rows, broker, held, pos, sync, sweep>>

(* A blocking order, or the resting limit owns the profit side; or, after  *)
(* the query, the executable price is not corroborated: nothing is staged. *)
CloseSkip(c) ==
  /\ closer[c].pc \in {"query", "stage"}
  /\ CloserDone(c)
  /\ UNCHANGED <<rows, broker, held, pos, sync, sweep, budget>>

StagedRow(qty, coid) ==
  [NoRow EXCEPT !.status = "staged", !.qty = qty, !.coid = coid]

(* _stage_order_internal(submit_to_broker=False): INSERT, then the stamp   *)
(* of the deterministic client_order_id, whose failure is only logged.     *)
CloseStage(c, o) ==
  /\ closer[c].pc = "stage"
  /\ rows[o].status = "absent"
  /\ \E coid \in {"null", "set"} :
       /\ IF coid = "set" THEN UNCHANGED budget ELSE Crash
       /\ rows' = [rows EXCEPT ![o] = StagedRow(closer[c].qty, coid)]
  /\ closer' = [closer EXCEPT ![c] = Holding(@, o)]
  /\ UNCHANGED <<broker, held, pos, sync, sweep>>

(* cancel_open_orders_for_symbols: any of the open orders may survive it   *)
(* (a failed request is swallowed, a fill may win the race).               *)
ClosePreCancel(c) ==
  /\ closer[c].pc = "precancel"
  /\ \E S \in SUBSET {o \in Orders : broker[o].state = "open"} :
       broker' = [o \in Orders |-> IF o \in S
                    THEN [broker[o] EXCEPT !.state = "canceled"]
                    ELSE broker[o]]
  /\ ToCloser(c, "submit")
  /\ UNCHANGED <<rows, held, pos, sync, sweep, budget>>

(* The submission is accepted and the answer arrives.                      *)
SubmitAccepted(c) ==
  LET o == closer[c].order IN
  /\ closer[c].pc = "submit"
  /\ broker[o].state = "none"
  /\ Accepts(o)
  /\ broker' = [broker EXCEPT ![o] = NewOrder]
  /\ ToCloser(c, "ack")
  /\ UNCHANGED <<rows, held, pos, sync, sweep, budget>>

(* After a failed attempt: the next one, or give up.                       *)
RetrySubmit(c) == closer' = [closer EXCEPT ![c] = Attempted(@)]

(* The request is lost, or it is accepted and the answer is lost.          *)
SubmitLost(c) ==
  LET o == closer[c].order IN
  /\ closer[c].pc = "submit"
  /\ broker[o].state = "none"
  /\ Fault
  /\ \/ UNCHANGED broker
     \/ /\ Accepts(o)
        /\ broker' = [broker EXCEPT ![o] = NewOrder]
  /\ RetrySubmit(c)
  /\ UNCHANGED <<rows, held, pos, sync, sweep>>

(* A terminal reject (contracts held by another order, too few of them     *)
(* left, a permission) or an authentication failure.                       *)
SubmitRejected(c) ==
  /\ closer[c].pc = "submit"
  /\ broker[closer[c].order].state = "none"
  /\ ToCloser(c, "review")
  /\ UNCHANGED <<rows, broker, held, pos, sync, sweep, budget>>

(* "position intent mismatch": nothing is left to close.  The row is left  *)
(* as it is.                                                               *)
SubmitMismatch(c) ==
  /\ closer[c].pc = "submit"
  /\ held = 0
  /\ broker[closer[c].order].state # "none" => ~DuplicateIdFirst
  /\ CloserDone(c)
  /\ UNCHANGED <<rows, broker, held, pos, sync, sweep, budget>>

(* A new status and a new broker_response; fill is the quantity in it.     *)
Answered(row, status, fill) == [row EXCEPT !.status = status, !.resp = fill]

(* Mutant: the requested quantity is stored as the filled one.             *)
SubmittedFull(row, fill) ==
  [Answered(row, "submitted", row.qty) EXCEPT !.alp = "set"]

(* The row as the broker's acceptance leaves it.                           *)
Submitted(row, fill) ==
  [Answered(row, "submitted", fill) EXCEPT !.alp = "set"]

(* The client order id is taken: an earlier attempt got through.  Lookup   *)
(* and backfill; a failed lookup falls through to the retry, a failed      *)
(* update escapes and the caller marks the row.                            *)
SubmitDuplicate(c) ==
  LET o == closer[c].order IN
  /\ closer[c].pc = "submit"
  /\ broker[o].state # "none"
  /\ \/ /\ rows' = [rows EXCEPT ![o] = Submitted(@, broker[o].fill)]
        /\ CloserDone(c)
        /\ UNCHANGED budget
     \/ /\ Fault
        /\ RetrySubmit(c) \/ ToCloser(c, "review")
        /\ UNCHANGED rows
  /\ UNCHANGED <<broker, held, pos, sync, sweep>>

(* Mutant: a failed UPDATE after an accepted submission is only logged.    *)
CloseAckLogged(c) ==
  /\ closer[c].pc = "ack"
  /\ \/ /\ rows' = [rows EXCEPT ![closer[c].order] = Submitted(@, 0)]
        /\ UNCHANGED budget
     \/ /\ Fault
        /\ UNCHANGED rows
  /\ CloserDone(c)
  /\ UNCHANGED <<broker, held, pos, sync, sweep>>

(* The UPDATE after an accepted submission; when it fails, the same retry. *)
CloseAck(c) ==
  LET o == closer[c].order IN
  /\ closer[c].pc = "ack"
  /\ \/ /\ rows' = [rows EXCEPT ![o] = Submitted(@, 0)]
        /\ CloserDone(c)
        /\ UNCHANGED budget
     \/ /\ Fault
        /\ RetrySubmit(c)
        /\ UNCHANGED rows
  /\ UNCHANGED <<broker, held, pos, sync, sweep>>

(* Mutant: the internal fill of a live close whose submission failed.      *)
CloseReviewFills(c) ==
  LET o == closer[c].order IN
  /\ closer[c].pc = "review"
  /\ rows' = [rows EXCEPT ![o] = [@ EXCEPT !.status = "filled",
                                           !.filled = rows[o].qty]]
  /\ pos' = [status |-> "closed", qty |-> 0]
  /\ CloserDone(c)
  /\ UNCHANGED <<broker, held, sync, sweep, budget>>

(* The row is marked needs_manual_review and the position stays open.  If  *)
(* the update fails the caller tries it once more and gives up.            *)
CloseReview(c) ==
  LET o == closer[c].order IN
  /\ closer[c].pc = "review"
  /\ \/ /\ rows' = [rows EXCEPT ![o] = Answered(@, "needs_manual_review", 0)]
        /\ UNCHANGED budget
     \/ /\ Crash
        /\ UNCHANGED rows
  /\ CloserDone(c)
  /\ UNCHANGED <<broker, held, pos, sync, sweep>>

(* The worker is killed, or a statement with no handler fails.             *)
CloseCrash(c) ==
  /\ closer[c].pc # "idle"
  /\ Crash
  /\ CloserDone(c)
  /\ UNCHANGED <<rows, broker, held, pos, sync, sweep>>

CloseStep(c) ==
  \/ CloseQuery(c) \/ CloseSkip(c)
  \/ \E o \in Orders : CloseStage(c, o)
  \/ ClosePreCancel(c)
  \/ SubmitAccepted(c) \/ SubmitLost(c) \/ SubmitRejected(c)
  \/ SubmitMismatch(c) \/ SubmitDuplicate(c)
  \/ CloseAck(c) \/ CloseReview(c)

-----------------------------------------------------------------------------
(* alpaca_order_sync.  Each step of the job selects its rows once and then *)
(* takes them one at a time.                                               *)

Looping(pc, todo) == [IdleSync EXCEPT !.pc = pc, !.todo = todo]
Looking(st, o, pc, seen) == [st EXCEPT !.pc = pc, !.order = o, !.seen = seen]

(* The next phase of run s, with its rows.                                 *)
Phase(s, pc, todo) == sync' = [sync EXCEPT ![s] = Looping(pc, todo)]

(* Done with order o: back to the loop of the phase.                       *)
NextRow(s, pc) ==
  sync' = [sync EXCEPT ![s] = Looping(pc, @.todo \ {@.order})]

(* Order o is in hand, with what the broker says of it.                    *)
Look(s, o, pc) ==
  sync' = [sync EXCEPT ![s] = Looking(@, o, pc, broker[o])]

Polled == {o \in Orders :
  /\ rows[o].status \in {"submitted", "working", "partial",
                         "needs_manual_review"}
  /\ rows[o].alp = "set"}

SyncStart(s) ==
  /\ sync[s].pc = "idle"
  /\ HasWorker
  /\ Phase(s, "poll", Polled)
  /\ UNCHANGED <<rows, broker, held, pos, closer, sweep, budget>>

(* poll_pending_orders: get_order; an error leaves the row for the next    *)
(* run.                                                                    *)
PollFetch(s, o) ==
  /\ sync[s].pc = "poll"
  /\ o \in sync[s].todo
  /\ Look(s, o, "fetched")
  /\ UNCHANGED <<rows, broker, held, pos, closer, sweep, budget>>

(* Mutant: the cancellation is believed without asking the broker again.   *)
WatchdogBelieved(s) ==
  LET o == sync[s].order IN
  /\ sync[s].pc = "fetched"
  /\ rows[o].engine # "gtc"
  /\ sync[s].seen = NewOrder
  /\ \/ broker' = [broker EXCEPT ![o] =
          IF @.state = "open" THEN [@ EXCEPT !.state = "canceled"] ELSE @]
     \/ UNCHANGED broker
  /\ sync' = [sync EXCEPT ![s] = [@ EXCEPT !.pc = "write",
       !.seen = [state |-> "canceled", fill |-> 0]]]
  /\ UNCHANGED <<rows, held, pos, closer, sweep, budget>>

(* The idle watchdog: an unfilled day order idle for 90 seconds (any time  *)
(* has passed) is cancelled; the request may fail or lose the race.        *)
Watchdog(s) ==
  LET o == sync[s].order IN
  /\ sync[s].pc = "fetched"
  /\ rows[o].engine # "gtc"
  /\ sync[s].seen = NewOrder
  /\ \/ broker' = [broker EXCEPT ![o] =
          IF @.state = "open" THEN [@ EXCEPT !.state = "canceled"] ELSE @]
     \/ UNCHANGED broker
  /\ sync' = [sync EXCEPT ![s] = [@ EXCEPT !.pc = "refetch"]]
  /\ UNCHANGED <<rows, held, pos, closer, sweep, budget>>

Refetch(s) ==
  /\ sync[s].pc = "refetch"
  /\ Look(s, sync[s].order, "write")
  /\ UNCHANGED <<rows, broker, held, pos, closer, sweep, budget>>

(* Mutant: the broker's spelling goes into the row.                        *)
InternalStatusRaw(seen) ==
  CASE seen.state = "filled" -> "filled"
    [] seen.state = "open" -> IF seen.fill > 0 THEN "partial" ELSE "working"
    [] OTHER -> IF seen.fill > 0 THEN "needs_manual_review" ELSE seen.state

(* status_map, and the rule for a terminal order with a residual fill.     *)
InternalStatus(seen) ==
  CASE seen.state = "filled" -> "filled"
    [] seen.state = "open" -> IF seen.fill > 0 THEN "partial" ELSE "working"
    [] OTHER -> IF seen.fill > 0 THEN "needs_manual_review" ELSE "cancelled"

(* The row after a poll: filled_qty is written only when something filled. *)
Observed(row, status, fill) ==
  [Answered(row, status, fill) EXCEPT
     !.filled = IF fill > 0 THEN fill ELSE row.filled, !.age = "fresh"]

(* The poll's UPDATE; after the watchdog, a clean cancel has its own name. *)
PollWrite(s) ==
  LET o == sync[s].order
      seen == sync[s].seen
      clean == [state |-> "canceled", fill |-> 0]
      st == IF sync[s].pc = "write" /\ seen = clean
            THEN "watchdog_cancelled" ELSE InternalStatus(seen)
  IN  /\ sync[s].pc \in {"fetched", "write"}
      /\ rows' = [rows EXCEPT ![o] = Observed(@, st, seen.fill)]
      /\ IF st = "filled"
         THEN sync' = [sync EXCEPT ![s] = [@ EXCEPT !.pc = "commit"]]
         ELSE NextRow(s, "poll")
      /\ UNCHANGED <<broker, held, pos, closer, sweep, budget>>

(* _close_position_on_fill: extract_close_legs and compute_realized_pl     *)
(* refuse a fill that is not the whole position; close_position_shared     *)
(* closes the row if it is not closed.                                     *)
ClosedBy(p, fill) ==
  IF p.status # "closed" /\ p.qty # 0 /\ fill = p.qty
  THEN [status |-> "closed", qty |-> 0] ELSE p

(* The close after a poll that found the order filled.                     *)
PollCommit(s) ==
  /\ sync[s].pc = "commit"
  /\ pos' = ClosedBy(pos, sync[s].seen.fill)
  /\ NextRow(s, "poll")
  /\ UNCHANGED <<rows, broker, held, closer, sweep, budget>>

(* A request or a statement of the loop over the rows fails: the error is  *)
(* recorded and the next row is taken.                                     *)
PollError(s) ==
  /\ sync[s].pc \in {"fetched", "refetch", "write", "commit"}
  /\ Fault
  /\ NextRow(s, "poll")
  /\ UNCHANGED <<rows, broker, held, pos, closer, sweep>>

(* Mutant: rows held for review are not looked up.                         *)
LostSubmitsUnreviewed == {o \in Orders :
  /\ rows[o].status \in {"submitted", "working"}
  /\ rows[o].alp = "null" /\ rows[o].coid = "set"}

LostSubmits == {o \in Orders :
  /\ rows[o].status \in {"needs_manual_review", "submitted", "working"}
  /\ rows[o].alp = "null" /\ rows[o].coid = "set"}

(* Step 1.5, _reconcile_lost_submits.                                      *)
StartLost(s) ==
  /\ sync[s].pc = "poll"
  /\ sync[s].todo = {}
  /\ Phase(s, "lost", LostSubmits)
  /\ UNCHANGED <<rows, broker, held, pos, closer, sweep, budget>>

LostLookup(s, o) ==
  /\ sync[s].pc = "lost"
  /\ o \in sync[s].todo
  /\ Look(s, o, "found")
  /\ UNCHANGED <<rows, broker, held, pos, closer, sweep, budget>>

(* A cancelled row, placed in the re-arm windows.                          *)
Cancelled(row, age) == [row EXCEPT !.status = "cancelled", !.age = age]

(* Found: backfill.  404: the terminal status that lets a new close be     *)
(* staged.                                                                 *)
LostResolve(s) ==
  LET o == sync[s].order IN
  /\ sync[s].pc = "found"
  /\ rows' = [rows EXCEPT ![o] =
       IF sync[s].seen.state # "none" THEN Submitted(@, sync[s].seen.fill)
       ELSE Cancelled(@, "fresh")]
  /\ NextRow(s, "lost")
  /\ UNCHANGED <<broker, held, pos, closer, sweep, budget>>

LostError(s) ==
  /\ sync[s].pc = "found"
  /\ Fault
  /\ NextRow(s, "lost")
  /\ UNCHANGED <<rows, broker, held, pos, closer, sweep>>

(* Step 3: filled close orders of the position if it is still open; the    *)
(* close engines do not include the resting limit's.                       *)
StartStuck(s) ==
  /\ sync[s].pc = "lost"
  /\ sync[s].todo = {}
  /\ Phase(s, "stuck", {o \in Orders :
       /\ pos.status = "open"
       /\ rows[o].status = "filled" /\ rows[o].filled > 0
       /\ rows[o].engine = "exit"})
  /\ UNCHANGED <<rows, broker, held, pos, closer, sweep, budget>>

(* Mutant: the fill is taken from the row and not from the broker's data.  *)
StoredFillOfRow(o) == rows[o].filled

(* The repair reads the stored broker_response.                            *)
StoredFill(o) == rows[o].resp

StuckClose(s, o) ==
  /\ sync[s].pc = "stuck"
  /\ o \in sync[s].todo
  /\ \/ /\ pos' = ClosedBy(pos, StoredFill(o))
        /\ UNCHANGED budget
     \/ /\ Fault
        /\ UNCHANGED pos
  /\ Phase(s, "stuck", sync[s].todo \ {o})
  /\ UNCHANGED <<rows, broker, held, closer, sweep>>

SyncEnd(s) ==
  /\ sync[s].pc = "stuck"
  /\ sync[s].todo = {}
  /\ sync' = [sync EXCEPT ![s] = IdleSync]
  /\ UNCHANGED <<rows, broker, held, pos, closer, sweep, budget>>

SyncCrash(s) ==
  /\ sync[s].pc # "idle"
  /\ Crash
  /\ sync' = [sync EXCEPT ![s] = IdleSync]
  /\ UNCHANGED <<rows, broker, held, pos, closer, sweep>>

SyncStep(s) ==
  \/ \E o \in Orders : PollFetch(s, o) \/ LostLookup(s, o) \/ StuckClose(s, o)
  \/ Watchdog(s) \/ Refetch(s) \/ PollWrite(s) \/ PollCommit(s) \/ PollError(s)
  \/ StartLost(s) \/ LostResolve(s) \/ LostError(s)
  \/ StartStuck(s) \/ SyncEnd(s)

-----------------------------------------------------------------------------
(* _process_orders_for_user without a target: called for the user when an  *)
(* entry of theirs fills or is repaired, by the autopilot's sweep and by   *)
(* the process-orders task.  It selects by status alone.                   *)

SweepStart ==
  /\ Sweeping
  /\ sweep.todo = {}
  /\ sweep' = [todo |-> {o \in Orders : rows[o].status \in
                           {"staged", "working", "partial"}},
               prior |-> rows]
  /\ sweep'.todo # {}
  /\ UNCHANGED <<rows, broker, held, pos, closer, sync, budget>>

SweepNext(o) == sweep' = IF sweep.todo = {o} THEN IdleSweep
                         ELSE [sweep EXCEPT !.todo = @ \ {o}]

(* An unfilled working row older than two hours is cancelled in the table; *)
(* cancelled_at stays NULL, so created_at places it in the windows.        *)
SweepStale(o) ==
  /\ o \in sweep.todo
  /\ sweep.prior[o].status = "working" /\ sweep.prior[o].filled = 0
  /\ \E age \in {"stale", "old"} :
       rows' = [rows EXCEPT ![o] = Cancelled(@, age)]
  /\ SweepNext(o)
  /\ UNCHANGED <<broker, held, pos, closer, sync, budget>>

(* No simulated fill: a staged row becomes working.                        *)
SweepWorking(o) ==
  /\ o \in sweep.todo
  /\ rows' = IF sweep.prior[o].status = "staged"
             THEN [rows EXCEPT ![o] = [@ EXCEPT !.status = "working"]]
             ELSE rows
  /\ SweepNext(o)
  /\ UNCHANGED <<broker, held, pos, closer, sync, budget>>

(* _commit_fill's update of the order.                                     *)
Simulated(row, status, filled) ==
  [row EXCEPT !.status = status, !.filled = filled]

(* A simulated fill of what is left, and _commit_fill: the row is filled,  *)
(* the position changes by the quantity.  At zero the close is refused     *)
(* (these source engines have no close reason here) and the position kept. *)
SweepFill(o) ==
  LET left == sweep.prior[o].qty - sweep.prior[o].filled
      qty == pos.qty - left
  IN  /\ o \in sweep.todo
      /\ left > 0
      /\ rows' = [rows EXCEPT ![o] =
           Simulated(@, "filled", sweep.prior[o].qty)]
      /\ pos' = IF qty = 0 THEN pos ELSE [pos EXCEPT !.qty = qty]
      /\ SweepNext(o)
      /\ UNCHANGED <<broker, held, closer, sync, budget>>

(* A statement on the position fails after the row was filled: the row is  *)
(* rolled back to an unfilled working one.                                 *)
SweepRollback(o) ==
  /\ o \in sweep.todo
  /\ sweep.prior[o].qty > sweep.prior[o].filled
  /\ Fault
  /\ rows' = [rows EXCEPT ![o] = Simulated(@, "working", 0)]
  /\ SweepNext(o)
  /\ UNCHANGED <<broker, held, pos, closer, sync>>

-----------------------------------------------------------------------------
(* Time: a cancelled row leaves the 30-minute window, then the 4-hour one. *)
Age(o) ==
  /\ rows[o].status = "cancelled"
  /\ rows[o].age # "old"
  /\ rows' = [rows EXCEPT ![o] =
       [@ EXCEPT !.age = IF rows[o].age = "fresh" THEN "stale" ELSE "old"]]
  /\ UNCHANGED <<broker, held, pos, closer, sync, sweep, budget>>

Next ==
  \/ \E c \in Closers : CloseStart(c) \/ CloseStep(c) \/ CloseCrash(c)
  \/ \E s \in Syncs : SyncStart(s) \/ SyncStep(s) \/ SyncCrash(s)
  \/ SweepStart
  \/ \E o \in Orders : \/ SweepStale(o) \/ SweepWorking(o)
                       \/ SweepFill(o) \/ SweepRollback(o)
                       \/ BrokerFill(o) \/ BrokerEnd(o) \/ Age(o)

Spec == Init /\ [][Next]_vars

(* A job that started goes on, the queue is served in order (so a sync job *)
(* waiting behind closes does start) and time passes.                      *)
Fairness ==
  /\ \A c \in Closers : WF_vars(CloseStep(c))
  /\ \A s \in Syncs : WF_vars(SyncStep(s)) /\ SF_vars(SyncStart(s))
  /\ \A o \in Orders : WF_vars(Age(o))

FairSpec == Spec /\ Fairness

-----------------------------------------------------------------------------
(* Properties.                                                             *)

(* The database never says "closed" while the broker still holds contracts *)
(* of the position: the ghost position that the close path is built to     *)
(* rule out (_close_position_on_fill, close_position_shared).              *)
ClosedIsFlat == pos.status = "closed" => held = 0

(* No copy of a fill, in a row or in the hands of a run, however stale,    *)
(* says that more was sold than the broker sold.  It is what makes a late  *)
(* or repeated commit (PollCommit, StuckClose) harmless.                   *)
FillsAreSold ==
  /\ held <= Qty
  /\ \A o \in Orders : broker[o].fill + held <= Qty
  /\ \A o \in Orders : rows[o].resp + held <= Qty
  /\ \A s \in Syncs : sync[s].seen.fill + held <= Qty

(* A row that no later run will ask the broker about ("cancelled",         *)
(* "watchdog_cancelled") hides neither an open order nor a fill: the       *)
(* watchdog's refetch, the residual-fill rule of poll_pending_orders and   *)
(* the 404 of _resolve_lost_submit are what it rests on.                   *)
NothingForgotten ==
  \A o \in Orders :
    rows[o].status \in {"cancelled", "watchdog_cancelled"} =>
      broker[o].state # "open" /\ broker[o].fill = 0

(* Every order that is open at the broker, and every filled close of a     *)
(* position still open in the database, is within reach: in the hands of   *)
(* the run that submits it, or selected by the next sync run for the poll, *)
(* the lookup of lost submits (Step 1.5) or the repair (Step 3), with the  *)
(* fill the repair will believe. No overlap of runs and no lost request,   *)
(* answer or write drops it between these queries. Excused: a row that a   *)
(* crash left staged or without its client order id, a row left by the     *)
(* "position intent mismatch" of a broker that looks at the intent first,  *)
(* and the filled resting limit, which Step 3 does not select.             *)
WithinReach ==
  pos.status = "open" => \A o \in Orders :
    \/ broker[o].state # "open"
         /\ (broker[o].state # "filled" \/ rows[o].engine = "gtc")
    \/ o \in Polled \cup LostSubmits
    \/ \E c \in Closers : closer[c].order = o
    \/ /\ rows[o].status = "filled" /\ rows[o].engine = "exit"
       /\ rows[o].filled > 0 /\ rows[o].resp = pos.qty
    \/ /\ budget.crashes < MaxCrashes
       /\ rows[o].status = "staged" \/ rows[o].coid = "null"
    \/ rows[o].status = "staged" /\ held = 0 /\ ~DuplicateIdFirst

(* The close path implements PositionTruth: the position is booked closed  *)
(* once, after the broker's last fill, and stays closed.                   *)
Truth == INSTANCE PositionTruth WITH booked <- pos.status
BookFollowsBroker == Truth!Spec

(* A close order the broker filled is booked: the position is eventually   *)
(* closed, whatever answers and writes were lost on the way (the poll,     *)
(* Step 1.5 and Step 3 of alpaca_order_sync together).                     *)
FillIsBooked ==
  \A o \in Orders : broker[o].state = "filled" ~> pos.status = "closed"

(* Failed closes do not disarm the exits for ever: again and again nothing *)
(* blocks a new close, unless the position is closed, an order is held for *)
(* manual review, filled or still with the broker                          *)
(* (filter_blocking_close_orders).                                         *)
ExitsRearm ==
  []<>(\/ pos.status = "closed"
       \/ Blocking = {}
       \/ \E o \in Orders : rows[o].status \in
            {"staged", "submitted", "working", "partial", "filled",
             "needs_manual_review"})
=============================================================================
