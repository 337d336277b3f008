------------------------------ MODULE LiveEntry ------------------------------
(***************************************************************************)
(* Live entries of one cohort: the autopilot that turns today's pending    *)
(* suggestions into broker orders, the order sync that books their fills,  *)
(* the monitor's stops and the re-entry cooldown they write, the loss      *)
(* streak breaker run by the learning ingest, and the morning sweep of     *)
(* old suggestions.                                                        *)
(*                                                                         *)
(* All these are jobs of the one serial RQ worker on queue otc, so at most *)
(* one is under way; they interleave with the broker, the operator and the *)
(* clock, and they die. Closing a position is LiveClose's subject: here a  *)
(* close is one step.                                                      *)
(***************************************************************************)
EXTENDS Integers, Sequences, FiniteSets, FiniteSetsExt

CONSTANTS
  Suggestions,
  Symbols, Symbol,   \* symbols, and the one of each suggestion
  Cap,               \* max_suggestions_per_day of the cohort
  Qty,               \* contracts of every entry
  MaxSubmit,         \* MAX_SUBMIT_ATTEMPTS
  None,              \* no suggestion: a row not inserted yet
  N,                 \* STREAK_BREAKER_N
  MaxOrders,         \* bound: rows of paper_orders
  MaxDays,           \* bound: trading days
  MaxTroubles        \* bound: kinds of failure that strike, each once

ASSUME EntryAssumption ==
  /\ Symbol \in [Suggestions -> Symbols]
  /\ None \notin Suggestions
  /\ {Qty, MaxSubmit, N, MaxDays} \subseteq Nat \ {0}
  /\ {Cap, MaxOrders, MaxTroubles} \subseteq Nat

Orders == 1..MaxOrders

VARIABLES
  day,       \* today's cycle_date
  sugg,      \* trade_suggestions
  orders,    \* paper_orders, entries only
  broker,    \* the broker's orders
  posn,      \* paper_positions, named by the order that opened them
  strays,    \* of them, those inserted without a cohort_id
  bench,     \* reentry_cooldowns of the cohort: the last day benched
  ops,       \* ops_control: entries_paused and streak_breaker_state
  outcomes,  \* learning_feedback_loops, oldest first
  job,       \* the worker: the job under way and its locals
  stopped,   \* history: symbols the monitor stopped today, strays apart
  streak,    \* history: the last losing window, and whether it is unreviewed
  troubles   \* history: kinds of failure so far

vars == <<day, sugg, orders, broker, posn, strays, bench, ops, outcomes, job,
          stopped, streak, troubles>>

-----------------------------------------------------------------------------
(* Rows.                                                                   *)

SuggRow == [status : {"absent", "pending", "executed", "NOT_EXECUTABLE",
                      "dismissed"}, day : 0..MaxDays]

(* alp, coid: alpaca_order_id and client_order_id are set. age: since      *)
(* submitted_at, beyond IDLE_WATCHDOG_SECONDS or STALE_WORKING_MINUTES.    *)
(* link: position_id, 0 for NULL. stale: cancelled_reason says so.         *)
OrderRow == [status : {"absent", "staged", "submitted", "working", "partial",
                       "filled", "cancelled", "watchdog_cancelled",
                       "needs_manual_review"},
             sug : Suggestions \cup {None}, day : 0..MaxDays, alp : BOOLEAN,
             coid : BOOLEAN, filled : 0..Qty, link : 0..MaxOrders,
             age : {"fresh", "idle", "old"}, stale : BOOLEAN]

NoOrder == [status |-> "absent", sug |-> None, day |-> 0, alp |-> FALSE,
            coid |-> FALSE, filled |-> 0, link |-> 0, age |-> "fresh",
            stale |-> FALSE]

BrokerRow == [state : {"none", "live", "filled", "ended"}, fill : 0..Qty]

JobState ==
  [pc : {"idle", "pick", "stamp", "submit", "ack", "review", "poll",
         "cancel", "sweep", "resolve", "repair", "bench", "ingest",
         "evaluate", "trip", "mark"},
   sugs : SUBSET Suggestions,   \* candidates left
   blind : BOOLEAN,             \* the run could not resolve its cohort_id
   order : 0..MaxOrders,        \* the row in hand
   tries : 0..MaxSubmit, dup : BOOLEAN,
   polls : SUBSET Orders,       \* rows left to poll
   linked : SUBSET Orders]      \* of them, those read with a position_id

IdleJob == [pc |-> "idle", sugs |-> {}, blind |-> FALSE, order |-> 0,
            tries |-> 0, dup |-> FALSE, polls |-> {}, linked |-> {}]

(* What may fail: reading the entries pause, the cooldown filter or the    *)
(* cohort of a run (resolve) or of a new position (cohort), the id stamp,  *)
(* an answer or a request on its way, a lookup, the row's update, a poll   *)
(* (or the sync dying), a repair, the cooldown's insert (or the monitor    *)
(* dying), the pause, the evaluation, the trip's stamp; or the autopilot   *)
(* or the ingest dies.                                                     *)
Kinds == {"read", "filter", "resolve", "cohort", "stamp", "lost", "lookup",
          "write", "poll", "repair", "bench", "pause", "evaluate", "mark",
          "crash"}

TypeOK ==
  /\ day \in 1..MaxDays
  /\ sugg \in [Suggestions -> SuggRow]
  /\ orders \in [Orders -> OrderRow]
  /\ broker \in [Orders -> BrokerRow]
  /\ posn \in [Orders -> {"none", "open", "closing", "won", "lost"}]
  /\ strays \subseteq Orders
  /\ bench \in [Symbols -> 0..MaxDays]
  /\ ops \in [paused : BOOLEAN, stamp : SUBSET Orders]
  /\ outcomes \in Seq(Orders)
  /\ job \in JobState
  /\ stopped \subseteq Symbols
  /\ streak \in [window : SUBSET Orders, unseen : BOOLEAN]
  /\ troubles \subseteq Kinds

Init ==
  /\ day = 1
  /\ sugg = [s \in Suggestions |-> [status |-> "absent", day |-> 0]]
  /\ orders = [o \in Orders |-> NoOrder]
  /\ broker = [o \in Orders |-> [state |-> "none", fill |-> 0]]
  /\ posn = [o \in Orders |-> "none"]
  /\ strays = {}
  /\ bench = [y \in Symbols |-> 0]
  /\ ops = [paused |-> FALSE, stamp |-> {}]
  /\ outcomes = << >>
  /\ job = IdleJob
  /\ stopped = {}
  /\ streak = [window |-> {}, unseen |-> FALSE]
  /\ troubles = {}

(* A failure of kind k: a query, a write or a call that raises.            *)
Fails(k) ==
  /\ k \notin troubles
  /\ Cardinality(troubles) < MaxTroubles
  /\ troubles' = troubles \cup {k}

(* The failures K in one step.                                             *)
Strike(K) ==
  /\ K \cap troubles = {}
  /\ Cardinality(troubles \cup K) <= MaxTroubles
  /\ troubles' = troubles \cup K

Steady == UNCHANGED troubles

Idle == job.pc = "idle"

Goes(pc) == job' = [job EXCEPT !.pc = pc]

Set(o, row) == orders' = [orders EXCEPT ![o] = row]

Of(o) == Symbol[orders[o].sug]

InBook(o) == posn[o] \in {"open", "closing"}

-----------------------------------------------------------------------------
(* The autopilot.                                                          *)

(* reentry_cooldown.is_active: a row with cooldown_until ahead of now.     *)
Benched(y) == bench[y] >= day

(* Mutant: the statuses that the sync writes left out.                     *)
AlreadyStaged ==
  {orders[o].sug : o \in {p \in Orders :
     orders[p].status \in {"staged", "filled"} /\ orders[p].day = day}}

(* get_already_executed_suggestion_ids_today.                              *)
Already ==
  {orders[o].sug : o \in {p \in Orders :
     /\ orders[p].status \in {"staged", "working", "partial", "submitted",
                              "filled"}
     /\ orders[p].day = day}}

Held == {Of(o) : o \in {p \in Orders : InBook(p)}}

Pending == {s \in Suggestions : sugg[s].status = "pending"}

(* The cohort's loop, with candidates left.                                *)
Picking(sugs, blind) ==
  [IdleJob EXCEPT !.pc = "pick", !.sugs = sugs, !.blind = blind]

(* execute_top_suggestions past its gates, and the cohort's reads: pending *)
(* of today, cut to the cap in an order of rank the model leaves open;     *)
(* then the cooldown filter, the dedup and the symbols held. The entries   *)
(* pause fails open, and a failed query skips the filter. A failed read of *)
(* the cohort (resolve_cohort_id) is swallowed: the run goes on with the   *)
(* cohort_id None, which no cooldown has.                                  *)
RunStart ==
  /\ Idle
  /\ LET today == {s \in Pending : sugg[s].day = day}
         Wanted(top) == {s \in top \ Already : Symbol[s] \notin Held}
     IN \E top \in kSubset(Min({Cap, Cardinality(today)}), today),
           K \in SUBSET {"read", "filter", "resolve"} :
          /\ ops.paused <=> "read" \in K
          /\ Strike(K)
          /\ job' = Picking({s \in Wanted(top) : \/ ~Benched(Symbol[s])
                                                 \/ K \ {"read"} # {}},
                            "resolve" \in K)
  /\ UNCHANGED <<day, sugg, orders, broker, posn, strays, bench, ops,
                 outcomes, stopped, streak>>

Picked(s) == [job EXCEPT !.sugs = @ \ {s}]

NextPick == job' = Picking(job.sugs, job.blind)

(* Not staged, still pending: the cooldown's stage gate (closed on a       *)
(* failed query too), the utilization and bucket gates, an unpriceable leg.*)
PickSkip(s) ==
  /\ job.pc = "pick" /\ s \in job.sugs
  /\ job' = Picked(s)
  /\ Steady
  /\ UNCHANGED <<day, sugg, orders, broker, posn, strays, bench, ops,
                 outcomes, stopped, streak>>

(* Mutant: the filter gate alone is relied on.                             *)
StageGateOpen(s) == TRUE

(* is_active, asked again before staging, with the run's cohort_id.        *)
StageGate(s) == job.blind \/ ~Benched(Symbol[s])

(* EntryRoundtripCostExceedsEV: stamp_not_executable, from pending only.   *)
PickUnexecutable(s) ==
  /\ job.pc = "pick" /\ s \in job.sugs
  /\ StageGate(s)
  /\ sugg[s].status = "pending"
  /\ sugg' = [sugg EXCEPT ![s] = [@ EXCEPT !.status = "NOT_EXECUTABLE"]]
  /\ job' = Picked(s)
  /\ Steady
  /\ UNCHANGED <<day, orders, broker, posn, strays, bench, ops, outcomes,
                 stopped, streak>>

Unused == {o \in Orders : orders[o].status = "absent"}

(* _stage_order_internal: the row is inserted ...                          *)
PickStage(s) ==
  /\ job.pc = "pick" /\ s \in job.sugs
  /\ StageGate(s)
  /\ Unused # {}
  /\ LET o == Min(Unused)
     IN /\ Set(o, [NoOrder EXCEPT !.status = "staged", !.sug = s, !.day = day])
        /\ job' = [Picked(s) EXCEPT !.pc = "stamp", !.order = o]
  /\ Steady
  /\ UNCHANGED <<day, sugg, broker, posn, strays, bench, ops, outcomes,
                 stopped, streak>>

(* ... and the client order id written on it, best effort.                 *)
Stamp ==
  /\ job.pc = "stamp"
  /\ Goes("submit")
  /\ \/ /\ Set(job.order, [orders[job.order] EXCEPT !.coid = TRUE])
        /\ Steady
     \/ Fails("stamp") /\ UNCHANGED orders
  /\ UNCHANGED <<day, sugg, broker, posn, strays, bench, ops, outcomes,
                 stopped, streak>>

(* A failed attempt: submit_and_track retries until its attempts are used. *)
Again ==
  job' = [job EXCEPT !.tries = @ + 1,
            !.pc = IF job.tries + 1 < MaxSubmit THEN "submit" ELSE "review"]

(* One attempt. The broker accepts and the answer arrives, or either is    *)
(* lost on the way; or it refuses for good.                                *)
Submit ==
  /\ job.pc = "submit"
  /\ broker[job.order].state = "none"
  /\ \/ /\ broker' = [broker EXCEPT ![job.order] = [@ EXCEPT !.state = "live"]]
        /\ \/ Goes("ack") /\ Steady
           \/ Again /\ Fails("lost")
     \/ Again /\ Fails("lost") /\ UNCHANGED broker
     \/ Goes("review") /\ Steady /\ UNCHANGED broker
  /\ UNCHANGED <<day, sugg, orders, posn, strays, bench, ops, outcomes,
                 stopped, streak>>

(* Mutant: the refusal of a duplicate taken for a refusal for good.        *)
SubmitRefused ==
  /\ job.pc = "submit"
  /\ broker[job.order].state # "none"
  /\ Goes("review")
  /\ Steady
  /\ UNCHANGED <<day, sugg, orders, broker, posn, strays, bench, ops,
                 outcomes, stopped, streak>>

(* The broker refuses a duplicate client order id: the order it has is     *)
(* looked up, and a failed lookup is a failed attempt.                     *)
SubmitDuplicate ==
  /\ job.pc = "submit"
  /\ broker[job.order].state # "none"
  /\ \/ job' = [job EXCEPT !.pc = "ack", !.dup = TRUE] /\ Steady
     \/ Again /\ Fails("lookup")
  /\ UNCHANGED <<day, sugg, orders, broker, posn, strays, bench, ops,
                 outcomes, stopped, streak>>

Submitted(o) ==
  [orders[o] EXCEPT !.status = "submitted", !.alp = TRUE, !.age = "fresh"]

(* The broker's id is written. When that fails on the plain path the loop  *)
(* tries again; after a lookup the exception leaves submit_and_track and   *)
(* staging only logs it.                                                   *)
Ack ==
  /\ job.pc = "ack"
  /\ \/ Set(job.order, Submitted(job.order)) /\ NextPick /\ Steady
     \/ /\ Fails("write")
        /\ IF job.dup THEN NextPick ELSE Again
        /\ UNCHANGED orders
  /\ UNCHANGED <<day, sugg, broker, posn, strays, bench, ops, outcomes,
                 stopped, streak>>

(* Attempts used up or a terminal refusal: needs_manual_review.            *)
Review ==
  /\ job.pc = "review"
  /\ NextPick
  /\ \/ /\ Set(job.order, [orders[job.order] EXCEPT
                             !.status = "needs_manual_review"])
        /\ Steady
     \/ Fails("write") /\ UNCHANGED orders
  /\ UNCHANGED <<day, sugg, broker, posn, strays, bench, ops, outcomes,
                 stopped, streak>>

RunDone ==
  /\ job.pc = "pick" /\ job.sugs = {}
  /\ job' = IdleJob
  /\ UNCHANGED <<day, sugg, orders, broker, posn, strays, bench, ops,
                 outcomes, stopped, streak, troubles>>

-----------------------------------------------------------------------------
(* The order sync.                                                         *)

(* poll_pending_orders selects its rows once.                              *)
Pollable ==
  {o \in Orders : /\ orders[o].status \in {"submitted", "working", "partial",
                                           "needs_manual_review"}
                  /\ orders[o].alp}

SyncStart ==
  /\ Idle
  /\ job' = [IdleJob EXCEPT !.pc = "poll", !.polls = Pollable,
                !.linked = {o \in Pollable : orders[o].link # 0}]
  /\ Steady
  /\ UNCHANGED <<day, sugg, orders, broker, posn, strays, bench, ops,
                 outcomes, stopped, streak>>

Polled(o, pc) ==
  job' = [job EXCEPT !.polls = @ \ {o}, !.linked = @ \ {o}, !.pc = pc,
                     !.order = 0]

(* status_map, and the hold for an order that ended with contracts filled. *)
StatusOf(b) ==
  CASE b.state = "live" /\ b.fill = 0 -> "working"
    [] b.state = "live" /\ b.fill > 0 -> "partial"
    [] b.state = "filled" -> "filled"
    [] b.state = "ended" /\ b.fill > 0 -> "needs_manual_review"
    [] OTHER -> "cancelled"

(* Mutant: the broker's cumulative filled_qty taken for an increment.      *)
MirroredAdding(o) ==
  [orders[o] EXCEPT !.status = StatusOf(broker[o]),
     !.filled = @ + broker[o].fill, !.stale = FALSE]

Mirrored(o) ==
  [orders[o] EXCEPT !.status = StatusOf(broker[o]),
     !.filled = IF broker[o].fill > 0 THEN broker[o].fill ELSE @,
     !.stale = FALSE]

IdlesTooLong(o) ==
  broker[o].state = "live" /\ broker[o].fill = 0 /\ orders[o].age # "fresh"

(* _close_position_on_fill; the result is whatever the prices make it.     *)
CloseOnFill(p) ==
  IF InBook(p) THEN \E r \in {"won", "lost"} : posn' = [posn EXCEPT ![p] = r]
               ELSE UNCHANGED posn

(* What the broker says is written over the row, whatever it holds by now. *)
(* On a fill, a row read with a position_id is taken for a close and its   *)
(* position closed; any other starts the user's sweep.                     *)
Reconcile(o) ==
  LET filled == broker[o].state = "filled"
  IN /\ Set(o, Mirrored(o))
     /\ IF filled /\ o \in job.linked THEN CloseOnFill(orders[o].link)
                                      ELSE UNCHANGED posn
     /\ Polled(o, IF filled /\ o \notin job.linked THEN "sweep" ELSE "poll")

Poll(o) ==
  /\ job.pc = "poll" /\ o \in job.polls
  /\ ~IdlesTooLong(o)
  /\ Reconcile(o)
  /\ Steady
  /\ UNCHANGED <<day, sugg, broker, strays, bench, ops, outcomes, stopped,
                 streak>>

PollFails(o) ==
  /\ job.pc = "poll" /\ o \in job.polls
  /\ Fails("poll")
  /\ Polled(o, "poll")
  /\ UNCHANGED <<day, sugg, orders, broker, posn, strays, bench, ops,
                 outcomes, stopped, streak>>

(* The idle watchdog: the cancel is sent, and may come too late or fail ...*)
Watchdog(o) ==
  /\ job.pc = "poll" /\ o \in job.polls
  /\ IdlesTooLong(o)
  /\ job' = [job EXCEPT !.pc = "cancel", !.order = o]
  /\ \/ UNCHANGED broker
     \/ broker' = [broker EXCEPT ![o] = [@ EXCEPT !.state = "ended"]]
  /\ Steady
  /\ UNCHANGED <<day, sugg, orders, posn, strays, bench, ops, outcomes,
                 stopped, streak>>

(* Mutant: the cancel's answer is believed.                                *)
RefetchedNot(o) ==
  /\ Set(o, [orders[o] EXCEPT !.status = "watchdog_cancelled"])
  /\ Polled(o, "poll")
  /\ UNCHANGED posn

(* ... only what the broker then says is believed.                         *)
Refetched(o) ==
  IF broker[o] = [state |-> "ended", fill |-> 0]
    THEN /\ Set(o, [orders[o] EXCEPT !.status = "watchdog_cancelled"])
         /\ Polled(o, "poll")
         /\ UNCHANGED posn
    ELSE Reconcile(o)

Refetch ==
  /\ job.pc = "cancel"
  /\ Refetched(job.order)
  /\ Steady
  /\ UNCHANGED <<day, sugg, broker, strays, bench, ops, outcomes, stopped,
                 streak>>

RefetchFails ==
  /\ job.pc = "cancel"
  /\ Fails("poll")
  /\ Polled(job.order, "poll")
  /\ UNCHANGED <<day, sugg, orders, broker, posn, strays, bench, ops,
                 outcomes, stopped, streak>>

-----------------------------------------------------------------------------
(* _process_orders_for_user, at the level of rows (PaperBook has its       *)
(* statements). Nothing in it asks whether an order is at the broker.      *)

Orphans ==
  {o \in Orders : /\ orders[o].status = "filled" /\ orders[o].link = 0
                  /\ orders[o].filled > 0}

InFlight == {o \in Orders : orders[o].status \in {"staged", "working", "partial"}}

Stale ==
  {o \in InFlight : /\ orders[o].status = "working" /\ orders[o].filled = 0
                    /\ orders[o].age = "old"}

(* The position a fill goes to: the suggestion's open one (same strategy   *)
(* key), else one that the first of its orders opens.                      *)
Home(o, booked) ==
  LET kin == {p \in Orders : orders[p].sug = orders[o].sug}
      open == {p \in kin : InBook(p)}
  IN IF orders[o].link # 0 THEN orders[o].link
     ELSE IF open # {} THEN Min(open) ELSE Min(kin \cap booked)

(* A row in flight after its simulated fill to got contracts.              *)
Simulated(o, got, home) ==
  IF got > orders[o].filled
    THEN [orders[o] EXCEPT !.filled = got, !.link = home,
            !.status = IF got = Qty THEN "filled" ELSE "partial"]
    ELSE IF orders[o].status = "staged"
           THEN [orders[o] EXCEPT !.status = "working", !.age = "fresh"]
           ELSE orders[o]

(* fixed: orphans repaired. got: contracts each row in flight has after.   *)
(* A position inserted stamps its suggestion executed, from pending only.  *)
Swept(fixed, got) ==
  LET kept == InFlight \ Stale
      booked == fixed \cup {o \in kept : got[o] > orders[o].filled}
      opened == {o \in booked : Home(o, booked) = o /\ posn[o] = "none"}
  IN /\ orders' = [o \in Orders |->
           CASE o \in fixed -> [orders[o] EXCEPT !.link = Home(o, booked)]
             [] o \in Stale -> [orders[o] EXCEPT !.status = "cancelled",
                                                   !.stale = TRUE]
             [] o \in kept -> Simulated(o, got[o], Home(o, booked))
             [] OTHER -> orders[o]]
     /\ posn' = [o \in Orders |-> IF o \in opened THEN "open" ELSE posn[o]]
     /\ sugg' = [s \in Suggestions |->
           IF s \in {orders[o].sug : o \in opened} /\ s \in Pending
             THEN [sugg[s] EXCEPT !.status = "executed"] ELSE sugg[s]]

Opened == {o \in Orders : posn[o] = "none" /\ posn'[o] = "open"}

(* Some orphans may not be repaired. Some positions may get no cohort_id:  *)
(* _resolve_cohort_id_for_portfolio swallows a failed read, once for each. *)
Sweep ==
  /\ job.pc \in {"sweep", "repair"}
  /\ \E got \in [InFlight -> 0..Qty], fixed \in SUBSET Orphans :
       /\ \A o \in InFlight : got[o] >= orders[o].filled
       /\ Swept(fixed, got)
       /\ \E blank \in SUBSET Opened :
            /\ strays' = strays \cup blank
            /\ Strike({k \in {"repair", "cohort"} :
                         IF k = "repair" THEN fixed # Orphans
                                         ELSE blank # {}})
  /\ IF job.pc = "sweep" THEN Goes("poll") ELSE job' = IdleJob
  /\ UNCHANGED <<day, broker, bench, ops, outcomes, stopped, streak>>

PollDone ==
  /\ job.pc = "poll" /\ job.polls = {}
  /\ Goes("resolve")
  /\ UNCHANGED <<day, sugg, orders, broker, posn, strays, bench, ops,
                 outcomes, stopped, streak, troubles>>

(* Step 1.5: rows without a broker id are looked up by client order id.    *)
Lost ==
  {o \in Orders : /\ orders[o].status \in {"needs_manual_review", "submitted",
                                           "working"}
                  /\ ~orders[o].alp /\ orders[o].coid}

Resolved(o) ==
  IF broker[o].state # "none" THEN Submitted(o)
                              ELSE [orders[o] EXCEPT !.status = "cancelled"]

(* Then Step 2 sweeps once more if a fill has no position.                 *)
Resolve ==
  /\ job.pc = "resolve"
  /\ \E found \in SUBSET Lost :
       /\ IF found = Lost THEN Steady ELSE Fails("lookup")
       /\ orders' = [o \in Orders |-> IF o \in found THEN Resolved(o)
                                                    ELSE orders[o]]
  /\ IF Orphans # {} THEN Goes("repair") ELSE job' = IdleJob
  /\ UNCHANGED <<day, sugg, broker, posn, strays, bench, ops, outcomes,
                 stopped, streak>>

-----------------------------------------------------------------------------
(* The monitor's stop: the close goes out ...                              *)
MonitorStop(o) ==
  /\ Idle
  /\ posn[o] = "open"
  /\ posn' = [posn EXCEPT ![o] = "closing"]
  /\ stopped' = IF o \in strays THEN stopped ELSE stopped \cup {Of(o)}
  /\ job' = [IdleJob EXCEPT !.pc = "bench", !.order = o]
  /\ Steady
  /\ UNCHANGED <<day, sugg, orders, broker, strays, bench, ops, outcomes,
                 streak>>

(* write_cooldown: until the next session opens, unless one is active.     *)
Cooled(y) == IF Benched(y) THEN bench ELSE [bench EXCEPT ![y] = day]

(* ... and then the symbol is benched; a failed insert is only alerted.    *)
(* The row has the position's cohort_id: without one it benches nobody.    *)
Bench ==
  /\ job.pc = "bench"
  /\ \/ /\ bench' = IF job.order \in strays THEN bench
                     ELSE Cooled(Of(job.order))
        /\ Steady
     \/ Fails("bench") /\ UNCHANGED bench
  /\ job' = IdleJob
  /\ UNCHANGED <<day, sugg, orders, broker, posn, strays, ops, outcomes,
                 stopped, streak>>

(* A close fills and is booked, after a stop or any other exit.            *)
PositionCloses(o) ==
  /\ Idle
  /\ InBook(o)
  /\ CloseOnFill(o)
  /\ UNCHANGED <<day, sugg, orders, broker, strays, bench, ops, outcomes, job,
                 stopped, streak, troubles>>

-----------------------------------------------------------------------------
(* The learning ingest and the streak breaker.                             *)

Closed == {o \in Orders : posn[o] \in {"won", "lost"}}

(* Closed positions whose suggestion has no outcome yet.                   *)
Fresh ==
  {o \in Closed : \A i \in DOMAIN outcomes :
                    orders[outcomes[i]].sug # orders[o].sug}

(* paper_learning_ingest. (One without any closed trade changes nothing.)  *)
IngestStart ==
  /\ Idle
  /\ Closed # {}
  /\ job' = [IdleJob EXCEPT !.pc = "ingest"]
  /\ UNCHANGED <<day, sugg, orders, broker, posn, strays, bench, ops,
                 outcomes, stopped, streak, troubles>>

Ingest(o) ==
  /\ job.pc = "ingest"
  /\ o \in Fresh
  /\ outcomes' = Append(outcomes, o)
  /\ UNCHANGED <<day, sugg, orders, broker, posn, strays, bench, ops, job,
                 stopped, streak, troubles>>

(* The breaker is evaluated at its tail.                                   *)
IngestDone ==
  /\ job.pc = "ingest"
  /\ Fresh = {}
  /\ Goes("evaluate")
  /\ UNCHANGED <<day, sugg, orders, broker, posn, strays, bench, ops,
                 outcomes, stopped, streak, troubles>>

(* The ids of the last N outcomes, _window_fingerprint.                    *)
Window ==
  LET n == Len(outcomes)
  IN IF n < N THEN {} ELSE {outcomes[i] : i \in (n - N + 1)..n}

AllLosses == Window # {} /\ \A o \in Window : posn[o] = "lost"

(* Mutant: the window known by its length.                                 *)
FingerprintByCount(w) == 1..Cardinality(w)

Fingerprint(w) == w

(* A window that was stamped at an earlier trip does not pause again.      *)
Evaluate ==
  /\ job.pc = "evaluate"
  /\ Steady
  /\ IF AllLosses /\ ops.stamp # Fingerprint(Window)
       THEN Goes("trip") ELSE job' = IdleJob
  /\ streak' = IF AllLosses /\ streak.window # Window
                 THEN [window |-> Window, unseen |-> TRUE] ELSE streak
  /\ UNCHANGED <<day, sugg, orders, broker, posn, strays, bench, ops,
                 outcomes, stopped>>

(* An evaluation that raises pauses entries and stamps nothing.            *)
EvaluateFails ==
  /\ job.pc = "evaluate"
  /\ Fails("evaluate")
  /\ ops' = [ops EXCEPT !.paused = TRUE]
  /\ job' = IdleJob
  /\ UNCHANGED <<day, sugg, orders, broker, posn, strays, bench, outcomes,
                 stopped, streak>>

(* _pause_entries swallows a failed write ...                              *)
Trip ==
  /\ job.pc = "trip"
  /\ \/ ops' = [ops EXCEPT !.paused = TRUE] /\ Steady
     \/ Fails("pause") /\ UNCHANGED ops
  /\ Goes("mark")
  /\ UNCHANGED <<day, sugg, orders, broker, posn, strays, bench, outcomes,
                 stopped, streak>>

(* ... and the window is stamped after it.                                 *)
Mark ==
  /\ job.pc = "mark"
  /\ \/ ops' = [ops EXCEPT !.stamp = Fingerprint(Window)] /\ Steady
     \/ Fails("mark") /\ UNCHANGED ops
  /\ job' = IdleJob
  /\ UNCHANGED <<day, sugg, orders, broker, posn, strays, bench, outcomes,
                 stopped, streak>>

(* The operator lets entries go on after a look at the losses. (A pause of *)
(* theirs only keeps runs from starting.)                                  *)
OperatorResume ==
  /\ ops.paused
  /\ ops' = [ops EXCEPT !.paused = FALSE]
  /\ streak' = [streak EXCEPT !.unseen = FALSE]
  /\ UNCHANGED <<day, sugg, orders, broker, posn, strays, bench, outcomes,
                 job, stopped, troubles>>

-----------------------------------------------------------------------------
(* Suggestions, the clock, the broker, and jobs that die.                  *)

(* The scan's suggestion of today.                                         *)
Propose(s) ==
  /\ Idle
  /\ sugg[s].status = "absent"
  /\ sugg' = [sugg EXCEPT ![s] = [status |-> "pending", day |-> day]]
  /\ UNCHANGED <<day, orders, broker, posn, strays, bench, ops, outcomes, job,
                 stopped, streak, troubles>>

HasPosition(s) == \E o \in Orders : orders[o].sug = s /\ posn[o] # "none"

(* reconcile_stale_pending, the morning sweep.                             *)
SuggestionsClose ==
  /\ Idle
  /\ \E s \in Pending : sugg[s].day < day
  /\ sugg' = [s \in Suggestions |->
       IF s \in Pending /\ sugg[s].day < day
         THEN [sugg[s] EXCEPT !.status = IF HasPosition(s) THEN "executed"
                                                         ELSE "dismissed"]
         ELSE sugg[s]]
  /\ UNCHANGED <<day, orders, broker, posn, strays, bench, ops, outcomes, job,
                 stopped, streak, troubles>>

(* Entries are day orders: none outlives its session at the broker.        *)
NewDay ==
  /\ Idle
  /\ day < MaxDays
  /\ \A o \in Orders : broker[o].state # "live"
  /\ day' = day + 1
  /\ stopped' = {}
  /\ UNCHANGED <<sugg, orders, broker, posn, strays, bench, ops, outcomes,
                 job, streak, troubles>>

(* 90 seconds pass, or two hours.                                          *)
Older(o) ==
  /\ Idle
  /\ orders[o].status \in {"submitted", "working"}
  /\ orders[o].age # "old"
  /\ Set(o, [orders[o] EXCEPT !.age = IF @ = "fresh" THEN "idle" ELSE "old"])
  /\ UNCHANGED <<day, sugg, broker, posn, strays, bench, ops, outcomes, job,
                 stopped, streak, troubles>>

BrokerFills(o) ==
  /\ broker[o].state = "live"
  /\ broker' = [broker EXCEPT ![o] =
       [state |-> IF @.fill + 1 = Qty THEN "filled" ELSE "live",
        fill |-> @.fill + 1]]
  /\ UNCHANGED <<day, sugg, orders, posn, strays, bench, ops, outcomes, job,
                 stopped, streak, troubles>>

(* Cancelled by hand, expired or rejected.                                 *)
BrokerEnds(o) ==
  /\ broker[o].state = "live"
  /\ broker' = [broker EXCEPT ![o] = [@ EXCEPT !.state = "ended"]]
  /\ UNCHANGED <<day, sugg, orders, posn, strays, bench, ops, outcomes, job,
                 stopped, streak, troubles>>

(* The process dies: a job has no transaction around its statements.       *)
Crash ==
  /\ ~Idle
  /\ Fails(CASE job.pc \in {"poll", "cancel", "sweep", "resolve", "repair"}
                  -> "poll"
              [] job.pc = "bench" -> "bench"
              [] OTHER -> "crash")
  /\ job' = IdleJob
  /\ UNCHANGED <<day, sugg, orders, broker, posn, strays, bench, ops,
                 outcomes, stopped, streak>>

Autopilot ==
  \/ RunStart \/ Stamp \/ Submit \/ SubmitDuplicate \/ Ack \/ Review \/ RunDone
  \/ \E s \in Suggestions : PickSkip(s) \/ PickUnexecutable(s) \/ PickStage(s)

Sync ==
  \/ SyncStart \/ Refetch \/ RefetchFails \/ Sweep \/ PollDone \/ Resolve
  \/ \E o \in Orders : Poll(o) \/ PollFails(o) \/ Watchdog(o)

Breaker ==
  \/ IngestStart \/ IngestDone \/ Evaluate \/ EvaluateFails \/ Trip \/ Mark
  \/ \E o \in Orders : Ingest(o)

Around ==
  \/ Bench \/ OperatorResume \/ SuggestionsClose \/ NewDay
  \/ Crash
  \/ \E s \in Suggestions : Propose(s)
  \/ \E o \in Orders : \/ MonitorStop(o) \/ PositionCloses(o) \/ Older(o)
                       \/ BrokerFills(o) \/ BrokerEnds(o)

Next == Autopilot \/ Sync \/ Breaker \/ Around

Spec == Init /\ [][Next]_vars

-----------------------------------------------------------------------------
(* Properties.                                                             *)

Exposed(o) == broker[o].state = "live" \/ broker[o].fill > 0

(* A suggestion is never at the broker twice, not even after a response    *)
(* lost on the way, a failed write or a job that died in the middle of a   *)
(* submission or a poll: the dedup of                                      *)
(* get_already_executed_suggestion_ids_today and the statuses the sync     *)
(* leaves rows in keep it out. Excused: an order that the sweep wrote off  *)
(* as stale without cancelling it at the broker.                           *)
EnteredOnce ==
  \A o, p \in Orders :
    (o # p /\ Exposed(o) /\ Exposed(p) /\ orders[o].sug = orders[p].sug)
      => orders[o].stale \/ orders[p].stale

(* Whatever fails, and however often, a suggestion is staged again only    *)
(* over orders the sweep wrote off as stale and orders held for review: an *)
(* order at the broker whose row the sync or a dead job left in any other  *)
(* state keeps its suggestion out, though a run reads the dedup once, at   *)
(* its start, and stages long after.                                       *)
ReentryOverReview ==
  [][ \A p \in Orders :
        (orders[p].status = "absent" /\ orders'[p].status # "absent")
          => \A o \in Orders \ {p} :
               (Exposed(o) /\ orders[o].sug = orders'[p].sug)
                 => orders[o].stale
                      \/ orders[o].status = "needs_manual_review" ]_vars

(* A row the sync or the watchdog wrote off is over at the broker with     *)
(* nothing filled, so that what may be entered again is not there already: *)
(* through cancels that come too late, lost answers and dead jobs.         *)
(* Excused: the sweep's stale rows.                                        *)
CancelledIsOver ==
  \A o \in Orders :
    (orders[o].status \in {"cancelled", "watchdog_cancelled"}
       /\ ~orders[o].stale)
      => ~Exposed(o)

(* No order is staged for a symbol that the monitor stopped earlier in the *)
(* session, whichever of the two cooldown gates has to stand in for the    *)
(* other. Excused: a stop whose cooldown was not written, a stop of a      *)
(* position booked without its cohort_id, whose cooldown nobody matches,   *)
(* and a run that failed to read its cohort_id, whose gates match nothing. *)
StoppedStaysOut ==
  [][ \/ "bench" \in troubles
      \/ job.blind
      \/ \A o \in Orders :
           (orders[o].status = "absent" /\ orders'[o].status # "absent")
             => Symbol[orders'[o].sug] \notin stopped ]_vars

(* Once the breaker has evaluated a window of losses, no run of the        *)
(* autopilot gets past its gates until the operator has let entries go on: *)
(* a standing window may be suppressed, a new one never. Excused: the      *)
(* pause could not be written or read, or the ingest died before it.       *)
NoTradeThroughStreak ==
  [][ \/ troubles' \cap {"pause", "read", "crash"} # {}
      \/ ~streak.unseen
      \/ ~(Idle /\ job'.pc = "pick") ]_vars
=============================================================================
