# A TLA+ verification of the Options Trading Companion

The program trades option positions for one operator: a scheduler starts jobs,
jobs scan the market, open positions, watch them and close them, through a
broker (Alpaca) or against a simulated book, and everything is kept in Postgres
(Supabase). This project models the parts where processes meet over shared rows
and an unreliable broker, checks them with TLC on small instances and proves the
central facts with TLAPS for every size.

Paths below are relative to `src/packages/quantum/` unless they start with
`src/`.

## 1. Inventory

| Component | State | Operations | Hard part | What makes it correct |
|---|---|---|---|---|
| Job runs (`jobs/`, `scheduler.py`, `public_tasks.py`, `src/supabase/migrations/20251220000001_job_runs_db_queue.sql`) | `job_runs` rows, two RQ queues in Redis, pause flag | enqueue, take, mark running, file a result, retry scan, dead-letter scan, administrator retry | messages are not deduplicated; every update is by id; decisions are made on snapshots | a filed result stands; a cancelled run never executes; a queued run settles; failures are retried or dead-lettered |
| Live close (`services/paper_exit_evaluator.py`, `brokers/alpaca_order_handler.py`, `brokers/alpaca_client.py`) | close-order rows, broker orders, the position row | idempotency check, stage, pre-cancel, submit with retries, mark for review | lost answers, duplicate submissions, two callers, crashes | never booked closed while contracts are held; no order forgotten; failed closes re-arm |
| Order sync (`jobs/handlers/alpaca_order_sync.py`, `services/close_helper.py`, `services/close_math.py`) | the same rows | poll, idle watchdog, lost-submit reconcile, stuck-position repair | runs overlap, stale reads are written by id, one write of two fails | each fill is booked once, in the end |
| Resting profit exit (`services/gtc_profit_exit.py`) | one long-lived order per position | place, supersede | competes with closes for the contracts | as above |
| Simulated-fill sweep (`paper_endpoints.py`) | order and position rows | stale cancel, simulated fill, rollback | selects by status alone, so it meets live rows | never touches what the broker owns |
| Entries and autopilot (`services/paper_autopilot_service.py`, `jobs/handlers/paper_auto_execute.py`, `brokers/execution_router.py`) | suggestion rows, entry orders, positions | gates, dedup, stage, submit, poll, repair orphans | a second run of the day after a lost answer, a cancel that comes too late or a crash | a suggestion is at the broker once; what is written off is over |
| Simulated book: sweep, manual close, internal close RPC, cash, ledger (`paper_endpoints.py`, `services/paper_ledger_service.py`, `src/supabase/migrations/20260720120000_*.sql`) | orders, positions, cash balance, ledger | fill, merge, close, repair, rollback | five writes per fill without a transaction; runs overlap | the records agree; a close is paid once; a filled order has a position |
| Progression (`services/progression_service.py`) | phase, green-day counter | evaluate a day, promote, demote | evaluated twice or not at all on a day | no promotion without its gate |
| Policy lab and champion (`policy_lab/`) | cohorts, promotions | fork, score, promote | routing changes while positions are open | a position keeps its route |
| Single-leg experiment (`services/single_leg_shadow_*.py`, `src/supabase/migrations/202607*_single_leg_*.sql`) | epoch, bindings, runs, attempts, orders, positions, balances, cash events | set up, approve, enable, pause, scan, open, settle | RPCs under row locks outlive their clients; two deliveries of one job; a pause in the middle | money adds up; a candidate is opened once; a pause stops it |
| Shadow fleet (`services/shadow_fleet_*.py`, receipts) | fleet, accounts, receipts, decisions | provision, activate, evaluate | receipts checked against rows that change | no decision while inactive |
| Risk gates (`services/reentry_cooldown.py`, `risk/streak_breaker.py`, `risk/utilization_gate.py`, `risk/staleness_gate.py`) | cooldown rows, `entries_paused`, the breaker's stamp | write at stop, check at entry, evaluate, trip, resume | one gate fails open, the other closed; the operator resumes between two steps | a stopped symbol stays out for the session; a losing window stops entries until someone looked |
| Task signing (`security/task_signing_v4.py`) | nonce table | verify, consume | two requests with one nonce | a nonce is used once |
| Circuit breaker (`services/provider_guardrails.py`) | breaker state per provider | call, open, half-open | threads share it | recovers |
| Scanner, ranking, sizing, marks, learning, optimiser, backtests | tables of numbers | batch computations | floating point | outside a model checker's reach |
| Observability, web application, read endpoints | alert rows, views | reads and notifications | none | nothing here decides |

How they interact: the scheduler and the task endpoints insert a `job_runs` row
and push its id to Redis; a worker of the `otc` queue runs the handler. Exit
evaluation and the intraday risk monitor are handlers that call
`_close_position`; the order sync is another handler on the same queue. They
share `paper_orders` and `paper_positions` rows and the broker account, and no
lock. The sweep runs inside other handlers when an entry of the user fills.
The autopilot, the order sync, the monitor, the learning ingest and the morning
sweep of suggestions are jobs of the same serial worker. The single-leg scan is
a child job on the background queue; its settlement is a part of the
mark-to-market job.

`PROJECT.json` lists every component with its status, and the hazards, each at
its line.

## 2. Modules

| Module | What it is |
|---|---|
| `JobRuns` | the job system |
| `JobRunsProofs` | its theorems |
| `PositionTruth` | what closing a live position promises |
| `LiveClose` | the close path, the order sync, the resting limit and the sweep, on one position |
| `LiveCloseProofs` | its theorems |
| `LiveReachProofs` | one more theorem about it, on what the next sync run can still reach |
| `PaperBook` | a simulated book: fills, closes, repairs, cash and ledger, one step per statement |
| `PaperBookProofs` | its theorems |
| `LiveEntry` | live entries of a cohort with the gates and jobs around them |
| `LiveEntryProofs` | its theorems |
| `EntryOnceProofs` | how often a suggestion can be entered |
| `SingleLeg` | the single-leg experiment, its RPCs as transactions with row locks |
| `ShadowBook` | what the experiment's RPCs promise of its books |
| `SingleLegProofs` | the theorems of `SingleLeg` |
| `SumLemmas` | sums over finite sets, for the two proofs about money |
| `MCJobRuns`, `MCLiveClose`, `MCPaperBook`, `MCLiveEntry`, `MCSingleLeg` | instances for TLC |

`LiveClose`, `LiveEntry` and `PaperBook` look at the same tables from three sides:
a live position's closes, a live suggestion's entries, and a book where nothing
goes to the broker. Each keeps the steps of the others that reach into its part
(the sweep in `LiveClose` and `LiveEntry`, a close of a position in `LiveEntry`) at the
grain its properties need.

### JobRuns

A job is one `(job_name, idempotency_key)` pair, the unique key of the table.
One step is one statement sent to Postgres or one command to Redis, so what an
actor read may be stale when it writes.

| State | Code |
|---|---|
| `rows[j]` | the `job_runs` row: status, attempt, and whether `run_after` and `finished_at` let the scans select it |
| `rq[q][j]` | messages with the row's id on queue `q`; `enqueue_idempotent` adds one whatever is there |
| `caller[c]` | a call of `enqueue_job_run` between its gate, its insert and its push |
| `runner[r]` | a work-horse in `run_job_run`: the row it loaded, the attempt it saw, the exception raised |
| `poller[p]` | `jobs/worker.py`, which claims rows with `claim_job_run` |
| `sched` | `_retry_failed_jobs`: the batch it selected and the attempts it saw |
| `admin` | `retry_job_run`, between reading, writing and pushing |
| `paused` | the pause flag of `ops_control` |

Actions are named after the actor and the statement: `CallerGate`,
`CallerCreate`, `CallerPush`, `RunnerTake`, `RunnerMark`, `RunnerReturns`,
`RunnerExcept`, `SchedScan`, `SchedRequeue`, `AdminWrite` and so on. A crash is an
action of its own (`RunnerCrash`, `PollerCrash`, `CallerFails`, `AdminFails`).
Time is two actions: `BackoffElapses` and `WindowCloses` (the scan's look-back).

### LiveClose

One long position of `Qty` contracts, the close orders staged for it and, if
`Gtc` names one, a resting profit limit placed when the entry filled.

| State | Code |
|---|---|
| `rows[o]` | the `paper_orders` row; `resp` is the filled quantity inside the stored `broker_response`, which Step 3 reads back |
| `broker[o]` | the broker's order under the row's client order id |
| `held` | contracts the broker still holds |
| `pos` | status and quantity of the `paper_positions` row |
| `closer[c]` | a run of `_close_position` and `submit_and_track` |
| `sync[s]` | a run of `alpaca_order_sync`: phase, rows left, the row in hand and what the broker said of it |
| `sweep` | `_process_orders_for_user`: rows left and the rows as selected |

| Actions | Code |
|---|---|
| `CloseStart`, `CloseQuery`, `CloseSkip`, `CloseStage` | `_close_position`, `filter_blocking_close_orders`, `_stage_order_internal` |
| `ClosePreCancel`, `Submit*`, `CloseAck`, `CloseReview` | `submit_and_track`: pre-cancel of held contracts, then the attempt loop with its reject, mismatch and duplicate-id branches |
| `PollFetch`, `Watchdog`, `Refetch`, `PollWrite`, `PollCommit`, `PollError` | `poll_pending_orders` |
| `StartLost`, `LostLookup`, `LostResolve`, `LostError` | Step 1.5 |
| `StartStuck`, `StuckClose` | Step 3 |
| `Sweep*` | `_process_orders_for_user` and `_commit_fill`, as they meet live close orders |
| `BrokerFill`, `BrokerEnd`, `Accepts` | the broker, external |
| `Age` | the 30-minute and 4-hour windows of the re-arm guard |

The broker accepts a close only while no other open order holds the contracts
and enough are left, keeps client order ids unique, and fills or ends an order
at any time; that is what `submit_and_track` and its comments take for granted
(`held_for_orders`, the intent mismatch, the duplicate id).
`DuplicateIdFirst` says which of two errors it reports when both apply: the
safety runs allow either, the liveness runs assume the duplicate id, on which
recovery of a lost answer depends once the order has filled.

What is merged or left out: the read of the position and its conditional update
in the commit are one step (the update repeats the guard); cash, ledger,
attribution and alert rows; the `limit(10)` of the idempotency query (three orders
at most here); a request that reaches the broker after the
step in which the client gave it up; the statuses a row takes when the broker
call itself is misconfigured.

### PositionTruth

Two variables, what the broker holds and what the database says. The position
is booked closed once, after the last contract is sold, and never reopens.
`LiveClose` implements it with `booked <- pos.status`.

### PaperBook

One portfolio routed `shadow_only`. `run[r]` is a run of
`_process_orders_for_user`, started by a worker or by an HTTP request
(`/paper/order/process`, `/paper/execute`, `/paper/close`), so two may overlap; `closer[c]`
is the exit evaluator's internal close, which ends in one RPC.

| Actions | Code |
|---|---|
| `RunStart`, `RunStageEntry`, `RunReadPosition`, `RunStageClose` | the ways a run begins |
| `RunReadCash`, `RunSelect`, `RunSelectOrphans` | its three reads |
| `Repair*` | `_repair_filled_order_commit` |
| `StaleCancel`, `NoFill`, `Fill` | the loop over working orders and the simulated fill |
| `Commit*`, `PositionFails`, `Rollback` | `_commit_fill`: order, cash, ledger, position, link, status |
| `CloserRead`, `CloserCheck`, `CloserStage`, `CloserCommit`, `CloserRejected` | `_close_position`'s internal branch and `rpc_commit_internal_close_v1` |

Every contract costs 1 and nothing is charged for trading, so that cash plus
contracts is constant. A crash (`RunCrash`, `CloserCrash`), a failed statement and
a run begun while another is under way are bounded together by `MaxTroubles`.

### LiveEntry

Everything here is a job of the one `otc` worker (`src/docs/history.md` and the
audit of 2026-06-10 say why there is one), so `job` is a single record: which job
is under way and its locals. It interleaves with the broker, the operator, the
clock and its own death. `Propose` inserts a suggestion; the autopilot
(`RunStart` to `RunDone`) reads the gates, filters, stages, stamps a client order id,
submits with retries and records the answer; the sync (`SyncStart` to `Resolve`)
polls, cancels what idles, refetches, sweeps and reconciles lost submissions;
`MonitorStop` and `Bench` are the monitor's stop and its cooldown; `IngestStart` to
`Mark` are the learning ingest and the breaker; `OperatorResume` lets entries go on;
`SuggestionsClose` and `NewDay` end the day. Closing a position is one step here.
The cooldown keys on a `cohort_id`, and two reads of it swallow their failures: the
autopilot's, once per run (`resolve_cohort_id`; the run is then `blind`, and both gates
match nothing), and the one at booking (`_resolve_cohort_id_for_portfolio`; the position is
one of `strays`, and its stop benches nobody).

### SingleLeg

The RPCs are transactions: one step for each row lock they may wait for, nothing
visible before the commit, and they go on when the client that called them gave
up or died. Who holds a lock follows from the transactions' states (`RunFree`,
`PortfolioFree`, `PositionFree`), so no lock is a variable that could be forgotten.

| Actions | Code |
|---|---|
| `Setup`, `Approve`, `EnableStart`, `PauseStart`, `CtlLock`, `CtlCommit` | the control RPCs and the trigger that locks each bound portfolio |
| `Enqueue`, `ScanStart` to `FinishRun` | the child job and `run_single_leg_shadow_scan` |
| `ExecuteStart` to `PersistFails` | `execute_run_candidates` and the handler's summary |
| `OpenCheck`, `OpenCash`, `OpenCommit` | `rpc_open_single_leg_shadow_position_v1` |
| `SettleStart` to `SettleLost`, `CloseCheck`, `CloseCash`, `CloseCommit` | `settle_expired_positions` and `rpc_close_single_leg_shadow_position_v1` |

A run row belongs to a source decision and a policy (`Decision`, `Policy`; the unique
key of `single_leg_shadow_runs`), a candidate to a run, and all runs of a policy share its
portfolio (`Arm`). So the lock on the run row orders the opens of one decision, and those of
two decisions meet only at the portfolio's. `tape` holds the ask of each candidate on its
decision's tape, 0 when the client would not use its quote; a scan that cannot load the tape
to execute it (`dark`) rejects the candidates one by one. Candidates are recorded and executed in one order (`First`): the
selector is deterministic and the rows come back as they were written. The
database's snapshot rules are simplified in one place: the check of the epoch
and the binding is one step with the lock on the run row.

### ShadowBook

The experiment without scans, clients, attempts and locks: each candidate is bought
at most once and settled at most once, in one step against the balance of that
moment, and after a pause one order of each run gets through. `SingleLeg`
implements it with the same variables (`RPCsAreAtomic`); its steps that take a lock
or read a row are stuttering.

## 3. Runs

| Run | Instance | Shows |
|---|---|---|
| `jobs_races` | one job, two callers, both workers, a poller, scan, administrator, one fault | `TypeOK`, `CancelledInert`, `QueuedIsCarried` |
| `jobs_one_worker` | one job of the otc queue, one worker, five messages, a retry, a fault | `RetryableHasBudget`, `ResultStands` |
| `jobs_liveness` | a job of each queue, one of them without a handler, no faults | `QueuedRunSettles`, `ExhaustedIsResolved` |
| `live_races` | two closers, two overlapping syncs, resting limit and two closes, two contracts, a fault | `TypeOK`, `FillsAreSold`, `NothingForgotten`, `WithinReach`, `BookFollowsBroker` |
| `live_sweep_single` | one contract, resting limit, one close, a sweep, a fault, a crash | `ClosedIsFlat` |
| `live_liveness` | one worker, three faults, three submission attempts | `FillIsBooked`, `ExitsRearm` |
| `live_sweep` | two contracts and the sweep | violates `ClosedIsFlat` |
| `book_races` | an entry of two contracts, a close by hand, two internal closes, two runs and two evaluators, one overlap, failed statement or crash | `TypeOK`, `BooksAgree`, `PaidOnce`, `FilledIsLinked` |
| `book_scale_in` | two entries of one strategy, nothing fails | violates `RepairMeansFailure` |
| `entry_races` | two suggestions on one symbol, two days, one failure or crash | `TypeOK`, `EnteredOnce`, `CancelledIsOver`, `ReentryOverReview`, `StoppedStaysOut`, `NoTradeThroughStreak` |
| `entry_dedup` | one suggestion, two contracts, nothing fails | violates `EnteredOnce` |
| `single_leg` | two decisions of one portfolio, three candidates in their two runs and two tapes, two scans, two settlements, the operator, one failure, lost answer or crash | `TypeOK`, `CashIsEvents`, `NetLiqIsWorth`, `ReplayGetsReceipt`, `PauseStops`, `CandidatesResolved`, `RPCsAreAtomic` |

Why the bounds are enough. Two contracts are the least with a partial fill, and
three orders (one resting, two staged) the least with a double close next to
the resting limit. A row is touched by at most two runs at a time because two
workers is the most the otc queue is planned for (one is deployed); two syncs
on two workers give every overlap of a stale read with a write. `MaxSubmit = 2`
reaches first attempt, retry and giving up; the liveness run uses the
deployed 3. A fault is one lost request, lost answer or failed statement, so one
or two of them give every single and double failure of a close. For the jobs,
five duplicate messages exceed the attempts that the guards tell apart.
In the book, an entry of two contracts gives the partial fill, three position
ids one more than the orders that can open one, and `MaxTroubles = 1` every single
overlap, failure or crash. In the entries, one contract keeps the run small and
the partial fill is what `entry_dedup` adds; two orders and two days are
the least with a second entry, a re-entry and a cooldown that ends; a breaker that
counts one loss (`N = 1`) reaches two windows in them. The kinds of failure are
counted, each once. In the experiment the capital is 2; each tape quotes two of the
three candidates, one of each run and affordable together, or two of one run of which
either leaves too little for the other until it settles, and the third is rejected; two
scans, of one decision or of both, and a call given up by its client give
three transactions that want one lock. `PauseStops` says 1 for each run because the
transaction past its check holds the run row: more candidates or scans of the run wait
for it and then meet the check. Two runs of a portfolio have two rows, so two orders of
it can land, and do in this run.

Deadlock is switched off in the `live_*`, `book_*` and `entry_*` runs: with the position
closed and the orders ended, no ids or days left and no more faults allowed,
every run may be idle for good.

Fairness. A started run goes on (`WF` of a step): RQ does not preempt a job, and a
statement that fails is a step too. The order sync starts again and again
(`SF`): the scheduler enqueues it every few minutes and the queue is first in,
first out, so a sync waiting behind closes gets the worker. Time passes (`WF` of
`Age`). Nothing is assumed of the broker: it need never fill or end an order.
For the jobs, workers and scans go on, a call or a retry that has begun finishes,
and backoffs elapse; new calls, new retries and faults are not fair. No fairness is given to staging a close.
For the book, a run or an internal close that has begun goes on, and sweeps
start again and again (in internal_paper mode every run of the autopilot begins
with one); staging and time are not fair.

## 4. What is proved

TLAPS checks the proofs for any number of jobs, orders, positions, candidates,
runs, workers, contracts, failures and crashes. The assumptions on the constants are the ones each
module declares, and TLC evaluates them on every run (`JobsAssumption`,
`BoundsAssumption`, `LiveAssumption`, `BookAssumption`, `EntryAssumption`,
`ExperimentAssumption`). Ten theorems assume more, and say so in their
statements:

- `Deployed`: no polling worker and one work-horse on the otc queue. That is how
  the system is deployed; with a second one, two work-horses judge the same row
  on different snapshots.
- `RetryBelow + 1 < MaxAttempts`: 2 and 5 in the code.
- `~Sweeping`: the simulated-fill sweep does not meet the position's live orders.
- `Qty = 1` (`SingleClosedFlat`): the position is one contract; then the sweep may run.
  With two, `ClosedIsFlat` is false (`live_sweep`).
- `[]ReviewedIsOut` (`OnceButForReview`), a hypothesis on the behaviour: no order at the
  broker is held for review. It fails in `entry_dedup`, and that is the only way in.
- `SingleFailure` (`Once`): one contract, at least two submission attempts and at most one
  kind of failure. `ReviewedIsOut` is then proved.
- `OneEntryEach`: finitely many rows, and no two entries of one strategy. Without
  the last, `BooksAgree` is false: a second entry into an open position is added
  to it, not linked, and added again by the next run (`book_scale_in`).

| Theorem | Statement |
|---|---|
| `JobRunsProofs!TypeCorrect` | `Spec => []TypeOK` |
| `JobRunsProofs!CancelledStaysInert` | `Spec => []CancelledInert` |
| `JobRunsProofs!QueuedCarried` | `Spec => []QueuedIsCarried` |
| `JobRunsProofs!RetryableKeepsBudget` | `Deployed` and `RetryBelow + 1 < MaxAttempts` imply `Spec => []RetryableHasBudget` |
| `JobRunsProofs!ResultsStand` | `Deployed` implies `Spec => ResultStands` |
| `LiveCloseProofs!TypeCorrect` | `Spec => []TypeOK` |
| `LiveCloseProofs!FillsSold` | `Spec => []FillsAreSold` |
| `LiveCloseProofs!ClosedFlat` | `~Sweeping` implies `Spec => []ClosedIsFlat` |
| `LiveCloseProofs!SingleClosedFlat` | `Qty = 1` implies `Spec => []ClosedIsFlat`, the sweep running |
| `LiveCloseProofs!Refinement` | `~Sweeping` implies `Spec => BookFollowsBroker` |
| `LiveCloseProofs!NothingIsForgotten` | `~Sweeping` implies `Spec => []NothingForgotten` |
| `LiveReachProofs!InReach` | `~Sweeping` implies `Spec => []WithinReach` |
| `PaperBookProofs!TypeCorrect` | `Spec => []TypeOK` |
| `PaperBookProofs!PositionPaidOnce` | `Spec => []PaidOnce` |
| `PaperBookProofs!BooksAgreed` | `OneEntryEach` implies `Spec => []BooksAgree` |
| `LiveEntryProofs!TypeCorrect` | `Spec => []TypeOK` |
| `LiveEntryProofs!WrittenOffIsOver` | `Spec => []CancelledIsOver` |
| `LiveEntryProofs!StoppedOut` | `Spec => StoppedStaysOut` |
| `LiveEntryProofs!StreakStops` | `Spec => NoTradeThroughStreak` |
| `EntryOnceProofs!NoReentry` | `Spec => ReentryOverReview` |
| `EntryOnceProofs!OnceButForReview` | `Spec /\ []ReviewedIsOut => []EnteredOnce` |
| `EntryOnceProofs!Once` | `SingleFailure` implies `Spec => []EnteredOnce` |
| `SingleLegProofs!TypeCorrect` | `Spec => []TypeOK` |
| `SingleLegProofs!CashAccounted` | `Spec => []CashIsEvents` |
| `SingleLegProofs!NetLiqFollows` | `Spec => []NetLiqIsWorth` |
| `SingleLegProofs!ReplayAnswered` | `Spec => []ReplayGetsReceipt` |
| `SingleLegProofs!PauseHolds` | `Spec => []PauseStops` |
| `SingleLegProofs!Resolved` | `Spec => []CandidatesResolved` |
| `SingleLegProofs!Refinement` | `Spec => RPCsAreAtomic` |

Few of these invariants are inductive by themselves. What each needs:

**Jobs.** `CancelledInert` speaks of a row that exists, but the first row of a key
may be the cancelled one, so a key without a row must be untouched too, and no
retry endpoint may have read it: `Dormant`. It may well be that an administrator
is about to requeue a cancelled row; that is allowed. For the budget, a work-horse
files `failed_retryable` on the attempt number it loaded, which others
rewrite meanwhile. `Snapshot` says how far the row can be from it: until the row is marked,
the number leaves the snapshot only for one that the scan or the administrator
wrote, at most `RetryBelow` (`ScanFresh`); marking adds one. So a row
judged to have attempts left has at most `RetryBelow + 1` or one more than the
snapshot, both below `MaxAttempts`. `Served` (only the otc work-horse holds an otc
job) and `Settled` (it holds none whose result is filed) give `ResultStands`: a stale
message finds a terminal row and is dropped. `QueuedIsCarried` is about one row and
its messages (`Fresh`, `Carried`) and is inductive as it stands, for any deployment:
whoever queues a row for the first time is about to push its message, whoever takes
the message finds the row queued and goes on to mark it. Its excuses are stable, since
faults are only counted down (`FaultsStep`) and the retry scan's requeue, which pushes
nothing, leaves a positive attempt number.

**Live closes.** `ClosedIsFlat` is not inductive: a commit
closes the position on a quantity read long ago, by another run, or stored in a
row. What makes that harmless is `FillsAreSold`: whatever is stored as a fill,
in the broker's order, in a row's stored response or in the hands of a sync, is
at most what was sold, `fill + held <= Qty`. Runs only copy fills (lemma
`StepCopies`), the broker's fills only grow with what it sells, and `held` only
shrinks (`HeldShrinks`), so a stale copy stays below. A commit closes the
position when the copy equals the position's quantity, and that is the only way
the position changes without the sweep (`StepBooks`). So an open position keeps
its whole quantity (`Whole`, the strengthening), a copy that equals it is `Qty`, and
then `held = 0` (`StepCloses`). The refinement follows because every step either
sells, books at zero, or leaves both variables alone. With the sweep, the
position's quantity is lowered by simulated fills and `Whole` fails; that is
the behaviour `live_sweep` exhibits, and the reason for the assumption.
`FillsAreSold` holds with the sweep too: it never writes a stored response.
For one contract the position survives the sweep (`Units`): a simulated fill takes all of a
row or none of it, taking all of the position is refused, so the open position keeps its one
contract (`Uncut`, the half of `Whole` that does not mention the sweep) and the argument above
goes through.

`NothingForgotten` needs to know that a row is never filed as cancelled on a stale
answer while its order can still be submitted. A run of `_close_position` has its
order to itself until it has filed the row (`Exclusive`), so an order some sync looks
at is not submitted any more, and what the sync saw, unless the order was open,
is what the broker has (`Watched`); the broker takes no fill back (`Fills`).

`WithinReach` is what a sync run starting now could select, so the row must tell enough of
its order (`Traces`). A row marked filled has a filled order and the whole
quantity stored, which Step 3 will believe; a partial row has the broker's id, which
the poll selects by; a staged row whose order got through is in the hands of the
run that submits it, unless a crash took that run (`Tended`). Polls ask only for rows with
an id (`Linked`), and a close is staged for the whole position (`Sized`), which
is where `Whole` enters again.

**The book.** Type correctness already needs `Fits`: a run commits only rows its
queries returned, with the link they had, an evaluator's order carries the
position it checked, and no two evaluators share an order. With that, `PaidOnce`
follows from the RPC's own checks: only it writes the marker, it requires an open
position and closes it, and nothing reopens a closed one.

`BooksAgree` speaks of moments when no run is under way, so its invariant has to
follow a commit through its five writes. `BooksHold` says, for each stage, by which
amount the three sums differ: after the order update the fill is `Pending` in the
contracts, after the cash update in the ledger too, until the ledger row and then
the position are written. Whether a
stage then adds exactly the pending amount depends on what the run read being
still so (`RunHolds`: the balance, the snapshot of the row, the position's
quantity), which holds because no other run or evaluator is under way (`Alone`), and on
`Linked`: the position of a strategy belongs to its one entry, which is linked to it
or about to be, so `find` sees no position for an entry and nothing is ever an
orphan. `Tidy` keeps the rows not yet used at zero. For the evaluator, `CloserHolds` says
the position is as it was read, so that the RPC credits what it removes.
All this is `Serial`: while `troubles = 0`. The first overlap, failure or crash
ends it, and the section below lists what can then go wrong. The steps are proved
on the part of the state that one run sees (`View`, `Only`), and carried back to all runs by
`CalmOf`.

**Entries.** `Fits` adds to the types what a job holds at each stage: the row in the
autopilot's hands is still staged, a polled row exists, an order the broker has
not taken has no fill. `CancelledIsOver` is then inductive: a row is written off only on what
the broker says in that step, after a cancel on what it says when asked again, and
an order that is over stays over. `StopsHold`: a symbol stopped
today has a cooldown or the monitor is about to write it, and only the new
session ends one; so a run that knows its `cohort_id` finds it at the stage gate.
The excuses are where the code looks for nobody: `blind` runs, and stops of `strays`. `WindowsHold` ties the breaker's stamp to the window it judged:
outcomes are counted once, so a stamped window that is still the window
has been seen before. `StreakHolds`: an unseen losing window keeps
entries paused from the trip on.

How often a suggestion is entered (`EntryOnceProofs`) turns on a dedup that is read once,
at the start of a run, and used much later. `Wanting` says that what it answered still
holds: the candidates left have no row that counts, because nothing but the
autopilot stages, and the one row in its hands belongs to a suggestion already
taken from the list. With `CancelledIsOver`, an earlier row that does not count is over, was
written off as stale, or is held for review; this is `ReentryOverReview`, for any
number of failures. If the orders held for review are out (`ReviewedIsOut`), two rows of one
suggestion can never both get to the broker (`OneEntry`: one of them is `Spent`).
`ReviewedIsOut` follows for one contract and a single failure from `GaveUp`: an attempt
that gets no answer is the one failure and not the last attempt, and the next one
finds the order by its duplicate id; so a run gives up only on an order that the
broker does not have, and an order of one contract does not end partly filled.

**The experiment.** `Inv` collects the row locks as facts, since the locks are derived
from the transactions' states: one transaction per run row (`RunLock`), per position
(`PositionLock`) and per portfolio, opens of two decisions and the operator's
included (`PortfolioLock`). From
them: the balance a transaction read under its lock is the balance when it
commits (`FreshBalance`), which gives `CashIsEvents` and `NetLiqIsWorth`; a
transaction past its check found no order and there is none (`FirstOrder`), so the
insert meets no unique key; once the one order of a run past its check has landed
after a pause, no other of the run is past it (`PauseDrains`). For `CandidatesResolved`, a candidate
without an outcome is in the hands of some scan (`Owed`), in whatever order the
scans take runs and candidates. `ScanShape`, `Funded` and `Positions` are what
these need to know of scans, amounts and positions. The refinement to `ShadowBook`
uses the same locks: the commit of an RPC is the one abstract step, with the balance
it read still the balance and `FirstOrder` and `PauseDrains` giving the guards of `Open`.

**Sums.** `SumLemmas` proves what the two money proofs use of finite sums: a sum
with one term added, removed or changed, and of equal or zero terms. The sum is
the community modules' fold. The library's induction theorems
take an operator, which the provers cannot instantiate, so each lemma is proved by
a minimal set on which it fails: the finite subsets that fail have one of least
cardinality, and removing an element gives a smaller one.

Only model-checked, and why:

- `QueuedRunSettles`, `ExhaustedIsResolved`, `FillIsBooked`, `ExitsRearm`,
  `FilledIsLinked`: liveness under fairness, outside this prover. The safety part of the first,
  that the row's message is not lost, is `QueuedIsCarried`, and that of `FillIsBooked`, that
  some query of the next sync selects the order, is `WithinReach`; both are proved.

Proved only under a condition, because it is false without: `EnteredOnce` (two
contracts, `entry_dedup`, or two failures leave an order at the broker held for review,
which the dedup does not count) and `ClosedIsFlat` with the sweep (two contracts,
`live_sweep`).

## 5. What disagrees with the repository's own words

Three runs that TLC refutes; `PROJECT.json` quotes the lines.

- `live_sweep`: the sweep gives a simulated fill to a partly filled live close;
  Step 3 then closes the position while the broker holds contracts. It takes a
  multi-leg order, whose stored leg quantities are compared with the position's
  quantity; for one leg the parent quantity check refuses.
- `book_scale_in`: a second entry into an open strategy is added to the position
  and not linked, so the next run takes it for an orphan and adds it again.
- `entry_dedup`: an entry filled in part and then cancelled is
  `needs_manual_review`, which the dedup does not count; a second run of the day
  enters the suggestion again.

Seen while modelling, reachable in the modules, without a run of their own:

- Jobs. The retry scan selects on `finished_at` (`scheduler.py:338`), which the
  requeue function does not set: a first failure is never retried. The
  retry endpoint sends background jobs to the other queue and `mark_running` does
  not test the status (`jobs/job_runs.py:118`), so a run filed as partial runs
  again. `jobs/runner.py` catches its own `PermanentJobError` while handlers raise
  the class of `jobs/handlers/exceptions.py`, so a permanent failure is filed as
  retryable.
- Live closes. A crash between staging and submission leaves a row that Step
  1.5 does not select and that blocks later closes. Step 3 repairs closes of two
  source engines only (`alpaca_order_sync.py:408`); a filled resting limit whose
  booking failed stays open in the database. The sweep marks a working live row
  older than two hours cancelled without cancelling it at the broker; in
  `LiveEntry` such rows carry `stale` and the properties excuse them.
- Entries. The sweep that one entry's fill starts may simulate the fill of another
  entry still working at the broker and link a position to it; polled later in
  the same pass, the row goes back to working with a `position_id`, and its real
  fill then closes the position as if it were a close. An entry that ended
  partly filled never becomes a position. Two suggestions on one symbol in one run
  both pass the check for held symbols. A booking after the morning sweep leaves
  its suggestion dismissed.
- Gates. The breaker stamps its window even when the pause could not be
  written, so the next evaluation suppresses it; an un-pause between the trip's
  read and its stamp counts as a review of a window nobody was paged for. Only the
  monitor's stops write a cooldown; the scheduled evaluator's do not. A dead
  monitor leaves a stop without one. `resolve_cohort_id` turns a failed read into `None`
  (`reentry_cooldown.py:296-318`) and is called once per run
  (`paper_autopilot_service.py:941`): both gates then filter on a cohort that no row has,
  and one failed read lets a stopped symbol in although its cooldown was written. Its
  docstring calls that "safe degradation", the stage gate's comment says "FAIL-CLOSED". The
  same failure at booking (`paper_endpoints.py:2194`) gives a position whose stop writes a
  cooldown that nobody matches. `StoppedStaysOut` excuses both.
- The book. Cash is written from a balance read at the start of a run, so
  an overlapping run or RPC is overwritten. A crash between the order and the
  cash update is never debited: the repair takes cash for done. A unique-index
  rollback leaves cash and ledger debited. `/paper/close` twice leaves a negative
  quantity on a closed row. A sweep that fills a staged internal close credits
  cash before the RPC is refused.
- The experiment. The open RPC checks epoch and binding without locking them: an
  order past its check lands after the pause has committed. `PauseStops` bounds
  it to one per run row; a portfolio with two source decisions under way may see
  two. Pausing before approval leaves the epoch un-approvable for good, and
  disabled, paused, enabled skips the trigger's first-enable check of the balance. An open whose answer was lost is
  recorded as a rejection next to its order. A retry whose selector raises
  marks the shared run failed, and the other scan's opens are then refused.

## 6. Not modelled

The parts with status `not_modelled` in `PROJECT.json`, with the reason of each. Most of the
repository is numeric: the scanner and the orchestrator (ten thousand lines
from quotes to suggestion rows), the market data layer, validation statistics,
backtests, the optimiser and the learning jobs compute on real
numbers in one process; a model of them would either restate the arithmetic or
leave out what they do. Of these only the rows they share with others are
modelled: the status of a suggestion, the outcome rows, the settlement in the
mark-to-market job.

Within the close path: the manual close endpoint on a live position (a market order
without a limit that ends in review), Step 4 of the order sync (it
writes an alert), placement and supersession of the resting limit, exit conditions,
price corroboration and repricing. A submission that the broker accepts after
Step 1.5 already saw a 404 is outside the broker model. Within the entries:
other cohorts, sizing, the utilization gate (a number read up to a minute
before it is used) and the staleness gate. Within the experiment: the
selector, the second user that the RPCs refuse, and settlement liveness; the run
has one policy (its runs, portfolio and locks are its own), the theorems any number.

## 7. Plan

Modules left, in order:

1. Progression: the phase machine with the daily evaluation repeated and
   skipped. As it stands `record_trading_day` cannot run (a function at column 0
   ends the class before it, `services/progression_service.py:838`), so a faithful model
   has `promote` writing the phase and then raising.
2. Shadow fleet: activation under receipts.
3. Champion promotion while a cohort holds positions.
4. Nonces and the circuit breaker, two small modules.
5. Algorithms: leg extraction and realised profit of `close_math`, against
   reference definitions over small legs.

Theorems left: every safety property of the passing runs is proved, under the
conditions section 4 names. Worth adding are action properties of the close path and the book
(which columns of a row may still change once it is terminal or carries the commit
marker) and, with each new module, its type theorem and invariants.
