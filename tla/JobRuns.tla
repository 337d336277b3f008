------------------------------- MODULE JobRuns -------------------------------
(***************************************************************************)
(* The job system: the job_runs table, the Redis queue that carries row    *)
(* ids, the callers of enqueue_job_run, the RQ work-horses that execute    *)
(* run_job_run, the database-polling worker, the scheduler's auto-retry    *)
(* scan and the administrator's retry endpoint.                            *)
(*                                                                         *)
(* A job stands for one (job_name, idempotency_key) pair, the unique key   *)
(* of the table (a forced rerun appends a nonce, so it is another job).    *)
(* One step is one statement sent to Postgres or Redis: everything an      *)
(* actor read before is a snapshot that may be stale when it writes.       *)
(***************************************************************************)
EXTENDS Integers, FiniteSets

CONSTANTS
  Jobs,         \* (job_name, idempotency_key) pairs
  LiveJobs,     \* those whose job_name needs live-execution privileges
  Registered,   \* those whose job_name has a handler
  Background,   \* those the task endpoints send to the background queue
  Callers,      \* concurrent calls of enqueue_job_run
  Runners,      \* RQ work-horses
  Serves,       \* the queue each one serves ("rq worker otc", ...)
  Pollers,      \* instances of jobs/worker.py
  None,         \* SQL NULL / "no job in hand"
  MaxAttempts,  \* job_runs.max_attempts
  RetryBelow,   \* the scheduler's threshold: retry below, dead-letter from it
  ScanLimit,    \* rows the retry scan takes in one pass (limit 5)
  DeadLimit,    \* rows the exhausted scan takes in one pass (limit 10)
  MaxCalls,     \* bound: calls of enqueue_job_run
  MaxRetries,   \* bound: uses of the retry endpoint
  MaxFaults     \* bound: crashes and failed writes

ASSUME JobsAssumption ==
  /\ LiveJobs \subseteq Jobs
  /\ Registered \subseteq Jobs
  /\ Background \subseteq Jobs
  /\ Serves \in [Runners -> {"otc", "background"}]
  /\ None \notin Jobs \cup Runners \cup Pollers

ASSUME BoundsAssumption ==
  /\ MaxAttempts \in Nat \ {0}
  /\ RetryBelow \in Nat
  /\ ScanLimit \in Nat /\ DeadLimit \in Nat
  /\ MaxCalls \in Nat /\ MaxRetries \in Nat /\ MaxFaults \in Nat

VARIABLES
  rows,     \* the job_runs table, one row per unique key
  rq,       \* messages per queue and job in Redis (no deduplication)
  paused,   \* ops_control: is trading paused?
  caller,   \* per call of enqueue_job_run: [pc, job]
  runner,   \* per work-horse: [pc, job, snap, fresh, exc]
  poller,   \* per polling worker: the job it claimed, or None
  sched,    \* the auto-retry scan: [pc, batch, seen]
  admin,    \* the retry endpoint: [pc, job]
  budget    \* calls, retries and faults still allowed (bounds only)

vars == <<rows, rq, paused, caller, runner, poller, sched, admin, budget>>

-----------------------------------------------------------------------------
(* The table and the queues.                                               *)

Queues == {"otc", "background"}

QueueOf(j) == IF j \in Background THEN "background" ELSE "otc"

(* enqueue_idempotent: one more message, whatever is already queued.       *)
Push(q, j) == rq' = [rq EXCEPT ![q][j] = @ + 1]

(* What the column's CHECK admits, and no row yet.                         *)
Status == {"absent", "queued", "running", "succeeded", "partial",
           "failed_retryable", "dead_lettered", "cancelled"}

(* Mutants: a terminal status forgotten by the guard that uses the set.    *)
EnqueueTerminalNoCancelled ==
  {"succeeded", "partial", "failed_retryable", "dead_lettered"}
RunnerTerminalNoPartial == {"succeeded", "cancelled", "dead_lettered"}

(* enqueue_job_run pushes nothing for a row in one of these.               *)
EnqueueTerminal ==
  {"succeeded", "partial", "failed_retryable", "dead_lettered", "cancelled"}

(* run_job_run skips a row in one of these.                                *)
RunnerTerminal == {"succeeded", "partial", "cancelled", "dead_lettered"}

(* The retry endpoint accepts a row in one of these ('partial' is not).    *)
Retriable == {"dead_lettered", "failed_retryable", "cancelled", "succeeded"}

(* finished_at is NULL, inside the retry scan's 4-hour window, or older;   *)
(* runAfter is run_after compared with now(), NULL counting as due.        *)
Row == [status : Status, attempt : Nat,
        lockedBy : Runners \cup Pollers \cup {None},
        finishedAt : {"null", "recent", "old"}, runAfter : {"due", "future"}]

NoRow == [status |-> "absent", attempt |-> 0, lockedBy |-> None,
          finishedAt |-> "null", runAfter |-> "due"]

(* mark_running: the caller computed the new attempt number itself.        *)
MarkRunning(row, w, a) ==
  [row EXCEPT !.status = "running", !.lockedBy = w, !.attempt = a]

(* mark_succeeded, mark_partial_failure, mark_dead_letter.                 *)
MarkTerminal(row, s) ==
  [row EXCEPT !.status = s, !.lockedBy = None, !.finishedAt = "recent"]

(* Mutant: the status that run_job_run returns, which the column's CHECK   *)
(* does not admit.                                                         *)
MarkRetryableAsReturned(row) ==
  [row EXCEPT !.status = "retryable", !.lockedBy = None, !.runAfter = "future"]

(* The requeue_job_run RPC: finished_at is not touched.                    *)
MarkRetryable(row) ==
  [row EXCEPT !.status = "failed_retryable", !.lockedBy = None,
              !.runAfter = "future"]

(* The scheduler's two updates: back to queued with the attempt it read    *)
(* plus one; or only the status.                                           *)
AutoRequeue(row, seen) ==
  [row EXCEPT !.status = "queued", !.attempt = seen + 1, !.lockedBy = None]
AutoDeadLetter(row) == [row EXCEPT !.status = "dead_lettered"]

(* The retry endpoint's update; finished_at is not touched.                *)
AdminRequeue(row) ==
  [row EXCEPT !.status = "queued", !.attempt = 0, !.lockedBy = None,
              !.runAfter = "due"]

(* create_or_get and create_or_get_cancelled: INSERT ... ON CONFLICT DO    *)
(* NOTHING on the unique key; an existing row is returned as it is.        *)
CreateOrGet(row, s) ==
  IF row.status = "absent" THEN [row EXCEPT !.status = s] ELSE row

Idle == [pc |-> "idle", job |-> None]
IdleRunner == [pc |-> "idle", job |-> None, snap |-> 0, fresh |-> 0,
               exc |-> "none"]
IdleSched == [pc |-> "idle", batch |-> {}, seen |-> [j \in Jobs |-> 0]]

CallerState ==
  {s \in [pc : {"idle", "cancel", "create", "push"}, job : Jobs \cup {None}] :
     s.pc = "idle" <=> s.job = None}
RunnerState ==
  {s \in [pc : {"idle", "loaded", "marking", "running", "raised"},
          job : Jobs \cup {None}, snap : Nat, fresh : Nat,
          exc : {"none", "permanent", "other"}] :
     s.pc = "idle" <=> s.job = None}
SchedState == [pc : {"idle", "retry", "dead"}, batch : SUBSET Jobs,
               seen : [Jobs -> Nat]]
AdminState ==
  {s \in [pc : {"idle", "write", "push"}, job : Jobs \cup {None}] :
     s.pc = "idle" <=> s.job = None}

(* Whatever the callers, work-horses, pollers, scans and retries write, a  *)
(* row keeps to the statuses of the CHECK on job_runs.status: an update    *)
(* with another one raises, and a finished run is filed as a failure.      *)
TypeOK ==
  /\ rows \in [Jobs -> Row]
  /\ rq \in [Queues -> [Jobs -> Nat]]
  /\ paused \in BOOLEAN
  /\ caller \in [Callers -> CallerState]
  /\ runner \in [Runners -> RunnerState]
  /\ poller \in [Pollers -> Jobs \cup {None}]
  /\ sched \in SchedState
  /\ admin \in AdminState
  /\ budget \in [calls : Nat, retries : Nat, faults : Nat]

Init ==
  /\ rows = [j \in Jobs |-> NoRow]
  /\ rq = [q \in Queues |-> [j \in Jobs |-> 0]]
  /\ paused = FALSE
  /\ caller = [c \in Callers |-> Idle]
  /\ runner = [r \in Runners |-> IdleRunner]
  /\ poller = [p \in Pollers |-> None]
  /\ sched = IdleSched
  /\ admin = Idle
  /\ budget = [calls |-> MaxCalls, retries |-> MaxRetries, faults |-> MaxFaults]

Fault == /\ budget.faults > 0
         /\ budget' = [budget EXCEPT !.faults = @ - 1]

-----------------------------------------------------------------------------
(* enqueue_job_run: gate, insert, push.                                    *)

(* is_trading_paused, then the go-live gate for a live job; the decision   *)
(* is taken here and acted on later.                                       *)
CallerGate(c, j) ==
  /\ caller[c].pc = "idle"
  /\ budget.calls > 0
  /\ budget' = [budget EXCEPT !.calls = @ - 1]
  /\ \E denied \in BOOLEAN :
       /\ paused => denied
       /\ denied => paused \/ j \in LiveJobs
       /\ caller' = [caller EXCEPT
            ![c] = [pc |-> IF denied THEN "cancel" ELSE "create", job |-> j]]
  /\ UNCHANGED <<rows, rq, paused, runner, poller, sched, admin>>

(* create_or_get_cancelled; nothing is pushed.                             *)
CallerCancel(c) ==
  /\ caller[c].pc = "cancel"
  /\ rows' = [rows EXCEPT ![caller[c].job] = CreateOrGet(@, "cancelled")]
  /\ caller' = [caller EXCEPT ![c] = Idle]
  /\ UNCHANGED <<rq, paused, runner, poller, sched, admin, budget>>

(* create_or_get, then the idempotency guard on the status it returned.    *)
CallerCreate(c) ==
  LET j == caller[c].job
      row == CreateOrGet(rows[j], "queued")
  IN  /\ caller[c].pc = "create"
      /\ rows' = [rows EXCEPT ![j] = row]
      /\ caller' = [caller EXCEPT
           ![c] = IF row.status \in EnqueueTerminal THEN Idle
                  ELSE [pc |-> "push", job |-> j]]
      /\ UNCHANGED <<rq, paused, runner, poller, sched, admin, budget>>

CallerPush(c) ==
  /\ caller[c].pc = "push"
  /\ Push(QueueOf(caller[c].job), caller[c].job)
  /\ caller' = [caller EXCEPT ![c] = Idle]
  /\ UNCHANGED <<rows, paused, runner, poller, sched, admin, budget>>

(* Redis is unavailable, or the process dies: the row stays queued with no *)
(* message behind it.                                                      *)
CallerFails(c) ==
  /\ caller[c].pc = "push"
  /\ Fault
  /\ caller' = [caller EXCEPT ![c] = Idle]
  /\ UNCHANGED <<rows, rq, paused, runner, poller, sched, admin>>

SetPause ==
  /\ paused' = ~paused
  /\ UNCHANGED <<rows, rq, caller, runner, poller, sched, admin, budget>>

-----------------------------------------------------------------------------
(* run_job_run, executed by an RQ work-horse.                              *)

(* Mutant: a row with a finished_at is taken for done, although a requeue  *)
(* does not clear it.                                                      *)
RunnerTakeFinished(r, j) ==
  /\ runner[r].pc = "idle"
  /\ rq[Serves[r]][j] > 0
  /\ rq' = [rq EXCEPT ![Serves[r]][j] = @ - 1]
  /\ runner' = IF rows[j].finishedAt # "null" THEN runner
               ELSE [runner EXCEPT ![r] = [IdleRunner EXCEPT !.pc = "loaded",
                       !.job = j, !.snap = rows[j].attempt]]
  /\ UNCHANGED <<rows, paused, caller, poller, sched, admin, budget>>

(* Pop a message, get_job, and return at once for a terminal row.          *)
RunnerTake(r, j) ==
  /\ runner[r].pc = "idle"
  /\ rq[Serves[r]][j] > 0
  /\ rq' = [rq EXCEPT ![Serves[r]][j] = @ - 1]
  /\ runner' = IF rows[j].status \in RunnerTerminal THEN runner
               ELSE [runner EXCEPT ![r] = [IdleRunner EXCEPT !.pc = "loaded",
                       !.job = j, !.snap = rows[j].attempt]]
  /\ UNCHANGED <<rows, paused, caller, poller, sched, admin, budget>>

(* mark_running reads the attempt number again ...                         *)
RunnerFetch(r) ==
  /\ runner[r].pc = "loaded"
  /\ runner' = [runner EXCEPT ![r] = [@ EXCEPT !.pc = "marking",
                                 !.fresh = rows[runner[r].job].attempt]]
  /\ UNCHANGED <<rows, rq, paused, caller, poller, sched, admin, budget>>

(* ... and writes it back plus one, with no test of the status.            *)
RunnerMark(r) ==
  /\ runner[r].pc = "marking"
  /\ rows' = [rows EXCEPT ![runner[r].job] =
                MarkRunning(@, r, runner[r].fresh + 1)]
  /\ runner' = [runner EXCEPT ![r] = [@ EXCEPT !.pc = "running"]]
  /\ UNCHANGED <<rq, paused, caller, poller, sched, admin, budget>>

(* The work-horse's last write; it is then free for another message.       *)
RunnerWrite(r, row) ==
  /\ rows' = [rows EXCEPT ![runner[r].job] = row]
  /\ runner' = [runner EXCEPT ![r] = IdleRunner]
  /\ UNCHANGED <<rq, paused, caller, poller, sched, admin, budget>>

(* No handler is registered under the job's name.                          *)
RunnerNoHandler(r) ==
  /\ runner[r].pc = "running"
  /\ runner[r].job \notin Registered
  /\ RunnerWrite(r, MarkTerminal(rows[runner[r].job], "dead_lettered"))

(* The handler returned: _classify_handler_return gives the status.        *)
RunnerReturns(r) ==
  /\ runner[r].pc = "running"
  /\ runner[r].job \in Registered
  /\ \E s \in {"succeeded", "partial"} :
       RunnerWrite(r, MarkTerminal(rows[runner[r].job], s))

(* The handler raised: the PermanentJobError of jobs/handlers/exceptions,  *)
(* or anything else (its RetryableJobError, RQ's timeout included).        *)
RunnerRaises(r) ==
  /\ runner[r].pc = "running"
  /\ runner[r].job \in Registered
  /\ \E class \in {"permanent", "other"} :
       runner' = [runner EXCEPT ![r] = [@ EXCEPT !.pc = "raised", !.exc = class]]
  /\ UNCHANGED <<rows, rq, paused, caller, poller, sched, admin, budget>>

(* The handler returned but mark_succeeded or mark_partial_failure raised  *)
(* inside the try: the run is filed as a failure.                          *)
RunnerLosesResult(r) ==
  /\ runner[r].pc = "running"
  /\ runner[r].job \in Registered
  /\ Fault
  /\ runner' = [runner EXCEPT ![r] = [@ EXCEPT !.pc = "raised", !.exc = "other"]]
  /\ UNCHANGED <<rows, rq, paused, caller, poller, sched, admin>>

(* Mutants: the budget test off by one; the row left as it was.            *)
RunnerExceptOffByOne(r) ==
  LET row == rows[runner[r].job]
  IN  /\ runner[r].pc = "raised"
      /\ RunnerWrite(r, IF runner[r].snap + 1 <= MaxAttempts
                        THEN MarkRetryable(row)
                        ELSE MarkTerminal(row, "dead_lettered"))
RunnerExceptSilent(r) ==
  /\ runner[r].pc = "raised"
  /\ RunnerWrite(r, rows[runner[r].job])

(* The except clauses. The two typed ones name the runner's own classes,   *)
(* which no handler raises, so the generic one takes every exception. It   *)
(* judges the attempts left on the first snapshot of the row.              *)
RunnerExcept(r) ==
  LET row == rows[runner[r].job]
  IN  /\ runner[r].pc = "raised"
      /\ RunnerWrite(r, IF runner[r].snap + 1 < MaxAttempts
                        THEN MarkRetryable(row)
                        ELSE MarkTerminal(row, "dead_lettered"))

(* mark_running fails, or the work-horse dies: the message is gone and the *)
(* row stays as it is.                                                     *)
RunnerCrash(r) ==
  /\ runner[r].pc # "idle"
  /\ Fault
  /\ runner' = [runner EXCEPT ![r] = IdleRunner]
  /\ UNCHANGED <<rows, rq, paused, caller, poller, sched, admin>>

-----------------------------------------------------------------------------
(* jobs/worker.py, polling the table through the claim_job_run RPC.        *)

(* One atomic UPDATE under FOR UPDATE SKIP LOCKED.                         *)
PollerClaim(p, j) ==
  /\ poller[p] = None
  /\ rows[j].status \in {"queued", "failed_retryable"}
  /\ rows[j].runAfter = "due"
  /\ rows[j].attempt < MaxAttempts
  /\ rows' = [rows EXCEPT ![j] = MarkRunning(@, p, @.attempt + 1)]
  /\ poller' = [poller EXCEPT ![p] = j]
  /\ UNCHANGED <<rq, paused, caller, runner, sched, admin, budget>>

(* complete_job_run on a return; dead_letter_job_run for a missing handler *)
(* and for every exception a handler raises.                               *)
PollerFinish(p) ==
  /\ poller[p] # None
  /\ \E s \in {"succeeded", "dead_lettered"} :
       /\ s = "succeeded" => poller[p] \in Registered
       /\ rows' = [rows EXCEPT ![poller[p]] = MarkTerminal(@, s)]
  /\ poller' = [poller EXCEPT ![p] = None]
  /\ UNCHANGED <<rq, paused, caller, runner, sched, admin, budget>>

PollerCrash(p) ==
  /\ poller[p] # None
  /\ Fault
  /\ poller' = [poller EXCEPT ![p] = None]
  /\ UNCHANGED <<rows, rq, paused, caller, runner, sched, admin>>

-----------------------------------------------------------------------------
(* _retry_failed_jobs: two selects, each followed by row-by-row updates by *)
(* id that do not test the status again.                                   *)

RetryEligible(row) ==
  /\ row.status = "failed_retryable"
  /\ row.finishedAt = "recent"
  /\ row.attempt < RetryBelow

(* Mutant: the threshold itself is missed by both scans.                   *)
ExhaustedAbove(row) ==
  /\ row.status = "failed_retryable"
  /\ row.attempt > RetryBelow

Exhausted(row) ==
  /\ row.status = "failed_retryable"
  /\ row.attempt >= RetryBelow

(* A select with a limit returns the rows that match, or that many of them. *)
SelectedBatch(batch, matching, limit) ==
  /\ batch \subseteq matching
  /\ Cardinality(batch) <= limit
  /\ batch = matching \/ Cardinality(batch) = limit

SchedScan ==
  /\ sched.pc = "idle"
  /\ \E batch \in SUBSET Jobs :
       /\ SelectedBatch(batch, {j \in Jobs : RetryEligible(rows[j])}, ScanLimit)
       /\ sched' = [pc |-> "retry", batch |-> batch,
                    seen |-> [j \in Jobs |-> IF j \in batch THEN rows[j].attempt
                                             ELSE 0]]
  /\ UNCHANGED <<rows, rq, paused, caller, runner, poller, admin, budget>>

(* Nothing is pushed to Redis for a row that is queued again.              *)
SchedRequeue(j) ==
  /\ sched.pc = "retry"
  /\ j \in sched.batch
  /\ rows' = [rows EXCEPT ![j] = AutoRequeue(@, sched.seen[j])]
  /\ sched' = [sched EXCEPT !.batch = @ \ {j}]
  /\ UNCHANGED <<rq, paused, caller, runner, poller, admin, budget>>

SchedScanExhausted ==
  /\ sched.pc = "retry"
  /\ sched.batch = {}
  /\ \E batch \in SUBSET Jobs :
       /\ SelectedBatch(batch, {j \in Jobs : Exhausted(rows[j])}, DeadLimit)
       /\ sched' = [IdleSched EXCEPT !.pc = "dead", !.batch = batch]
  /\ UNCHANGED <<rows, rq, paused, caller, runner, poller, admin, budget>>

(* The risk alert inserted with it is not modelled.                        *)
SchedDeadLetter(j) ==
  /\ sched.pc = "dead"
  /\ j \in sched.batch
  /\ rows' = [rows EXCEPT ![j] = AutoDeadLetter(@)]
  /\ sched' = [sched EXCEPT !.batch = @ \ {j}]
  /\ UNCHANGED <<rq, paused, caller, runner, poller, admin, budget>>

(* One row's update raises: it is logged and the loop goes on.             *)
SchedSkips(j) ==
  /\ j \in sched.batch
  /\ Fault
  /\ sched' = [sched EXCEPT !.batch = @ \ {j}]
  /\ UNCHANGED <<rows, rq, paused, caller, runner, poller, admin>>

(* A select raises, or the process dies: the scan ends where it stands.    *)
SchedAborts ==
  /\ sched.pc # "idle"
  /\ Fault
  /\ sched' = IdleSched
  /\ UNCHANGED <<rows, rq, paused, caller, runner, poller, admin>>

SchedDone ==
  /\ sched.pc = "dead"
  /\ sched.batch = {}
  /\ sched' = IdleSched
  /\ UNCHANGED <<rows, rq, paused, caller, runner, poller, admin, budget>>

-----------------------------------------------------------------------------
(* retry_job_run: read the status, rewrite the row, push a message.        *)

AdminRead(j) ==
  /\ admin.pc = "idle"
  /\ budget.retries > 0
  /\ budget' = [budget EXCEPT !.retries = @ - 1]
  /\ rows[j].status \in Retriable
  /\ admin' = [pc |-> "write", job |-> j]
  /\ UNCHANGED <<rows, rq, paused, caller, runner, poller, sched>>

AdminWrite ==
  /\ admin.pc = "write"
  /\ rows' = [rows EXCEPT ![admin.job] = AdminRequeue(@)]
  /\ admin' = [admin EXCEPT !.pc = "push"]
  /\ UNCHANGED <<rq, paused, caller, runner, poller, sched, budget>>

(* Always on the default queue, also for a job of the background queue.    *)
AdminPush ==
  /\ admin.pc = "push"
  /\ Push("otc", admin.job)
  /\ admin' = Idle
  /\ UNCHANGED <<rows, paused, caller, runner, poller, sched, budget>>

(* Redis is unavailable after the update: queued again, with no message.   *)
AdminFails ==
  /\ admin.pc = "push"
  /\ Fault
  /\ admin' = Idle
  /\ UNCHANGED <<rows, rq, paused, caller, runner, poller, sched>>

-----------------------------------------------------------------------------
(* The clock: run_after is reached, the 4-hour window closes.              *)

BackoffElapses(j) ==
  /\ rows[j].runAfter = "future"
  /\ rows' = [rows EXCEPT ![j] = [@ EXCEPT !.runAfter = "due"]]
  /\ UNCHANGED <<rq, paused, caller, runner, poller, sched, admin, budget>>

WindowCloses(j) ==
  /\ rows[j].finishedAt = "recent"
  /\ rows' = [rows EXCEPT ![j] = [@ EXCEPT !.finishedAt = "old"]]
  /\ UNCHANGED <<rq, paused, caller, runner, poller, sched, admin, budget>>

-----------------------------------------------------------------------------
CallerStep(c) == \/ \E j \in Jobs : CallerGate(c, j)
                 \/ CallerCancel(c)
                 \/ CallerCreate(c)
                 \/ CallerPush(c)
                 \/ CallerFails(c)

RunnerStep(r) == \/ \E j \in Jobs : RunnerTake(r, j)
                 \/ RunnerFetch(r)
                 \/ RunnerMark(r)
                 \/ RunnerNoHandler(r)
                 \/ RunnerReturns(r)
                 \/ RunnerRaises(r)
                 \/ RunnerExcept(r)
                 \/ RunnerLosesResult(r)
                 \/ RunnerCrash(r)

PollerStep(p) == \/ \E j \in Jobs : PollerClaim(p, j)
                 \/ PollerFinish(p)
                 \/ PollerCrash(p)

SchedStep == \/ SchedScan
             \/ \E j \in Jobs : SchedRequeue(j)
             \/ SchedScanExhausted
             \/ \E j \in Jobs : SchedDeadLetter(j)
             \/ \E j \in Jobs : SchedSkips(j)
             \/ SchedAborts
             \/ SchedDone

AdminStep == \/ \E j \in Jobs : AdminRead(j)
             \/ AdminWrite
             \/ AdminPush
             \/ AdminFails

Next == \/ \E c \in Callers : CallerStep(c)
        \/ SetPause
        \/ \E r \in Runners : RunnerStep(r)
        \/ \E p \in Pollers : PollerStep(p)
        \/ SchedStep
        \/ AdminStep
        \/ \E j \in Jobs : BackoffElapses(j) \/ WindowCloses(j)

Spec == Init /\ [][Next]_vars

(* Weak fairness of the processes the deployment keeps running: a request  *)
(* in progress finishes, an idle work-horse takes a waiting message, a     *)
(* handler ends, the cron job keeps firing. Faults, the administrator and  *)
(* the pause switch are not fair.                                          *)
FairSpec ==
  /\ Spec
  /\ \A c \in Callers :
       WF_vars(CallerCancel(c) \/ CallerCreate(c) \/ CallerPush(c))
  /\ \A r \in Runners :
       WF_vars(\/ \E j \in Jobs : RunnerTake(r, j)
               \/ RunnerFetch(r) \/ RunnerMark(r)
               \/ RunnerNoHandler(r) \/ RunnerReturns(r)
               \/ RunnerRaises(r) \/ RunnerExcept(r))
  /\ \A p \in Pollers : WF_vars(PollerFinish(p))
  /\ WF_vars(\/ SchedScan \/ SchedScanExhausted \/ SchedDone
             \/ \E j \in Jobs : SchedRequeue(j) \/ SchedDeadLetter(j))
  /\ WF_vars(AdminWrite \/ AdminPush)
  /\ \A j \in Jobs : WF_vars(BackoffElapses(j))

-----------------------------------------------------------------------------
(* Properties.                                                             *)

(* The audit record of a blocked call is inert: a row the pause gate or    *)
(* the go-live gate wrote as 'cancelled' has no message in Redis, nobody   *)
(* about to push one, and no work-horse, poller or retry scan holding it,  *)
(* whatever calls with the same key were in flight when the pause fell.    *)
CancelledInert ==
  \A j \in Jobs : rows[j].status = "cancelled" =>
    /\ \A q \in Queues : rq[q][j] = 0
    /\ \A c \in Callers : caller[c].pc = "push" => caller[c].job # j
    /\ admin.pc = "push" => admin.job # j
    /\ \A r \in Runners : runner[r].job # j
    /\ \A p \in Pollers : poller[p] # j
    /\ j \notin sched.batch

(* A run of an otc job filed as succeeded or partial keeps that status     *)
(* through duplicate messages, crashes and failures, unless the            *)
(* administrator retries it or a retry scan that had already selected the  *)
(* row writes over it: run_job_run skips a terminal row, and one worker    *)
(* serves the queue. (Background jobs are excepted: the retry endpoint     *)
(* sends them to a second worker.)                                         *)
ResultStands ==
  [][\A j \in Jobs \ Background :
       /\ rows[j].status \in {"succeeded", "partial"}
       /\ j \notin sched.batch
       /\ admin.job # j
       => rows'[j].status = rows[j].status]_vars

(* An otc row put back as failed_retryable still has attempts left, though *)
(* the runner judges that on a snapshot older than the number it wrote,    *)
(* and the scheduler and the administrator rewrite the number meanwhile.   *)
(* claim_job_run never takes a row without attempts left.                  *)
RetryableHasBudget ==
  \A j \in Jobs \ Background :
    rows[j].status = "failed_retryable" => rows[j].attempt < MaxAttempts

(* A queued row is carried to a work-horse: its message is in Redis, a     *)
(* call or the retry endpoint is about to push one, or a work-horse has    *)
(* taken it and will mark the row. The row is written before the message   *)
(* is pushed and the work-horses drop the messages of terminal rows, so a  *)
(* requeue whose message were dropped would strand it. Excused: a fault,   *)
(* and the retry scan, which pushes nothing for a row it queues again (its *)
(* attempt number is then positive).                                       *)
QueuedIsCarried ==
  \A j \in Jobs :
    /\ rows[j].status = "queued" /\ rows[j].attempt = 0
    /\ budget.faults = MaxFaults
    => \/ \E q \in Queues : rq[q][j] > 0
       \/ \E c \in Callers : caller[c].pc = "push" /\ caller[c].job = j
       \/ admin.pc = "push" /\ admin.job = j
       \/ \E r \in Runners :
            runner[r].pc \in {"loaded", "marking"} /\ runner[r].job = j

(* Every admitted run is executed: a queued row reaches a settled status   *)
(* when nothing crashes and nobody retries by hand, however many calls     *)
(* raced to create it.                                                     *)
QueuedRunSettles ==
  \A j \in Jobs :
    rows[j].status = "queued" ~>
      rows[j].status \in {"succeeded", "partial", "failed_retryable",
                          "dead_lettered"}

(* A row that used up the scheduler's retries does not linger: it ends     *)
(* dead-lettered (or another duplicate message finishes it first).         *)
ExhaustedIsResolved ==
  \A j \in Jobs :
    rows[j].status = "failed_retryable" /\ rows[j].attempt >= RetryBelow
      ~> rows[j].status \in {"succeeded", "partial", "dead_lettered"}
=============================================================================
