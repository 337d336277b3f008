---------------------------- MODULE JobRunsProofs ----------------------------
(***************************************************************************)
(* Theorems about JobRuns, for every set of jobs, callers, work-horses and *)
(* polling workers and every value of the bounds.                          *)
(***************************************************************************)
EXTENDS JobRuns, TLAPS

(* Every update of a row that the code performs yields a row.              *)
LEMMA RowUpdates ==
  ASSUME NEW row \in Row
  PROVE  /\ \A w \in Runners \cup Pollers, a \in Nat :
              MarkRunning(row, w, a) \in Row
         /\ \A s \in Status : MarkTerminal(row, s) \in Row
         /\ MarkRetryable(row) \in Row
         /\ \A s \in Status : CreateOrGet(row, s) \in Row
         /\ \A n \in Nat : AutoRequeue(row, n) \in Row
         /\ AutoDeadLetter(row) \in Row
         /\ AdminRequeue(row) \in Row
         /\ [row EXCEPT !.runAfter = "due"] \in Row
         /\ [row EXCEPT !.finishedAt = "old"] \in Row
         /\ row.attempt \in Nat
         /\ row.status \in Status
<1>1. \A w \in Runners \cup Pollers, a \in Nat : MarkRunning(row, w, a) \in Row
  BY DEF MarkRunning, Row, Status
<1>2. \A s \in Status : MarkTerminal(row, s) \in Row
  BY DEF MarkTerminal, Row
<1>3. MarkRetryable(row) \in Row
  BY DEF MarkRetryable, Row, Status
<1>4. \A s \in Status : CreateOrGet(row, s) \in Row
  BY DEF CreateOrGet, Row
<1>5. ASSUME NEW n \in Nat PROVE AutoRequeue(row, n) \in Row
  <2>1. \A a \in Nat : [row EXCEPT !.status = "queued", !.attempt = a,
                                   !.lockedBy = None] \in Row
    BY DEF Row, Status
  <2>2. n + 1 \in Nat
    OBVIOUS
  <2> QED
    BY <2>1, <2>2 DEF AutoRequeue
<1>6. AutoDeadLetter(row) \in Row
  BY DEF AutoDeadLetter, Row, Status
<1>7. AdminRequeue(row) \in Row
  BY DEF AdminRequeue, Row, Status
<1>8. /\ [row EXCEPT !.runAfter = "due"] \in Row
      /\ [row EXCEPT !.finishedAt = "old"] \in Row
      /\ row.attempt \in Nat
      /\ row.status \in Status
  BY DEF Row
<1> QED
  BY <1>1, <1>2, <1>3, <1>4, <1>5, <1>6, <1>7, <1>8

(* The states a work-horse passes through while it holds a job.            *)
LEMMA RunnerUpdates ==
  ASSUME NEW s \in RunnerState
  PROVE  /\ s.pc # "idle" => s.job \in Jobs
         /\ s.snap \in Nat /\ s.fresh \in Nat
         /\ IdleRunner \in RunnerState
         /\ \A j \in Jobs, n \in Nat :
              [IdleRunner EXCEPT !.pc = "loaded", !.job = j, !.snap = n]
                \in RunnerState
         /\ s.pc # "idle" => \A n \in Nat :
              [s EXCEPT !.pc = "marking", !.fresh = n] \in RunnerState
         /\ s.pc # "idle" => [s EXCEPT !.pc = "running"] \in RunnerState
         /\ s.pc # "idle" => \A e \in {"permanent", "other"} :
              [s EXCEPT !.pc = "raised", !.exc = e] \in RunnerState
<1>1. /\ s.pc # "idle" => s.job \in Jobs
      /\ s.snap \in Nat /\ s.fresh \in Nat
  BY DEF RunnerState
<1>2. IdleRunner \in RunnerState
  BY JobsAssumption DEF RunnerState, IdleRunner
<1>3. \A j \in Jobs, n \in Nat :
        [IdleRunner EXCEPT !.pc = "loaded", !.job = j, !.snap = n]
          \in RunnerState
  BY JobsAssumption DEF RunnerState, IdleRunner
<1>4. s.pc # "idle" => \A n \in Nat :
        [s EXCEPT !.pc = "marking", !.fresh = n] \in RunnerState
  BY DEF RunnerState
<1>5. s.pc # "idle" => [s EXCEPT !.pc = "running"] \in RunnerState
  BY DEF RunnerState
<1>6. s.pc # "idle" => \A e \in {"permanent", "other"} :
        [s EXCEPT !.pc = "raised", !.exc = e] \in RunnerState
  BY DEF RunnerState
<1> QED
  BY <1>1, <1>2, <1>3, <1>4, <1>5, <1>6

(* Every row, queue and actor keeps its type in every reachable state.     *)
THEOREM TypeCorrect == Spec => []TypeOK
<1>1. Init => TypeOK
  <2> SUFFICES ASSUME Init PROVE TypeOK
    OBVIOUS
  <2>1. NoRow \in Row
    BY DEF NoRow, Row, Status
  <2>2. Idle \in CallerState /\ Idle \in AdminState
    BY JobsAssumption DEF Idle, CallerState, AdminState
  <2>3. IdleRunner \in RunnerState
    BY JobsAssumption DEF IdleRunner, RunnerState
  <2>4. IdleSched \in SchedState
    BY DEF IdleSched, SchedState
  <2> QED
    BY <2>1, <2>2, <2>3, <2>4, BoundsAssumption DEF Init, TypeOK, Queues
<1>2. TypeOK /\ [Next]_vars => TypeOK'
  <2> SUFFICES ASSUME TypeOK, [Next]_vars PROVE TypeOK'
    OBVIOUS
  <2>a. Fault => budget' \in [calls : Nat, retries : Nat, faults : Nat]
    BY DEF Fault, TypeOK
  <2>b. Idle \in CallerState /\ Idle \in AdminState
    BY JobsAssumption DEF Idle, CallerState, AdminState
  <2>c. {"queued", "cancelled", "succeeded", "partial", "dead_lettered"}
          \subseteq Status
    BY DEF Status
  <2>1. ASSUME NEW c \in Callers, CallerStep(c) PROVE TypeOK'
    <3>a. caller[c].pc # "idle" => caller[c].job \in Jobs
      BY DEF TypeOK, CallerState
    <3>b. \A j \in Jobs, pc \in {"cancel", "create", "push"} :
            [pc |-> pc, job |-> j] \in CallerState
      BY JobsAssumption DEF CallerState
    <3>1. ASSUME NEW j \in Jobs, CallerGate(c, j) PROVE TypeOK'
      <4>1. budget' \in [calls : Nat, retries : Nat, faults : Nat]
        BY <3>1 DEF CallerGate, TypeOK
      <4>2. caller' \in [Callers -> CallerState]
        BY <3>1, <3>b DEF CallerGate, TypeOK
      <4> QED
        BY <3>1, <4>1, <4>2 DEF CallerGate, TypeOK
    <3>2. CASE CallerCancel(c)
      BY <3>2, <2>b, <2>c, <3>a, RowUpdates DEF CallerCancel, TypeOK
    <3>3. CASE CallerCreate(c)
      BY <3>3, <2>b, <2>c, <3>a, <3>b, RowUpdates DEF CallerCreate, TypeOK
    <3>4. CASE CallerPush(c)
      BY <3>4, <2>b, <3>a DEF CallerPush, Push, QueueOf, Queues, TypeOK
    <3>5. CASE CallerFails(c)
      BY <3>5, <2>a, <2>b DEF CallerFails, TypeOK
    <3> QED
      BY <2>1, <3>1, <3>2, <3>3, <3>4, <3>5 DEF CallerStep
  <2>2. CASE SetPause
    BY <2>2 DEF SetPause, TypeOK
  <2>3. ASSUME NEW r \in Runners, RunnerStep(r) PROVE TypeOK'
    <3>a. runner[r] \in RunnerState
      BY DEF TypeOK
    <3>b. runner[r].pc # "idle" => rows[runner[r].job] \in Row
      BY <3>a, RunnerUpdates DEF TypeOK
    <3>1. ASSUME NEW j \in Jobs, RunnerTake(r, j) PROVE TypeOK'
      <4>1. rq' \in [Queues -> [Jobs -> Nat]]
        BY <3>1, JobsAssumption DEF RunnerTake, TypeOK, Queues
      <4>2. rows[j].attempt \in Nat
        BY RowUpdates DEF TypeOK
      <4>3. runner' \in [Runners -> RunnerState]
        BY <3>1, <3>a, <4>2, RunnerUpdates DEF RunnerTake, TypeOK
      <4> QED
        BY <3>1, <4>1, <4>3 DEF RunnerTake, TypeOK
    <3>2. CASE RunnerFetch(r)
      <4>1. rows[runner[r].job].attempt \in Nat
        BY <3>2, <3>b, RowUpdates DEF RunnerFetch
      <4> QED
        BY <3>2, <3>a, <4>1, RunnerUpdates DEF RunnerFetch, TypeOK
    <3>3. CASE RunnerMark(r)
      <4>a. runner[r].fresh \in Nat
        BY <3>a, RunnerUpdates
      <4>1. runner[r].fresh + 1 \in Nat
        BY <4>a
      <4>2. MarkRunning(rows[runner[r].job], r, runner[r].fresh + 1) \in Row
        BY <3>3, <3>b, <4>1, RowUpdates DEF RunnerMark
      <4>3. runner' \in [Runners -> RunnerState]
        BY <3>3, <3>a, RunnerUpdates DEF RunnerMark, TypeOK
      <4> QED
        BY <3>3, <4>2, <4>3 DEF RunnerMark, TypeOK
    <3>4. CASE RunnerNoHandler(r)
      BY <3>4, <2>c, <3>a, <3>b, RowUpdates, RunnerUpdates
         DEF RunnerNoHandler, RunnerWrite, TypeOK
    <3>5. CASE RunnerReturns(r)
      <4>1. PICK s \in {"succeeded", "partial"} :
              RunnerWrite(r, MarkTerminal(rows[runner[r].job], s))
        BY <3>5 DEF RunnerReturns
      <4>2. MarkTerminal(rows[runner[r].job], s) \in Row
        BY <3>5, <2>c, <3>b, RowUpdates DEF RunnerReturns
      <4> QED
        BY <4>1, <4>2, <3>a, RunnerUpdates DEF RunnerWrite, TypeOK
    <3>6. CASE RunnerRaises(r)
      <4>1. PICK class \in {"permanent", "other"} :
              runner' = [runner EXCEPT ![r] = [runner[r] EXCEPT
                           !.pc = "raised", !.exc = class]]
        BY <3>6 DEF RunnerRaises
      <4>2. [runner[r] EXCEPT !.pc = "raised", !.exc = class] \in RunnerState
        BY <3>6, <3>a, <4>1, RunnerUpdates DEF RunnerRaises
      <4>3. runner' \in [Runners -> RunnerState]
        BY <4>1, <4>2 DEF TypeOK
      <4> QED
        BY <3>6, <4>3 DEF RunnerRaises, TypeOK
    <3>7. CASE RunnerLosesResult(r)
      BY <3>7, <2>a, <3>a, RunnerUpdates DEF RunnerLosesResult, TypeOK
    <3>8. CASE RunnerExcept(r)
      BY <3>8, <2>c, <3>a, <3>b, RowUpdates, RunnerUpdates
         DEF RunnerExcept, RunnerWrite, TypeOK
    <3>9. CASE RunnerCrash(r)
      BY <3>9, <2>a, <3>a, RunnerUpdates DEF RunnerCrash, TypeOK
    <3> QED
      BY <2>3, <3>1, <3>2, <3>3, <3>4, <3>5, <3>6, <3>7, <3>8, <3>9
         DEF RunnerStep
  <2>4. ASSUME NEW p \in Pollers, PollerStep(p) PROVE TypeOK'
    <3>1. ASSUME NEW j \in Jobs, PollerClaim(p, j) PROVE TypeOK'
      <4>a. rows[j].attempt \in Nat
        BY RowUpdates DEF TypeOK
      <4>1. rows[j].attempt + 1 \in Nat
        BY <4>a
      <4>2. MarkRunning(rows[j], p, rows[j].attempt + 1) \in Row
        BY <4>1, RowUpdates DEF TypeOK
      <4> QED
        BY <3>1, <4>2 DEF PollerClaim, TypeOK
    <3>2. CASE PollerFinish(p)
      <4>1. PICK s \in {"succeeded", "dead_lettered"} :
              rows' = [rows EXCEPT ![poller[p]] = MarkTerminal(@, s)]
        BY <3>2 DEF PollerFinish
      <4>2. poller[p] \in Jobs
        BY <3>2 DEF PollerFinish, TypeOK
      <4>3. MarkTerminal(rows[poller[p]], s) \in Row
        BY <2>c, <4>2, RowUpdates DEF TypeOK
      <4> QED
        BY <3>2, <4>1, <4>2, <4>3 DEF PollerFinish, TypeOK
    <3>3. CASE PollerCrash(p)
      BY <3>3, <2>a DEF PollerCrash, TypeOK
    <3> QED
      BY <2>4, <3>1, <3>2, <3>3 DEF PollerStep
  <2>5. CASE SchedStep
    <3>a. ASSUME NEW batch \in SUBSET Jobs
          PROVE  [sched EXCEPT !.batch = batch] \in SchedState
      BY DEF TypeOK, SchedState
    <3>b. IdleSched \in SchedState
      BY DEF IdleSched, SchedState
    <3>c. sched.batch \in SUBSET Jobs /\ sched.seen \in [Jobs -> Nat]
      BY DEF TypeOK, SchedState
    <3>1. CASE SchedScan
      <4>1. PICK batch \in SUBSET Jobs :
              sched' = [pc |-> "retry", batch |-> batch,
                        seen |-> [j \in Jobs |->
                                    IF j \in batch THEN rows[j].attempt ELSE 0]]
        BY <3>1 DEF SchedScan
      <4>2. \A j \in Jobs : rows[j].attempt \in Nat
        BY RowUpdates DEF TypeOK
      <4>3. [j \in Jobs |-> IF j \in batch THEN rows[j].attempt ELSE 0]
              \in [Jobs -> Nat]
        BY <4>2
      <4>4. sched' \in SchedState
        BY <4>1, <4>3 DEF SchedState
      <4> QED
        BY <3>1, <4>4 DEF SchedScan, TypeOK
    <3>2. ASSUME NEW j \in Jobs, SchedRequeue(j) PROVE TypeOK'
      BY <3>2, <3>a, <3>c, RowUpdates DEF SchedRequeue, TypeOK
    <3>3. CASE SchedScanExhausted
      <4>a. PICK batch \in SUBSET Jobs :
              sched' = [IdleSched EXCEPT !.pc = "dead", !.batch = batch]
        BY <3>3 DEF SchedScanExhausted
      <4>1. sched' \in SchedState
        BY <4>a DEF IdleSched, SchedState
      <4> QED
        BY <3>3, <4>1 DEF SchedScanExhausted, TypeOK
    <3>4. ASSUME NEW j \in Jobs, SchedDeadLetter(j) PROVE TypeOK'
      BY <3>4, <3>a, <3>c, RowUpdates DEF SchedDeadLetter, TypeOK
    <3>5. ASSUME NEW j \in Jobs, SchedSkips(j) PROVE TypeOK'
      BY <3>5, <2>a, <3>a, <3>c DEF SchedSkips, TypeOK
    <3>6. CASE SchedAborts
      BY <3>6, <2>a, <3>b DEF SchedAborts, TypeOK
    <3>7. CASE SchedDone
      BY <3>7, <3>b DEF SchedDone, TypeOK
    <3> QED
      BY <2>5, <3>1, <3>2, <3>3, <3>4, <3>5, <3>6, <3>7 DEF SchedStep
  <2>6. CASE AdminStep
    <3>a. admin.pc # "idle" => admin.job \in Jobs
      BY DEF TypeOK, AdminState
    <3>1. ASSUME NEW j \in Jobs, AdminRead(j) PROVE TypeOK'
      <4>1. budget' \in [calls : Nat, retries : Nat, faults : Nat]
        BY <3>1 DEF AdminRead, TypeOK
      <4>2. admin' \in AdminState
        BY <3>1, JobsAssumption DEF AdminRead, AdminState
      <4> QED
        BY <3>1, <4>1, <4>2 DEF AdminRead, TypeOK
    <3>2. CASE AdminWrite
      <4>1. admin' \in AdminState
        BY <3>2 DEF AdminWrite, TypeOK, AdminState
      <4> QED
        BY <3>2, <3>a, <4>1, RowUpdates DEF AdminWrite, TypeOK
    <3>3. CASE AdminPush
      BY <3>3, <2>b, <3>a DEF AdminPush, Push, Queues, TypeOK
    <3>4. CASE AdminFails
      BY <3>4, <2>a, <2>b DEF AdminFails, TypeOK
    <3> QED
      BY <2>6, <3>1, <3>2, <3>3, <3>4 DEF AdminStep
  <2>7. ASSUME NEW j \in Jobs, BackoffElapses(j) \/ WindowCloses(j)
        PROVE TypeOK'
    <3>1. rows[j] \in Row
      BY DEF TypeOK
    <3>2. CASE BackoffElapses(j)
      BY <3>1, <3>2, RowUpdates DEF BackoffElapses, TypeOK
    <3>3. CASE WindowCloses(j)
      BY <3>1, <3>3, RowUpdates DEF WindowCloses, TypeOK
    <3> QED
      BY <2>7, <3>2, <3>3
  <2>8. CASE UNCHANGED vars
    BY <2>8 DEF vars, TypeOK
  <2> QED
    BY <2>1, <2>2, <2>3, <2>4, <2>5, <2>6, <2>7, <2>8 DEF Next
<1> QED
  BY <1>1, <1>2, PTL DEF Spec

-----------------------------------------------------------------------------
(* The audit record of a blocked call.                                     *)

(* Nothing in the system can reach the job: the body of CancelledInert.    *)
Untouched(j) ==
  /\ \A q \in Queues : rq[q][j] = 0
  /\ \A c \in Callers : caller[c].pc = "push" => caller[c].job # j
  /\ admin.pc = "push" => admin.job # j
  /\ \A r \in Runners : runner[r].job # j
  /\ \A p \in Pollers : poller[p] # j
  /\ j \notin sched.batch

AtRest(row) == row.status = "absent" \/ row.status = "cancelled"

(* The inductive form of CancelledInert: a key without a row is untouched  *)
(* too (its first row may be the cancelled one), and no retry endpoint has *)
(* read it. An endpoint may well be about to requeue a cancelled row.      *)
Dormant ==
  \A j \in Jobs :
    /\ AtRest(rows[j]) => Untouched(j)
    /\ rows[j].status = "absent" => admin.job # j

(* What each update does to the two columns the invariants speak about.    *)
LEMMA RowColumns ==
  ASSUME NEW row \in Row
  PROVE  /\ \A w, a : /\ MarkRunning(row, w, a).status = "running"
                      /\ MarkRunning(row, w, a).attempt = a
         /\ \A s : /\ MarkTerminal(row, s).status = s
                   /\ MarkTerminal(row, s).attempt = row.attempt
         /\ MarkRetryable(row).status = "failed_retryable"
         /\ MarkRetryable(row).attempt = row.attempt
         /\ \A n : /\ AutoRequeue(row, n).status = "queued"
                   /\ AutoRequeue(row, n).attempt = n + 1
         /\ AutoDeadLetter(row).status = "dead_lettered"
         /\ AutoDeadLetter(row).attempt = row.attempt
         /\ AdminRequeue(row).status = "queued"
         /\ AdminRequeue(row).attempt = 0
         /\ \A s : CreateOrGet(row, s).status =
                     IF row.status = "absent" THEN s ELSE row.status
         /\ \A s : CreateOrGet(row, s).attempt = row.attempt
         /\ [row EXCEPT !.runAfter = "due"].status = row.status
         /\ [row EXCEPT !.runAfter = "due"].attempt = row.attempt
         /\ [row EXCEPT !.finishedAt = "old"].status = row.status
         /\ [row EXCEPT !.finishedAt = "old"].attempt = row.attempt
<1>1. \A w, a : /\ MarkRunning(row, w, a).status = "running"
                /\ MarkRunning(row, w, a).attempt = a
  BY DEF MarkRunning, Row
<1>2. \A s : /\ MarkTerminal(row, s).status = s
             /\ MarkTerminal(row, s).attempt = row.attempt
  BY DEF MarkTerminal, Row
<1>3. \A n : /\ AutoRequeue(row, n).status = "queued"
             /\ AutoRequeue(row, n).attempt = n + 1
  BY DEF AutoRequeue, Row
<1>4. \A s : /\ CreateOrGet(row, s).status =
                  IF row.status = "absent" THEN s ELSE row.status
             /\ CreateOrGet(row, s).attempt = row.attempt
  BY DEF CreateOrGet, Row
<1>5. /\ MarkRetryable(row).status = "failed_retryable"
      /\ MarkRetryable(row).attempt = row.attempt
      /\ AutoDeadLetter(row).status = "dead_lettered"
      /\ AutoDeadLetter(row).attempt = row.attempt
      /\ AdminRequeue(row).status = "queued"
      /\ AdminRequeue(row).attempt = 0
  BY DEF MarkRetryable, AutoDeadLetter, AdminRequeue, Row
<1>6. /\ [row EXCEPT !.runAfter = "due"].status = row.status
      /\ [row EXCEPT !.runAfter = "due"].attempt = row.attempt
      /\ [row EXCEPT !.finishedAt = "old"].status = row.status
      /\ [row EXCEPT !.finishedAt = "old"].attempt = row.attempt
  BY DEF Row
<1> QED
  BY <1>1, <1>2, <1>3, <1>4, <1>5, <1>6

(* Every step keeps Dormant: whoever writes a row leaves it at rest only   *)
(* if it was, and nothing comes to point at a row at rest.                 *)
LEMMA DormantStep ==
  ASSUME TypeOK, Dormant, [Next]_vars
  PROVE  Dormant'
<1> SUFFICES ASSUME NEW k \in Jobs
             PROVE  /\ AtRest(rows'[k]) => Untouched(k)'
                    /\ rows'[k].status = "absent" => admin'.job # k
  BY DEF Dormant
<1>a. rows[k] \in Row
  BY DEF TypeOK
<1>b. /\ AtRest(rows[k]) => Untouched(k)
      /\ rows[k].status = "absent" => admin.job # k
  BY DEF Dormant
<1>c. None # k
  BY JobsAssumption
<1>1. ASSUME NEW c \in Callers, CallerStep(c)
      PROVE  /\ AtRest(rows'[k]) => Untouched(k)'
             /\ rows'[k].status = "absent" => admin'.job # k
  <2>1. ASSUME NEW j \in Jobs, CallerGate(c, j)
        PROVE  /\ rows' = rows /\ UNCHANGED <<rq, runner, poller, sched, admin>>
               /\ caller'[c].pc # "push"
               /\ \A d \in Callers \ {c} : caller'[d] = caller[d]
    BY <2>1 DEF CallerGate, TypeOK
  <2>2. CASE CallerCancel(c)
    <3>1. /\ UNCHANGED <<rq, runner, poller, sched, admin>>
          /\ caller'[c].pc # "push"
          /\ \A d \in Callers \ {c} : caller'[d] = caller[d]
      BY <2>2 DEF CallerCancel, TypeOK, Idle
    <3>2. caller[c].job \in Jobs
      BY <2>2 DEF CallerCancel, TypeOK, CallerState
    <3>3. /\ AtRest(rows'[k]) => AtRest(rows[k])
          /\ rows'[k].status = "absent" => rows[k].status = "absent"
      BY <2>2, <3>2, <1>a, RowColumns DEF CallerCancel, TypeOK, AtRest
    <3> QED
      BY <1>b, <3>1, <3>3 DEF Untouched
  <2>3. CASE CallerCreate(c)
    <3>1. /\ UNCHANGED <<rq, runner, poller, sched, admin>>
          /\ \A d \in Callers \ {c} : caller'[d] = caller[d]
      BY <2>3 DEF CallerCreate, TypeOK
    <3>2. caller[c].job \in Jobs
      BY <2>3 DEF CallerCreate, TypeOK, CallerState
    <3>3. /\ AtRest(rows'[k]) => AtRest(rows[k])
          /\ rows'[k].status = "absent" => rows[k].status = "absent"
      BY <2>3, <3>2, <1>a, RowColumns DEF CallerCreate, TypeOK, AtRest
    <3>4. AtRest(rows'[k]) => (caller'[c].pc = "push" => caller'[c].job # k)
      <4>1. CASE caller[c].job # k
        BY <4>1, <2>3, <1>c DEF CallerCreate, TypeOK, Idle
      <4>2. CASE caller[c].job = k
        <5>1. /\ rows'[k] = CreateOrGet(rows[k], "queued")
              /\ caller'[c] = IF rows'[k].status \in EnqueueTerminal THEN Idle
                              ELSE [pc |-> "push", job |-> k]
          BY <2>3, <4>2 DEF CallerCreate, TypeOK
        <5>2. rows'[k].status # "absent"
          BY <5>1, <1>a, RowColumns
        <5>3. rows'[k].status = "cancelled" => caller'[c].pc # "push"
          BY <5>1 DEF EnqueueTerminal, Idle
        <5> QED
          BY <5>2, <5>3 DEF AtRest
      <4> QED
        BY <4>1, <4>2
    <3> QED
      BY <1>b, <3>1, <3>3, <3>4 DEF Untouched
  <2>4. CASE CallerPush(c)
    <3>1. /\ UNCHANGED <<rows, runner, poller, sched, admin>>
          /\ caller'[c].pc # "push"
          /\ \A d \in Callers \ {c} : caller'[d] = caller[d]
      BY <2>4 DEF CallerPush, TypeOK, Idle
    <3>2. caller[c].job # k => \A q \in Queues : rq'[q][k] = rq[q][k]
      BY <2>4 DEF CallerPush, Push, TypeOK
    <3>3. AtRest(rows[k]) => caller[c].job # k
      BY <2>4, <1>b DEF CallerPush, Untouched
    <3> QED
      BY <1>b, <3>1, <3>2, <3>3 DEF Untouched
  <2>5. CASE CallerFails(c)
    <3>1. /\ UNCHANGED <<rows, rq, runner, poller, sched, admin>>
          /\ caller'[c].pc # "push"
          /\ \A d \in Callers \ {c} : caller'[d] = caller[d]
      BY <2>5 DEF CallerFails, TypeOK, Idle
    <3> QED
      BY <1>b, <3>1 DEF Untouched
  <2> QED
    BY <1>1, <1>b, <2>1, <2>2, <2>3, <2>4, <2>5 DEF CallerStep, Untouched
<1>2. ASSUME NEW r \in Runners, RunnerStep(r)
      PROVE  /\ AtRest(rows'[k]) => Untouched(k)'
             /\ rows'[k].status = "absent" => admin'.job # k
  <2>a. runner[r].pc # "idle" => runner[r].job \in Jobs
    BY DEF TypeOK, RunnerState
  <2>1. ASSUME NEW j \in Jobs, RunnerTake(r, j)
        PROVE  /\ AtRest(rows'[k]) => Untouched(k)'
               /\ rows'[k].status = "absent" => admin'.job # k
    <3>1. UNCHANGED <<rows, caller, poller, sched, admin>>
      BY <2>1 DEF RunnerTake
    <3>2. AtRest(rows[k]) => j # k
      BY <2>1, <1>b, JobsAssumption DEF RunnerTake, Untouched, Queues
    <3>3. j # k => /\ \A q \in Queues : rq'[q][k] = rq[q][k]
                   /\ runner'[r].job = k => runner[r].job = k
                   /\ \A s \in Runners \ {r} : runner'[s] = runner[s]
      BY <2>1 DEF RunnerTake, TypeOK, IdleRunner
    <3> QED
      BY <1>b, <3>1, <3>2, <3>3 DEF Untouched
  <2>2. ASSUME /\ RunnerFetch(r) \/ RunnerRaises(r) \/ RunnerLosesResult(r)
                    \/ RunnerCrash(r)
        PROVE  /\ UNCHANGED <<rows, rq, caller, poller, sched, admin>>
               /\ runner'[r].job = runner[r].job \/ runner'[r].job = None
               /\ \A s \in Runners \ {r} : runner'[s] = runner[s]
    <3>1. CASE RunnerFetch(r)
      BY <3>1 DEF RunnerFetch, TypeOK, RunnerState
    <3>2. CASE RunnerRaises(r)
      <4>1. PICK e : runner' = [runner EXCEPT ![r] =
                        [runner[r] EXCEPT !.pc = "raised", !.exc = e]]
        BY <3>2 DEF RunnerRaises
      <4> QED
        BY <3>2, <4>1 DEF RunnerRaises, TypeOK, RunnerState
    <3>3. CASE RunnerLosesResult(r)
      BY <3>3 DEF RunnerLosesResult, TypeOK, RunnerState
    <3>4. CASE RunnerCrash(r)
      BY <3>4 DEF RunnerCrash, TypeOK, IdleRunner
    <3> QED
      BY <2>2, <3>1, <3>2, <3>3, <3>4
  <2>3. ASSUME /\ RunnerMark(r) \/ RunnerNoHandler(r) \/ RunnerReturns(r)
                    \/ RunnerExcept(r)
        PROVE  /\ UNCHANGED <<rq, caller, poller, sched, admin>>
               /\ runner'[r].job = runner[r].job \/ runner'[r].job = None
               /\ \A s \in Runners \ {r} : runner'[s] = runner[s]
               /\ rows'[k] = rows[k] \/ ~AtRest(rows'[k])
    <3>1. CASE RunnerMark(r)
      BY <3>1, <2>a, <1>a, RowColumns
         DEF RunnerMark, TypeOK, RunnerState, AtRest
    <3>2. CASE RunnerNoHandler(r)
      BY <3>2, <2>a, <1>a, RowColumns
         DEF RunnerNoHandler, RunnerWrite, TypeOK, IdleRunner, AtRest
    <3>3. CASE RunnerReturns(r)
      <4>1. PICK s \in {"succeeded", "partial"} :
              RunnerWrite(r, MarkTerminal(rows[runner[r].job], s))
        BY <3>3 DEF RunnerReturns
      <4> QED
        BY <4>1, <3>3, <2>a, <1>a, RowColumns
           DEF RunnerReturns, RunnerWrite, TypeOK, IdleRunner, AtRest
    <3>4. CASE RunnerExcept(r)
      BY <3>4, <2>a, <1>a, RowColumns
         DEF RunnerExcept, RunnerWrite, TypeOK, IdleRunner, AtRest
    <3> QED
      BY <2>3, <3>1, <3>2, <3>3, <3>4
  <2> QED
    <3>1. CASE RunnerFetch(r) \/ RunnerRaises(r) \/ RunnerLosesResult(r)
                 \/ RunnerCrash(r)
      BY <3>1, <1>b, <1>c, <2>2 DEF Untouched
    <3>2. CASE RunnerMark(r) \/ RunnerNoHandler(r) \/ RunnerReturns(r)
                 \/ RunnerExcept(r)
      BY <3>2, <1>b, <1>c, <2>3 DEF Untouched, AtRest
    <3> QED
      BY <1>2, <2>1, <3>1, <3>2 DEF RunnerStep
<1>3. ASSUME NEW p \in Pollers, PollerStep(p)
      PROVE  /\ AtRest(rows'[k]) => Untouched(k)'
             /\ rows'[k].status = "absent" => admin'.job # k
  <2>1. ASSUME NEW j \in Jobs, PollerClaim(p, j)
        PROVE  /\ UNCHANGED <<rq, caller, runner, sched, admin>>
               /\ \A o \in Pollers \ {p} : poller'[o] = poller[o]
               /\ \/ rows'[k] = rows[k] /\ poller'[p] # k
                  \/ ~AtRest(rows'[k])
    BY <2>1, <1>a, RowColumns DEF PollerClaim, TypeOK, AtRest
  <2>2. ASSUME PollerFinish(p) \/ PollerCrash(p)
        PROVE  /\ UNCHANGED <<rq, caller, runner, sched, admin>>
               /\ \A o \in Pollers \ {p} : poller'[o] = poller[o]
               /\ poller'[p] = None
               /\ rows'[k] = rows[k] \/ ~AtRest(rows'[k])
    <3>1. CASE PollerFinish(p)
      <4>1. PICK s \in {"succeeded", "dead_lettered"} :
              rows' = [rows EXCEPT ![poller[p]] = MarkTerminal(@, s)]
        BY <3>1 DEF PollerFinish
      <4> QED
        BY <3>1, <4>1, <1>a, RowColumns DEF PollerFinish, TypeOK, AtRest
    <3>2. CASE PollerCrash(p)
      BY <3>2 DEF PollerCrash, TypeOK
    <3> QED
      BY <2>2, <3>1, <3>2
  <2> QED
    <3>1. ASSUME NEW j \in Jobs, PollerClaim(p, j)
          PROVE  /\ AtRest(rows'[k]) => Untouched(k)'
                 /\ rows'[k].status = "absent" => admin'.job # k
      BY <3>1, <1>b, <2>1 DEF Untouched, AtRest
    <3>2. CASE PollerFinish(p) \/ PollerCrash(p)
      BY <3>2, <1>b, <1>c, <2>2 DEF Untouched, AtRest
    <3> QED
      BY <1>3, <3>1, <3>2 DEF PollerStep
<1>4. ASSUME SchedStep
      PROVE  /\ AtRest(rows'[k]) => Untouched(k)'
             /\ rows'[k].status = "absent" => admin'.job # k
  <2>1. ASSUME SchedScan \/ SchedScanExhausted
        PROVE  /\ UNCHANGED <<rows, rq, caller, runner, poller, admin>>
               /\ AtRest(rows[k]) => k \notin sched'.batch
    <3>1. CASE SchedScan
      BY <3>1 DEF SchedScan, SelectedBatch, RetryEligible, AtRest
    <3>2. CASE SchedScanExhausted
      <4>1. PICK batch \in SUBSET Jobs :
              /\ batch \subseteq {j \in Jobs : Exhausted(rows[j])}
              /\ sched' = [IdleSched EXCEPT !.pc = "dead", !.batch = batch]
        BY <3>2 DEF SchedScanExhausted, SelectedBatch
      <4>2. sched'.batch = batch
        BY <4>1 DEF IdleSched
      <4> QED
        BY <3>2, <4>1, <4>2 DEF SchedScanExhausted, Exhausted, AtRest
    <3> QED
      BY <2>1, <3>1, <3>2
  <2>2. ASSUME NEW j \in Jobs,
               SchedRequeue(j) \/ SchedDeadLetter(j) \/ SchedSkips(j)
        PROVE  /\ UNCHANGED <<rq, caller, runner, poller, admin>>
               /\ sched'.batch \subseteq sched.batch
               /\ rows'[k] = rows[k] \/ ~AtRest(rows'[k])
    <3>1. CASE SchedRequeue(j)
      BY <3>1, <1>a, RowColumns DEF SchedRequeue, TypeOK, SchedState, AtRest
    <3>2. CASE SchedDeadLetter(j)
      BY <3>2, <1>a, RowColumns DEF SchedDeadLetter, TypeOK, SchedState, AtRest
    <3>3. CASE SchedSkips(j)
      BY <3>3 DEF SchedSkips, TypeOK, SchedState
    <3> QED
      BY <2>2, <3>1, <3>2, <3>3
  <2>3. ASSUME SchedAborts \/ SchedDone
        PROVE  /\ UNCHANGED <<rows, rq, caller, runner, poller, admin>>
               /\ sched'.batch = {}
    BY <2>3 DEF SchedAborts, SchedDone, IdleSched
  <2> QED
    <3>1. CASE SchedScan \/ SchedScanExhausted
      BY <3>1, <1>b, <2>1 DEF Untouched
    <3>2. ASSUME NEW j \in Jobs,
                 SchedRequeue(j) \/ SchedDeadLetter(j) \/ SchedSkips(j)
          PROVE  /\ AtRest(rows'[k]) => Untouched(k)'
                 /\ rows'[k].status = "absent" => admin'.job # k
      BY <3>2, <1>b, <2>2 DEF Untouched, AtRest
    <3>3. CASE SchedAborts \/ SchedDone
      BY <3>3, <1>b, <2>3 DEF Untouched
    <3> QED
      BY <1>4, <3>1, <3>2, <3>3 DEF SchedStep
<1>5. ASSUME AdminStep
      PROVE  /\ AtRest(rows'[k]) => Untouched(k)'
             /\ rows'[k].status = "absent" => admin'.job # k
  <2>a. admin.pc # "idle" => admin.job \in Jobs
    BY DEF TypeOK, AdminState
  <2>1. ASSUME NEW j \in Jobs, AdminRead(j)
        PROVE  /\ UNCHANGED <<rows, rq, caller, runner, poller, sched>>
               /\ admin'.pc # "push"
               /\ rows[k].status = "absent" => admin'.job # k
    BY <2>1 DEF AdminRead, Retriable
  <2>2. CASE AdminWrite
    <3>1. /\ UNCHANGED <<rq, caller, runner, poller, sched>>
          /\ admin'.job = admin.job
          /\ rows'[admin.job].status = "queued"
          /\ admin.job # k => rows'[k] = rows[k]
      BY <2>2, <2>a, <1>a, RowColumns DEF AdminWrite, TypeOK, AdminState
    <3> QED
      BY <1>b, <3>1 DEF Untouched, AtRest
  <2>3. CASE AdminPush
    <3>1. /\ UNCHANGED <<rows, caller, runner, poller, sched>>
          /\ admin'.pc # "push" /\ admin'.job # k
          /\ admin.job # k => \A q \in Queues : rq'[q][k] = rq[q][k]
      BY <2>3, <1>c DEF AdminPush, Push, TypeOK, Idle
    <3>2. AtRest(rows[k]) => admin.job # k
      BY <2>3, <1>b DEF AdminPush, Untouched
    <3> QED
      BY <1>b, <3>1, <3>2 DEF Untouched
  <2>4. CASE AdminFails
    BY <2>4, <1>b, <1>c DEF AdminFails, Idle, Untouched
  <2> QED
    BY <1>5, <1>b, <2>1, <2>2, <2>3, <2>4 DEF AdminStep, Untouched
<1>6. ASSUME NEW j \in Jobs, BackoffElapses(j) \/ WindowCloses(j)
      PROVE  /\ AtRest(rows'[k]) => Untouched(k)'
             /\ rows'[k].status = "absent" => admin'.job # k
  <2>1. /\ UNCHANGED <<rq, caller, runner, poller, sched, admin>>
        /\ rows'[k].status = rows[k].status
    <3>1. CASE BackoffElapses(j)
      BY <3>1, <1>a, RowColumns DEF BackoffElapses, TypeOK
    <3>2. CASE WindowCloses(j)
      BY <3>2, <1>a, RowColumns DEF WindowCloses, TypeOK
    <3> QED
      BY <1>6, <3>1, <3>2
  <2> QED
    BY <1>b, <2>1 DEF Untouched, AtRest
<1>7. CASE SetPause \/ UNCHANGED vars
  BY <1>7, <1>b DEF SetPause, vars, Untouched
<1> QED
  BY <1>1, <1>2, <1>3, <1>4, <1>5, <1>6, <1>7 DEF Next

(* The audit record of a blocked call is inert, for any number of calls,   *)
(* work-horses, pollers and retries in flight when the pause fell.         *)
THEOREM CancelledStaysInert == Spec => []CancelledInert
<1>1. Init => Dormant
  <2> SUFFICES ASSUME Init, NEW j \in Jobs
               PROVE  Untouched(j) /\ admin.job # j
    BY DEF Dormant
  <2> QED
    BY JobsAssumption DEF Init, Untouched, Idle, IdleRunner, IdleSched
<1>2. TypeOK /\ Dormant /\ [Next]_vars => Dormant'
  BY DormantStep
<1>3. Dormant => CancelledInert
  BY DEF Dormant, CancelledInert, Untouched, AtRest
<1> QED
  BY <1>1, <1>2, <1>3, TypeCorrect, PTL DEF Spec

-----------------------------------------------------------------------------
(* Jobs of the otc queue under the deployment: no polling worker, and one  *)
(* work-horse on that queue.                                               *)

OtcJobs == Jobs \ Background

Deployed ==
  /\ Pollers = {}
  /\ \A r, s \in Runners : Serves[r] = "otc" /\ Serves[s] = "otc" => r = s

(* A retry scan requeues only attempts it saw below the threshold.         *)
ScanFresh ==
  sched.pc = "retry" => \A j \in sched.batch : sched.seen[j] < RetryBelow

(* Only the otc work-horse ever holds an otc job ...                       *)
Served ==
  \A j \in OtcJobs :
    /\ rq["background"][j] = 0
    /\ \A r \in Runners : runner[r].job = j => Serves[r] = "otc"

(* ... and it holds none whose result is filed.                            *)
Settled ==
  \A j \in OtcJobs, r \in Runners :
    rows[j].status = "succeeded" \/ rows[j].status = "partial"
      => runner[r].job # j

(* Why the snapshot is good enough: until the work-horse has marked the    *)
(* row, the attempt number can leave the snapshot only for one the         *)
(* scheduler or the administrator wrote, which is at most the threshold.   *)
Snapshot ==
  \A j \in OtcJobs, r \in Runners : runner[r].job = j =>
    /\ runner[r].pc = "loaded" =>
         rows[j].attempt <= runner[r].snap \/ rows[j].attempt <= RetryBelow
    /\ runner[r].pc = "marking" =>
         runner[r].fresh <= runner[r].snap \/ runner[r].fresh <= RetryBelow
    /\ runner[r].pc = "running" \/ runner[r].pc = "raised" =>
         \/ rows[j].attempt <= runner[r].snap + 1
         \/ rows[j].attempt <= RetryBelow + 1

(* The steps that no work-horse and no poller takes.                       *)
OtherStep ==
  \/ \E c \in Callers : CallerStep(c)
  \/ SetPause
  \/ SchedStep
  \/ AdminStep
  \/ \E j \in Jobs : BackoffElapses(j) \/ WindowCloses(j)

(* What they do to a row: nothing to its status and attempt number, create *)
(* it, or write over it as the scan that selected it or the administrator. *)
RowKept(j) ==
  rows'[j].status = rows[j].status /\ rows'[j].attempt = rows[j].attempt
RowCreated(j) ==
  /\ rows[j].status = "absent"
  /\ rows'[j].status = "queued" \/ rows'[j].status = "cancelled"
  /\ rows'[j].attempt = rows[j].attempt
RowRewritten(j) ==
  /\ j \in sched.batch \/ admin.job = j
  /\ \/ rows'[j].status = "queued" /\ rows'[j].attempt <= RetryBelow
     \/ rows'[j].status = "dead_lettered" /\ rows'[j].attempt = rows[j].attempt

(* The steps of callers, scheduler, administrator and clock, row by row.   *)
LEMMA OtherMoves ==
  ASSUME TypeOK, ScanFresh, OtherStep, NEW k \in Jobs
  PROVE  /\ runner' = runner
         /\ RowKept(k) \/ RowCreated(k) \/ RowRewritten(k)
<1>a. rows[k] \in Row /\ rows[k].attempt \in Nat
  BY DEF TypeOK, Row
<1>1. ASSUME NEW c \in Callers, CallerStep(c)
      PROVE  runner' = runner /\ (RowKept(k) \/ RowCreated(k))
  <2>a. caller[c].pc # "idle" => caller[c].job \in Jobs
    BY DEF TypeOK, CallerState
  <2>1. ASSUME NEW j \in Jobs, CallerGate(c, j)
        PROVE  runner' = runner /\ RowKept(k)
    BY <2>1 DEF CallerGate, RowKept
  <2>2. CASE CallerCancel(c)
    BY <2>2, <2>a, <1>a, RowColumns
       DEF CallerCancel, TypeOK, RowKept, RowCreated
  <2>3. CASE CallerCreate(c)
    BY <2>3, <2>a, <1>a, RowColumns
       DEF CallerCreate, TypeOK, RowKept, RowCreated
  <2>4. CASE CallerPush(c) \/ CallerFails(c)
    BY <2>4 DEF CallerPush, CallerFails, RowKept
  <2> QED
    BY <1>1, <2>1, <2>2, <2>3, <2>4 DEF CallerStep
<1>2. CASE SetPause
  BY <1>2 DEF SetPause, RowKept
<1>3. CASE SchedStep
  <2>1. CASE SchedScan \/ SchedScanExhausted \/ SchedAborts \/ SchedDone
    BY <2>1 DEF SchedScan, SchedScanExhausted, SchedAborts, SchedDone, RowKept
  <2>2. ASSUME NEW j \in Jobs, SchedRequeue(j)
        PROVE  runner' = runner /\ (RowKept(k) \/ RowRewritten(k))
    <3>1. CASE j # k
      BY <3>1, <2>2 DEF SchedRequeue, TypeOK, RowKept
    <3>2. CASE j = k
      <4>1. /\ k \in sched.batch
            /\ runner' = runner
            /\ rows'[k] = AutoRequeue(rows[k], sched.seen[k])
        BY <3>2, <2>2 DEF SchedRequeue, TypeOK
      <4>2. sched.seen[k] \in Nat /\ sched.seen[k] < RetryBelow
        BY <3>2, <2>2 DEF SchedRequeue, ScanFresh, TypeOK, SchedState
      <4>3. rows'[k].status = "queued" /\ rows'[k].attempt = sched.seen[k] + 1
        BY <4>1, <1>a, RowColumns
      <4> QED
        BY <4>1, <4>2, <4>3, BoundsAssumption DEF RowRewritten
    <3> QED
      BY <3>1, <3>2
  <2>3. ASSUME NEW j \in Jobs, SchedDeadLetter(j)
        PROVE  runner' = runner /\ (RowKept(k) \/ RowRewritten(k))
    BY <2>3, <1>a, RowColumns DEF SchedDeadLetter, TypeOK, RowKept, RowRewritten
  <2>4. ASSUME NEW j \in Jobs, SchedSkips(j)
        PROVE  runner' = runner /\ RowKept(k)
    BY <2>4 DEF SchedSkips, RowKept
  <2> QED
    BY <1>3, <2>1, <2>2, <2>3, <2>4 DEF SchedStep
<1>4. CASE AdminStep
  <2>1. ASSUME NEW j \in Jobs, AdminRead(j)
        PROVE  runner' = runner /\ RowKept(k)
    BY <2>1 DEF AdminRead, RowKept
  <2>2. CASE AdminWrite
    <3>1. admin.job # k => rows'[k] = rows[k]
      BY <2>2 DEF AdminWrite, TypeOK
    <3>2. admin.job = k => rows'[k] = AdminRequeue(rows[k])
      BY <2>2 DEF AdminWrite, TypeOK
    <3>3. AdminRequeue(rows[k]).status = "queued"
          /\ AdminRequeue(rows[k]).attempt <= RetryBelow
      BY <1>a, RowColumns, BoundsAssumption
    <3> QED
      BY <2>2, <3>1, <3>2, <3>3 DEF AdminWrite, RowKept, RowRewritten
  <2>3. CASE AdminPush \/ AdminFails
    BY <2>3 DEF AdminPush, AdminFails, RowKept
  <2> QED
    BY <1>4, <2>1, <2>2, <2>3 DEF AdminStep
<1>5. ASSUME NEW j \in Jobs, BackoffElapses(j) \/ WindowCloses(j)
      PROVE  runner' = runner /\ RowKept(k)
  <2>1. CASE BackoffElapses(j)
    BY <2>1, <1>a, RowColumns DEF BackoffElapses, TypeOK, RowKept
  <2>2. CASE WindowCloses(j)
    BY <2>2, <1>a, RowColumns DEF WindowCloses, TypeOK, RowKept
  <2> QED
    BY <1>5, <2>1, <2>2
<1> QED
  BY <1>1, <1>2, <1>3, <1>4, <1>5 DEF OtherStep

(* A retry scan holds only attempts below its threshold.                   *)
LEMMA ScanFreshStep ==
  ASSUME TypeOK, ScanFresh, [Next]_vars
  PROVE  ScanFresh'
<1>1. CASE sched' = sched
  BY <1>1 DEF ScanFresh
<1>2. CASE SchedScan
  <2>1. PICK batch \in SUBSET Jobs :
          /\ batch \subseteq {j \in Jobs : RetryEligible(rows[j])}
          /\ sched' = [pc |-> "retry", batch |-> batch,
                       seen |-> [j \in Jobs |-> IF j \in batch
                                  THEN rows[j].attempt ELSE 0]]
    BY <1>2 DEF SchedScan, SelectedBatch
  <2> QED
    BY <2>1 DEF ScanFresh, RetryEligible
<1>3. ASSUME NEW j \in Jobs,
             SchedRequeue(j) \/ SchedDeadLetter(j) \/ SchedSkips(j)
      PROVE  ScanFresh'
  <2>1. sched' = [sched EXCEPT !.batch = @ \ {j}]
    BY <1>3 DEF SchedRequeue, SchedDeadLetter, SchedSkips
  <2> QED
    BY <2>1 DEF ScanFresh, TypeOK, SchedState
<1>4. CASE SchedScanExhausted \/ SchedAborts \/ SchedDone
  <2>1. CASE SchedScanExhausted
    <3>1. PICK batch \in SUBSET Jobs :
            sched' = [IdleSched EXCEPT !.pc = "dead", !.batch = batch]
      BY <2>1 DEF SchedScanExhausted
    <3> QED
      BY <3>1 DEF IdleSched, ScanFresh
  <2>2. CASE SchedAborts \/ SchedDone
    BY <2>2 DEF SchedAborts, SchedDone, IdleSched, ScanFresh
  <2> QED
    BY <1>4, <2>1, <2>2
<1>5. ASSUME NEW c \in Callers, CallerStep(c) PROVE sched' = sched
  BY <1>5 DEF CallerStep, CallerGate, CallerCancel, CallerCreate, CallerPush,
              CallerFails
<1>6. ASSUME NEW r \in Runners, RunnerStep(r) PROVE sched' = sched
  BY <1>6 DEF RunnerStep, RunnerTake, RunnerFetch, RunnerMark, RunnerNoHandler,
              RunnerReturns, RunnerRaises, RunnerExcept, RunnerLosesResult,
              RunnerCrash, RunnerWrite
<1>7. ASSUME NEW p \in Pollers, PollerStep(p) PROVE sched' = sched
  BY <1>7 DEF PollerStep, PollerClaim, PollerFinish, PollerCrash
<1>8. CASE AdminStep
  BY <1>1, <1>8 DEF AdminStep, AdminRead, AdminWrite, AdminPush, AdminFails
<1>9. CASE \/ SetPause \/ UNCHANGED vars
           \/ \E j \in Jobs : BackoffElapses(j) \/ WindowCloses(j)
  BY <1>1, <1>9 DEF SetPause, vars, BackoffElapses, WindowCloses
<1> QED
  BY <1>1, <1>2, <1>3, <1>4, <1>5, <1>6, <1>7, <1>8, <1>9 DEF Next, SchedStep

(* What a work-horse does to the row in its hand once it has taken the     *)
(* message: goes one stage further ...                                     *)
Fetches(r) ==
  /\ rows' = rows
  /\ runner[r].pc = "loaded" /\ runner'[r].pc = "marking"
  /\ runner'[r].fresh = rows[runner[r].job].attempt
Marks(r) ==
  /\ runner[r].pc = "marking" /\ runner'[r].pc = "running"
  /\ \A j \in Jobs \ {runner[r].job} : rows'[j] = rows[j]
  /\ rows'[runner[r].job].status = "running"
  /\ rows'[runner[r].job].attempt = runner[r].fresh + 1
Raises(r) ==
  /\ rows' = rows
  /\ runner[r].pc = "running" /\ runner'[r].pc = "raised"
Advances(r) ==
  /\ runner[r].job \in Jobs
  /\ runner'[r].job = runner[r].job /\ runner'[r].snap = runner[r].snap
  /\ Fetches(r) \/ Marks(r) \/ Raises(r)

(* ... or lets go of it, having filed an outcome or crashed.               *)
Files(r) ==
  LET j == runner[r].job
  IN  /\ j \in Jobs
      /\ \A i \in Jobs \ {j} : rows'[i] = rows[i]
      /\ rows'[j].attempt = rows[j].attempt
      /\ \/ \/ rows'[j].status = "succeeded" \/ rows'[j].status = "partial"
            \/ rows'[j].status = "dead_lettered"
         \/ /\ runner[r].pc = "raised"
            /\ rows'[j].status = "failed_retryable"
            /\ runner[r].snap + 1 < MaxAttempts
Releases(r) == runner'[r] = IdleRunner /\ (rows' = rows \/ Files(r))

(* The steps of a work-horse, in these terms.                              *)
LEMMA RunnerMoves ==
  ASSUME TypeOK, NEW r \in Runners, RunnerStep(r)
  PROVE  /\ \A s \in Runners \ {r} : runner'[s] = runner[s]
         /\ \/ \E j \in Jobs : RunnerTake(r, j)
            \/ rq' = rq /\ (Advances(r) \/ Releases(r))
<1>a. runner[r] \in RunnerState
  BY DEF TypeOK
<1>b. runner[r].pc # "idle" =>
        runner[r].job \in Jobs /\ rows[runner[r].job] \in Row
  BY <1>a DEF TypeOK, RunnerState
<1>1. ASSUME NEW j \in Jobs, RunnerTake(r, j)
      PROVE  \A s \in Runners \ {r} : runner'[s] = runner[s]
  BY <1>1 DEF RunnerTake, TypeOK
<1>2. CASE RunnerFetch(r)
  BY <1>2, <1>a, <1>b DEF RunnerFetch, Advances, Fetches, TypeOK, RunnerState
<1>3. CASE RunnerMark(r)
  <2>1. /\ rows' = [rows EXCEPT ![runner[r].job] =
                      MarkRunning(rows[runner[r].job], r, runner[r].fresh + 1)]
        /\ runner' = [runner EXCEPT ![r] = [runner[r] EXCEPT !.pc = "running"]]
        /\ runner[r].pc = "marking" /\ rq' = rq
    BY <1>3 DEF RunnerMark
  <2>2. Marks(r)
    BY <2>1, <1>a, <1>b, RowColumns DEF Marks, TypeOK, RunnerState
  <2> QED
    BY <2>1, <2>2, <1>a, <1>b DEF Advances, TypeOK, RunnerState
<1>4. CASE RunnerRaises(r)
  <2>1. PICK e : runner' = [runner EXCEPT ![r] =
                    [runner[r] EXCEPT !.pc = "raised", !.exc = e]]
    BY <1>4 DEF RunnerRaises
  <2> QED
    BY <1>4, <2>1, <1>a, <1>b
       DEF RunnerRaises, Advances, Raises, TypeOK, RunnerState
<1>5. CASE RunnerLosesResult(r)
  BY <1>5, <1>a, <1>b DEF RunnerLosesResult, Advances, Raises, TypeOK, RunnerState
<1>6. CASE RunnerCrash(r)
  BY <1>6 DEF RunnerCrash, Releases, TypeOK
<1>7. ASSUME NEW row, RunnerWrite(r, row)
      PROVE  /\ rq' = rq /\ runner'[r] = IdleRunner
             /\ \A s \in Runners \ {r} : runner'[s] = runner[s]
             /\ runner[r].job \in Jobs => rows'[runner[r].job] = row
             /\ \A i \in Jobs \ {runner[r].job} : rows'[i] = rows[i]
  BY <1>7 DEF RunnerWrite, TypeOK
<1>8. CASE RunnerNoHandler(r)
  <2> DEFINE row == MarkTerminal(rows[runner[r].job], "dead_lettered")
  <2>1. RunnerWrite(r, row) /\ runner[r].job \in Jobs
    BY <1>8, <1>b DEF RunnerNoHandler
  <2>2. row.status = "dead_lettered" /\ row.attempt = rows[runner[r].job].attempt
    BY <1>8, <1>b, RowColumns DEF RunnerNoHandler
  <2> HIDE DEF row
  <2> QED
    BY <2>1, <2>2, <1>7 DEF Releases, Files
<1>9. CASE RunnerReturns(r)
  <2>1. PICK s \in {"succeeded", "partial"} :
          RunnerWrite(r, MarkTerminal(rows[runner[r].job], s))
    BY <1>9 DEF RunnerReturns
  <2> DEFINE row == MarkTerminal(rows[runner[r].job], s)
  <2>2. RunnerWrite(r, row) /\ runner[r].job \in Jobs
    BY <2>1, <1>9, <1>b DEF RunnerReturns
  <2>3. row.status = s /\ row.attempt = rows[runner[r].job].attempt
    BY <1>9, <1>b, RowColumns DEF RunnerReturns
  <2> HIDE DEF row
  <2> QED
    BY <2>2, <2>3, <1>7 DEF Releases, Files
<1>10. CASE RunnerExcept(r)
  <2> DEFINE kept == MarkRetryable(rows[runner[r].job])
             lost == MarkTerminal(rows[runner[r].job], "dead_lettered")
             row == IF runner[r].snap + 1 < MaxAttempts THEN kept ELSE lost
  <2>1. /\ RunnerWrite(r, row) /\ runner[r].job \in Jobs
        /\ runner[r].pc = "raised"
    BY <1>10, <1>b DEF RunnerExcept
  <2>2. /\ kept.status = "failed_retryable"
        /\ kept.attempt = rows[runner[r].job].attempt
        /\ lost.status = "dead_lettered"
        /\ lost.attempt = rows[runner[r].job].attempt
    BY <1>10, <1>b, RowColumns DEF RunnerExcept
  <2> HIDE DEF kept, lost
  <2>3. \/ row = kept /\ runner[r].snap + 1 < MaxAttempts
        \/ row = lost
    OBVIOUS
  <2> HIDE DEF row
  <2>4. /\ runner'[r] = IdleRunner /\ rq' = rq
        /\ rows'[runner[r].job] = row
        /\ \A s \in Runners \ {r} : runner'[s] = runner[s]
        /\ \A i \in Jobs \ {runner[r].job} : rows'[i] = rows[i]
    BY <2>1, <1>7
  <2>5. Files(r)
    BY <2>1, <2>2, <2>3, <2>4 DEF Files
  <2> QED
    BY <2>4, <2>5 DEF Releases
<1> QED
  BY <1>1, <1>2, <1>3, <1>4, <1>5, <1>6, <1>8, <1>9, <1>10 DEF RunnerStep

(* Without polling workers every step is one of these.                     *)
LEMMA Steps ==
  ASSUME Deployed, [Next]_vars
  PROVE  \/ \E r \in Runners : RunnerStep(r)
         \/ OtherStep
         \/ UNCHANGED vars
BY DEF Deployed, Next, OtherStep

(* No message for an otc job reaches the background queue: callers route   *)
(* by job, and the retry endpoint always uses the default queue.           *)
LEMMA ServedStep ==
  ASSUME Deployed, TypeOK, ScanFresh, Served, [Next]_vars
  PROVE  Served'
<1> SUFFICES ASSUME NEW k \in OtcJobs
             PROVE  /\ rq'["background"][k] = 0
                    /\ \A r \in Runners : runner'[r].job = k => Serves[r] = "otc"
  BY DEF Served
<1>a. k \in Jobs /\ k \notin Background /\ k # None
  BY JobsAssumption DEF OtcJobs
<1>b. /\ rq["background"][k] = 0
      /\ \A r \in Runners : runner[r].job = k => Serves[r] = "otc"
  BY DEF Served
<1>1. ASSUME NEW r \in Runners, RunnerStep(r)
      PROVE  /\ rq'["background"][k] = 0
             /\ \A s \in Runners : runner'[s].job = k => Serves[s] = "otc"
  <2>1. \A s \in Runners \ {r} : runner'[s] = runner[s]
    BY <1>1, RunnerMoves
  <2>2. ASSUME NEW j \in Jobs, RunnerTake(r, j)
        PROVE  /\ rq'["background"][k] = 0
               /\ runner'[r].job = k => Serves[r] = "otc"
    <3>1. CASE j # k
      BY <3>1, <2>2, <1>a, <1>b DEF RunnerTake, TypeOK, IdleRunner, Queues
    <3>2. CASE j = k
      <4>1. Serves[r] # "background"
        BY <3>2, <2>2, <1>b DEF RunnerTake
      <4> QED
        BY <3>2, <2>2, <4>1, <1>a, <1>b, JobsAssumption
           DEF RunnerTake, TypeOK, IdleRunner, Queues
    <3> QED
      BY <3>1, <3>2
  <2>3. CASE rq' = rq /\ (Advances(r) \/ Releases(r))
    BY <2>1, <2>3, <1>a, <1>b DEF Advances, Releases, IdleRunner
  <2> QED
    BY <1>1, <1>b, <2>1, <2>2, <2>3, RunnerMoves
<1>2. CASE OtherStep
  <2>1. runner' = runner
    BY <1>2, <1>a, OtherMoves
  <2>2. rq'["background"][k] = 0
    <3>1. ASSUME NEW c \in Callers, CallerPush(c)
          PROVE  rq'["background"][k] = 0
      BY <3>1, <1>a, <1>b DEF CallerPush, Push, QueueOf, TypeOK, Queues
    <3>2. CASE AdminPush
      BY <3>2, <1>a, <1>b DEF AdminPush, Push, TypeOK, Queues
    <3>3. CASE rq' = rq
      BY <3>3, <1>b
    <3>4. ASSUME NEW c \in Callers, CallerStep(c)
          PROVE  rq' = rq \/ CallerPush(c)
      BY <3>4 DEF CallerStep, CallerGate, CallerCancel, CallerCreate, CallerFails
    <3>5. ASSUME SchedStep PROVE rq' = rq
      BY <3>5 DEF SchedStep, SchedScan, SchedRequeue, SchedScanExhausted,
                  SchedDeadLetter, SchedSkips, SchedAborts, SchedDone
    <3>6. ASSUME AdminStep PROVE rq' = rq \/ AdminPush
      BY <3>6 DEF AdminStep, AdminRead, AdminWrite, AdminFails
    <3>7. ASSUME SetPause \/ \E j \in Jobs : BackoffElapses(j) \/ WindowCloses(j)
          PROVE  rq' = rq
      BY <3>7 DEF SetPause, BackoffElapses, WindowCloses
    <3> QED
      BY <1>2, <3>1, <3>2, <3>3, <3>4, <3>5, <3>6, <3>7 DEF OtherStep
  <2> QED
    BY <1>b, <2>1, <2>2
<1>3. CASE UNCHANGED vars
  BY <1>3, <1>b DEF vars
<1> QED
  BY <1>1, <1>2, <1>3, Steps

(* Once a result is filed nobody holds the job: the one work-horse that    *)
(* could let go of it when it filed, and run_job_run skips it afterwards.  *)
LEMMA SettledStep ==
  ASSUME Deployed, TypeOK, ScanFresh, Served, Settled, [Next]_vars
  PROVE  Settled'
<1> SUFFICES ASSUME NEW k \in OtcJobs, NEW s \in Runners,
                    \/ rows'[k].status = "succeeded"
                    \/ rows'[k].status = "partial"
             PROVE  runner'[s].job # k
  BY DEF Settled
<1>a. k \in Jobs /\ k # None
  BY JobsAssumption DEF OtcJobs
<1>b. rows[k].status = "succeeded" \/ rows[k].status = "partial"
        => runner[s].job # k
  BY DEF Settled
<1>1. ASSUME NEW r \in Runners, RunnerStep(r) PROVE runner'[s].job # k
  <2>1. \A o \in Runners \ {r} : runner'[o] = runner[o]
    BY <1>1, RunnerMoves
  <2>2. ASSUME NEW j \in Jobs, RunnerTake(r, j) PROVE runner'[s].job # k
    BY <2>1, <2>2, <1>a, <1>b
       DEF RunnerTake, TypeOK, IdleRunner, RunnerTerminal
  <2>3. CASE Advances(r)
    <3>1. rows'[k] = rows[k] \/ rows'[k].status = "running"
      BY <2>3, <1>a DEF Advances, Fetches, Marks, Raises
    <3> QED
      BY <2>1, <2>3, <3>1, <1>b DEF Advances
  <2>4. CASE Releases(r)
    <3>1. runner'[r].job # k
      BY <2>4, <1>a DEF Releases, IdleRunner
    <3>2. runner[r].job # k => rows'[k] = rows[k]
      BY <2>4, <1>a DEF Releases, Files
    <3>3. runner[r].job = k /\ s # r => runner[s].job # k
      BY DEF Served, Deployed
    <3> QED
      BY <2>1, <3>1, <3>2, <3>3, <1>b
  <2> QED
    BY <1>1, <2>2, <2>3, <2>4, RunnerMoves
<1>2. CASE OtherStep
  <2>1. runner' = runner /\ (RowKept(k) \/ RowCreated(k) \/ RowRewritten(k))
    BY <1>2, <1>a, OtherMoves
  <2> QED
    BY <2>1, <1>b DEF RowKept, RowCreated, RowRewritten
<1>3. CASE UNCHANGED vars
  BY <1>3, <1>b DEF vars
<1> QED
  BY <1>1, <1>2, <1>3, Steps

(* The snapshot stays good enough ...                                      *)
LEMMA SnapshotStep ==
  ASSUME Deployed, TypeOK, TypeOK', ScanFresh, Served, Snapshot, [Next]_vars
  PROVE  Snapshot'
<1> DEFINE Good(a, st) ==
             /\ st.pc = "loaded" => a <= st.snap \/ a <= RetryBelow
             /\ st.pc = "marking" => st.fresh <= st.snap \/ st.fresh <= RetryBelow
             /\ st.pc = "running" \/ st.pc = "raised" =>
                  a <= st.snap + 1 \/ a <= RetryBelow + 1
<1> SUFFICES ASSUME NEW k \in OtcJobs, NEW s \in Runners, runner'[s].job = k
             PROVE  Good(rows'[k].attempt, runner'[s])
  BY DEF Snapshot
<1>a. k \in Jobs /\ k # None
  BY JobsAssumption DEF OtcJobs
<1>b. runner[s].job = k => Good(rows[k].attempt, runner[s])
  BY DEF Snapshot
<1>c. /\ rows[k].attempt \in Nat /\ rows'[k].attempt \in Nat
      /\ runner[s].snap \in Nat /\ runner[s].fresh \in Nat
      /\ runner'[s].snap \in Nat /\ runner'[s].fresh \in Nat
  BY <1>a DEF TypeOK, Row, RunnerState
<1>d. RetryBelow \in Nat
  BY BoundsAssumption
<1>1. ASSUME NEW r \in Runners, RunnerStep(r)
      PROVE  Good(rows'[k].attempt, runner'[s])
  <2>1. \A o \in Runners \ {r} : runner'[o] = runner[o]
    BY <1>1, RunnerMoves
  <2>2. ASSUME NEW j \in Jobs, RunnerTake(r, j)
        PROVE  Good(rows'[k].attempt, runner'[s])
    <3>1. rows' = rows
      BY <2>2 DEF RunnerTake
    <3>2. CASE runner'[s] = runner[s]
      BY <3>1, <3>2, <1>b
    <3>3. CASE runner'[s] # runner[s]
      <4>1. s = r /\ runner'[s] = [IdleRunner EXCEPT !.pc = "loaded", !.job = j,
                                                    !.snap = rows[j].attempt]
        BY <3>3, <2>1, <2>2 DEF RunnerTake, TypeOK
      <4>2. /\ runner'[s].pc = "loaded" /\ runner'[s].job = j
            /\ runner'[s].snap = rows[j].attempt
        BY <4>1 DEF IdleRunner
      <4> QED
        BY <4>2, <3>1, <1>c
    <3> QED
      BY <3>2, <3>3
  <2>3. CASE Advances(r)
    <3>1. CASE s = r
      <4>1. runner[s].job = k
        BY <3>1, <2>3 DEF Advances
      <4>2. CASE Fetches(r)
        BY <3>1, <4>1, <4>2, <2>3, <1>b, <1>c, <1>d DEF Advances, Fetches
      <4>3. CASE Marks(r)
        BY <3>1, <4>1, <4>3, <2>3, <1>b, <1>c, <1>d DEF Advances, Marks
      <4>4. CASE Raises(r)
        BY <3>1, <4>1, <4>4, <2>3, <1>b, <1>c, <1>d DEF Advances, Raises
      <4> QED
        BY <4>2, <4>3, <4>4, <2>3 DEF Advances
    <3>2. CASE s # r
      <4>1. runner'[s] = runner[s] /\ runner[s].job = k
        BY <3>2, <2>1
      <4>2. runner[r].job # k
        BY <3>2, <4>1 DEF Served, Deployed
      <4>3. rows'[k] = rows[k]
        BY <2>3, <4>2, <1>a DEF Advances, Fetches, Marks, Raises
      <4> QED
        BY <4>1, <4>3, <1>b
    <3> QED
      BY <3>1, <3>2
  <2>4. CASE Releases(r)
    <3>1. s # r
      BY <2>4, <1>a DEF Releases, IdleRunner
    <3>2. runner'[s] = runner[s] /\ runner[s].job = k
      BY <3>1, <2>1
    <3>3. runner[r].job # k
      BY <3>1, <3>2 DEF Served, Deployed
    <3>4. rows'[k] = rows[k]
      BY <2>4, <3>3, <1>a DEF Releases, Files
    <3> QED
      BY <3>2, <3>4, <1>b
  <2> QED
    BY <1>1, <2>2, <2>3, <2>4, RunnerMoves
<1>2. CASE OtherStep
  <2>1. runner' = runner /\ (RowKept(k) \/ RowCreated(k) \/ RowRewritten(k))
    BY <1>2, <1>a, OtherMoves
  <2>2. rows'[k].attempt = rows[k].attempt \/ rows'[k].attempt <= RetryBelow
    BY <2>1 DEF RowKept, RowCreated, RowRewritten
  <2>3. Good(rows[k].attempt, runner[s])
    BY <2>1, <1>b
  <2> QED
    BY <2>1, <2>2, <2>3, <1>c, <1>d
<1>3. CASE UNCHANGED vars
  BY <1>3, <1>b DEF vars
<1> QED
  BY <1>1, <1>2, <1>3, Steps

(* ... so a row is put back only with attempts left.                       *)
LEMMA BudgetStep ==
  ASSUME Deployed, RetryBelow + 1 < MaxAttempts, TypeOK, ScanFresh, Served,
         Snapshot, RetryableHasBudget, [Next]_vars
  PROVE  RetryableHasBudget'
<1> SUFFICES ASSUME NEW k \in OtcJobs, rows'[k].status = "failed_retryable"
             PROVE  rows'[k].attempt < MaxAttempts
  BY DEF RetryableHasBudget, OtcJobs
<1>a. k \in Jobs
  BY DEF OtcJobs
<1>b. rows[k].status = "failed_retryable" => rows[k].attempt < MaxAttempts
  BY DEF RetryableHasBudget, OtcJobs
<1>c. rows[k].attempt \in Nat /\ RetryBelow \in Nat /\ MaxAttempts \in Nat
  BY <1>a, BoundsAssumption DEF TypeOK, Row
<1>1. ASSUME NEW r \in Runners, RunnerStep(r)
      PROVE  rows'[k].attempt < MaxAttempts
  <2>1. CASE rows' = rows
    BY <2>1, <1>b
  <2>2. ASSUME NEW j \in Jobs, RunnerTake(r, j) PROVE rows' = rows
    BY <2>2 DEF RunnerTake
  <2>3. CASE Advances(r)
    BY <2>3, <1>a, <1>b DEF Advances, Fetches, Marks, Raises
  <2>4. CASE Files(r)
    <3>1. CASE runner[r].job # k
      BY <3>1, <2>4, <1>a, <1>b DEF Files
    <3>2. CASE runner[r].job = k
      <4>1. /\ runner[r].pc = "raised" /\ runner[r].snap + 1 < MaxAttempts
            /\ rows'[k].attempt = rows[k].attempt
        BY <3>2, <2>4 DEF Files
      <4>2. \/ rows[k].attempt <= runner[r].snap + 1
            \/ rows[k].attempt <= RetryBelow + 1
        BY <3>2, <4>1 DEF Snapshot
      <4>3. runner[r].snap \in Nat
        BY DEF TypeOK, RunnerState
      <4> QED
        BY <4>1, <4>2, <4>3, <1>c
    <3> QED
      BY <3>1, <3>2
  <2> QED
    BY <1>1, <2>1, <2>2, <2>3, <2>4, RunnerMoves DEF Releases
<1>2. CASE OtherStep
  <2>1. RowKept(k) \/ RowCreated(k) \/ RowRewritten(k)
    BY <1>2, <1>a, OtherMoves
  <2> QED
    BY <2>1, <1>b DEF RowKept, RowCreated, RowRewritten
<1>3. CASE UNCHANGED vars
  BY <1>3, <1>b DEF vars
<1> QED
  BY <1>1, <1>2, <1>3, Steps

(* The invariant of the one-worker deployment.                             *)
LEMMA Deployment ==
  ASSUME Deployed
  PROVE  Spec => [](ScanFresh /\ Served /\ Settled /\ Snapshot)
<1> DEFINE I == ScanFresh /\ Served /\ Settled /\ Snapshot
<1>1. Init => I
  <2> SUFFICES ASSUME Init PROVE I
    OBVIOUS
  <2>1. ScanFresh
    BY DEF Init, ScanFresh, IdleSched
  <2>2. Served
    BY JobsAssumption DEF Init, Served, Queues, IdleRunner, OtcJobs
  <2>3. Settled
    BY JobsAssumption DEF Init, Settled, IdleRunner, OtcJobs
  <2>4. Snapshot
    BY JobsAssumption DEF Init, Snapshot, IdleRunner, OtcJobs
  <2> QED
    BY <2>1, <2>2, <2>3, <2>4
<1>2. TypeOK /\ TypeOK' /\ I /\ [Next]_vars => I'
  BY ScanFreshStep, ServedStep, SettledStep, SnapshotStep
<1> QED
  BY <1>1, <1>2, TypeCorrect, PTL DEF Spec

(* An otc row put back as failed_retryable has attempts left, in the       *)
(* deployment (no polling worker, one otc work-horse) and with the code's  *)
(* thresholds (2 + 1 < 5), for any number of jobs, calls, duplicates,      *)
(* retries and crashes.                                                    *)
THEOREM RetryableKeepsBudget ==
  ASSUME Deployed, RetryBelow + 1 < MaxAttempts
  PROVE  Spec => []RetryableHasBudget
<1>1. Init => RetryableHasBudget
  BY DEF Init, RetryableHasBudget, NoRow
<1>2. /\ TypeOK /\ ScanFresh /\ Served /\ Settled /\ Snapshot
      /\ RetryableHasBudget /\ [Next]_vars
      => RetryableHasBudget'
  BY BudgetStep
<1> QED
  BY <1>1, <1>2, TypeCorrect, Deployment, PTL DEF Spec

(* In that deployment a filed result of an otc job changes only through    *)
(* the administrator or a retry scan that had already selected the row.    *)
THEOREM ResultsStand ==
  ASSUME Deployed
  PROVE  Spec => ResultStands
<1> DEFINE Stands(j) ==
             /\ rows[j].status \in {"succeeded", "partial"}
             /\ j \notin sched.batch
             /\ admin.job # j
             => rows'[j].status = rows[j].status
<1>1. ASSUME TypeOK, ScanFresh, Settled, [Next]_vars, NEW k \in Jobs \ Background
      PROVE  Stands(k)
  <2> SUFFICES ASSUME rows[k].status = "succeeded" \/ rows[k].status = "partial",
                      k \notin sched.batch, admin.job # k
               PROVE  rows'[k].status = rows[k].status
    OBVIOUS
  <2>1. ASSUME NEW r \in Runners, RunnerStep(r) PROVE rows'[k] = rows[k]
    <3>1. runner[r].job # k
      BY <1>1 DEF Settled, OtcJobs
    <3>2. ASSUME NEW j \in Jobs, RunnerTake(r, j) PROVE rows' = rows
      BY <3>2 DEF RunnerTake
    <3>3. CASE Advances(r) \/ Releases(r)
      BY <3>1, <3>3 DEF Advances, Fetches, Marks, Raises, Releases, Files
    <3> QED
      BY <1>1, <2>1, <3>2, <3>3, RunnerMoves
  <2>2. CASE OtherStep
    <3>1. RowKept(k) \/ RowCreated(k) \/ RowRewritten(k)
      BY <1>1, <2>2, OtherMoves
    <3> QED
      BY <3>1 DEF RowKept, RowCreated, RowRewritten
  <2>3. CASE UNCHANGED vars
    BY <2>3 DEF vars
  <2> QED
    BY <1>1, <2>1, <2>2, <2>3, Steps
<1>2. TypeOK /\ ScanFresh /\ Settled /\ [Next]_vars
        => [\A j \in Jobs \ Background : Stands(j)]_vars
  BY <1>1
<1> QED
  BY <1>2, TypeCorrect, Deployment, PTL DEF Spec, ResultStands

-----------------------------------------------------------------------------
(* The message behind a queued row, in any deployment.                     *)

(* The premise and the conclusion of QueuedIsCarried; the faults are only  *)
(* counted down, so the premise excludes every step that is one.           *)
Fresh(j) == rows[j].status = "queued" /\ rows[j].attempt = 0

Carried(j) ==
  \/ \E q \in Queues : rq[q][j] > 0
  \/ \E c \in Callers : caller[c].pc = "push" /\ caller[c].job = j
  \/ admin.pc = "push" /\ admin.job = j
  \/ \E r \in Runners :
       runner[r].pc \in {"loaded", "marking"} /\ runner[r].job = j

FaultsCounted == budget.faults <= MaxFaults

LEMMA FaultsStep ==
  ASSUME TypeOK, FaultsCounted, [Next]_vars
  PROVE  /\ FaultsCounted'
         /\ budget'.faults = MaxFaults => ~Fault /\ budget.faults = MaxFaults
<1>a. budget \in [calls : Nat, retries : Nat, faults : Nat] /\ MaxFaults \in Nat
  BY BoundsAssumption DEF TypeOK
<1>1. Fault => budget'.faults \in Nat /\ budget'.faults < MaxFaults
  BY <1>a DEF Fault, FaultsCounted
<1>2. ASSUME \/ budget' = budget
             \/ budget' = [budget EXCEPT !.calls = budget.calls - 1]
             \/ budget' = [budget EXCEPT !.retries = budget.retries - 1]
      PROVE  budget'.faults = budget.faults
  BY <1>2, <1>a
<1>3. \/ Fault \/ budget' = budget
      \/ budget' = [budget EXCEPT !.calls = budget.calls - 1]
      \/ budget' = [budget EXCEPT !.retries = budget.retries - 1]
  <2>1. ASSUME NEW c \in Callers, CallerStep(c)
        PROVE  \/ Fault \/ budget' = budget
               \/ budget' = [budget EXCEPT !.calls = budget.calls - 1]
    BY <2>1 DEF CallerStep, CallerGate, CallerCancel, CallerCreate,
                CallerPush, CallerFails
  <2>2. ASSUME NEW r \in Runners, RunnerStep(r)
        PROVE  Fault \/ budget' = budget
    BY <2>2 DEF RunnerStep, RunnerTake, RunnerFetch, RunnerMark,
                RunnerNoHandler, RunnerReturns, RunnerRaises, RunnerExcept,
                RunnerLosesResult, RunnerCrash, RunnerWrite
  <2>3. ASSUME NEW p \in Pollers, PollerStep(p)
        PROVE  Fault \/ budget' = budget
    BY <2>3 DEF PollerStep, PollerClaim, PollerFinish, PollerCrash
  <2>4. SchedStep => Fault \/ budget' = budget
    BY DEF SchedStep, SchedScan, SchedRequeue, SchedScanExhausted,
           SchedDeadLetter, SchedSkips, SchedAborts, SchedDone
  <2>5. AdminStep => \/ Fault \/ budget' = budget
                     \/ budget' = [budget EXCEPT !.retries = budget.retries - 1]
    BY DEF AdminStep, AdminRead, AdminWrite, AdminPush, AdminFails
  <2>6. SetPause \/ UNCHANGED vars
          \/ (\E j \in Jobs : BackoffElapses(j) \/ WindowCloses(j))
          => budget' = budget
    BY DEF SetPause, vars, BackoffElapses, WindowCloses
  <2> QED
    BY <2>1, <2>2, <2>3, <2>4, <2>5, <2>6 DEF Next
<1>4. \/ budget'.faults = budget.faults
      \/ budget'.faults \in Nat /\ budget'.faults < MaxFaults
  BY <1>1, <1>2, <1>3
<1>5. budget.faults \in Nat
  BY <1>a
<1> QED
  BY <1>a, <1>1, <1>4, <1>5 DEF FaultsCounted

(* Whoever queues a row afresh, or takes its message, carries it.          *)
LEMMA CarriedStep ==
  ASSUME TypeOK, TypeOK', ~Fault, [Next]_vars, NEW k \in Jobs,
         Fresh(k) => Carried(k), Fresh(k)'
  PROVE  Carried(k)'
<1>a. rows[k] \in Row /\ rq \in [Queues -> [Jobs -> Nat]]
  BY DEF TypeOK
<1>1. ASSUME NEW c \in Callers, CallerStep(c) PROVE Carried(k)'
  <2>a. caller[c].pc # "idle" => caller[c].job \in Jobs
    BY DEF TypeOK, CallerState
  <2>b. UNCHANGED <<admin, runner>>
    BY <1>1 DEF CallerStep, CallerGate, CallerCancel, CallerCreate,
                CallerPush, CallerFails
  <2>c. \A d \in Callers \ {c} : caller'[d] = caller[d]
    BY <1>1 DEF CallerStep, CallerGate, CallerCancel, CallerCreate,
                CallerPush, CallerFails, TypeOK
  <2>1. ASSUME NEW j \in Jobs, CallerGate(c, j) PROVE Carried(k)'
    BY <2>1, <2>b, <2>c DEF CallerGate, Fresh, Carried
  <2>2. CASE CallerCancel(c)
    <3>1. Fresh(k)
      BY <2>2, <2>a, <1>a, RowColumns DEF CallerCancel, TypeOK, Fresh
    <3> QED
      BY <2>2, <2>b, <2>c, <3>1 DEF CallerCancel, Carried
  <2>3. CASE CallerCreate(c)
    <3>1. CASE caller[c].job = k
      <4>1. caller'[c] = IF rows'[k].status \in EnqueueTerminal THEN Idle
                         ELSE [pc |-> "push", job |-> k]
        BY <2>3, <3>1 DEF CallerCreate, TypeOK
      <4>2. caller'[c] = [pc |-> "push", job |-> k]
        BY <4>1 DEF Fresh, EnqueueTerminal
      <4> QED
        BY <4>2 DEF Carried
    <3>2. CASE caller[c].job # k
      <4>1. rows'[k] = rows[k]
        BY <2>3, <3>2 DEF CallerCreate, TypeOK
      <4> QED
        BY <2>3, <2>b, <2>c, <3>2, <4>1 DEF CallerCreate, Fresh, Carried
    <3> QED
      BY <3>1, <3>2
  <2>4. CASE CallerPush(c)
    <3> DEFINE j == caller[c].job
               q == QueueOf(j)
    <3>1. /\ j \in Jobs /\ q \in Queues
          /\ rq' = [rq EXCEPT ![q][j] = @ + 1]
      BY <2>4, <2>a DEF CallerPush, Push, QueueOf, Queues
    <3>2. /\ rq'[q][j] > 0
          /\ \A p \in Queues : rq[p][k] > 0 => rq'[p][k] > 0
      BY <3>1, <1>a
    <3>3. rows' = rows
      BY <2>4 DEF CallerPush
    <3> HIDE DEF q
    <3>4. CASE j = k
      BY <3>1, <3>2, <3>4 DEF Carried
    <3>5. CASE j # k
      BY <2>b, <2>c, <3>2, <3>3, <3>5 DEF Fresh, Carried
    <3> QED
      BY <3>4, <3>5
  <2>5. ~CallerFails(c)
    BY DEF CallerFails
  <2> QED
    BY <1>1, <2>1, <2>2, <2>3, <2>4, <2>5 DEF CallerStep
<1>2. ASSUME NEW r \in Runners, RunnerStep(r) PROVE Carried(k)'
  <2>a. UNCHANGED <<caller, admin>>
    BY <1>2 DEF RunnerStep, RunnerTake, RunnerFetch, RunnerMark,
                RunnerNoHandler, RunnerReturns, RunnerRaises, RunnerExcept,
                RunnerLosesResult, RunnerCrash, RunnerWrite
  <2>b. \A s \in Runners \ {r} : runner'[s] = runner[s]
    BY <1>2, RunnerMoves
  <2>1. ASSUME NEW j \in Jobs, RunnerTake(r, j) PROVE Carried(k)'
    <3>1. rows' = rows /\ runner[r].pc = "idle"
      BY <2>1 DEF RunnerTake
    <3>2. CASE j = k
      <4>1. rows[k].status \notin RunnerTerminal
        BY <3>1 DEF Fresh, RunnerTerminal
      <4>2. runner'[r] = [IdleRunner EXCEPT !.pc = "loaded", !.job = j,
                                            !.snap = rows[j].attempt]
        BY <2>1, <3>2, <4>1 DEF RunnerTake, TypeOK
      <4>3. runner'[r].pc = "loaded" /\ runner'[r].job = k
        BY <3>2, <4>2 DEF IdleRunner
      <4> QED
        BY <4>3 DEF Carried
    <3>3. CASE j # k
      <4>1. \A q \in Queues : rq'[q][k] = rq[q][k]
        BY <2>1, <3>3, <1>a DEF RunnerTake
      <4> QED
        BY <2>a, <2>b, <3>1, <4>1 DEF Fresh, Carried
    <3> QED
      BY <3>2, <3>3
  <2>2. CASE rq' = rq /\ Advances(r)
    <3>1. CASE Fetches(r)
      BY <2>2, <2>a, <2>b, <3>1 DEF Advances, Fetches, Fresh, Carried
    <3>2. CASE Marks(r)
      <4>1. runner[r].job # k
        BY <3>2 DEF Marks, Fresh
      <4> QED
        BY <2>2, <2>a, <2>b, <3>2, <4>1 DEF Marks, Fresh, Carried
    <3>3. CASE Raises(r)
      BY <2>2, <2>a, <2>b, <3>3 DEF Raises, Fresh, Carried
    <3> QED
      BY <2>2, <3>1, <3>2, <3>3 DEF Advances
  <2>3. CASE rq' = rq /\ Releases(r)
    <3>1. CASE Files(r)
      <4>1. runner[r].job # k
        BY <3>1 DEF Files, Fresh
      <4> QED
        BY <2>3, <2>a, <2>b, <3>1, <4>1 DEF Files, Fresh, Carried
    <3>2. CASE runner[r].pc \notin {"loaded", "marking"} /\ rows' = rows
      BY <2>3, <2>a, <2>b, <3>2 DEF Fresh, Carried
    <3>3. CASE runner[r].pc \in {"loaded", "marking"} /\ rows' = rows
      <4>1. RunnerFetch(r) \/ RunnerMark(r)
        BY <1>2, <2>3, <3>3
           DEF RunnerStep, RunnerTake, RunnerNoHandler, RunnerReturns,
               RunnerRaises, RunnerExcept, RunnerLosesResult, RunnerCrash
      <4>2. runner'[r].pc # "idle"
        <5>1. \/ \E n : runner'[r] = [runner[r] EXCEPT !.pc = "marking",
                                                       !.fresh = n]
              \/ runner'[r] = [runner[r] EXCEPT !.pc = "running"]
          BY <4>1 DEF RunnerFetch, RunnerMark, TypeOK
        <5>2. runner[r] \in RunnerState
          BY DEF TypeOK
        <5> QED
          BY <5>1, <5>2 DEF RunnerState
      <4> QED
        BY <2>3, <4>2 DEF Releases, IdleRunner
    <3> QED
      BY <2>3, <3>1, <3>2, <3>3 DEF Releases
  <2> QED
    BY <1>2, <2>1, <2>2, <2>3, RunnerMoves
<1>3. ASSUME NEW p \in Pollers, PollerStep(p) PROVE Carried(k)'
  <2>1. UNCHANGED <<rq, caller, runner, admin>>
    BY <1>3 DEF PollerStep, PollerClaim, PollerFinish, PollerCrash
  <2>2. Fresh(k)
    <3>1. ASSUME NEW j \in Jobs, PollerClaim(p, j) PROVE Fresh(k)
      <4>1. CASE j = k
        BY <3>1, <4>1, <1>a, RowColumns DEF PollerClaim, TypeOK, Fresh
      <4>2. CASE j # k
        BY <3>1, <4>2 DEF PollerClaim, TypeOK, Fresh
      <4> QED
        BY <4>1, <4>2
    <3>2. CASE PollerFinish(p)
      <4>1. CASE poller[p] = k
        BY <3>2, <4>1, <1>a, RowColumns DEF PollerFinish, TypeOK, Fresh
      <4>2. CASE poller[p] # k
        BY <3>2, <4>2 DEF PollerFinish, TypeOK, Fresh
      <4> QED
        BY <4>1, <4>2
    <3>3. ~PollerCrash(p)
      BY DEF PollerCrash
    <3> QED
      BY <1>3, <3>1, <3>2, <3>3 DEF PollerStep
  <2> QED
    BY <2>1, <2>2 DEF Carried
<1>4. ASSUME SchedStep PROVE Carried(k)'
  <2>1. UNCHANGED <<rq, caller, runner, admin>>
    BY <1>4 DEF SchedStep, SchedScan, SchedRequeue, SchedScanExhausted,
                SchedDeadLetter, SchedSkips, SchedAborts, SchedDone
  <2>2. Fresh(k)
    <3>1. ASSUME NEW j \in Jobs, SchedRequeue(j) PROVE Fresh(k)
      <4>1. CASE j = k
        <5>1. rows'[k].attempt = sched.seen[k] + 1
          BY <3>1, <4>1, <1>a, RowColumns DEF SchedRequeue, TypeOK
        <5>2. sched.seen[k] \in Nat
          BY DEF TypeOK, SchedState
        <5> QED
          BY <5>1, <5>2 DEF Fresh
      <4>2. CASE j # k
        BY <3>1, <4>2 DEF SchedRequeue, TypeOK, Fresh
      <4> QED
        BY <4>1, <4>2
    <3>2. ASSUME NEW j \in Jobs, SchedDeadLetter(j) PROVE Fresh(k)
      <4>1. CASE j = k
        BY <3>2, <4>1, <1>a, RowColumns DEF SchedDeadLetter, TypeOK, Fresh
      <4>2. CASE j # k
        BY <3>2, <4>2 DEF SchedDeadLetter, TypeOK, Fresh
      <4> QED
        BY <4>1, <4>2
    <3>3. CASE rows' = rows
      BY <3>3 DEF Fresh
    <3> QED
      BY <1>4, <3>1, <3>2, <3>3
         DEF SchedStep, SchedScan, SchedScanExhausted, SchedSkips,
             SchedAborts, SchedDone
  <2> QED
    BY <2>1, <2>2 DEF Carried
<1>5. ASSUME AdminStep PROVE Carried(k)'
  <2>a. UNCHANGED <<caller, runner>>
    BY <1>5 DEF AdminStep, AdminRead, AdminWrite, AdminPush, AdminFails
  <2>1. ASSUME NEW j \in Jobs, AdminRead(j) PROVE Carried(k)'
    <3>1. rows' = rows /\ rq' = rq /\ admin.pc # "push"
      BY <2>1 DEF AdminRead
    <3> QED
      BY <2>a, <3>1 DEF Fresh, Carried
  <2>2. CASE AdminWrite
    <3>1. admin'.pc = "push" /\ admin'.job = admin.job /\ rq' = rq
      BY <2>2 DEF AdminWrite, TypeOK, AdminState
    <3>2. CASE admin.job = k
      BY <3>1, <3>2 DEF Carried
    <3>3. CASE admin.job # k
      <4>1. rows'[k] = rows[k] /\ admin.pc # "push"
        BY <2>2, <3>3 DEF AdminWrite, TypeOK
      <4> QED
        BY <2>a, <3>1, <4>1 DEF Fresh, Carried
    <3> QED
      BY <3>2, <3>3
  <2>3. CASE AdminPush
    <3>1. /\ admin.job \in Jobs /\ "otc" \in Queues /\ rows' = rows
          /\ rq' = [rq EXCEPT !["otc"][admin.job] = @ + 1]
      BY <2>3 DEF AdminPush, Push, Queues, TypeOK, AdminState
    <3>2. /\ rq'["otc"][admin.job] > 0
          /\ \A p \in Queues : rq[p][k] > 0 => rq'[p][k] > 0
      BY <3>1, <1>a
    <3>3. CASE admin.job = k
      BY <3>1, <3>2, <3>3 DEF Carried
    <3>4. CASE admin.job # k
      BY <2>a, <3>1, <3>2, <3>4 DEF Fresh, Carried
    <3> QED
      BY <3>3, <3>4
  <2>4. ~AdminFails
    BY DEF AdminFails
  <2> QED
    BY <1>5, <2>1, <2>2, <2>3, <2>4 DEF AdminStep
<1>6. ASSUME NEW j \in Jobs, BackoffElapses(j) \/ WindowCloses(j)
      PROVE  Carried(k)'
  <2>1. UNCHANGED <<rq, caller, runner, admin>>
    BY <1>6 DEF BackoffElapses, WindowCloses
  <2>2. Fresh(k)
    <3>1. CASE j = k
      <4>1. \/ rows'[k] = [rows[k] EXCEPT !.runAfter = "due"]
            \/ rows'[k] = [rows[k] EXCEPT !.finishedAt = "old"]
        BY <1>6, <3>1 DEF BackoffElapses, WindowCloses, TypeOK
      <4>2. /\ rows'[k].status = rows[k].status
            /\ rows'[k].attempt = rows[k].attempt
        BY <4>1, <1>a DEF Row
      <4> QED
        BY <4>2 DEF Fresh
    <3>2. CASE j # k
      BY <1>6, <3>2 DEF BackoffElapses, WindowCloses, TypeOK, Fresh
    <3> QED
      BY <3>1, <3>2
  <2> QED
    BY <2>1, <2>2 DEF Carried
<1>7. CASE SetPause \/ UNCHANGED vars
  BY <1>7 DEF SetPause, vars, Fresh, Carried
<1> QED
  BY <1>1, <1>2, <1>3, <1>4, <1>5, <1>6, <1>7 DEF Next

(* A queued row is carried to a work-horse, for any number of jobs, calls, *)
(* workers of both kinds and uses of the retry endpoint: the only ways to  *)
(* strand one are a fault and the requeue of the retry scan.               *)
THEOREM QueuedCarried == Spec => []QueuedIsCarried
<1>1. Init => QueuedIsCarried /\ FaultsCounted
  BY BoundsAssumption DEF Init, QueuedIsCarried, FaultsCounted, NoRow
<1>2. /\ TypeOK /\ TypeOK' /\ QueuedIsCarried /\ FaultsCounted
      /\ [Next]_vars
      => QueuedIsCarried' /\ FaultsCounted'
  <2> SUFFICES ASSUME TypeOK, TypeOK', QueuedIsCarried, FaultsCounted,
                      [Next]_vars
               PROVE  QueuedIsCarried' /\ FaultsCounted'
    OBVIOUS
  <2>1. /\ FaultsCounted'
        /\ budget'.faults = MaxFaults => ~Fault /\ budget.faults = MaxFaults
    BY FaultsStep
  <2>2. ASSUME NEW k \in Jobs, Fresh(k)', budget'.faults = MaxFaults
        PROVE  Carried(k)'
    <3>1. Fresh(k) => Carried(k)
      BY <2>1, <2>2 DEF QueuedIsCarried, Fresh, Carried
    <3> QED
      BY <2>1, <2>2, <3>1, CarriedStep
  <2>3. QueuedIsCarried'
    BY <2>2 DEF QueuedIsCarried, Fresh, Carried
  <2> QED
    BY <2>1, <2>3
<1> QED
  BY <1>1, <1>2, TypeCorrect, PTL DEF Spec
=============================================================================
