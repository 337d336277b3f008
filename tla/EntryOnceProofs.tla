--------------------------- MODULE EntryOnceProofs ---------------------------
(***************************************************************************)
(* How often a suggestion can be at the broker: what keeps it out for      *)
(* every value of LiveEntry's constants, the one way in that is left, and  *)
(* that a single failure does not open it for entries of one contract.     *)
(***************************************************************************)
EXTENDS LiveEntryProofs, FiniteSetTheorems

(* Stages of the autopilot, and those with a row in hand.                  *)
Holding == {"stamp", "submit", "ack", "review"}
Piloting == Holding \cup {"pick"}

InHand(o) == job.pc \in Holding /\ job.order = o

(* What the dedup does not count.                                          *)
Uncounted == {"cancelled", "watchdog_cancelled", "needs_manual_review"}

(* A row has the day of its suggestion.                                    *)
Dated ==
  \A o \in Orders : Present(o) =>
    /\ sugg[orders[o].sug].status # "absent"
    /\ orders[o].day = sugg[orders[o].sug].day

(* The candidates of a run are of today, and what the run's one read of    *)
(* the dedup said of them still holds: none has a row that counts, nor is  *)
(* the row in hand of one of them. Polls and runs do not mix.              *)
Wanting ==
  /\ job.sugs # {} => job.pc \in Piloting
  /\ job.pc \in Piloting => job.polls = {}
  /\ job.pc = "cancel" => job.order \in job.polls
  /\ job.pc \in Holding => orders[job.order].sug \notin job.sugs
  /\ \A s \in job.sugs :
       /\ sugg[s].status # "absent" /\ sugg[s].day = day
       /\ \A o \in Orders :
            Present(o) /\ orders[o].sug = s => orders[o].status \in Uncounted

(* An order that cannot get to the broker any more, or a stale one nobody  *)
(* will poll again.                                                        *)
Spent(o) ==
  \/ ~Exposed(o) /\ ~InHand(o)
  \/ /\ orders[o].stale /\ o \notin job.polls
     /\ orders[o].status \in {"cancelled", "watchdog_cancelled"}

OneEntry ==
  \A o, p \in Orders :
    (o # p /\ Present(o) /\ Present(p) /\ orders[o].sug = orders[p].sug)
      => Spent(o) \/ Spent(p)

(* The way in that the dedup leaves open, closed: no order that is at the  *)
(* broker is held for review.                                              *)
ReviewedIsOut ==
  \A o \in Orders :
    orders[o].status = "needs_manual_review" => ~Exposed(o)

-----------------------------------------------------------------------------
(* Who rewrites a row: the autopilot the one in hand, the poll those it    *)
(* selected, and the sweep, Step 1.5 and the clock rows not written off.   *)
Rewrites(o) ==
  /\ orders'[o].day = orders[o].day
  /\ \/ /\ InHand(o)
        /\ orders'[o].status = "needs_manual_review" => job.pc = "review"
     \/ /\ job.pc \in {"poll", "cancel"} /\ o \in job.polls
        /\ orders'[o].status = "needs_manual_review" =>
             broker[o].state = "ended" /\ broker[o].fill > 0
     \/ /\ job.pc \in {"sweep", "repair", "resolve", "idle"}
        /\ orders[o].status \notin {"cancelled", "watchdog_cancelled"}
        /\ orders'[o].status = "needs_manual_review" =>
             orders[o].status = "needs_manual_review"

(* What the poll writes over a row.                                        *)
LEMMA MirroredFields ==
  ASSUME Fits, NEW o \in Orders
  PROVE  /\ Mirrored(o).day = orders[o].day
         /\ Mirrored(o).status = "needs_manual_review" =>
              broker[o].state = "ended" /\ broker[o].fill > 0
<1>1. orders[o] \in OrderRow /\ broker[o] \in BrokerRow /\ BrokerFits
  BY DEF Fits, TypeOK
<1>2. /\ broker[o].fill \in Nat
      /\ broker[o].state \in {"none", "live", "filled", "ended"}
      /\ broker[o].state = "none" => broker[o].fill = 0
  BY <1>1, Numbers DEF BrokerRow, BrokerFits
<1>3. StatusOf(broker[o]) = "needs_manual_review" =>
        broker[o].state = "ended" /\ broker[o].fill > 0
  <2>1. CASE broker[o].fill = 0
    BY <1>2, <2>1 DEF StatusOf
  <2>2. CASE broker[o].fill > 0
    BY <1>2, <2>2 DEF StatusOf
  <2> QED
    BY <1>2, <2>1, <2>2
<1> DEFINE st == StatusOf(broker[o])
           n == IF broker[o].fill > 0 THEN broker[o].fill ELSE orders[o].filled
<1>4. Mirrored(o) = [orders[o] EXCEPT !.status = st, !.filled = n,
                                      !.stale = FALSE]
  BY DEF Mirrored
<1> HIDE DEF st, n
<1>5. Mirrored(o).day = orders[o].day /\ Mirrored(o).status = st
  BY <1>1, <1>4 DEF OrderRow
<1> QED
  BY <1>3, <1>5 DEF st

(* What the sweep does to a row.                                           *)
LEMMA SweptFields ==
  ASSUME Fits, NEW fixed \in SUBSET Orphans, NEW got \in [InFlight -> 0..Qty],
         Swept(fixed, got), NEW o \in Orders
  PROVE  orders'[o] = orders[o] \/
           /\ orders'[o].day = orders[o].day
           /\ orders[o].status \notin {"cancelled", "watchdog_cancelled"}
           /\ orders'[o].status = "needs_manual_review" =>
                orders[o].status = "needs_manual_review"
<1> DEFINE kept == InFlight \ Stale
           booked == fixed \cup {p \in kept : got[p] > orders[p].filled}
           h == Home(o, booked)
           g == got[o]
<1>1. orders[o] \in OrderRow
  BY DEF Fits, TypeOK
<1>2. /\ o \in fixed => orders[o].status = "filled" /\ o \notin InFlight
      /\ o \in Stale => orders[o].status = "working"
      /\ o \in kept => orders[o].status \in {"staged", "working", "partial"}
      /\ kept \cap Stale = {} /\ Stale \subseteq InFlight
  BY DEF Orphans, InFlight, Stale
<1>3. orders'[o] = CASE o \in fixed -> [orders[o] EXCEPT !.link = h]
                     [] o \in Stale -> [orders[o] EXCEPT !.status = "cancelled",
                                                         !.stale = TRUE]
                     [] o \in kept -> Simulated(o, g, h)
                     [] OTHER -> orders[o]
  BY DEF Swept
<1> HIDE DEF h, g, booked
<1>4. CASE o \in fixed
  <2>1. orders'[o] = [orders[o] EXCEPT !.link = h]
    BY <1>2, <1>3, <1>4
  <2> QED
    BY <1>1, <1>2, <1>4, <2>1 DEF OrderRow
<1>5. CASE o \notin fixed /\ o \in Stale
  <2>1. orders'[o] = [orders[o] EXCEPT !.status = "cancelled", !.stale = TRUE]
    BY <1>2, <1>3, <1>5
  <2> QED
    BY <1>1, <1>2, <1>5, <2>1 DEF OrderRow
<1>6. CASE o \notin fixed /\ o \notin Stale /\ o \in kept
  <2>1. orders'[o] = Simulated(o, g, h)
    BY <1>2, <1>3, <1>6
  <2> DEFINE st == IF g = Qty THEN "filled" ELSE "partial"
  <2>2. st \in {"filled", "partial"}
    OBVIOUS
  <2>3. \/ orders'[o] = [orders[o] EXCEPT !.filled = g, !.link = h, !.status = st]
        \/ orders'[o] = [orders[o] EXCEPT !.status = "working", !.age = "fresh"]
        \/ orders'[o] = orders[o]
    BY <2>1 DEF Simulated
  <2> HIDE DEF st
  <2> QED
    BY <1>1, <1>2, <1>6, <2>2, <2>3 DEF OrderRow
<1>7. CASE o \notin fixed /\ o \notin Stale /\ o \notin kept
  BY <1>3, <1>7
<1> QED
  BY <1>4, <1>5, <1>6, <1>7

(* Every step leaves a row alone or rewrites it so.                        *)
LEMMA Rewriting ==
  ASSUME Fits, Wanting, Next, NEW o \in Orders, Present(o)
  PROVE  orders'[o] = orders[o] \/ Rewrites(o)
<1>1. orders \in [Orders -> OrderRow] /\ orders[o] \in OrderRow
  BY DEF Fits, TypeOK
<1>2. \A p \in Orders : \A row : Set(p, row) =>
        orders'[p] = row /\ (p # o => orders'[o] = orders[o])
  BY <1>1 DEF Set
<1>3. CASE Stamp \/ Ack \/ Review
  <2> DEFINE p == job.order
  <2>1. p \in Orders /\ job.pc \in Holding /\ orders[p] \in OrderRow
    BY <1>3 DEF Stamp, Ack, Review, Fits, JobFits, TypeOK, Holding
  <2>2. CASE UNCHANGED orders
    BY <2>2
  <2>3. CASE Set(p, [orders[p] EXCEPT !.coid = TRUE]) /\ job.pc = "stamp"
    <3> DEFINE row == [orders[p] EXCEPT !.coid = TRUE]
    <3>0. Set(p, row)
      BY <2>3
    <3> HIDE DEF row
    <3>1. \/ p # o /\ orders'[o] = orders[o]
          \/ p = o /\ orders'[o] = row
      BY <1>2, <2>1, <3>0
    <3>2. orders[p].status = "staged"
      BY <2>3 DEF Fits, JobFits
    <3>3. CASE p = o /\ orders'[o] = row
      <4>1. orders'[o].day = orders[o].day /\ orders'[o].status = "staged"
        BY <1>1, <3>2, <3>3 DEF OrderRow, row
      <4> QED
        BY <2>1, <3>3, <4>1 DEF Rewrites, InHand
    <3> QED
      BY <3>1, <3>3
  <2>4. CASE Set(p, Submitted(p))
    <3>1. \/ p # o /\ orders'[o] = orders[o]
          \/ p = o /\ orders'[o] = Submitted(o)
      BY <1>2, <2>1, <2>4
    <3> QED
      BY <1>1, <2>1, <3>1 DEF Rewrites, InHand, OrderRow, Submitted
  <2>5. CASE /\ Set(p, [orders[p] EXCEPT !.status = "needs_manual_review"])
             /\ job.pc = "review"
    <3>1. \/ p # o /\ orders'[o] = orders[o]
          \/ p = o /\ orders'[o] = [orders[o] EXCEPT
                                      !.status = "needs_manual_review"]
      BY <1>2, <2>1, <2>5
    <3> QED
      BY <1>1, <2>1, <2>5, <3>1 DEF Rewrites, InHand, OrderRow
  <2> QED
    BY <1>3, <2>2, <2>3, <2>4, <2>5 DEF Stamp, Ack, Review
<1>4. ASSUME NEW p \in Orders, p \in job.polls, job.pc \in {"poll", "cancel"},
             Set(p, Mirrored(p))
      PROVE  orders'[o] = orders[o] \/ Rewrites(o)
  <2>1. \/ p # o /\ orders'[o] = orders[o]
        \/ p = o /\ orders'[o] = Mirrored(o)
    BY <1>2, <1>4
  <2> QED
    BY <1>4, <2>1, MirroredFields DEF Rewrites
<1>5. ASSUME NEW p \in Orders, Poll(p)
      PROVE  orders'[o] = orders[o] \/ Rewrites(o)
  BY <1>4, <1>5 DEF Poll, Reconcile
<1>6. CASE Refetch
  <2> DEFINE p == job.order
  <2>1. p \in Orders /\ p \in job.polls /\ job.pc = "cancel"
    BY <1>6 DEF Refetch, Fits, JobFits, Wanting
  <2>2. CASE Set(p, [orders[p] EXCEPT !.status = "watchdog_cancelled"])
    <3>1. \/ p # o /\ orders'[o] = orders[o]
          \/ p = o /\ orders'[o] = [orders[o] EXCEPT
                                      !.status = "watchdog_cancelled"]
      BY <1>2, <2>1, <2>2
    <3> QED
      BY <1>1, <2>1, <3>1 DEF Rewrites, OrderRow
  <2>3. CASE Set(p, Mirrored(p))
    BY <1>4, <2>1, <2>3
  <2> QED
    BY <1>6, <2>2, <2>3 DEF Refetch, Refetched, Reconcile
<1>7. CASE Sweep
  <2>1. PICK got \in [InFlight -> 0..Qty], fixed \in SUBSET Orphans :
          Swept(fixed, got)
    BY <1>7 DEF Sweep
  <2>2. job.pc \in {"sweep", "repair"}
    BY <1>7 DEF Sweep
  <2> QED
    BY <2>1, <2>2, SweptFields DEF Rewrites
<1>8. CASE Resolve
  <2>1. PICK found \in SUBSET Lost :
          orders' = [p \in Orders |-> IF p \in found THEN Resolved(p)
                                                     ELSE orders[p]]
    BY <1>8 DEF Resolve
  <2>2. job.pc = "resolve"
    BY <1>8 DEF Resolve
  <2>3. \/ orders'[o] = orders[o]
        \/ /\ orders[o].status \in {"needs_manual_review", "submitted", "working"}
           /\ \/ orders'[o] = Submitted(o)
              \/ orders'[o] = [orders[o] EXCEPT !.status = "cancelled"]
    BY <2>1 DEF Resolved, Lost
  <2> QED
    BY <1>1, <2>2, <2>3 DEF Rewrites, Submitted, OrderRow
<1>9. ASSUME NEW p \in Orders, Older(p)
      PROVE  orders'[o] = orders[o] \/ Rewrites(o)
  <2>1. PICK a \in {"idle", "old"} : Set(p, [orders[p] EXCEPT !.age = a])
    BY <1>9 DEF Older
  <2>2. \/ p # o /\ orders'[o] = orders[o]
        \/ p = o /\ orders'[o] = [orders[o] EXCEPT !.age = a]
    BY <1>2, <2>1
  <2>3. /\ job.pc = "idle"
        /\ orders[p].status \in {"submitted", "working"}
    BY <1>9 DEF Older, Idle
  <2> QED
    BY <1>1, <2>2, <2>3 DEF Rewrites, OrderRow
<1>10. ASSUME NEW s \in Suggestions, PickStage(s)
       PROVE  orders'[o] = orders[o]
  <2>1. PICK n \in Orders : /\ ~Present(n)
                            /\ \A p \in Orders \ {n} : orders'[p] = orders[p]
    BY <1>10, Staged DEF Fits
  <2> QED
    BY <2>1
<1> QED
  BY <1>3, <1>5, <1>6, <1>7, <1>8, <1>9, <1>10, Touching DEF Touches

(* How the worker's job goes on: rows are polled that were pollable when   *)
(* the sync started, a row gets into the autopilot's hand by being staged, *)
(* and candidates come from the start of a run alone.                      *)
Hands ==
  /\ job'.polls \subseteq job.polls \cup Pollable
  /\ job'.pc = "cancel" => job'.order \in job'.polls
  /\ job'.pc \in Piloting => job'.polls = {}
  /\ job'.pc \in Holding =>
       \/ job.pc \in Holding /\ job'.order = job.order
       \/ \E s \in Suggestions : PickStage(s)
  /\ job'.sugs # {} =>
       \/ RunStart
       \/ /\ job.pc \in Piloting /\ job'.pc \in Piloting
          /\ job'.sugs \subseteq job.sugs

(* Every step goes on so.                                                  *)
LEMMA Handing == ASSUME Fits, Wanting, Next PROVE Hands
<1> DEFINE Calm == {"idle", "poll", "sweep", "resolve", "repair", "bench",
                    "ingest", "evaluate", "trip", "mark"}
<1>1. job \in JobState
  BY DEF Fits, TypeOK
<1>2. /\ IdleJob.pc = "idle" /\ IdleJob.sugs = {} /\ IdleJob.polls = {}
      /\ IdleJob \in JobState
  BY Numbers DEF IdleJob, JobState
<1>3. ASSUME job'.pc \in Calm, job'.sugs = {},
             job'.polls \subseteq job.polls \cup Pollable
      PROVE  Hands
  BY <1>3 DEF Hands, Piloting, Holding
<1>4. ASSUME job' = IdleJob PROVE Hands
  BY <1>2, <1>3, <1>4
<1>5. ASSUME job' = job PROVE Hands
  BY <1>5 DEF Hands, Wanting
<1>6. ASSUME job.pc \notin Piloting PROVE job.sugs = {}
  BY <1>6 DEF Wanting
<1>7. ASSUME NEW pc \in Calm, Goes(pc), job.pc \notin Piloting PROVE Hands
  <2>1. job'.pc = pc /\ job'.sugs = job.sugs /\ job'.polls = job.polls
    BY <1>1, <1>7 DEF Goes, JobState
  <2> QED
    BY <1>3, <1>6, <1>7, <2>1
<1>8. ASSUME NEW o, NEW pc \in {"poll", "sweep"}, Polled(o, pc),
             job.pc \notin Piloting
      PROVE  Hands
  <2>1. /\ job'.pc = pc /\ job'.sugs = job.sugs
        /\ job'.polls \subseteq job.polls
    BY <1>1, <1>8 DEF Polled, JobState
  <2> QED
    BY <1>3, <1>6, <1>8, <2>1
<1>9. ASSUME job.pc \in Piloting, job'.pc \in Piloting, job'.polls = job.polls,
             job'.sugs \subseteq job.sugs,
             job'.pc = "pick" \/ (job.pc \in Holding /\ job'.order = job.order)
               \/ \E s \in Suggestions : PickStage(s)
      PROVE  Hands
  BY <1>9 DEF Hands, Wanting, Piloting, Holding
<1>10. ASSUME job.pc \in {"submit", "ack"}, Again PROVE Hands
  <2>1. /\ job'.pc \in {"submit", "review"} /\ job'.sugs = job.sugs
        /\ job'.polls = job.polls /\ job'.order = job.order
    BY <1>1, <1>10 DEF Again, JobState
  <2> QED
    BY <1>9, <1>10, <2>1 DEF Piloting, Holding
<1>11. ASSUME NEW pc \in Holding, job.pc \in Holding, Goes(pc) PROVE Hands
  <2>1. /\ job'.pc = pc /\ job'.sugs = job.sugs /\ job'.polls = job.polls
        /\ job'.order = job.order
    BY <1>1, <1>11 DEF Goes, JobState
  <2> QED
    BY <1>9, <1>11, <2>1 DEF Piloting
<1>12. ASSUME job.pc \in Holding, NextPick PROVE Hands
  <2>1. job'.pc = "pick" /\ job'.sugs = job.sugs /\ job'.polls = {}
    BY <1>2, <1>12 DEF NextPick, Picking, JobState
  <2>2. job.polls = {}
    BY <1>12 DEF Wanting, Piloting
  <2> QED
    BY <1>9, <1>12, <2>1, <2>2 DEF Piloting
<1>13. ASSUME NEW s \in Suggestions, job.pc = "pick", job' = Picked(s)
       PROVE  Hands
  <2>1. /\ job'.pc = "pick" /\ job'.sugs \subseteq job.sugs
        /\ job'.polls = job.polls
    BY <1>1, <1>13 DEF Picked, JobState
  <2> QED
    BY <1>9, <1>13, <2>1 DEF Piloting
<1>14. CASE Autopilot
  <2>1. CASE RunStart
    <3>1. PICK S, b : job' = Picking(S, b)
      BY <2>1 DEF RunStart
    <3>2. job'.pc = "pick" /\ job'.polls = {}
      BY <1>2, <3>1 DEF JobState, Picking
    <3> QED
      BY <2>1, <3>2 DEF Hands, Holding
  <2>2. CASE Stamp
    BY <1>11, <2>2 DEF Stamp, Holding
  <2>3. CASE Submit
    BY <1>10, <1>11, <2>3 DEF Submit, Holding
  <2>4. CASE SubmitDuplicate
    <3>1. CASE job' = [job EXCEPT !.pc = "ack", !.dup = TRUE]
      <4>1. /\ job'.pc = "ack" /\ job'.sugs = job.sugs
            /\ job'.polls = job.polls /\ job'.order = job.order
        BY <1>1, <3>1 DEF JobState
      <4>2. job.pc = "submit"
        BY <2>4 DEF SubmitDuplicate
      <4> QED
        BY <1>9, <4>1, <4>2 DEF Piloting, Holding
    <3> QED
      BY <1>10, <2>4, <3>1 DEF SubmitDuplicate
  <2>5. CASE Ack
    BY <1>10, <1>12, <2>5 DEF Ack, Holding
  <2>6. CASE Review
    BY <1>12, <2>6 DEF Review, Holding
  <2>7. CASE RunDone
    BY <1>4, <2>7 DEF RunDone
  <2>8. ASSUME NEW s \in Suggestions, PickSkip(s) \/ PickUnexecutable(s)
        PROVE  Hands
    BY <1>13, <2>8 DEF PickSkip, PickUnexecutable
  <2>9. ASSUME NEW s \in Suggestions, PickStage(s) PROVE Hands
    <3>1. PICK o \in Orders :
            job' = [job EXCEPT !.sugs = @ \ {s}, !.pc = "stamp", !.order = o]
      BY <2>9, Staged DEF Fits
    <3>2. /\ job'.pc = "stamp" /\ job'.sugs \subseteq job.sugs
          /\ job'.polls = job.polls
      BY <1>1, <3>1 DEF JobState
    <3>3. job.pc = "pick"
      BY <2>9 DEF PickStage
    <3> QED
      BY <1>9, <2>9, <3>2, <3>3 DEF Piloting, Holding
  <2> QED
    BY <1>14, <2>1, <2>2, <2>3, <2>4, <2>5, <2>6, <2>7, <2>8, <2>9 DEF Autopilot
<1>15. CASE Sync
  <2>1. CASE SyncStart
    <3>1. PICK L : job' = [IdleJob EXCEPT !.pc = "poll", !.polls = Pollable,
                                         !.linked = L]
      BY <2>1 DEF SyncStart
    <3>2. job'.pc = "poll" /\ job'.sugs = {} /\ job'.polls = Pollable
      BY <1>2, <3>1 DEF JobState
    <3> QED
      BY <1>3, <3>2
  <2>2. CASE Refetch
    <3>1. job.pc = "cancel" /\ \E pc \in {"poll", "sweep"} : Polled(job.order, pc)
      BY <2>2 DEF Refetch, Refetched, Reconcile
    <3> QED
      BY <1>8, <3>1 DEF Piloting, Holding
  <2>3. CASE RefetchFails
    BY <1>8, <2>3 DEF RefetchFails, Piloting, Holding
  <2>4. CASE Sweep
    BY <1>4, <1>7, <2>4 DEF Sweep, Piloting, Holding
  <2>5. CASE PollDone
    BY <1>7, <2>5 DEF PollDone, Piloting, Holding
  <2>6. CASE Resolve
    BY <1>4, <1>7, <2>6 DEF Resolve, Piloting, Holding
  <2>7. ASSUME NEW o \in Orders, Poll(o) PROVE Hands
    <3>1. job.pc = "poll" /\ \E pc \in {"poll", "sweep"} : Polled(o, pc)
      BY <2>7 DEF Poll, Reconcile
    <3> QED
      BY <1>8, <3>1 DEF Piloting, Holding
  <2>8. ASSUME NEW o \in Orders, PollFails(o) PROVE Hands
    BY <1>8, <2>8 DEF PollFails, Piloting, Holding
  <2>9. ASSUME NEW o \in Orders, Watchdog(o) PROVE Hands
    <3>1. job.pc = "poll" /\ o \in job.polls
      BY <2>9 DEF Watchdog
    <3>2. /\ job'.pc = "cancel" /\ job'.order = o
          /\ job'.polls = job.polls /\ job'.sugs = job.sugs
      BY <1>1, <2>9 DEF Watchdog, JobState
    <3> QED
      BY <1>6, <3>1, <3>2 DEF Hands, Piloting, Holding
  <2> QED
    BY <1>15, <2>1, <2>2, <2>3, <2>4, <2>5, <2>6, <2>7, <2>8, <2>9 DEF Sync
<1>16. CASE Breaker
  <2>1. CASE IngestStart
    <3>1. job' = [IdleJob EXCEPT !.pc = "ingest"]
      BY <2>1 DEF IngestStart
    <3>2. job'.pc = "ingest" /\ job'.sugs = {} /\ job'.polls = {}
      BY <1>2, <3>1 DEF JobState
    <3> QED
      BY <1>3, <3>2
  <2>2. CASE IngestDone \/ Evaluate \/ Trip
    BY <1>4, <1>7, <2>2 DEF IngestDone, Evaluate, Trip, Piloting, Holding
  <2>3. CASE EvaluateFails \/ Mark
    BY <1>4, <2>3 DEF EvaluateFails, Mark
  <2>4. ASSUME NEW o \in Orders, Ingest(o) PROVE Hands
    BY <1>5, <2>4 DEF Ingest
  <2> QED
    BY <1>16, <2>1, <2>2, <2>3, <2>4 DEF Breaker
<1>17. CASE Around
  <2>1. CASE Bench \/ Crash
    BY <1>4, <2>1 DEF Bench, Crash
  <2>2. CASE OperatorResume \/ SuggestionsClose \/ NewDay
    BY <1>5, <2>2 DEF OperatorResume, SuggestionsClose, NewDay
  <2>3. ASSUME NEW s \in Suggestions, Propose(s) PROVE Hands
    BY <1>5, <2>3 DEF Propose
  <2>4. ASSUME NEW o \in Orders, MonitorStop(o) PROVE Hands
    <3>1. job' = [IdleJob EXCEPT !.pc = "bench", !.order = o]
      BY <2>4 DEF MonitorStop
    <3>2. job'.pc = "bench" /\ job'.sugs = {} /\ job'.polls = {}
      BY <1>2, <3>1 DEF JobState
    <3> QED
      BY <1>3, <3>2
  <2>5. ASSUME NEW o \in Orders,
               PositionCloses(o) \/ Older(o) \/ BrokerFills(o) \/ BrokerEnds(o)
        PROVE  Hands
    BY <1>5, <2>5 DEF PositionCloses, Older, BrokerFills, BrokerEnds
  <2> QED
    BY <1>17, <2>1, <2>2, <2>3, <2>4, <2>5 DEF Around
<1> QED
  BY <1>14, <1>15, <1>16, <1>17 DEF Next

(* A suggestion of a day stays one.                                        *)
LEMMA SuggLasts ==
  ASSUME Fits, Next, NEW s \in Suggestions, sugg[s].status # "absent"
  PROVE  sugg'[s].status # "absent" /\ sugg'[s].day = sugg[s].day
<1>1. sugg \in [Suggestions -> SuggRow] /\ sugg[s] \in SuggRow
  BY DEF Fits, TypeOK
<1>2. \A x : /\ [sugg[s] EXCEPT !.status = x].status = x
             /\ [sugg[s] EXCEPT !.status = x].day = sugg[s].day
  BY <1>1 DEF SuggRow
<1>3. CASE Sweep
  <2>1. \/ sugg'[s] = sugg[s]
        \/ sugg'[s] = [sugg[s] EXCEPT !.status = "executed"]
    BY <1>3 DEF Sweep, Swept
  <2> QED
    BY <1>2, <2>1
<1>4. CASE SuggestionsClose
  <2>1. \E x \in {"executed", "dismissed"} :
          sugg'[s] = sugg[s] \/ sugg'[s] = [sugg[s] EXCEPT !.status = x]
    BY <1>4 DEF SuggestionsClose
  <2> QED
    BY <1>2, <2>1
<1>5. ASSUME NEW t \in Suggestions, PickUnexecutable(t)
      PROVE  sugg'[s].status # "absent" /\ sugg'[s].day = sugg[s].day
  <2>1. \/ sugg'[s] = sugg[s]
        \/ sugg'[s] = [sugg[s] EXCEPT !.status = "NOT_EXECUTABLE"]
    BY <1>1, <1>5 DEF PickUnexecutable
  <2> QED
    BY <1>2, <2>1
<1>6. ASSUME NEW t \in Suggestions, Propose(t) PROVE sugg'[s] = sugg[s]
  BY <1>1, <1>6 DEF Propose
<1> QED
  BY <1>3, <1>4, <1>5, <1>6, Touching DEF Touches

-----------------------------------------------------------------------------
(* Rows and candidates.                                                    *)

(* A row keeps the day of its suggestion.                                  *)
LEMMA DatedStep ==
  ASSUME Fits, Wanting, Dated, [Next]_vars
  PROVE  Dated'
<1>1. CASE UNCHANGED vars
  BY <1>1 DEF vars, Dated, Present
<1>2. CASE Next
  <2> SUFFICES ASSUME NEW o \in Orders, Present(o)'
               PROVE  /\ sugg'[orders'[o].sug].status # "absent"
                      /\ orders'[o].day = sugg'[orders'[o].sug].day
    BY DEF Dated
  <2>1. CASE Present(o)
    <3>1. orders'[o].sug = orders[o].sug /\ orders[o].sug \in Suggestions
      BY <1>2, <2>1, Lasting DEF Present, Fits, RowsFit
    <3>2. orders'[o].day = orders[o].day
      BY <1>2, <2>1, Rewriting DEF Rewrites
    <3>3. /\ sugg[orders[o].sug].status # "absent"
          /\ orders[o].day = sugg[orders[o].sug].day
      BY <2>1 DEF Dated
    <3> QED
      BY <1>2, <3>1, <3>2, <3>3, SuggLasts
  <2>2. CASE ~Present(o)
    <3>1. PICK s \in Suggestions : PickStage(s)
      BY <1>2, <2>2, Rows DEF Keeps, Kept
    <3>2. PICK n \in Orders :
            /\ \A p \in Orders \ {n} : orders'[p] = orders[p]
            /\ orders'[n].sug = s /\ orders'[n].day = day
      BY <3>1, Staged DEF Fits
    <3>3. o = n
      BY <2>2, <3>2 DEF Present
    <3>4. s \in job.sugs /\ sugg' = sugg
      BY <3>1 DEF PickStage
    <3>5. sugg[s].status # "absent" /\ sugg[s].day = day
      BY <3>4 DEF Wanting
    <3> QED
      BY <3>2, <3>3, <3>4, <3>5
  <2> QED
    BY <2>1, <2>2
<1> QED
  BY <1>1, <1>2

(* What the dedup says when a run starts.                                  *)
LEMMA RunWants ==
  ASSUME Fits, Dated, RunStart, NEW s \in job'.sugs
  PROVE  /\ sugg[s].status # "absent" /\ sugg[s].day = day
         /\ \A o \in Orders :
              Present(o) /\ orders[o].sug = s => orders[o].status \in Uncounted
<1> DEFINE today == {t \in Pending : sugg[t].day = day}
<1>1. IdleJob \in [pc : {"idle"}, sugs : SUBSET Suggestions, blind : BOOLEAN,
                    order : Int, tries : Int, dup : BOOLEAN, polls : {{}},
                    linked : {{}}]
  BY DEF IdleJob
<1> DEFINE k == Min({Cap, Cardinality(today)})
<1> DEFINE left(top, K) == {t \in {u \in top \ Already :
                                     Symbol[u] \notin Held} :
                              ~Benched(Symbol[t]) \/ K \ {"read"} # {}}
<1>2. PICK top \in kSubset(k, today), K \in SUBSET {"read", "filter", "resolve"} :
        job' = Picking(left(top, K), "resolve" \in K)
  BY DEF RunStart
<1> HIDE DEF k
<1>3. s \in top \ Already /\ top \subseteq today
  BY <1>1, <1>2 DEF kSubset, Picking
<1>4. sugg[s].status # "absent" /\ sugg[s].day = day
  BY <1>3 DEF Pending
<1>5. ASSUME NEW o \in Orders, Present(o), orders[o].sug = s
      PROVE  orders[o].status \in Uncounted
  <2>1. orders[o].day = day
    BY <1>4, <1>5 DEF Dated
  <2>2. orders[o].status \notin {"staged", "working", "partial", "submitted",
                                 "filled"}
    BY <1>3, <1>5, <2>1 DEF Already
  <2>3. orders[o] \in OrderRow
    BY DEF Fits, TypeOK
  <2> QED
    BY <1>5, <2>2, <2>3 DEF OrderRow, Present, Uncounted
<1> QED
  BY <1>4, <1>5

(* The candidates of a run stay wanting.                                   *)
LEMMA WantingStep ==
  ASSUME Fits, Wanting, Dated, [Next]_vars
  PROVE  Wanting'
<1>1. CASE UNCHANGED vars
  <2>1. UNCHANGED <<job, orders, sugg, day>>
    BY <1>1 DEF vars
  <2> QED
    BY <2>1 DEF Wanting, Present
<1>2. CASE Next
  <2>1. Hands
    BY <1>2, Handing
  <2>2. job'.sugs # {} => job'.pc \in Piloting
    <3>1. CASE RunStart
      <4>1. PICK S, b : job' = Picking(S, b)
        BY <3>1 DEF RunStart
      <4> QED
        BY <4>1 DEF IdleJob, Picking, Piloting
    <3> QED
      BY <2>1, <3>1 DEF Hands
  <2>3. job'.pc \in Piloting => job'.polls = {}
    BY <2>1 DEF Hands
  <2>4. job'.pc = "cancel" => job'.order \in job'.polls
    BY <2>1 DEF Hands
  <2>5. ASSUME NEW s \in Suggestions, PickStage(s), NEW t \in job'.sugs
        PROVE  t # s
    <3>1. PICK n \in Orders :
            job' = [job EXCEPT !.sugs = @ \ {s}, !.pc = "stamp", !.order = n]
      BY <2>5, Staged DEF Fits
    <3>2. job'.sugs = job.sugs \ {s}
      BY <3>1 DEF Fits, TypeOK, JobState
    <3> QED
      BY <2>5, <3>2
  <2>6. ASSUME job'.pc \in Holding PROVE orders'[job'.order].sug \notin job'.sugs
    <3>1. CASE job.pc \in Holding /\ job'.order = job.order
      <4>1. ~RunStart
        BY <3>1 DEF RunStart, Idle, Holding
      <4>2. job'.sugs \subseteq job.sugs
        BY <2>1, <4>1 DEF Hands
      <4>3. job.order \in Orders /\ orders[job.order].status # "absent"
        BY <3>1 DEF Fits, JobFits, Holding
      <4>4. orders'[job.order].sug = orders[job.order].sug
        BY <1>2, <4>3, Lasting
      <4> QED
        BY <3>1, <4>2, <4>4 DEF Wanting
    <3>2. ASSUME NEW s \in Suggestions, PickStage(s)
          PROVE  orders'[job'.order].sug \notin job'.sugs
      <4>1. PICK n \in Orders :
              /\ orders'[n].sug = s
              /\ job' = [job EXCEPT !.sugs = @ \ {s}, !.pc = "stamp",
                                    !.order = n]
        BY <3>2, Staged DEF Fits
      <4>2. job'.order = n
        BY <4>1 DEF Fits, TypeOK, JobState
      <4> QED
        BY <2>5, <3>2, <4>1, <4>2
    <3> QED
      BY <2>1, <2>6, <3>1, <3>2 DEF Hands
  <2>7. ASSUME NEW s \in job'.sugs
        PROVE  /\ sugg'[s].status # "absent" /\ sugg'[s].day = day'
               /\ \A o \in Orders :
                    Present(o)' /\ orders'[o].sug = s =>
                      orders'[o].status \in Uncounted
    <3>1. CASE RunStart
      <4>1. UNCHANGED <<orders, sugg, day>>
        BY <3>1 DEF RunStart
      <4> QED
        BY <3>1, <4>1, RunWants DEF Present
    <3>2. CASE ~RunStart
      <4>1. job.pc \in Piloting /\ s \in job.sugs
        BY <2>1, <2>7, <3>2 DEF Hands
      <4>2. day' = day
        BY <1>2, <4>1, Touching DEF Touches, NewDay, Idle, Piloting, Holding
      <4>3. s \in Suggestions
        BY <4>1 DEF Fits, TypeOK, JobState
      <4>4. sugg[s].status # "absent" /\ sugg[s].day = day
        BY <4>1 DEF Wanting
      <4>5. sugg'[s].status # "absent" /\ sugg'[s].day = day'
        BY <1>2, <4>2, <4>3, <4>4, SuggLasts
      <4>6. ASSUME NEW o \in Orders, Present(o)', orders'[o].sug = s
            PROVE  orders'[o].status \in Uncounted
        <5>1. CASE Present(o)
          <6>1. orders[o].sug = s
            BY <1>2, <4>6, <5>1, Lasting DEF Present
          <6>2. orders[o].status \in Uncounted
            BY <4>1, <5>1, <6>1 DEF Wanting
          <6>3. ~InHand(o)
            BY <4>1, <6>1 DEF Wanting, InHand
          <6>4. ~Rewrites(o)
            BY <4>1, <6>3 DEF Rewrites, Piloting, Holding
          <6> QED
            BY <1>2, <5>1, <6>2, <6>4, Rewriting
        <5>2. CASE ~Present(o)
          <6>1. PICK t \in Suggestions : PickStage(t)
            BY <1>2, <4>6, <5>2, Rows DEF Keeps, Kept
          <6>2. PICK n \in Orders :
                  /\ \A p \in Orders \ {n} : orders'[p] = orders[p]
                  /\ orders'[n].sug = t
            BY <6>1, Staged DEF Fits
          <6>3. o = n
            BY <4>6, <5>2, <6>2 DEF Present
          <6> QED
            BY <2>5, <2>7, <4>6, <6>1, <6>2, <6>3
        <5> QED
          BY <5>1, <5>2
      <4> QED
        BY <4>5, <4>6
    <3> QED
      BY <3>1, <3>2
  <2> QED
    BY <2>2, <2>3, <2>4, <2>6, <2>7 DEF Wanting
<1> QED
  BY <1>1, <1>2

(* The dedup, from the start.                                              *)
LEMMA Dedup == Spec => [](Fits /\ CancelledIsOver /\ Dated /\ Wanting)
<1>1. Init => Dated /\ Wanting
  <2> SUFFICES ASSUME Init PROVE Dated /\ Wanting
    OBVIOUS
  <2>1. \A o \in Orders : ~Present(o)
    BY DEF Init, NoOrder, Present
  <2>2. job.pc = "idle" /\ job.sugs = {}
    BY DEF Init, IdleJob
  <2> QED
    BY <2>1, <2>2 DEF Dated, Wanting, Piloting, Holding
<1> QED
  BY <1>1, DatedStep, WantingStep, Fitting, WrittenOffIsOver, PTL DEF Spec

(* Only rows of the table are at the broker.                               *)
Sent == \A o \in Orders : Exposed(o) => Present(o)

LEMMA SentStep == ASSUME Fits, Sent, [Next]_vars PROVE Sent'
<1>1. CASE UNCHANGED vars
  BY <1>1 DEF vars, Sent, Exposed, Present
<1>2. CASE Next
  <2> SUFFICES ASSUME NEW o \in Orders, Exposed(o)' PROVE Present(o)'
    BY DEF Sent
  <2>1. Exposed(o) \/ (job.pc = "submit" /\ o = job.order)
    BY <1>2, Trading DEF Trades
  <2>2. Present(o)
    BY <2>1 DEF Sent, Fits, JobFits, Present
  <2> QED
    BY <1>2, <2>2, Lasting DEF Present
<1> QED
  BY <1>1, <1>2

(* They were always.                                                       *)
LEMMA Sending == Spec => []Sent
<1>1. Init => Sent
  BY DEF Init, Sent, Exposed
<1> QED
  BY <1>1, SentStep, Fitting, PTL DEF Spec

(* What a suggestion about to be staged has at the broker: an order that   *)
(* is stale, or one that is held for review.                               *)
LEMMA StagedOver ==
  ASSUME Fits, CancelledIsOver, Wanting, Sent,
         NEW s \in Suggestions, PickStage(s),
         NEW o \in Orders, Exposed(o), orders[o].sug = s
  PROVE  \/ /\ orders[o].stale
            /\ orders[o].status \in {"cancelled", "watchdog_cancelled"}
         \/ orders[o].status = "needs_manual_review"
<1>1. s \in job.sugs /\ Present(o)
  BY DEF PickStage, Sent
<1>2. orders[o].status \in Uncounted
  BY <1>1 DEF Wanting
<1> QED
  BY <1>2 DEF Uncounted, CancelledIsOver

(* A suggestion is staged again only over orders the sweep wrote off as    *)
(* stale and orders held for review, whatever fails and however often: the *)
(* dedup, read once at the start of a run, is not out of date when the     *)
(* run gets round to staging.                                              *)
THEOREM NoReentry == Spec => ReentryOverReview
<1> DEFINE A == \A p \in Orders :
                  (orders[p].status = "absent" /\ orders'[p].status # "absent")
                    => \A o \in Orders \ {p} :
                         (Exposed(o) /\ orders[o].sug = orders'[p].sug)
                           => orders[o].stale
                                \/ orders[o].status = "needs_manual_review"
<1>1. ASSUME Fits, CancelledIsOver, Wanting, Sent, [Next]_vars PROVE [A]_vars
  <2>1. SUFFICES ASSUME Next, NEW p \in Orders, ~Present(p), Present(p)',
                        NEW o \in Orders \ {p}, Exposed(o),
                        orders[o].sug = orders'[p].sug
                 PROVE  \/ orders[o].stale
                        \/ orders[o].status = "needs_manual_review"
    BY <1>1 DEF Present
  <2>2. PICK s \in Suggestions : PickStage(s)
    BY <1>1, <2>1, Rows DEF Keeps, Kept
  <2>3. PICK n \in Orders : /\ \A q \in Orders \ {n} : orders'[q] = orders[q]
                            /\ orders'[n].sug = s
    BY <1>1, <2>2, Staged DEF Fits
  <2>4. orders[o].sug = s
    BY <2>1, <2>3 DEF Present
  <2> QED
    BY <1>1, <2>1, <2>2, <2>4, StagedOver
<1>2. Fits /\ CancelledIsOver /\ Wanting /\ Sent /\ [Next]_vars => [A]_vars
  BY <1>1
<1> QED
  BY <1>2, Dedup, Sending, PTL DEF Spec, ReentryOverReview

-----------------------------------------------------------------------------
(* A suggestion is at the broker once.                                     *)

(* What is spent stays spent.                                              *)
LEMMA SpentStays ==
  ASSUME Fits, Wanting, Next, NEW o \in Orders, Present(o), Spent(o)
  PROVE  Spent(o)'
<1>1. Hands /\ Trades
  BY Handing, Trading
<1>2. CASE ~Exposed(o) /\ ~InHand(o)
  <2>1. ~Exposed(o)'
    BY <1>1, <1>2 DEF Trades, InHand, Holding
  <2>2. ASSUME InHand(o)' PROVE FALSE
    <3>1. job'.pc \in Holding /\ job'.order = o
      BY <2>2 DEF InHand
    <3>2. PICK s \in Suggestions : PickStage(s)
      BY <1>1, <1>2, <3>1 DEF Hands, InHand
    <3>3. PICK n \in Orders :
            /\ ~Present(n)
            /\ job' = [job EXCEPT !.sugs = @ \ {s}, !.pc = "stamp", !.order = n]
      BY <3>2, Staged DEF Fits
    <3>4. job'.order = n
      BY <3>3 DEF Fits, TypeOK, JobState
    <3> QED
      BY <3>1, <3>3, <3>4
  <2> QED
    BY <2>1, <2>2 DEF Spent
<1>3. CASE /\ orders[o].stale /\ o \notin job.polls
           /\ orders[o].status \in {"cancelled", "watchdog_cancelled"}
  <2>1. ~InHand(o)
    BY <1>3 DEF InHand, Holding, Fits, JobFits
  <2>2. orders'[o] = orders[o]
    BY <1>3, <2>1, Rewriting DEF Rewrites
  <2>3. o \notin job'.polls
    BY <1>1, <1>3 DEF Hands, Pollable
  <2> QED
    BY <1>3, <2>2, <2>3 DEF Spent
<1> QED
  BY <1>2, <1>3 DEF Spent

(* As long as no order under review is at the broker, all orders of a      *)
(* suggestion but one are spent.                                           *)
LEMMA OneEntryStep ==
  ASSUME Fits, CancelledIsOver, Wanting, Sent, ReviewedIsOut, OneEntry,
         [Next]_vars
  PROVE  OneEntry'
<1>1. CASE UNCHANGED vars
  BY <1>1 DEF vars, OneEntry, Spent, Exposed, InHand, Present
<1>2. CASE Next
  <2>1. ASSUME NEW o \in Orders, NEW p \in Orders, o # p,
               Present(o), Present(p), orders'[o].sug = orders'[p].sug
        PROVE  Spent(o)' \/ Spent(p)'
    <3>1. orders[o].sug = orders[p].sug
      BY <1>2, <2>1, Lasting DEF Present
    <3>2. Spent(o) \/ Spent(p)
      BY <2>1, <3>1 DEF OneEntry
    <3> QED
      BY <1>2, <2>1, <3>2, SpentStays
  <2>2. ASSUME NEW p \in Orders, ~Present(p), Present(p)',
               NEW o \in Orders \ {p}, Present(o)',
               orders'[o].sug = orders'[p].sug
        PROVE  Present(o) /\ Spent(o)'
    <3>1. PICK s \in Suggestions : PickStage(s)
      BY <1>2, <2>2, Rows DEF Keeps, Kept
    <3>2. PICK n \in Orders :
            /\ ~Present(n)
            /\ \A q \in Orders \ {n} : orders'[q] = orders[q]
            /\ orders'[n].sug = s
            /\ job' = [job EXCEPT !.sugs = @ \ {s}, !.pc = "stamp", !.order = n]
      BY <3>1, Staged DEF Fits
    <3>3. p = n /\ orders'[o] = orders[o] /\ orders[o].sug = s /\ Present(o)
      BY <2>2, <3>2 DEF Present
    <3>4. job'.order = n /\ job'.polls = job.polls
      BY <3>2 DEF Fits, TypeOK, JobState
    <3>5. broker' = broker /\ job.polls = {}
      BY <3>1 DEF PickStage, Wanting, Piloting
    <3>6. CASE ~Exposed(o)
      BY <2>2, <3>3, <3>4, <3>5, <3>6 DEF Spent, Exposed, InHand
    <3>7. CASE Exposed(o)
      <4>1. /\ orders[o].stale
            /\ orders[o].status \in {"cancelled", "watchdog_cancelled"}
        BY <3>1, <3>3, <3>7, StagedOver DEF ReviewedIsOut
      <4> QED
        BY <3>3, <3>4, <3>5, <4>1 DEF Spent
    <3> QED
      BY <3>3, <3>6, <3>7
  <2>3. ASSUME NEW o \in Orders, NEW p \in Orders, o # p,
               Present(o)', Present(p)', orders'[o].sug = orders'[p].sug
        PROVE  Spent(o)' \/ Spent(p)'
    BY <2>1, <2>2, <2>3
  <2> QED
    BY <2>3 DEF OneEntry
<1> QED
  BY <1>1, <1>2

(* What that means at the broker.                                          *)
LEMMA OneIsOnce == Sent /\ OneEntry => EnteredOnce
BY DEF Sent, OneEntry, EnteredOnce, Spent

(* For every value of the constants and every failure: while no order that *)
(* is held for review is at the broker, no suggestion is there twice. Held *)
(* for review is the only status whose orders the dedup forgets.           *)
THEOREM OnceButForReview == Spec /\ []ReviewedIsOut => []EnteredOnce
<1>1. Init => OneEntry
  BY DEF Init, OneEntry, Present, NoOrder
<1> QED
  BY <1>1, OneEntryStep, OneIsOnce, Dedup, Sending, PTL DEF Spec

-----------------------------------------------------------------------------
(* A single failure. When it struck, no attempt can fail any more, so that *)
(* a submission gives up on a row only before the broker has its order.    *)

SingleFailure == Qty = 1 /\ MaxSubmit >= 2 /\ MaxTroubles <= 1

(* What has been tried in vain; what is given up; what ends unfilled.      *)
TriedInVain == job.tries > 0 => troubles # {}
GivesUp == job.pc = "review" => broker[job.order].state = "none"
AllOrNothing ==
  \A o \in Orders : broker[o].state = "ended" => broker[o].fill = 0

GaveUp == TriedInVain /\ GivesUp /\ AllOrNothing

(* There are finitely many kinds of failure.                               *)
LEMMA KindsFinite == IsFiniteSet(Kinds)
<1>1. \A x, y : IsFiniteSet({x} \cup {y})
  BY FS_Singleton, FS_Union
<1>2. \A x, y, z, w : IsFiniteSet(({x} \cup {y}) \cup ({z} \cup {w}))
  BY <1>1, FS_Union
<1> DEFINE A == ({"read"} \cup {"filter"}) \cup ({"stamp"} \cup {"lost"})
           B == ({"lookup"} \cup {"write"}) \cup ({"poll"} \cup {"repair"})
           C == ({"bench"} \cup {"pause"}) \cup ({"evaluate"} \cup {"mark"})
           D == ({"resolve"} \cup {"cohort"}) \cup ({"crash"} \cup {"crash"})
<1>3. Kinds = (A \cup B) \cup (C \cup D)
  BY DEF Kinds
<1>4. IsFiniteSet(A) /\ IsFiniteSet(B) /\ IsFiniteSet(C) /\ IsFiniteSet(D)
  BY <1>2
<1> HIDE DEF A, B, C, D
<1>5. IsFiniteSet(A \cup B) /\ IsFiniteSet(C \cup D)
  BY <1>4, FS_Union
<1> QED
  BY <1>3, <1>5, FS_Union

(* The first failure is the first.                                         *)
LEMMA FirstFailure ==
  ASSUME TypeOK, MaxTroubles <= 1, NEW k, Fails(k)
  PROVE  troubles = {} /\ troubles' # {}
<1>1. IsFiniteSet(troubles)
  BY KindsFinite, FS_Subset DEF TypeOK
<1>2. Cardinality(troubles) \in Nat
  BY <1>1, FS_CardinalityType
<1>3. Cardinality(troubles) = 0
  BY <1>2, Numbers DEF Fails
<1> QED
  BY <1>1, <1>3, FS_EmptySet DEF Fails

(* How the attempts go on: one more is counted when one failed, and a row  *)
(* is given up when the broker refuses it or the attempts are used up.     *)
Attempts ==
  /\ job'.tries > 0 => job'.tries = job.tries \/ \E k : Fails(k)
  /\ job'.pc = "review" =>
       \/ UNCHANGED job
       \/ /\ UNCHANGED broker /\ job'.order = job.order
          /\ broker[job.order].state = "none"
       \/ job.tries + 1 >= MaxSubmit /\ \E k : Fails(k)

LEMMA Attempting == ASSUME TypeOK, Next PROVE Attempts
<1>1. job \in JobState /\ job.tries \in Nat
  BY Numbers DEF TypeOK, JobState
<1>2. IdleJob \in JobState /\ IdleJob.tries = 0 /\ IdleJob.pc = "idle"
  BY Numbers DEF IdleJob, JobState
<1>3. ASSUME job' = IdleJob PROVE Attempts
  BY <1>2, <1>3 DEF Attempts
<1>4. ASSUME UNCHANGED job PROVE Attempts
  BY <1>4 DEF Attempts
<1>5. ASSUME job'.tries = job.tries \/ job'.tries = 0, job'.pc # "review"
      PROVE  Attempts
  BY <1>5 DEF Attempts
<1>6. ASSUME NEW pc, pc # "review", Goes(pc) PROVE Attempts
  <2>1. job'.tries = job.tries /\ job'.pc = pc
    BY <1>1, <1>6 DEF Goes, JobState
  <2> QED
    BY <1>5, <1>6, <2>1
<1>7. ASSUME NEW o, NEW pc, pc # "review", Polled(o, pc) PROVE Attempts
  <2>1. job'.tries = job.tries /\ job'.pc = pc
    BY <1>1, <1>7 DEF Polled, JobState
  <2> QED
    BY <1>5, <1>7, <2>1
<1>8. ASSUME NextPick PROVE Attempts
  <2>1. job'.tries = 0 /\ job'.pc = "pick"
    BY <1>2, <1>8 DEF NextPick, Picking, JobState
  <2> QED
    BY <1>5, <2>1
<1>9. ASSUME NEW k, Fails(k), Again PROVE Attempts
  <2>1. /\ job'.tries = job.tries + 1
        /\ job'.pc = "review" => ~(job.tries + 1 < MaxSubmit)
    BY <1>1, <1>9 DEF Again, JobState
  <2>2. job'.pc = "review" => job.tries + 1 >= MaxSubmit
    BY <1>1, <2>1, Numbers
  <2> QED
    BY <1>9, <2>2 DEF Attempts
<1>10. ASSUME NEW s, job.pc = "pick", job' = Picked(s) PROVE Attempts
  <2>1. job'.tries = job.tries /\ job'.pc = "pick"
    BY <1>1, <1>10 DEF Picked, JobState
  <2> QED
    BY <1>5, <2>1
<1>11. CASE Autopilot
  <2>1. CASE RunStart
    <3>1. PICK S, b : job' = Picking(S, b)
      BY <2>1 DEF RunStart
    <3>2. job'.pc = "pick" /\ job'.tries = 0
      BY <1>2, <3>1 DEF JobState, Picking
    <3> QED
      BY <1>5, <3>2
  <2>2. CASE Stamp
    BY <1>6, <2>2 DEF Stamp
  <2>3. CASE Submit
    <3>1. CASE Goes("review") /\ UNCHANGED broker
      <4>1. job'.tries = job.tries /\ job'.order = job.order
        BY <1>1, <3>1 DEF Goes, JobState
      <4>2. broker[job.order].state = "none"
        BY <2>3 DEF Submit
      <4> QED
        BY <3>1, <4>1, <4>2 DEF Attempts
    <3> QED
      BY <1>6, <1>9, <2>3, <3>1 DEF Submit
  <2>4. CASE SubmitDuplicate
    <3>1. CASE job' = [job EXCEPT !.pc = "ack", !.dup = TRUE]
      <4>1. job'.tries = job.tries /\ job'.pc = "ack"
        BY <1>1, <3>1 DEF JobState
      <4> QED
        BY <1>5, <4>1
    <3> QED
      BY <1>9, <2>4, <3>1 DEF SubmitDuplicate
  <2>5. CASE Ack
    BY <1>8, <1>9, <2>5 DEF Ack
  <2>6. CASE Review
    BY <1>8, <2>6 DEF Review
  <2>7. CASE RunDone
    BY <1>3, <2>7 DEF RunDone
  <2>8. ASSUME NEW s \in Suggestions, PickSkip(s) \/ PickUnexecutable(s)
        PROVE  Attempts
    BY <1>10, <2>8 DEF PickSkip, PickUnexecutable
  <2>9. ASSUME NEW s \in Suggestions, PickStage(s) PROVE Attempts
    <3>1. PICK o \in Orders :
            job' = [job EXCEPT !.sugs = @ \ {s}, !.pc = "stamp", !.order = o]
      BY <2>9, Staged
    <3>2. job'.pc = "stamp" /\ job'.tries = job.tries
      BY <1>1, <3>1 DEF JobState
    <3> QED
      BY <1>5, <3>2
  <2> QED
    BY <1>11, <2>1, <2>2, <2>3, <2>4, <2>5, <2>6, <2>7, <2>8, <2>9 DEF Autopilot
<1>12. CASE Sync
  <2>1. CASE SyncStart
    <3>1. PICK L : job' = [IdleJob EXCEPT !.pc = "poll", !.polls = Pollable,
                                         !.linked = L]
      BY <2>1 DEF SyncStart
    <3>2. job'.pc = "poll" /\ job'.tries = 0
      BY <1>2, <3>1 DEF JobState
    <3> QED
      BY <1>5, <3>2
  <2>2. CASE Refetch
    <3>1. \E pc \in {"poll", "sweep"} : Polled(job.order, pc)
      BY <2>2 DEF Refetch, Refetched, Reconcile
    <3> QED
      BY <1>7, <3>1
  <2>3. CASE RefetchFails
    BY <1>7, <2>3 DEF RefetchFails
  <2>4. CASE Sweep \/ PollDone \/ Resolve
    BY <1>3, <1>6, <2>4 DEF Sweep, PollDone, Resolve
  <2>5. ASSUME NEW o \in Orders, Poll(o) PROVE Attempts
    <3>1. \E pc \in {"poll", "sweep"} : Polled(o, pc)
      BY <2>5 DEF Poll, Reconcile
    <3> QED
      BY <1>7, <3>1
  <2>6. ASSUME NEW o \in Orders, PollFails(o) PROVE Attempts
    BY <1>7, <2>6 DEF PollFails
  <2>7. ASSUME NEW o \in Orders, Watchdog(o) PROVE Attempts
    <3>1. job'.pc = "cancel" /\ job'.tries = job.tries
      BY <1>1, <2>7 DEF Watchdog, JobState
    <3> QED
      BY <1>5, <3>1
  <2> QED
    BY <1>12, <2>1, <2>2, <2>3, <2>4, <2>5, <2>6, <2>7 DEF Sync
<1>13. CASE Breaker
  <2>1. CASE IngestStart
    <3>1. job' = [IdleJob EXCEPT !.pc = "ingest"]
      BY <2>1 DEF IngestStart
    <3>2. job'.pc = "ingest" /\ job'.tries = 0
      BY <1>2, <3>1 DEF JobState
    <3> QED
      BY <1>5, <3>2
  <2>2. CASE IngestDone \/ Evaluate \/ Trip
    BY <1>3, <1>6, <2>2 DEF IngestDone, Evaluate, Trip
  <2>3. CASE EvaluateFails \/ Mark
    BY <1>3, <2>3 DEF EvaluateFails, Mark
  <2>4. ASSUME NEW o \in Orders, Ingest(o) PROVE Attempts
    BY <1>4, <2>4 DEF Ingest
  <2> QED
    BY <1>13, <2>1, <2>2, <2>3, <2>4 DEF Breaker
<1>14. CASE Around
  <2>1. CASE Bench \/ Crash
    BY <1>3, <2>1 DEF Bench, Crash
  <2>2. CASE OperatorResume \/ SuggestionsClose \/ NewDay
    BY <1>4, <2>2 DEF OperatorResume, SuggestionsClose, NewDay
  <2>3. ASSUME NEW s \in Suggestions, Propose(s) PROVE Attempts
    BY <1>4, <2>3 DEF Propose
  <2>4. ASSUME NEW o \in Orders, MonitorStop(o) PROVE Attempts
    <3>1. job' = [IdleJob EXCEPT !.pc = "bench", !.order = o]
      BY <2>4 DEF MonitorStop
    <3>2. job'.pc = "bench" /\ job'.tries = 0
      BY <1>2, <3>1 DEF JobState
    <3> QED
      BY <1>5, <3>2
  <2>5. ASSUME NEW o \in Orders,
               PositionCloses(o) \/ Older(o) \/ BrokerFills(o) \/ BrokerEnds(o)
        PROVE  Attempts
    BY <1>4, <2>5 DEF PositionCloses, Older, BrokerFills, BrokerEnds
  <2> QED
    BY <1>14, <2>1, <2>2, <2>3, <2>4, <2>5 DEF Around
<1> QED
  BY <1>11, <1>12, <1>13, <1>14 DEF Next

(* A single failure at most: GaveUp goes on holding.                       *)
LEMMA GaveUpStep ==
  ASSUME SingleFailure, Fits, GaveUp, [Next]_vars
  PROVE  GaveUp'
<1>1. CASE UNCHANGED vars
  <2>1. UNCHANGED <<job, troubles, broker>>
    BY <1>1 DEF vars
  <2> QED
    BY <2>1 DEF GaveUp, TriedInVain, GivesUp, AllOrNothing
<1>2. CASE Next
  <2>1. Attempts /\ Suffers /\ Touches /\ TypeOK
    BY <1>2, Attempting, Suffering, Touching DEF Fits
  <2>2. broker \in [Orders -> BrokerRow] /\ BrokerFits
    BY DEF Fits, TypeOK
  <2>3. TriedInVain'
    <3>1. CASE job'.tries = job.tries
      BY <2>1, <3>1 DEF Suffers, GaveUp, TriedInVain
    <3>2. ASSUME NEW k, Fails(k) PROVE troubles' # {}
      BY <2>1, <3>2, FirstFailure DEF SingleFailure
    <3> QED
      BY <2>1, <3>1, <3>2 DEF Attempts, TriedInVain
  <2>4. ASSUME job'.pc = "review" PROVE broker'[job'.order].state = "none"
    <3>1. CASE UNCHANGED job
      <4>1. broker[job.order].state = "none" /\ job.order \in Orders
        BY <2>4, <3>1 DEF GaveUp, GivesUp, Fits, JobFits
      <4>2. broker'[job.order] = broker[job.order]
        <5>1. ~Submit /\ \A o \in Orders : ~Watchdog(o)
          BY <2>4, <3>1 DEF Submit, Watchdog
        <5>2. ASSUME NEW o \in Orders, BrokerFills(o) \/ BrokerEnds(o)
              PROVE  broker'[job.order] = broker[job.order]
          BY <2>2, <4>1, <5>2 DEF BrokerFills, BrokerEnds
        <5> QED
          BY <2>1, <5>1, <5>2 DEF Touches
      <4> QED
        BY <3>1, <4>1, <4>2
    <3>2. CASE /\ UNCHANGED broker /\ job'.order = job.order
               /\ broker[job.order].state = "none"
      BY <3>2
    <3>3. ASSUME job.tries + 1 >= MaxSubmit, NEW k, Fails(k) PROVE FALSE
      <4>1. troubles = {}
        BY <2>1, <3>3, FirstFailure DEF SingleFailure
      <4>2. job.tries \in Nat
        BY <2>1, Numbers DEF TypeOK, JobState
      <4>3. job.tries = 0
        BY <4>1, <4>2 DEF GaveUp, TriedInVain
      <4> QED
        BY <3>3, <4>3, Numbers DEF SingleFailure
    <3> QED
      BY <2>1, <2>4, <3>1, <3>2, <3>3 DEF Attempts
  <2>5. ASSUME NEW o \in Orders, broker'[o].state = "ended"
        PROVE  broker'[o].fill = 0
    <3>1. broker[o] \in BrokerRow /\ broker[o].fill \in Nat
      BY <2>2, Numbers DEF BrokerRow
    <3>2. broker[o].state = "live" => broker[o].fill = 0
      BY <2>2, <3>1 DEF BrokerFits, SingleFailure
    <3>3. CASE broker'[o] = broker[o]
      BY <2>5, <3>3 DEF GaveUp, AllOrNothing
    <3>4. CASE /\ broker[o].state = "live"
               /\ broker'[o] = [broker[o] EXCEPT !.state = "ended"]
      BY <3>1, <3>2, <3>4 DEF BrokerRow
    <3>5. CASE Submit
      <4>1. broker'[o] = broker[o] \/
              broker'[o] = [broker[o] EXCEPT !.state = "live"]
        BY <2>2, <3>5 DEF Submit
      <4> QED
        BY <2>5, <3>1, <3>3, <4>1 DEF BrokerRow
    <3>6. ASSUME NEW p \in Orders, BrokerFills(p) PROVE broker'[o] = broker[o]
      BY <2>2, <2>5, <3>6 DEF BrokerFills
    <3>7. ASSUME NEW p \in Orders, Watchdog(p) \/ BrokerEnds(p)
          PROVE  \/ broker'[o] = broker[o]
                 \/ /\ broker[o].state = "live"
                    /\ broker'[o] = [broker[o] EXCEPT !.state = "ended"]
      BY <2>2, <3>7 DEF Watchdog, BrokerEnds, IdlesTooLong
    <3> QED
      BY <2>1, <3>3, <3>4, <3>5, <3>6, <3>7 DEF Touches
  <2> QED
    BY <2>3, <2>4, <2>5 DEF GaveUp, GivesUp, AllOrNothing
<1> QED
  BY <1>1, <1>2

(* No order under review gets to the broker.                               *)
LEMMA ReviewedStep ==
  ASSUME Fits, Wanting, GaveUp, ReviewedIsOut, [Next]_vars
  PROVE  ReviewedIsOut'
<1>1. CASE UNCHANGED vars
  BY <1>1 DEF vars, ReviewedIsOut, Exposed
<1>2. CASE Next
  <2> SUFFICES ASSUME NEW o \in Orders,
                      orders'[o].status = "needs_manual_review"
               PROVE  ~Exposed(o)'
    BY DEF ReviewedIsOut
  <2>1. Trades
    BY <1>2, Trading
  <2>2. Present(o)
    <3>1. ASSUME NEW s \in Suggestions, PickStage(s) PROVE Present(o)
      <4>1. PICK n \in Orders :
              /\ \A p \in Orders \ {n} : orders'[p] = orders[p]
              /\ orders'[n].status = "staged"
        BY <3>1, Staged DEF Fits
      <4> QED
        BY <4>1 DEF Present
    <3>2. CASE Keeps
      BY <3>2 DEF Keeps, Kept, Present
    <3> QED
      BY <1>2, <3>1, <3>2, Rows
  <2>3. UNCHANGED orders \/ UNCHANGED broker
    BY <1>2, Touching DEF Touches, Submit, Watchdog, BrokerFills, BrokerEnds
  <2>4. CASE orders[o].status = "needs_manual_review"
    <3>1. ~Exposed(o) /\ ~(job.pc = "submit" /\ o = job.order)
      BY <2>4 DEF ReviewedIsOut, Fits, JobFits
    <3> QED
      BY <2>1, <3>1 DEF Trades
  <2>5. CASE orders[o].status # "needs_manual_review"
    <3>1. Rewrites(o) /\ UNCHANGED broker
      BY <1>2, <2>2, <2>3, <2>5, Rewriting
    <3>2. CASE InHand(o) /\ job.pc = "review"
      <4>1. broker[o].state = "none" /\ broker[o].fill = 0
        BY <3>2 DEF GaveUp, GivesUp, InHand, Fits, BrokerFits
      <4> QED
        BY <3>1, <4>1 DEF Exposed
    <3>3. CASE broker[o].state = "ended" /\ broker[o].fill > 0
      BY <3>3 DEF GaveUp, AllOrNothing
    <3> QED
      BY <2>5, <3>1, <3>2, <3>3 DEF Rewrites
  <2> QED
    BY <2>4, <2>5
<1> QED
  BY <1>1, <1>2

(* A suggestion of one contract is never at the broker twice when at most  *)
(* one thing fails: a lost answer, a write, a lookup, a poll, a job that   *)
(* dies; for any numbers of suggestions, symbols, orders and days. With    *)
(* partial fills, or once attempts can be used up, it is not so: the run   *)
(* entry_dedup shows how.                                                  *)
THEOREM Once == ASSUME SingleFailure PROVE Spec => []EnteredOnce
<1>1. Init => GaveUp /\ ReviewedIsOut
  <2> SUFFICES ASSUME Init PROVE GaveUp /\ ReviewedIsOut
    OBVIOUS
  <2>1. /\ job.tries = 0 /\ job.pc = "idle"
        /\ \A o \in Orders : /\ broker[o].state = "none"
                             /\ orders[o].status = "absent"
    BY DEF Init, IdleJob, NoOrder
  <2> QED
    BY <2>1 DEF GaveUp, TriedInVain, GivesUp, AllOrNothing, ReviewedIsOut
<1>2. Fits /\ GaveUp /\ [Next]_vars => GaveUp'
  BY GaveUpStep
<1> QED
  BY <1>1, <1>2, ReviewedStep, Dedup, OnceButForReview, PTL DEF Spec
=============================================================================
