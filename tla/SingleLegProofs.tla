--------------------------- MODULE SingleLegProofs ---------------------------
(***************************************************************************)
(* Theorems about SingleLeg, for every set of policies, source decisions,  *)
(* candidates, scans and settlements, every tape and payoff and every      *)
(* bound on the failures.                                                  *)
(***************************************************************************)
EXTENDS SingleLeg, SumLemmas, TLAPS

(* The run row and the portfolio of a candidate.                           *)
LEMMA ArmType == \A k \in Candidates : Run[k] \in Runs /\ Arm[k] \in Arms
  BY ExperimentAssumption DEF Arm

(* The open transactions that hold the run row of their candidate, and the *)
(* transactions of either kind that hold its portfolio.                    *)
HoldsRun(s, k) == open[s][k].pc \in {"cash", "commit"}
Opening(s, k) == open[s][k].pc = "commit"
Closing(m, k) == close[m][k].pc = "commit"

(* A scan that works on a run knows which, has only its candidates left    *)
(* and waits for the RPC of one of them.                                   *)
WellFormed(r) ==
  /\ r \in ScanState
  /\ r.pc \in {"record", "execute"} => r.run \in Runs /\ r.left \subseteq Of(r.run)
  /\ r.pc \in {"idle", "scan", "done"} => r.left = {}
  /\ r.call # None => r.pc = "execute" /\ r.call \in r.left

ScanShape == \A s \in Scans : WellFormed(scan[s])

(* What an open transaction is about to spend is there.                    *)
Funded ==
  \A s \in Scans, k \in Candidates :
    Opening(s, k) => open[s][k].before >= tape[k]

(* Each row lock has one holder.                                           *)
RunLock ==
  \A s, t \in Scans, k, l \in Candidates :
    HoldsRun(s, k) /\ HoldsRun(t, l) /\ Run[k] = Run[l] => s = t /\ k = l

PositionLock ==
  \A m, n \in Settlers, k \in Candidates :
    /\ close[m][k].pc \in {"cash", "commit"}
    /\ close[n][k].pc \in {"cash", "commit"}
    => m = n

PortfolioLock ==
  /\ \A s \in Scans, k \in Candidates : Opening(s, k) => Arm[k] \notin ctl.locked
  /\ \A m \in Settlers, k \in Candidates :
       Closing(m, k) => Arm[k] \notin ctl.locked
  /\ \A s, t \in Scans, k, l \in Candidates :
       Opening(s, k) /\ Opening(t, l) /\ Arm[k] = Arm[l] => s = t /\ k = l
  /\ \A s \in Scans, m \in Settlers, k, l \in Candidates :
       Opening(s, k) /\ Closing(m, l) => Arm[k] # Arm[l]
  /\ \A m, n \in Settlers, k, l \in Candidates :
       Closing(m, k) /\ Closing(n, l) /\ Arm[k] = Arm[l] => m = n /\ k = l

(* The balance a transaction read is still the balance.                    *)
FreshBalance ==
  /\ \A s \in Scans, k \in Candidates :
       Opening(s, k) => open[s][k].before = cash[Arm[k]]
  /\ \A m \in Settlers, k \in Candidates :
       Closing(m, k) => close[m][k].before = cash[Arm[k]]

(* The transaction that holds the run row found no order, and there is     *)
(* none yet.                                                               *)
FirstOrder ==
  \A s \in Scans, k \in Candidates :
    /\ HoldsRun(s, k) => k \notin orders
    /\ open[s][k].pc = "done" => k \in orders

(* Orders and positions are inserted together, and only a position that    *)
(* is open reaches the end of the close RPC.                               *)
Positions ==
  /\ \A k \in Candidates : posn[k] = "none" <=> k \notin orders
  /\ \A m \in Settlers : \A k \in settler[m].left : posn[k] # "none"
  /\ \A m \in Settlers, k \in Candidates :
       /\ close[m][k].pc # "none" => posn[k] # "none"
       /\ close[m][k].pc \in {"cash", "commit"} => posn[k] = "open"

(* Once the order that was past its check at the pause has landed, no      *)
(* transaction of the run is past it.                                      *)
PauseDrains ==
  \A u \in Runs : epoch = "paused" /\ late[u] # 0 => RunFree(u)

(* A scan in state r will still open or reject candidate k.                *)
Owes(r, k) ==
  \/ r.pc \in {"scan", "record"} /\ Run[k] \in r.runs
  \/ r.pc = "record" /\ r.run = Run[k] /\ k \notin r.left
  \/ /\ r.pc = "execute"
     /\ IF r.run = Run[k] THEN k \in r.left ELSE Run[k] \in r.runs

(* A candidate without an outcome is still in the hands of a scan.         *)
Owed ==
  "silent" \notin troubles =>
    \A k \in attempts :
      k \in orders \cup rejected \/ \E s \in Scans : Owes(scan[s], k)

-----------------------------------------------------------------------------
(* What the handler may end a run with.                                    *)
LEMMA RestShape ==
  ASSUME NEW r \in ScanState, r.left = {}, r.call = None
  PROVE  /\ WellFormed(Rest(r))
         /\ Rest(r).pc \in {"scan", "done"}
         /\ Rest(r).runs = r.runs
         /\ Rest(r).pc = "done" => r.runs = {}
<1>1. CASE r.todo = {} /\ r.runs = {}
  BY <1>1 DEF Rest, Done, IdleScan, WellFormed, ScanState
<1>2. CASE ~(r.todo = {} /\ r.runs = {})
  <2>1. Rest(r) = [r EXCEPT !.pc = "scan", !.run = None,
                              !.dark = FALSE]
    BY <1>2 DEF Rest
  <2> QED
    BY <2>1 DEF WellFormed, ScanState
<1> QED
  BY <1>1, <1>2

(* The candidate a scan takes next is one of those left.                   *)
LEMMA FirstOfSet == \A S : S # {} => First(S) \in S
  BY DEF First

(* Every state the handler moves a scan to is well formed.                 *)
LEMMA ScanUpdates ==
  ASSUME NEW r, WellFormed(r)
  PROVE  /\ WellFormed(IdleScan)
         /\ WellFormed(Done)
         /\ \A T \in SUBSET Runs :
              WellFormed([IdleScan EXCEPT !.pc = "scan", !.todo = T])
         /\ r.pc = "scan" => \A u \in Runs :
              /\ WellFormed([r EXCEPT !.pc = "record", !.todo = @ \ {u},
                              !.run = u, !.left = Of(u), !.bad = FALSE])
              /\ WellFormed(Rest([r EXCEPT !.todo = @ \ {u}]))
              /\ \A S \in SUBSET Of(u) :
                   /\ WellFormed([r EXCEPT !.pc = "execute", !.run = u,
                                   !.left = S, !.bad = FALSE])
                   /\ WellFormed([r EXCEPT !.pc = "execute", !.run = u,
                                   !.left = S, !.bad = TRUE, !.dark = TRUE])
              /\ WellFormed([r EXCEPT !.pc = "execute", !.run = u,
                              !.bad = TRUE])
         /\ r.pc = "record" =>
              /\ WellFormed(Rest([r EXCEPT !.left = {}]))
              /\ \A k : WellFormed([r EXCEPT !.left = @ \ {k}])
              /\ \A k : WellFormed([r EXCEPT !.left = @ \ {k}, !.bad = TRUE])
         /\ r.pc = "record" /\ r.left = {} =>
              WellFormed(Rest([r EXCEPT !.runs = @ \cup {r.run},
                          !.partial = IF r.bad THEN @ \cup {r.run} ELSE @]))
         /\ r.pc = "execute" /\ r.call = None =>
              /\ \A k : WellFormed([r EXCEPT !.left = @ \ {k}])
              /\ \A k \in r.left : WellFormed([r EXCEPT !.call = k])
         /\ r.pc = "execute" => \A k :
              /\ WellFormed([r EXCEPT !.left = @ \ {k}, !.call = None])
              /\ WellFormed([r EXCEPT !.left = @ \ {k}, !.call = None,
                                      !.bad = TRUE])
         /\ r.pc = "execute" /\ r.left = {} =>
              WellFormed(Rest([r EXCEPT !.runs = @ \ {r.run}]))
<1> USE DEF WellFormed, ScanState
<1>1. /\ WellFormed(IdleScan)
      /\ WellFormed(Done)
      /\ \A T \in SUBSET Runs :
           WellFormed([IdleScan EXCEPT !.pc = "scan", !.todo = T])
  BY DEF IdleScan, Done
<1>2. ASSUME r.pc = "scan", NEW u \in Runs
      PROVE  /\ WellFormed([r EXCEPT !.pc = "record", !.todo = @ \ {u},
                              !.run = u, !.left = Of(u), !.bad = FALSE])
             /\ WellFormed(Rest([r EXCEPT !.todo = @ \ {u}]))
             /\ \A S \in SUBSET Of(u) :
                  /\ WellFormed([r EXCEPT !.pc = "execute", !.run = u,
                                  !.left = S, !.bad = FALSE])
                  /\ WellFormed([r EXCEPT !.pc = "execute", !.run = u,
                                  !.left = S, !.bad = TRUE, !.dark = TRUE])
             /\ WellFormed([r EXCEPT !.pc = "execute", !.run = u,
                              !.bad = TRUE])
  <2>1. Of(u) \subseteq Candidates
    BY DEF Of
  <2>2. [r EXCEPT !.todo = @ \ {u}] \in ScanState
    OBVIOUS
  <2>3. WellFormed(Rest([r EXCEPT !.todo = @ \ {u}]))
    BY <1>2, <2>2, RestShape
  <2>4. WellFormed([r EXCEPT !.pc = "record", !.todo = @ \ {u},
                              !.run = u, !.left = Of(u), !.bad = FALSE])
    BY <1>2, <2>1
  <2>5. ASSUME NEW S \in SUBSET Of(u)
        PROVE  /\ WellFormed([r EXCEPT !.pc = "execute", !.run = u,
                                !.left = S, !.bad = FALSE])
               /\ WellFormed([r EXCEPT !.pc = "execute", !.run = u,
                                !.left = S, !.bad = TRUE, !.dark = TRUE])
    BY <1>2, <2>1
  <2>6. WellFormed([r EXCEPT !.pc = "execute", !.run = u, !.bad = TRUE])
    BY <1>2, <2>1
  <2> QED
    BY <2>3, <2>4, <2>5, <2>6
<1>3. ASSUME r.pc = "record"
      PROVE  /\ WellFormed(Rest([r EXCEPT !.left = {}]))
             /\ \A k : WellFormed([r EXCEPT !.left = @ \ {k}])
             /\ \A k : WellFormed([r EXCEPT !.left = @ \ {k}, !.bad = TRUE])
  <2>1. [r EXCEPT !.left = {}] \in ScanState
    OBVIOUS
  <2>2. WellFormed(Rest([r EXCEPT !.left = {}]))
    BY <1>3, <2>1, RestShape
  <2>3. \A k : WellFormed([r EXCEPT !.left = @ \ {k}])
    BY <1>3
  <2>4. \A k : WellFormed([r EXCEPT !.left = @ \ {k}, !.bad = TRUE])
    BY <1>3
  <2> QED
    BY <2>2, <2>3, <2>4
<1>4. ASSUME r.pc = "record", r.left = {}
      PROVE  WellFormed(Rest([r EXCEPT !.runs = @ \cup {r.run},
                          !.partial = IF r.bad THEN @ \cup {r.run} ELSE @]))
  <2> DEFINE q == [r EXCEPT !.runs = @ \cup {r.run},
                            !.partial = IF r.bad THEN @ \cup {r.run} ELSE @]
  <2>1. q \in ScanState /\ q.left = {} /\ q.call = None
    BY <1>4
  <2> HIDE DEF WellFormed, ScanState, q
  <2>2. WellFormed(Rest(q))
    BY <2>1, RestShape
  <2> QED
    BY <2>2 DEF q
<1>5. ASSUME r.pc = "execute", r.call = None
      PROVE  /\ \A k : WellFormed([r EXCEPT !.left = @ \ {k}])
             /\ \A k \in r.left : WellFormed([r EXCEPT !.call = k])
  BY <1>5
<1>6. ASSUME r.pc = "execute", NEW k
      PROVE  /\ WellFormed([r EXCEPT !.left = @ \ {k}, !.call = None])
             /\ WellFormed([r EXCEPT !.left = @ \ {k}, !.call = None,
                                     !.bad = TRUE])
  BY <1>6
<1>7. ASSUME r.pc = "execute", r.left = {}
      PROVE  WellFormed(Rest([r EXCEPT !.runs = @ \ {r.run}]))
  <2> DEFINE q == [r EXCEPT !.runs = @ \ {r.run}]
  <2>1. q \in ScanState /\ q.left = {} /\ q.call = None
    BY <1>7
  <2> HIDE DEF WellFormed, ScanState, q
  <2>2. WellFormed(Rest(q))
    BY <2>1, RestShape
  <2> QED
    BY <2>2 DEF q
<1> QED
  BY <1>1, <1>2, <1>3, <1>4, <1>5, <1>6, <1>7

-----------------------------------------------------------------------------
(* What a step of each actor changes.                                      *)

(* Failures are counted and never forgotten.                               *)
Counted == troubles \subseteq troubles' /\ troubles' \subseteq Kinds

(* Failures only add up.                                                   *)
LEMMA FailsType == Fails("error") \/ Fails("lost") \/ Fails("silent") \/ Steady
                     => (TypeOK => Counted)
  BY DEF Fails, Steady, TypeOK, Kinds, Counted

(* A step of a scan moves the scan, writes its own tables, and calls an    *)
(* open RPC or takes its answer.                                           *)
ScanEffect(s) ==
  /\ UNCHANGED <<control, queued, book, settler, close>>
  /\ \E r : WellFormed(r) /\ scan' = [scan EXCEPT ![s] = r]
  /\ runs' \in [Runs -> {"absent", "running", "succeeded", "partial",
                         "failed"}]
  /\ attempts' \subseteq Candidates
  /\ rejected' \subseteq Candidates
  /\ Counted
  /\ \/ open' = open
     \/ \E k \in Candidates : \E v \in OpenState :
          /\ v.pc \in {"none", "check"}
          /\ open' = [open EXCEPT ![s][k] = v]

(* Every step of the scan handler is such a step.                          *)
LEMMA ScanMoves ==
  ASSUME TypeOK, ScanShape, NEW s \in Scans, ScanStep(s)
  PROVE  ScanEffect(s)
<1> DEFINE r == scan[s]
           Frame == UNCHANGED <<control, queued, book, settler, close>>
           Table == /\ runs' \in [Runs -> {"absent", "running", "succeeded",
                                            "partial", "failed"}]
                    /\ attempts' \subseteq Candidates
                    /\ rejected' \subseteq Candidates
           Moved(q) == WellFormed(q) /\ scan' = [scan EXCEPT ![s] = q]
<1>a. WellFormed(r) /\ r \in ScanState
  BY DEF ScanShape, WellFormed
<1>b. /\ runs \in [Runs -> {"absent", "running", "succeeded", "partial",
                            "failed"}]
      /\ attempts \subseteq Candidates
      /\ rejected \subseteq Candidates
      /\ open \in [Scans -> [Candidates -> OpenState]]
  BY DEF TypeOK
<1>c. NoOpen \in OpenState /\ NoOpen.pc = "none"
  BY DEF NoOpen, OpenState
<1>d. UNCHANGED table => Table
  BY <1>b DEF table
<1>e. \A u : \A x \in {"absent", "running", "succeeded", "partial", "failed"} :
        [runs EXCEPT ![u] = x]
          \in [Runs -> {"absent", "running", "succeeded", "partial", "failed"}]
  BY <1>b
<1>f. \A b : Status(b) \in {"succeeded", "partial"}
  BY DEF Status
<1>h. Scanning => Frame /\ open' = open
  BY DEF Scanning
<1> HIDE DEF r
<1>q. ASSUME Frame, Table, Counted,
             \E q : Moved(q),
             \/ open' = open
             \/ \E k \in Candidates : \E v \in OpenState :
                  /\ v.pc \in {"none", "check"}
                  /\ open' = [open EXCEPT ![s][k] = v]
      PROVE  ScanEffect(s)
  BY <1>q DEF ScanEffect
<1> HIDE DEF Frame, Table
<1>t. ASSUME Fails("error") \/ Fails("lost") \/ Fails("silent") \/ Steady
      PROVE  Counted
  BY <1>t, FailsType
<1>1. ASSUME NEW d \in Decisions, ScanStart(s, d) PROVE ScanEffect(s)
  <2> DEFINE T == {u \in Runs : Decision[u] = d}
  <2>0. T \in SUBSET Runs
    OBVIOUS
  <2>1. Moved(IF Enabled THEN [IdleScan EXCEPT !.pc = "scan", !.todo = T]
                         ELSE Done)
    BY <2>0, <1>1, <1>a, ScanUpdates DEF ScanStart, Goes
  <2> QED
    BY <1>1, <2>1, <1>d, <1>h, <1>q, <1>t DEF ScanStart
<1>2. ASSUME ScanFails(s) PROVE ScanEffect(s)
  <2>1. Moved(Done)
    BY <1>2, <1>a, ScanUpdates DEF ScanFails, Goes
  <2> QED
    BY <1>2, <2>1, <1>d, <1>h, <1>q, <1>t DEF ScanFails
<1>3. ASSUME NEW u \in Runs, BeginRun(s, u) PROVE ScanEffect(s)
  <2>1. Moved([r EXCEPT !.pc = "record", !.todo = @ \ {u}, !.run = u,
                        !.left = Of(u), !.bad = FALSE])
    BY <1>3, <1>a, ScanUpdates DEF BeginRun, Goes, r
  <2>2. Table
    BY <1>3, <1>b DEF BeginRun, Table
  <2> QED
    BY <1>3, <2>1, <2>2, <1>h, <1>q, <1>t DEF BeginRun
<1>4. ASSUME NEW u \in Runs, BeginFails(s, u) PROVE ScanEffect(s)
  <2>1. Moved(Rest([r EXCEPT !.todo = @ \ {u}]))
    BY <1>4, <1>a, ScanUpdates DEF BeginFails, Goes, r
  <2> QED
    BY <1>4, <2>1, <1>d, <1>h, <1>q, <1>t DEF BeginFails
<1>5. ASSUME NEW u \in Runs, ExecuteStart(s, u) PROVE ScanEffect(s)
  <2>1. attempts \cap Of(u) \in SUBSET Of(u)
    OBVIOUS
  <2>2. Moved([r EXCEPT !.pc = "execute", !.run = u,
                        !.left = attempts \cap Of(u), !.bad = FALSE])
    BY <1>5, <2>1, <1>a, ScanUpdates DEF ExecuteStart, Goes, r
  <2> QED
    BY <1>5, <2>2, <1>d, <1>h, <1>q, <1>t DEF ExecuteStart
<1>6. ASSUME NEW u \in Runs, ReadFails(s, u) PROVE ScanEffect(s)
  <2>1. Moved([r EXCEPT !.pc = "execute", !.run = u, !.bad = TRUE])
    BY <1>6, <1>a, ScanUpdates DEF ReadFails, Goes, r
  <2> QED
    BY <1>6, <2>1, <1>d, <1>h, <1>q, <1>t DEF ReadFails
<1>7. ASSUME NEW u \in Runs, TapeFails(s, u) PROVE ScanEffect(s)
  <2>1. attempts \cap Of(u) \in SUBSET Of(u)
    OBVIOUS
  <2>2. Moved([r EXCEPT !.pc = "execute", !.run = u,
                        !.left = attempts \cap Of(u), !.bad = TRUE,
                        !.dark = TRUE])
    BY <1>7, <2>1, <1>a, ScanUpdates DEF TapeFails, Goes, r
  <2> QED
    BY <1>7, <2>2, <1>d, <1>h, <1>q, <1>t DEF TapeFails
<1>8. ASSUME RecordCandidate(s) PROVE ScanEffect(s)
  <2>1. Moved([r EXCEPT !.left = @ \ {First(@)}])
    BY <1>8, <1>a, ScanUpdates DEF RecordCandidate, Recording, Goes, r
  <2>2. First(r.left) \in Candidates
    BY <1>8, <1>a, FirstOfSet DEF RecordCandidate, ScanState, r
  <2>3. Table
    BY <1>8, <1>b, <2>2 DEF RecordCandidate, Table, r
  <2> QED
    BY <1>8, <2>1, <2>3, <1>h, <1>q, <1>t DEF RecordCandidate
<1>9. ASSUME RecordFails(s) PROVE ScanEffect(s)
  <2>1. Moved([r EXCEPT !.left = @ \ {First(@)}, !.bad = TRUE])
    BY <1>9, <1>a, ScanUpdates DEF RecordFails, Recording, Goes, r
  <2> QED
    BY <1>9, <2>1, <1>d, <1>h, <1>q, <1>t DEF RecordFails
<1>10. ASSUME NEW k \in Candidates, Reject(s, k) PROVE ScanEffect(s)
  <2>1. Moved([r EXCEPT !.left = @ \ {k}])
    BY <1>10, <1>a, ScanUpdates DEF Reject, Executing, Goes, r
  <2>2. Table
    BY <1>10, <1>b DEF Reject, Table
  <2> QED
    BY <1>10, <2>1, <2>2, <1>h, <1>q, <1>t DEF Reject
<1>11. ASSUME NEW k \in Candidates, CallOpen(s, k) PROVE ScanEffect(s)
  <2>1. Moved([r EXCEPT !.call = k])
    BY <1>11, <1>a, ScanUpdates, FirstOfSet
       DEF CallOpen, Executing, Goes, r
  <2> DEFINE v == [open[s][k] EXCEPT !.pc = "check"]
  <2>2. v \in OpenState /\ v.pc = "check"
    BY <1>b DEF OpenState
  <2>3. open' = [open EXCEPT ![s][k] = v]
    BY <1>11, <1>b DEF CallOpen
  <2> QED
    BY <1>11, <2>1, <2>2, <2>3, <1>d, <1>q, <1>t DEF CallOpen, Frame
<1>12. ASSUME NEW k \in Candidates, RejectFails(s, k) PROVE ScanEffect(s)
  <2>1. r.pc = "execute"
    BY <1>12, <1>a, ExperimentAssumption
       DEF RejectFails, Executing, WellFormed, r
  <2>2. Moved([r EXCEPT !.left = @ \ {k}, !.call = None, !.bad = TRUE])
    BY <1>12, <2>1, <1>a, ScanUpdates DEF RejectFails, Goes, r
  <2> QED
    BY <1>12, <2>2, <1>c, <1>d, <1>q, <1>t DEF RejectFails, Frame
<1>13. ASSUME SelectorFails(s) PROVE ScanEffect(s)
  <2>1. Moved(Rest([r EXCEPT !.left = {}]))
    BY <1>13, <1>a, ScanUpdates DEF SelectorFails, Recording, Goes, r
  <2>2. Table
    BY <1>13, <1>b, <1>e DEF SelectorFails, Table
  <2> QED
    BY <1>13, <2>1, <2>2, <1>h, <1>q, <1>t DEF SelectorFails
<1>14. Recording(s) /\ r.left = {} => WellFormed(Finished(s))
  BY <1>a, ScanUpdates DEF Recording, Finished, r
<1>15. ASSUME FinishRun(s) PROVE ScanEffect(s)
  <2>1. Moved(Finished(s))
    BY <1>14, <1>15 DEF FinishRun, Goes, r
  <2>2. Table
    BY <1>15, <1>b, <1>e, <1>f DEF FinishRun, Table
  <2> QED
    BY <1>15, <2>1, <2>2, <1>h, <1>q, <1>t DEF FinishRun
<1>16. ASSUME FinishFails(s) PROVE ScanEffect(s)
  <2>1. Moved(Finished(s))
    BY <1>14, <1>16 DEF FinishFails, Goes, r
  <2> QED
    BY <1>16, <2>1, <1>d, <1>h, <1>q, <1>t DEF FinishFails
<1>17. ASSUME r.call # None
       PROVE  /\ r.call \in Candidates
              /\ WellFormed(Answered(s))
              /\ WellFormed([Answered(s) EXCEPT !.bad = TRUE])
  <2>1. r.pc = "execute" /\ r.call \in Candidates
    BY <1>17, <1>a DEF WellFormed, ScanState
  <2>2. [Answered(s) EXCEPT !.bad = TRUE]
          = [r EXCEPT !.left = @ \ {r.call}, !.call = None, !.bad = TRUE]
    BY <1>a DEF Answered, r, ScanState
  <2> QED
    BY <2>1, <2>2, <1>a, ScanUpdates DEF Answered, r
<1>18. ASSUME r.call # None, Received(s)
       PROVE  /\ Frame
              /\ \E k \in Candidates : \E v \in OpenState :
                   v.pc \in {"none", "check"} /\ open' = [open EXCEPT ![s][k] = v]
  BY <1>17, <1>18, <1>c DEF Received, Frame, r
<1>19. ASSUME OpenAnswers(s) PROVE ScanEffect(s)
  <2>1. Moved(Answered(s))
    BY <1>17, <1>19 DEF OpenAnswers, Goes, r
  <2> QED
    BY <1>19, <2>1, <1>18, <1>d, <1>q, <1>t DEF OpenAnswers, r
<1>20. ASSUME OpenRaises(s) PROVE ScanEffect(s)
  <2>1. Moved([Answered(s) EXCEPT !.bad = TRUE])
    BY <1>17, <1>20 DEF OpenRaises, Goes, r
  <2>2. Table
    BY <1>17, <1>20, <1>b DEF OpenRaises, Table, r
  <2> QED
    BY <1>20, <2>1, <2>2, <1>18, <1>q, <1>t DEF OpenRaises, r
<1>21. ASSUME OpenLost(s) PROVE ScanEffect(s)
  <2>1. Moved([Answered(s) EXCEPT !.bad = TRUE])
    BY <1>17, <1>21 DEF OpenLost, Goes, r
  <2>2. Table
    BY <1>17, <1>21, <1>b DEF OpenLost, Table, r
  <2> QED
    BY <1>21, <2>1, <2>2, <1>h, <1>q, <1>t DEF OpenLost
<1>22. Executed(s) => WellFormed(RunExecuted(s))
  BY <1>a, ScanUpdates DEF Executed, RunExecuted, r
<1>23. ASSUME Persist(s) PROVE ScanEffect(s)
  <2>1. Moved(RunExecuted(s))
    BY <1>22, <1>23 DEF Persist, Goes
  <2>2. Table
    BY <1>23, <1>b, <1>e, <1>f DEF Persist, Table
  <2> QED
    BY <1>23, <2>1, <2>2, <1>h, <1>q, <1>t DEF Persist
<1>24. ASSUME PersistFails(s) PROVE ScanEffect(s)
  <2>1. Moved(RunExecuted(s))
    BY <1>22, <1>24 DEF PersistFails, Goes
  <2> QED
    BY <1>24, <2>1, <1>d, <1>h, <1>q, <1>t DEF PersistFails
<1>25. ASSUME ScanCrash(s) PROVE ScanEffect(s)
  <2>1. Moved(Done)
    BY <1>25, <1>a, ScanUpdates DEF ScanCrash, Goes
  <2> QED
    BY <1>25, <2>1, <1>d, <1>h, <1>q, <1>t DEF ScanCrash
<1> QED
  BY <1>1, <1>2, <1>3, <1>4, <1>5, <1>6, <1>7, <1>8, <1>9, <1>10, <1>11,
     <1>12, <1>13, <1>15, <1>16, <1>19, <1>20, <1>21, <1>23, <1>24, <1>25
     DEF ScanStep

(* A control RPC or the enqueue: portfolios are locked while they are      *)
(* free, and a pause that commits starts the count of late orders anew.    *)
ControlEffect ==
  /\ UNCHANGED <<table, orders, posn, cash, netliq, events, scan, open,
                 settler, close>>
  /\ Counted
  /\ approved' \in BOOLEAN
  /\ queued' \subseteq Decisions
  /\ ctl' \in [op : {"none", "enable", "pause"}, locked : SUBSET Arms]
  /\ \A a \in Arms : a \in ctl'.locked => a \in ctl.locked \/ PortfolioFree(a)
  /\ \/ epoch' = epoch /\ late' = late
     \/ epoch' \in {"disabled", "enabled"} /\ late' = late
     \/ epoch' = "paused" /\ late' = [u \in Runs |-> 0]

(* Every step of setup, enable, pause and enqueue is one.                  *)
LEMMA ControlMoves ==
  ASSUME TypeOK,
         \/ Setup \/ Approve \/ EnableStart \/ PauseStart
         \/ \E a \in Arms : CtlLock(a)
         \/ CtlCommit \/ CtlAborts
         \/ \E d \in Decisions : Enqueue(d)
  PROVE  ControlEffect
<1> DEFINE CtlType == [op : {"none", "enable", "pause"}, locked : SUBSET Arms]
<1>a. /\ approved \in BOOLEAN /\ queued \subseteq Decisions
      /\ ctl \in CtlType
  BY DEF TypeOK
<1>b. \A o \in {"none", "enable", "pause"} :
        [op |-> o, locked |-> {}] \in CtlType
  OBVIOUS
<1>c. \A a \in Arms : [ctl EXCEPT !.locked = @ \cup {a}] \in CtlType
  BY <1>a
<1>t. ASSUME Fails("error") \/ Steady PROVE Counted
  BY <1>t, FailsType
<1>1. CASE Setup
  BY <1>1, <1>a, <1>t DEF Setup, ControlEffect, book, table
<1>2. CASE Approve
  BY <1>2, <1>a, <1>t DEF Approve, ControlEffect, book, table
<1>3. CASE EnableStart
  BY <1>3, <1>a, <1>b, <1>t DEF EnableStart, ControlEffect, book, table
<1>4. CASE PauseStart
  BY <1>4, <1>a, <1>b, <1>t DEF PauseStart, ControlEffect, book, table
<1>5. ASSUME NEW a \in Arms, CtlLock(a) PROVE ControlEffect
  <2>1. ctl' \in CtlType
    BY <1>5, <1>b, <1>c DEF CtlLock
  <2>2. \A b \in Arms : b \in ctl'.locked => b \in ctl.locked \/ PortfolioFree(b)
    <3>1. ctl'.locked = {} \/ ctl'.locked = ctl.locked \cup {a}
      BY <1>5, <1>a DEF CtlLock
    <3> QED
      BY <1>5, <3>1 DEF CtlLock
  <2> QED
    BY <1>5, <1>a, <1>t, <2>1, <2>2 DEF CtlLock, ControlEffect, book, table
<1>6. CASE CtlCommit
  <2>1. \/ epoch' = epoch /\ late' = late
        \/ epoch' \in {"disabled", "enabled"} /\ late' = late
        \/ epoch' = "paused" /\ late' = [u \in Runs |-> 0]
    BY <1>6, <1>a DEF CtlCommit
  <2> QED
    BY <1>6, <1>a, <1>b, <1>t, <2>1 DEF CtlCommit, ControlEffect
<1>7. CASE CtlAborts
  BY <1>7, <1>a, <1>b, <1>t DEF CtlAborts, ControlEffect, book, table
<1>8. ASSUME NEW d \in Decisions, Enqueue(d) PROVE ControlEffect
  BY <1>8, <1>a, <1>t DEF Enqueue, ControlEffect, control, book, table
<1> QED
  BY <1>1, <1>2, <1>3, <1>4, <1>5, <1>6, <1>7, <1>8

(* The order, its position, the balance and the cash event of one open.    *)
Opens(s, k) ==
  /\ orders' = orders \cup {k}
  /\ posn' = [posn EXCEPT ![k] = "open"]
  /\ cash' = [cash EXCEPT ![Arm[k]] = open[s][k].before - tape[k]]
  /\ events' = [events EXCEPT ![Arm[k]] = @ - tape[k]]
  /\ late' = [late EXCEPT ![Run[k]] = IF epoch = "paused" THEN @ + 1 ELSE @]
  /\ UNCHANGED netliq

(* A step of an open transaction: it locks the run row, or the portfolio,  *)
(* or ends without a trace, or commits.                                    *)
OpenEffect(s, k) ==
  /\ UNCHANGED <<control, queued, table, scan, settler, close>>
  /\ Counted
  /\ \E v \in OpenState :
       /\ open' = [open EXCEPT ![s][k] = v]
       /\ \/ /\ v.pc = "cash" /\ RunFree(Run[k])
             /\ k \notin orders /\ epoch = "enabled"
             /\ UNCHANGED book
          \/ /\ v.pc = "commit" /\ v.before = cash[Arm[k]]
             /\ open[s][k].pc = "cash" /\ PortfolioFree(Arm[k])
             /\ cash[Arm[k]] >= tape[k]
             /\ UNCHANGED book
          \/ /\ v.pc \in {"none", "done", "failed"}
             /\ v.pc = "done" => k \in orders
             /\ UNCHANGED book
          \/ /\ v.pc = "dup" /\ Opening(s, k) /\ k \in orders
             /\ UNCHANGED book
          \/ /\ v.pc \in {"none", "done"} /\ Opening(s, k) /\ k \notin orders
             /\ Opens(s, k)

(* Every statement of the open RPC is one.                                 *)
LEMMA OpenMoves ==
  ASSUME TypeOK, NEW s \in Scans, NEW k \in Candidates,
         OpenStep(s, k) \/ OpenAborts(s, k)
  PROVE  OpenEffect(s, k)
<1> DEFINE To(v) == open' = [open EXCEPT ![s][k] = v]
<1>a. /\ open \in [Scans -> [Candidates -> OpenState]]
      /\ cash[Arm[k]] \in Nat
  BY ArmType DEF TypeOK
<1>o. NoOpen \in OpenState /\ NoOpen.pc = "none"
  BY DEF NoOpen, OpenState
<1>b. ASSUME open' = Ends(s, k, "failed")
      PROVE  \E v \in OpenState : To(v) /\ (v.pc = "none" \/ v.pc = "failed")
  <2>1. [NoOpen EXCEPT !.pc = "failed"] \in OpenState
    BY DEF NoOpen, OpenState
  <2>2. [NoOpen EXCEPT !.pc = "failed"].pc = "failed"
    BY DEF NoOpen
  <2>3. CASE scan[s].call = k
    BY <1>b, <2>1, <2>2, <2>3 DEF Ends
  <2>4. CASE scan[s].call # k
    BY <1>b, <1>o, <2>4 DEF Ends
  <2> QED
    BY <2>3, <2>4
<1>c. ASSUME open' = Ends(s, k, "done")
      PROVE  \E v \in OpenState : To(v) /\ (v.pc = "none" \/ v.pc = "done")
  <2>1. [NoOpen EXCEPT !.pc = "done"] \in OpenState
    BY DEF NoOpen, OpenState
  <2>2. [NoOpen EXCEPT !.pc = "done"].pc = "done"
    BY DEF NoOpen
  <2>3. CASE scan[s].call = k
    BY <1>c, <2>1, <2>2, <2>3 DEF Ends
  <2>4. CASE scan[s].call # k
    BY <1>c, <1>o, <2>4 DEF Ends
  <2> QED
    BY <2>3, <2>4
<1>d. ASSUME open' = Ends(s, k, "dup")
      PROVE  \E v \in OpenState : To(v) /\ v.pc = "dup"
  <2>1. [NoOpen EXCEPT !.pc = "dup"] \in OpenState
    BY DEF NoOpen, OpenState
  <2>2. [NoOpen EXCEPT !.pc = "dup"].pc = "dup"
    BY DEF NoOpen
  <2> QED
    BY <1>d, <2>1, <2>2 DEF Ends
<1> HIDE DEF To
<1>t. ASSUME Fails("error") \/ Steady PROVE Counted
  BY <1>t, FailsType
<1>1. ASSUME OpenCheck(s, k) PROVE OpenEffect(s, k)
  <2>1. /\ RunFree(Run[k]) /\ Counted
        /\ UNCHANGED <<control, queued, table, book, scan, settler, close>>
    BY <1>1, <1>t DEF OpenCheck, OpenCheckOf
  <2>2. Verdict(k) \in {"cash", "done", "failed"}
    BY DEF Verdict
  <2>3. CASE Verdict(k) = "cash"
    <3> DEFINE v == [open[s][k] EXCEPT !.pc = "cash"]
    <3>1. v \in OpenState /\ v.pc = "cash"
      BY <1>a DEF OpenState
    <3>2. open' = [open EXCEPT ![s][k] = v]
      BY <1>1, <1>a, <2>3 DEF OpenCheck, OpenCheckOf
    <3>3. k \notin orders /\ epoch = "enabled"
      BY <2>3 DEF Verdict, Enabled
    <3> HIDE DEF v
    <3> QED
      BY <2>1, <3>1, <3>2, <3>3 DEF OpenEffect, To
  <2>4. CASE Verdict(k) = "done"
    <3>1. open' = Ends(s, k, "done") /\ k \in orders
      BY <1>1, <2>4 DEF OpenCheck, OpenCheckOf, Verdict
    <3>2. PICK v \in OpenState : To(v) /\ (v.pc = "none" \/ v.pc = "done")
      BY <1>c, <3>1
    <3> QED
      BY <2>1, <3>1, <3>2 DEF OpenEffect, To
  <2>5. CASE Verdict(k) = "failed"
    <3>1. open' = Ends(s, k, "failed")
      BY <1>1, <2>5 DEF OpenCheck, OpenCheckOf
    <3>2. PICK v \in OpenState : To(v) /\ (v.pc = "none" \/ v.pc = "failed")
      BY <1>b, <3>1
    <3> QED
      BY <2>1, <3>2 DEF OpenEffect, To
  <2> QED
    BY <2>2, <2>3, <2>4, <2>5
<1>2. ASSUME OpenCash(s, k) PROVE OpenEffect(s, k)
  <2>1. /\ open[s][k].pc = "cash" /\ PortfolioFree(Arm[k])
        /\ Counted
        /\ UNCHANGED <<control, queued, table, book, scan, settler, close>>
    BY <1>2, <1>t DEF OpenCash, OpenCashOf
  <2>2. CASE cash[Arm[k]] >= tape[k]
    <3> DEFINE v == [pc |-> "commit", before |-> cash[Arm[k]]]
    <3>1. v \in OpenState /\ v.pc = "commit" /\ v.before = cash[Arm[k]]
      BY <1>a DEF OpenState
    <3>2. open' = [open EXCEPT ![s][k] = v]
      BY <1>2, <2>2 DEF OpenCash, OpenCashOf
    <3> HIDE DEF v
    <3> QED
      BY <2>1, <2>2, <3>1, <3>2 DEF OpenEffect, To
  <2>3. CASE ~(cash[Arm[k]] >= tape[k])
    <3>1. open' = Ends(s, k, "failed")
      BY <1>2, <2>3 DEF OpenCash, OpenCashOf
    <3>2. PICK v \in OpenState : To(v) /\ (v.pc = "none" \/ v.pc = "failed")
      BY <1>b, <3>1
    <3> QED
      BY <2>1, <3>2 DEF OpenEffect, To
  <2> QED
    BY <2>2, <2>3
<1>3. ASSUME OpenCommit(s, k) PROVE OpenEffect(s, k)
  <2>1. /\ Opening(s, k) /\ Counted
        /\ UNCHANGED <<control, queued, table, scan, settler, close>>
    BY <1>3, <1>t DEF OpenCommit, Opening
  <2>2. CASE k \in orders
    <3>1. open' = Ends(s, k, "dup") /\ UNCHANGED book
      BY <1>3, <2>2 DEF OpenCommit
    <3>2. PICK v \in OpenState : To(v) /\ v.pc = "dup"
      BY <1>d, <3>1
    <3> QED
      BY <2>1, <2>2, <3>1, <3>2 DEF OpenEffect, To
  <2>3. CASE k \notin orders
    <3>1. open' = Ends(s, k, "done") /\ Opens(s, k)
      BY <1>3, <2>3 DEF OpenCommit, Opens
    <3>2. PICK v \in OpenState : To(v) /\ (v.pc = "none" \/ v.pc = "done")
      BY <1>c, <3>1
    <3> QED
      BY <2>1, <2>3, <3>1, <3>2 DEF OpenEffect, To
  <2> QED
    BY <2>2, <2>3
<1>4. ASSUME OpenAborts(s, k) PROVE OpenEffect(s, k)
  <2>1. /\ open' = Ends(s, k, "failed") /\ Counted
        /\ UNCHANGED <<control, queued, table, book, scan, settler, close>>
    BY <1>4, <1>t DEF OpenAborts
  <2>2. PICK v \in OpenState : To(v) /\ (v.pc = "none" \/ v.pc = "failed")
    BY <1>b, <2>1
  <2> QED
    BY <2>1, <2>2 DEF OpenEffect, To
<1> QED
  BY <1>1, <1>2, <1>3, <1>4 DEF OpenStep

(* A step of a settlement: it lists open positions, or calls the close RPC *)
(* of one it listed.                                                       *)
SettleEffect(m) ==
  /\ UNCHANGED <<control, queued, table, book, scan, open>>
  /\ Counted
  /\ \E q \in SettlerState :
       /\ settler' = [settler EXCEPT ![m] = q]
       /\ \A k \in q.left : k \in settler[m].left \/ posn[k] = "open"
  /\ \/ close' = close
     \/ \E k \in settler[m].left : \E v \in CloseState :
          v.pc = "check" /\ close' = [close EXCEPT ![m][k] = v]

(* Every step of the settlement handler is one.                            *)
LEMMA SettleMoves ==
  ASSUME TypeOK, NEW m \in Settlers, SettlerStep(m)
  PROVE  SettleEffect(m)
<1> DEFINE To(q) == settler' = [settler EXCEPT ![m] = q]
           Listed(q) == \A k \in q.left : k \in settler[m].left \/ posn[k] = "open"
<1>a. /\ settler \in [Settlers -> SettlerState]
      /\ settler[m] \in SettlerState
  BY DEF TypeOK
<1>t. ASSUME Fails("lost") \/ Steady PROVE Counted
  BY <1>t, FailsType
<1>1. ASSUME NEW due \in SUBSET Candidates, SettleStart(m, due)
      PROVE  SettleEffect(m)
  <2> DEFINE q == [settler[m] EXCEPT !.left = due]
  <2>1. q \in SettlerState /\ q.left = due
    BY <1>a DEF SettlerState
  <2>2. To(q) /\ close' = close /\ Listed(q)
    BY <1>1, <1>a, <2>1 DEF SettleStart
  <2> HIDE DEF q
  <2> QED
    BY <1>1, <1>t, <2>1, <2>2 DEF SettleStart, SettleEffect, Settling
<1>2. ASSUME NEW k \in Candidates, SettleDefer(m, k) PROVE SettleEffect(m)
  <2> DEFINE q == [settler[m] EXCEPT !.left = @ \ {k}]
  <2>1. q \in SettlerState /\ q.left \subseteq settler[m].left
    BY <1>a DEF SettlerState
  <2>2. To(q) /\ close' = close
    BY <1>2, <1>a DEF SettleDefer
  <2> HIDE DEF q
  <2> QED
    BY <1>2, <1>t, <2>1, <2>2 DEF SettleDefer, SettleEffect, Settling
<1>3. ASSUME NEW k \in Candidates, NEW v \in Payoffs, SettleCall(m, k, v)
      PROVE  SettleEffect(m)
  <2> DEFINE q == [settler[m] EXCEPT !.call = k]
             c == [NoClose EXCEPT !.pc = "check", !.pay = v]
  <2>1. q \in SettlerState /\ q.left = settler[m].left
    BY <1>a DEF SettlerState
  <2>2. To(q)
    BY <1>3, <1>a DEF SettleCall
  <2>3. v \in Nat
    BY ExperimentAssumption
  <2>4. c \in CloseState /\ c.pc = "check"
    BY <2>3 DEF NoClose, CloseState
  <2>5. close' = [close EXCEPT ![m][k] = c] /\ k \in settler[m].left
    BY <1>3 DEF SettleCall
  <2> HIDE DEF q, c
  <2> QED
    BY <1>3, <1>t, <2>1, <2>2, <2>4, <2>5 DEF SettleCall, SettleEffect, Settling
<1>4. ASSUME SettleNext(m)
      PROVE  \E q \in SettlerState : To(q) /\ q.left \subseteq settler[m].left
  <2> DEFINE q == [settler[m] EXCEPT !.left = @ \ {settler[m].call},
                                     !.call = None]
  <2>1. q \in SettlerState /\ q.left \subseteq settler[m].left
    BY <1>a DEF SettlerState
  <2>2. To(q)
    BY <1>4, <1>a DEF SettleNext, SettlerState
  <2> HIDE DEF q
  <2> QED
    BY <2>1, <2>2
<1>5. ASSUME SettleAnswer(m) PROVE SettleEffect(m)
  BY <1>4, <1>5, <1>t DEF SettleAnswer, SettleEffect, Settling
<1>6. ASSUME SettleLost(m) PROVE SettleEffect(m)
  BY <1>4, <1>6, <1>t DEF SettleLost, SettleEffect, Settling
<1> QED
  BY <1>1, <1>2, <1>3, <1>5, <1>6 DEF SettlerStep

(* The balance, the net value and the cash event of one close.             *)
Closes(m, k) ==
  /\ posn' = [posn EXCEPT ![k] = "closed"]
  /\ cash' = [cash EXCEPT ![Arm[k]] = close[m][k].before + close[m][k].pay]
  /\ netliq' = [netliq EXCEPT ![Arm[k]] = @ + (close[m][k].pay - tape[k])]
  /\ events' = [events EXCEPT ![Arm[k]] = @ + close[m][k].pay]
  /\ UNCHANGED <<orders, late>>

(* A step of a close transaction: it ends without a trace, or locks the    *)
(* position, or the portfolio, or commits.                                 *)
CloseEffect(m, k) ==
  /\ UNCHANGED <<control, queued, table, scan, open, settler>>
  /\ Counted
  /\ close[m][k].pc # "none"
  /\ \E v \in CloseState :
       /\ close' = [close EXCEPT ![m][k] = v]
       /\ \/ v.pc = "none" /\ UNCHANGED book
          \/ /\ v.pc = "cash" /\ posn[k] # "closed" /\ PositionFree(k)
             /\ UNCHANGED book
          \/ /\ v.pc = "commit" /\ v.before = cash[Arm[k]]
             /\ close[m][k].pc = "cash" /\ PortfolioFree(Arm[k])
             /\ UNCHANGED book
          \/ v.pc = "none" /\ Closing(m, k) /\ Closes(m, k)

(* Every statement of the close RPC is one.                                *)
LEMMA CloseMoves ==
  ASSUME TypeOK, NEW m \in Settlers, NEW k \in Candidates, CloseStep(m, k)
  PROVE  CloseEffect(m, k)
<1>a. /\ close \in [Settlers -> [Candidates -> CloseState]]
      /\ close[m][k] \in CloseState
      /\ cash[Arm[k]] \in Nat
  BY ArmType DEF TypeOK
<1>b. NoClose \in CloseState /\ NoClose.pc = "none"
  BY DEF NoClose, CloseState
<1>t. ASSUME Fails("error") \/ Steady PROVE Counted
  BY <1>t, FailsType
<1>1. ASSUME CloseCheck(m, k) PROVE CloseEffect(m, k)
  <2>1. /\ PositionFree(k) /\ close[m][k].pc # "none"
        /\ UNCHANGED <<control, queued, table, book, scan, open, settler>>
        /\ Counted
    BY <1>1, <1>t DEF CloseCheck, Settling
  <2>2. CASE posn[k] = "closed"
    <3>1. close' = [close EXCEPT ![m][k] = NoClose]
      BY <1>1, <1>a, <2>2 DEF CloseCheck
    <3> QED
      BY <1>b, <2>1, <3>1 DEF CloseEffect
  <2>3. CASE posn[k] # "closed"
    <3> DEFINE v == [close[m][k] EXCEPT !.pc = "cash"]
    <3>1. v \in CloseState /\ v.pc = "cash"
      BY <1>a DEF CloseState
    <3>2. close' = [close EXCEPT ![m][k] = v]
      BY <1>1, <1>a, <2>3 DEF CloseCheck
    <3> HIDE DEF v
    <3> QED
      BY <2>1, <2>3, <3>1, <3>2 DEF CloseEffect
  <2> QED
    BY <2>2, <2>3
<1>2. ASSUME CloseCash(m, k) PROVE CloseEffect(m, k)
  <2> DEFINE v == [close[m][k] EXCEPT !.pc = "commit", !.before = cash[Arm[k]]]
  <2>1. v \in CloseState /\ v.pc = "commit" /\ v.before = cash[Arm[k]]
    BY <1>a DEF CloseState
  <2>2. close' = [close EXCEPT ![m][k] = v]
    BY <1>2, <1>a DEF CloseCash, CloseState
  <2>3. /\ close[m][k].pc = "cash" /\ close[m][k].pc # "none"
        /\ PortfolioFree(Arm[k])
        /\ UNCHANGED <<control, queued, table, book, scan, open, settler>>
        /\ Counted
    BY <1>2, <1>t DEF CloseCash, Settling
  <2> HIDE DEF v
  <2> QED
    BY <2>1, <2>2, <2>3 DEF CloseEffect
<1>3. ASSUME CloseCommit(m, k) PROVE CloseEffect(m, k)
  <2>1. Closing(m, k) /\ close[m][k].pc # "none" /\ Closes(m, k)
    BY <1>3 DEF CloseCommit, CloseCommitOf, Closing, Closes
  <2>2. close' = [close EXCEPT ![m][k] = NoClose] /\ Counted
    BY <1>3, <1>t DEF CloseCommit, CloseCommitOf
  <2> QED
    BY <1>3, <1>b, <2>1, <2>2 DEF CloseCommit, CloseCommitOf, CloseEffect
<1>4. ASSUME CloseAborts(m, k) PROVE CloseEffect(m, k)
  BY <1>4, <1>b, <1>t DEF CloseAborts, Settling, CloseEffect
<1> QED
  BY <1>1, <1>2, <1>3, <1>4 DEF CloseStep

(* The steps of the system are those of its actors.                        *)
LEMMA Moves ==
  ASSUME TypeOK, ScanShape, Next
  PROVE  \/ ControlEffect
         \/ \E s \in Scans : ScanEffect(s)
         \/ \E s \in Scans, k \in Candidates : OpenEffect(s, k)
         \/ \E m \in Settlers : SettleEffect(m)
         \/ \E m \in Settlers, k \in Candidates : CloseEffect(m, k)
  BY ControlMoves, ScanMoves, OpenMoves, SettleMoves, CloseMoves DEF Next

(* No transaction gains a lock from a step of its client.                  *)
LEMMA ScanOpens ==
  ASSUME TypeOK, NEW s \in Scans, ScanEffect(s)
  PROVE  \A x \in Scans, y \in Candidates :
           open'[x][y] = open[x][y] \/ open'[x][y].pc \in {"none", "check"}
<1>1. CASE open' = open
  BY <1>1
<1>2. ASSUME NEW k \in Candidates, NEW v \in OpenState,
             v.pc \in {"none", "check"}, open' = [open EXCEPT ![s][k] = v]
      PROVE  \A x \in Scans, y \in Candidates :
               open'[x][y] = open[x][y] \/ open'[x][y].pc \in {"none", "check"}
  BY <1>2 DEF TypeOK
<1> QED
  BY <1>1, <1>2 DEF ScanEffect

(* A settlement run calls the close RPC for what it has listed.            *)
LEMMA SettleCloses ==
  ASSUME TypeOK, NEW m \in Settlers, SettleEffect(m)
  PROVE  \A x \in Settlers, y \in Candidates :
           \/ close'[x][y] = close[x][y]
           \/ close'[x][y].pc = "check" /\ y \in settler[m].left
<1>1. CASE close' = close
  BY <1>1
<1>2. ASSUME NEW k \in settler[m].left, NEW v \in CloseState, v.pc = "check",
             close' = [close EXCEPT ![m][k] = v]
      PROVE  \A x \in Settlers, y \in Candidates :
               \/ close'[x][y] = close[x][y]
               \/ close'[x][y].pc = "check" /\ y \in settler[m].left
  <2>1. k \in Candidates
    BY DEF TypeOK, SettlerState
  <2> QED
    BY <1>2, <2>1 DEF TypeOK
<1> QED
  BY <1>1, <1>2 DEF SettleEffect

-----------------------------------------------------------------------------
(* Types.                                                                  *)

(* At the start, ...                                                       *)
LEMMA TypeInit == Init => TypeOK /\ ScanShape /\ Funded
<1> SUFFICES ASSUME Init PROVE TypeOK /\ ScanShape /\ Funded
  OBVIOUS
<1>1. WellFormed(IdleScan) /\ IdleScan \in ScanState
  BY DEF WellFormed, IdleScan, ScanState
<1>2. NoOpen \in OpenState /\ NoOpen.pc = "none"
  BY DEF NoOpen, OpenState
<1>3. NoClose \in CloseState
  BY DEF NoClose, CloseState
<1>4. IdleSettler \in SettlerState
  BY DEF IdleSettler, SettlerState
<1>5. TypeOK
  <2>1. /\ cash \in [Arms -> Nat] /\ netliq \in [Arms -> Int]
        /\ events \in [Arms -> Int] /\ late \in [Runs -> Nat]
    BY ExperimentAssumption DEF Init
  <2>2. /\ scan \in [Scans -> ScanState]
        /\ open \in [Scans -> [Candidates -> OpenState]]
        /\ settler \in [Settlers -> SettlerState]
        /\ close \in [Settlers -> [Candidates -> CloseState]]
    BY <1>1, <1>2, <1>3, <1>4 DEF Init
  <2>3. ctl \in [op : {"none", "enable", "pause"}, locked : SUBSET Arms]
    BY DEF Init
  <2>4. /\ runs \in [Runs -> {"absent", "running", "succeeded", "partial",
                              "failed"}]
        /\ posn \in [Candidates -> {"none", "open", "closed"}]
    BY DEF Init
  <2> QED
    BY <2>1, <2>2, <2>3, <2>4 DEF Init, TypeOK
<1>6. ScanShape
  BY <1>1 DEF Init, ScanShape
<1>7. Funded
  BY <1>2 DEF Init, Funded, Opening
<1> QED
  BY <1>5, <1>6, <1>7

(* ... after every step, ...                                               *)
LEMMA TypeStep ==
  ASSUME TypeOK, ScanShape, Funded, Next, UNCHANGED tape
  PROVE  TypeOK' /\ ScanShape' /\ Funded'
<1> USE ExperimentAssumption
<1>1. CASE ControlEffect
  <2>1. TypeOK'
    BY <1>1 DEF ControlEffect, Counted, TypeOK, table
  <2>2. ScanShape' /\ Funded'
    BY <1>1 DEF ControlEffect, ScanShape, WellFormed, Funded, Opening
  <2> QED
    BY <2>1, <2>2
<1>2. ASSUME NEW s \in Scans, ScanEffect(s) PROVE TypeOK' /\ ScanShape' /\ Funded'
  <2>1. PICK r : WellFormed(r) /\ scan' = [scan EXCEPT ![s] = r]
    BY <1>2 DEF ScanEffect
  <2>2. scan' \in [Scans -> ScanState] /\ ScanShape'
    BY <2>1 DEF ScanShape, TypeOK, WellFormed
  <2>3. open' \in [Scans -> [Candidates -> OpenState]] /\ Funded'
    <3>1. CASE open' = open
      BY <3>1 DEF TypeOK, Funded, Opening
    <3>2. ASSUME NEW k \in Candidates, NEW v \in OpenState,
                 v.pc \in {"none", "check"}, open' = [open EXCEPT ![s][k] = v]
          PROVE  open' \in [Scans -> [Candidates -> OpenState]] /\ Funded'
      <4>1. /\ open' \in [Scans -> [Candidates -> OpenState]]
            /\ open'[s][k] = v
            /\ \A x \in Scans, y \in Candidates :
                 x # s \/ y # k => open'[x][y] = open[x][y]
        BY <3>2 DEF TypeOK
      <4> QED
        BY <3>2, <4>1 DEF Funded, Opening
    <3> QED
      BY <1>2, <3>1, <3>2 DEF ScanEffect
  <2>4. TypeOK'
    BY <1>2, <2>2, <2>3 DEF ScanEffect, Counted, TypeOK, control, book
  <2> QED
    BY <2>2, <2>3, <2>4
<1>3. ASSUME NEW s \in Scans, NEW k \in Candidates, OpenEffect(s, k)
      PROVE  TypeOK' /\ ScanShape' /\ Funded'
  <2>1. PICK v \in OpenState :
          /\ open' = [open EXCEPT ![s][k] = v]
          /\ v.pc = "commit" => v.before >= tape[k]
          /\ UNCHANGED book \/ (Opening(s, k) /\ Opens(s, k))
    BY <1>3 DEF OpenEffect
  <2>2. /\ open' \in [Scans -> [Candidates -> OpenState]]
        /\ open'[s][k] = v
        /\ \A x \in Scans, y \in Candidates :
             x # s \/ y # k => open'[x][y] = open[x][y]
    BY <2>1 DEF TypeOK
  <2>3. Funded'
    BY <2>1, <2>2 DEF Funded, Opening
  <2>4. ScanShape'
    BY <1>3 DEF OpenEffect, ScanShape, WellFormed
  <2>5. /\ orders' \subseteq Candidates
        /\ posn' \in [Candidates -> {"none", "open", "closed"}]
        /\ cash' \in [Arms -> Nat]
        /\ netliq' \in [Arms -> Int]
        /\ events' \in [Arms -> Int]
        /\ late' \in [Runs -> Nat]
    <3>1. CASE UNCHANGED book
      BY <3>1 DEF book, TypeOK
    <3>2. CASE Opening(s, k) /\ Opens(s, k)
      <4>1. Arm[k] \in Arms /\ Run[k] \in Runs /\ tape[k] \in Nat
        BY ArmType DEF TypeOK
      <4>2. open[s][k].before - tape[k] \in Nat
        <5>1. open[s][k].before \in Nat
          BY DEF TypeOK, OpenState
        <5> QED
          BY <3>2, <4>1, <5>1 DEF Funded
      <4>3. events[Arm[k]] - tape[k] \in Int
        BY <4>1 DEF TypeOK
      <4>4. late[Run[k]] + 1 \in Nat
        BY <4>1 DEF TypeOK
      <4> QED
        BY <3>2, <4>2, <4>3, <4>4 DEF Opens, TypeOK
    <3> QED
      BY <2>1, <3>1, <3>2
  <2>6. TypeOK'
    BY <1>3, <2>2, <2>5 DEF OpenEffect, Counted, TypeOK, control, table
  <2> QED
    BY <2>3, <2>4, <2>6
<1>4. ASSUME NEW m \in Settlers, SettleEffect(m)
      PROVE  TypeOK' /\ ScanShape' /\ Funded'
  <2>1. settler' \in [Settlers -> SettlerState]
    BY <1>4 DEF SettleEffect, TypeOK
  <2>2. close' \in [Settlers -> [Candidates -> CloseState]]
    <3>1. settler[m].left \subseteq Candidates
      BY DEF TypeOK, SettlerState
    <3>2. ASSUME NEW k \in Candidates, NEW v \in CloseState,
                 close' = [close EXCEPT ![m][k] = v]
          PROVE  close' \in [Settlers -> [Candidates -> CloseState]]
      BY <3>2 DEF TypeOK
    <3>3. close' = close => close' \in [Settlers -> [Candidates -> CloseState]]
      BY DEF TypeOK
    <3> QED
      BY <1>4, <3>1, <3>2, <3>3 DEF SettleEffect
  <2>3. TypeOK'
    BY <1>4, <2>1, <2>2 DEF SettleEffect, Counted, TypeOK, control, table, book
  <2>4. ScanShape' /\ Funded'
    BY <1>4 DEF SettleEffect, ScanShape, WellFormed, Funded, Opening
  <2> QED
    BY <2>3, <2>4
<1>5. ASSUME NEW m \in Settlers, NEW k \in Candidates, CloseEffect(m, k)
      PROVE  TypeOK' /\ ScanShape' /\ Funded'
  <2>1. PICK v \in CloseState :
          /\ close' = [close EXCEPT ![m][k] = v]
          /\ UNCHANGED book \/ Closes(m, k)
    BY <1>5 DEF CloseEffect
  <2>2. close' \in [Settlers -> [Candidates -> CloseState]]
    BY <2>1 DEF TypeOK
  <2>3. /\ orders' \subseteq Candidates
        /\ posn' \in [Candidates -> {"none", "open", "closed"}]
        /\ cash' \in [Arms -> Nat]
        /\ netliq' \in [Arms -> Int]
        /\ events' \in [Arms -> Int]
        /\ late' \in [Runs -> Nat]
    <3>1. CASE UNCHANGED book
      BY <3>1 DEF book, TypeOK
    <3>2. CASE Closes(m, k)
      <4>1. Arm[k] \in Arms /\ Run[k] \in Runs /\ tape[k] \in Nat
        BY ArmType DEF TypeOK
      <4>2. close[m][k].before \in Nat /\ close[m][k].pay \in Nat
        BY DEF TypeOK, CloseState
      <4>3. close[m][k].before + close[m][k].pay \in Nat
        BY <4>2
      <4>4. netliq[Arm[k]] + (close[m][k].pay - tape[k]) \in Int
        BY <4>1, <4>2 DEF TypeOK
      <4>5. events[Arm[k]] + close[m][k].pay \in Int
        BY <4>1, <4>2 DEF TypeOK
      <4> QED
        BY <3>2, <4>3, <4>4, <4>5 DEF Closes, TypeOK
    <3> QED
      BY <2>1, <3>1, <3>2
  <2>4. TypeOK'
    BY <1>5, <2>2, <2>3 DEF CloseEffect, Counted, TypeOK, control, table
  <2>5. ScanShape' /\ Funded'
    BY <1>5 DEF CloseEffect, ScanShape, WellFormed, Funded, Opening
  <2> QED
    BY <2>4, <2>5
<1> QED
  BY <1>1, <1>2, <1>3, <1>4, <1>5, Moves

(* ... and when nothing happens, ...                                       *)
LEMMA TypeStutter ==
  ASSUME TypeOK, ScanShape, Funded, UNCHANGED vars
  PROVE  TypeOK' /\ ScanShape' /\ Funded'
<1> USE DEF vars, control, table, book
<1>1. TypeOK'
  BY DEF TypeOK
<1>2. ScanShape' /\ Funded'
  BY DEF ScanShape, WellFormed, Funded, Opening
<1> QED
  BY <1>1, <1>2

(* ... so always.                                                          *)
LEMMA Typed == Spec => [](TypeOK /\ ScanShape /\ Funded)
<1> DEFINE I == TypeOK /\ ScanShape /\ Funded
<1>1. Init => I
  BY TypeInit
<1>2. I /\ [Next /\ UNCHANGED tape]_vars => I'
  BY TypeStep, TypeStutter
<1> QED
  BY <1>1, <1>2, PTL DEF Spec

(* Every table row, transaction and handler state of the experiment keeps  *)
(* its type; the balance of a portfolio never goes below zero, because an  *)
(* open spends no more than the balance it read.                           *)
THEOREM TypeCorrect == Spec => []TypeOK
  BY Typed, PTL

-----------------------------------------------------------------------------
(* Locks.                                                                  *)

Locks == RunLock /\ PositionLock /\ PortfolioLock

(* Every step respects the row locks.                                      *)
LEMMA LockStep ==
  ASSUME TypeOK, ScanShape, Locks, Next
  PROVE  Locks'
<1> USE DEF HoldsRun, Opening, Closing
<1>1. CASE ControlEffect
  <2>1. /\ open' = open /\ close' = close
        /\ \A a \in Arms : a \in ctl'.locked => a \in ctl.locked \/ PortfolioFree(a)
    BY <1>1 DEF ControlEffect
  <2>2. RunLock' /\ PositionLock'
    BY <2>1 DEF Locks, RunLock, PositionLock
  <2>3. ASSUME NEW k \in Candidates, Arm[k] \in ctl'.locked
        PROVE  /\ \A s \in Scans : ~Opening(s, k)
               /\ \A m \in Settlers : ~Closing(m, k)
    <3>1. Arm[k] \in Arms
      BY ArmType
    <3> QED
      BY <2>1, <2>3, <3>1 DEF Locks, PortfolioLock, PortfolioFree, OfArm
  <2>4. PortfolioLock'
    BY <2>1, <2>3 DEF Locks, PortfolioLock
  <2> QED
    BY <2>2, <2>4 DEF Locks
<1>2. ASSUME NEW s \in Scans, ScanEffect(s) PROVE Locks'
  <2>1. close' = close /\ ctl' = ctl
    BY <1>2 DEF ScanEffect, control
  <2>2. \A x \in Scans, y \in Candidates :
          \/ open'[x][y] = open[x][y]
          \/ open'[x][y].pc \notin {"cash", "commit"}
    BY <1>2, ScanOpens
  <2>3. RunLock'
    BY <2>1, <2>2 DEF Locks, RunLock
  <2>4. PositionLock'
    BY <2>1, <2>2 DEF Locks, PositionLock
  <2>5. PortfolioLock'
    BY <2>1, <2>2 DEF Locks, PortfolioLock
  <2> QED
    BY <2>3, <2>4, <2>5 DEF Locks
<1>3. ASSUME NEW s \in Scans, NEW k \in Candidates, OpenEffect(s, k) PROVE Locks'
  <2>1. close' = close /\ ctl' = ctl
    BY <1>3 DEF OpenEffect, control
  <2>2. PICK v \in OpenState :
          /\ open' = [open EXCEPT ![s][k] = v]
          /\ \/ v.pc = "cash" /\ RunFree(Run[k])
             \/ /\ v.pc = "commit" /\ open[s][k].pc = "cash"
                /\ PortfolioFree(Arm[k])
             \/ v.pc \notin {"cash", "commit"}
    BY <1>3 DEF OpenEffect
  <2>3. /\ open'[s][k] = v
        /\ \A x \in Scans, y \in Candidates :
             x # s \/ y # k => open'[x][y] = open[x][y]
    BY <2>2 DEF TypeOK
  <2>4. PositionLock'
    BY <2>1 DEF Locks, PositionLock
  <2>5. CASE v.pc = "cash" /\ RunFree(Run[k])
    <3>1. \A x \in Scans, y \in Candidates : HoldsRun(x, y) => Run[y] # Run[k]
      BY <2>5 DEF RunFree, Of
    <3>2. RunLock'
      BY <2>3, <3>1 DEF Locks, RunLock
    <3>3. PortfolioLock'
      BY <2>1, <2>3, <2>5 DEF Locks, PortfolioLock
    <3> QED
      BY <2>4, <3>2, <3>3 DEF Locks
  <2>6. CASE v.pc = "commit" /\ open[s][k].pc = "cash" /\ PortfolioFree(Arm[k])
    <3>1. RunLock'
      BY <2>3, <2>6 DEF Locks, RunLock
    <3>2. /\ Arm[k] \notin ctl.locked
          /\ \A x \in Scans, y \in Candidates : Opening(x, y) => Arm[y] # Arm[k]
          /\ \A m \in Settlers, l \in Candidates : Closing(m, l) => Arm[l] # Arm[k]
      BY <2>6 DEF PortfolioFree, OfArm
    <3>3. PortfolioLock'
      BY <2>1, <2>3, <3>2 DEF Locks, PortfolioLock
    <3> QED
      BY <2>4, <3>1, <3>3 DEF Locks
  <2>7. CASE v.pc \notin {"cash", "commit"}
    <3>1. RunLock'
      BY <2>3, <2>7 DEF Locks, RunLock
    <3>2. PortfolioLock'
      BY <2>1, <2>3, <2>7 DEF Locks, PortfolioLock
    <3> QED
      BY <2>4, <3>1, <3>2 DEF Locks
  <2> QED
    BY <2>2, <2>5, <2>6, <2>7
<1>4. ASSUME NEW m \in Settlers, SettleEffect(m) PROVE Locks'
  <2>1. open' = open /\ ctl' = ctl
    BY <1>4 DEF SettleEffect, control
  <2>2. \A x \in Settlers, y \in Candidates :
          \/ close'[x][y] = close[x][y]
          \/ close'[x][y].pc \notin {"cash", "commit"}
    BY <1>4, SettleCloses
  <2>3. RunLock'
    BY <2>1, <2>2 DEF Locks, RunLock
  <2>4. PositionLock'
    BY <2>1, <2>2 DEF Locks, PositionLock
  <2>5. PortfolioLock'
    BY <2>1, <2>2 DEF Locks, PortfolioLock
  <2> QED
    BY <2>3, <2>4, <2>5 DEF Locks
<1>5. ASSUME NEW m \in Settlers, NEW k \in Candidates, CloseEffect(m, k)
      PROVE  Locks'
  <2>1. open' = open /\ ctl' = ctl
    BY <1>5 DEF CloseEffect, control
  <2>2. PICK v \in CloseState :
          /\ close' = [close EXCEPT ![m][k] = v]
          /\ \/ v.pc = "cash" /\ PositionFree(k)
             \/ /\ v.pc = "commit" /\ close[m][k].pc = "cash"
                /\ PortfolioFree(Arm[k])
             \/ v.pc \notin {"cash", "commit"}
    BY <1>5 DEF CloseEffect
  <2>3. /\ close'[m][k] = v
        /\ \A x \in Settlers, y \in Candidates :
             x # m \/ y # k => close'[x][y] = close[x][y]
    BY <2>2 DEF TypeOK
  <2>4. RunLock'
    BY <2>1 DEF Locks, RunLock
  <2>5. PositionLock'
    BY <2>2, <2>3 DEF Locks, PositionLock, PositionFree
  <2>6. CASE v.pc # "commit"
    <3>1. PortfolioLock'
      BY <2>1, <2>3, <2>6 DEF Locks, PortfolioLock
    <3> QED
      BY <2>4, <2>5, <3>1 DEF Locks
  <2>7. CASE v.pc = "commit"
    <3>1. /\ Arm[k] \notin ctl.locked
          /\ \A s \in Scans, l \in Candidates : Opening(s, l) => Arm[l] # Arm[k]
          /\ \A n \in Settlers, l \in Candidates : Closing(n, l) => Arm[l] # Arm[k]
      BY <2>2, <2>7 DEF PortfolioFree, OfArm
    <3>2. PortfolioLock'
      BY <2>1, <2>3, <3>1 DEF Locks, PortfolioLock
    <3> QED
      BY <2>4, <2>5, <3>2 DEF Locks
  <2> QED
    BY <2>6, <2>7
<1> QED
  BY <1>1, <1>2, <1>3, <1>4, <1>5, Moves

-----------------------------------------------------------------------------
(* Balances, orders and positions.                                         *)

(* A transaction writes from the balance it read, and books the event.     *)
LEMMA BalanceStep ==
  ASSUME TypeOK, ScanShape, Locks, FreshBalance, CashIsEvents, Next,
         UNCHANGED tape
  PROVE  FreshBalance' /\ CashIsEvents'
<1> USE DEF HoldsRun, Opening, Closing
<1>a. \A k \in Candidates : Arm[k] \in Arms /\ tape[k] \in Nat
  BY ArmType, ExperimentAssumption DEF TypeOK
<1>1. CASE ControlEffect
  BY <1>1 DEF ControlEffect, FreshBalance, CashIsEvents
<1>2. ASSUME NEW s \in Scans, ScanEffect(s) PROVE FreshBalance' /\ CashIsEvents'
  <2>1. close' = close /\ cash' = cash /\ events' = events
    BY <1>2 DEF ScanEffect, book
  <2>2. \A x \in Scans, y \in Candidates :
          open'[x][y] = open[x][y] \/ open'[x][y].pc \in {"none", "check"}
    BY <1>2, ScanOpens
  <2> QED
    BY <2>1, <2>2 DEF FreshBalance, CashIsEvents
<1>3. ASSUME NEW s \in Scans, NEW k \in Candidates, OpenEffect(s, k)
      PROVE  FreshBalance' /\ CashIsEvents'
  <2>1. close' = close
    BY <1>3 DEF OpenEffect
  <2>2. PICK v \in OpenState :
          /\ open' = [open EXCEPT ![s][k] = v]
          /\ \/ /\ v.pc = "commit" => v.before = cash[Arm[k]]
                /\ UNCHANGED book
             \/ v.pc # "commit" /\ Opening(s, k) /\ Opens(s, k)
    BY <1>3 DEF OpenEffect
  <2>3. /\ open'[s][k] = v
        /\ \A x \in Scans, y \in Candidates :
             x # s \/ y # k => open'[x][y] = open[x][y]
    BY <2>2 DEF TypeOK
  <2>4. CASE (v.pc = "commit" => v.before = cash[Arm[k]]) /\ UNCHANGED book
    BY <2>1, <2>3, <2>4 DEF FreshBalance, CashIsEvents, book
  <2>5. CASE v.pc # "commit" /\ Opening(s, k) /\ Opens(s, k)
    <3>1. /\ cash'[Arm[k]] = open[s][k].before - tape[k]
          /\ events'[Arm[k]] = events[Arm[k]] - tape[k]
          /\ \A a \in Arms : a # Arm[k] =>
               cash'[a] = cash[a] /\ events'[a] = events[a]
      BY <2>5, <1>a DEF Opens, TypeOK
    <3>2. open[s][k].before = cash[Arm[k]]
      BY <2>5 DEF FreshBalance
    <3>3. CashIsEvents'
      <4>1. Start \in Nat /\ cash[Arm[k]] \in Int /\ events[Arm[k]] \in Int
        BY <1>a, ExperimentAssumption DEF TypeOK
      <4> QED
        BY <3>1, <3>2, <1>a, <4>1 DEF CashIsEvents
    <3>4. \A x \in Scans, y \in Candidates :
            Opening(x, y)' => Opening(x, y) /\ Arm[y] # Arm[k]
      BY <2>3, <2>5 DEF Locks, PortfolioLock
    <3>5. \A n \in Settlers, y \in Candidates : Closing(n, y) => Arm[y] # Arm[k]
      BY <2>5 DEF Locks, PortfolioLock
    <3>6. FreshBalance'
      BY <1>a, <2>1, <2>3, <3>1, <3>4, <3>5 DEF FreshBalance
    <3> QED
      BY <3>3, <3>6
  <2> QED
    BY <2>2, <2>4, <2>5
<1>4. ASSUME NEW m \in Settlers, SettleEffect(m) PROVE FreshBalance' /\ CashIsEvents'
  <2>1. open' = open /\ cash' = cash /\ events' = events
    BY <1>4 DEF SettleEffect, book
  <2>2. \A x \in Settlers, y \in Candidates :
          close'[x][y] = close[x][y] \/ close'[x][y].pc = "check"
    BY <1>4, SettleCloses
  <2> QED
    BY <2>1, <2>2 DEF FreshBalance, CashIsEvents
<1>5. ASSUME NEW m \in Settlers, NEW k \in Candidates, CloseEffect(m, k)
      PROVE  FreshBalance' /\ CashIsEvents'
  <2>1. open' = open
    BY <1>5 DEF CloseEffect
  <2>2. PICK v \in CloseState :
          /\ close' = [close EXCEPT ![m][k] = v]
          /\ \/ /\ v.pc = "commit" => v.before = cash[Arm[k]]
                /\ UNCHANGED book
             \/ v.pc # "commit" /\ Closing(m, k) /\ Closes(m, k)
    BY <1>5 DEF CloseEffect
  <2>3. /\ close'[m][k] = v
        /\ \A x \in Settlers, y \in Candidates :
             x # m \/ y # k => close'[x][y] = close[x][y]
    BY <2>2 DEF TypeOK
  <2>4. CASE (v.pc = "commit" => v.before = cash[Arm[k]]) /\ UNCHANGED book
    BY <2>1, <2>3, <2>4 DEF FreshBalance, CashIsEvents, book
  <2>5. CASE v.pc # "commit" /\ Closing(m, k) /\ Closes(m, k)
    <3>1. /\ cash'[Arm[k]] = close[m][k].before + close[m][k].pay
          /\ events'[Arm[k]] = events[Arm[k]] + close[m][k].pay
          /\ \A a \in Arms : a # Arm[k] =>
               cash'[a] = cash[a] /\ events'[a] = events[a]
      BY <2>5, <1>a DEF Closes, TypeOK
    <3>2. close[m][k].before = cash[Arm[k]]
      BY <2>5 DEF FreshBalance
    <3>3. CashIsEvents'
      <4>1. /\ Start \in Nat /\ cash[Arm[k]] \in Int /\ events[Arm[k]] \in Int
            /\ close[m][k].pay \in Nat
        BY <1>a, ExperimentAssumption DEF TypeOK, CloseState
      <4> QED
        BY <3>1, <3>2, <1>a, <4>1 DEF CashIsEvents
    <3>4. \A x \in Settlers, y \in Candidates :
            Closing(x, y)' => Closing(x, y) /\ Arm[y] # Arm[k]
      BY <2>3, <2>5 DEF Locks, PortfolioLock
    <3>5. \A s \in Scans, y \in Candidates : Opening(s, y) => Arm[y] # Arm[k]
      BY <2>5 DEF Locks, PortfolioLock
    <3>6. FreshBalance'
      BY <1>a, <2>1, <2>3, <3>1, <3>4, <3>5 DEF FreshBalance
    <3> QED
      BY <3>3, <3>6
  <2> QED
    BY <2>2, <2>4, <2>5
<1> QED
  BY <1>1, <1>2, <1>3, <1>4, <1>5, Moves

(* An order is written once, and its receipt is what a replay gets.        *)
LEMMA OrderStep ==
  ASSUME TypeOK, ScanShape, Locks, FirstOrder, ReplayGetsReceipt, Next
  PROVE  FirstOrder' /\ ReplayGetsReceipt'
<1> USE DEF HoldsRun, Opening
<1>1. ASSUME open' = open, orders' = orders PROVE FirstOrder' /\ ReplayGetsReceipt'
  BY <1>1 DEF FirstOrder, ReplayGetsReceipt
<1>2. ASSUME NEW s \in Scans, ScanEffect(s) PROVE FirstOrder' /\ ReplayGetsReceipt'
  <2>1. orders' = orders
    BY <1>2 DEF ScanEffect, book
  <2>2. \A x \in Scans, y \in Candidates :
          open'[x][y] = open[x][y] \/ open'[x][y].pc \in {"none", "check"}
    BY <1>2, ScanOpens
  <2> QED
    BY <2>1, <2>2 DEF FirstOrder, ReplayGetsReceipt
<1>3. ASSUME NEW s \in Scans, NEW k \in Candidates, OpenEffect(s, k)
      PROVE  FirstOrder' /\ ReplayGetsReceipt'
  <2>1. ~(Opening(s, k) /\ k \in orders)
    BY DEF FirstOrder
  <2>2. PICK v \in OpenState :
          /\ open' = [open EXCEPT ![s][k] = v]
          /\ v.pc # "dup"
          /\ \/ /\ orders' = orders
                /\ v.pc \in {"cash", "commit"} => k \notin orders
                /\ v.pc = "done" => k \in orders
             \/ /\ orders' = orders \cup {k} /\ Opening(s, k)
                /\ v.pc \in {"none", "done"}
    BY <1>3, <2>1 DEF OpenEffect, Opens, book, FirstOrder
  <2>3. /\ open'[s][k] = v
        /\ \A x \in Scans, y \in Candidates :
             x # s \/ y # k => open'[x][y] = open[x][y]
    BY <2>2 DEF TypeOK
  <2>4. ReplayGetsReceipt'
    BY <2>2, <2>3 DEF ReplayGetsReceipt
  <2>5. CASE orders' = orders
    BY <2>2, <2>3, <2>4, <2>5 DEF FirstOrder
  <2>6. CASE /\ orders' = orders \cup {k} /\ Opening(s, k)
             /\ v.pc \in {"none", "done"}
    <3>1. \A x \in Scans, y \in Candidates : HoldsRun(x, y)' => y # k
      BY <2>3, <2>6 DEF Locks, RunLock
    <3> QED
      BY <2>3, <2>4, <2>6, <3>1 DEF FirstOrder
  <2> QED
    BY <2>2, <2>5, <2>6
<1>4. ControlEffect => open' = open /\ orders' = orders
  BY DEF ControlEffect
<1>5. \A m \in Settlers : SettleEffect(m) => open' = open /\ orders' = orders
  BY DEF SettleEffect, book
<1>6. \A m \in Settlers, k \in Candidates :
        CloseEffect(m, k) => open' = open /\ orders' = orders
  BY DEF CloseEffect, Closes, book
<1> QED
  BY <1>1, <1>2, <1>3, <1>4, <1>5, <1>6, Moves

(* A position is opened with its order and closed once.                    *)
LEMMA PositionStep ==
  ASSUME TypeOK, ScanShape, Locks, FirstOrder, Positions, Next
  PROVE  Positions'
<1> USE DEF Opening, Closing
<1>a. posn \in [Candidates -> {"none", "open", "closed"}]
  BY DEF TypeOK
<1>1. ASSUME posn' = posn, orders' = orders, settler' = settler, close' = close
      PROVE  Positions'
  BY <1>1 DEF Positions
<1>2. ASSUME NEW s \in Scans, NEW k \in Candidates, OpenEffect(s, k) PROVE Positions'
  <2>1. settler' = settler /\ close' = close
    BY <1>2 DEF OpenEffect
  <2>2. CASE posn' = posn /\ orders' = orders
    BY <1>1, <2>1, <2>2
  <2>3. CASE k \notin orders /\ Opens(s, k)
    <3>1. /\ posn'[k] = "open" /\ orders' = orders \cup {k}
          /\ \A l \in Candidates : l # k => posn'[l] = posn[l]
      BY <2>3, <1>a DEF Opens
    <3>2. \A m \in Settlers : settler[m].left \subseteq Candidates
      BY DEF TypeOK, SettlerState
    <3> QED
      BY <2>1, <3>1, <3>2 DEF Positions
  <2> QED
    BY <1>2, <2>2, <2>3 DEF OpenEffect, book
<1>3. ASSUME NEW m \in Settlers, SettleEffect(m) PROVE Positions'
  <2>1. posn' = posn /\ orders' = orders
    BY <1>3 DEF SettleEffect, book
  <2>2. \A x \in Settlers, y \in Candidates :
          \/ close'[x][y] = close[x][y]
          \/ close'[x][y].pc = "check" /\ y \in settler[m].left
    BY <1>3, SettleCloses
  <2>3. PICK q \in SettlerState :
          /\ settler' = [settler EXCEPT ![m] = q]
          /\ \A k \in q.left : k \in settler[m].left \/ posn[k] = "open"
    BY <1>3 DEF SettleEffect
  <2>4. /\ settler'[m] = q
        /\ \A n \in Settlers : n # m => settler'[n] = settler[n]
    BY <2>3 DEF TypeOK
  <2>5. \A n \in Settlers : \A k \in settler'[n].left : posn[k] # "none"
    BY <2>3, <2>4 DEF Positions
  <2> QED
    BY <2>1, <2>2, <2>5 DEF Positions
<1>4. ASSUME NEW m \in Settlers, NEW k \in Candidates, CloseEffect(m, k)
      PROVE  Positions'
  <2>1. settler' = settler /\ orders' = orders /\ posn[k] # "none"
    BY <1>4 DEF CloseEffect, Closes, book, Positions
  <2>2. PICK v \in CloseState :
          /\ close' = [close EXCEPT ![m][k] = v]
          /\ \/ v.pc = "none" /\ posn' = posn
             \/ v.pc = "cash" /\ posn[k] # "closed" /\ posn' = posn
             \/ v.pc = "commit" /\ close[m][k].pc = "cash" /\ posn' = posn
             \/ v.pc = "none" /\ Closing(m, k) /\ Closes(m, k)
    BY <1>4 DEF CloseEffect, book
  <2>3. /\ close'[m][k] = v
        /\ \A x \in Settlers, y \in Candidates :
             x # m \/ y # k => close'[x][y] = close[x][y]
    BY <2>2 DEF TypeOK
  <2>4. CASE posn' = posn
    <3>1. v.pc \in {"cash", "commit"} => posn[k] = "open"
      BY <1>a, <2>1, <2>2, <2>4 DEF Positions
    <3> QED
      BY <2>1, <2>3, <2>4, <3>1 DEF Positions
  <2>5. CASE v.pc = "none" /\ Closing(m, k) /\ Closes(m, k)
    <3>1. posn'[k] = "closed" /\ \A l \in Candidates : l # k => posn'[l] = posn[l]
      BY <1>a, <2>5 DEF Closes
    <3>2. \A n \in Settlers : close'[n][k].pc \notin {"cash", "commit"}
      BY <2>3, <2>5 DEF Locks, PositionLock
    <3>3. \A n \in Settlers : settler[n].left \subseteq Candidates
      BY DEF TypeOK, SettlerState
    <3> QED
      BY <2>1, <2>3, <2>5, <3>1, <3>2, <3>3 DEF Positions
  <2> QED
    BY <2>2, <2>4, <2>5
<1>5. ControlEffect => UNCHANGED <<posn, orders, settler, close>>
  BY DEF ControlEffect
<1>6. \A s \in Scans : ScanEffect(s) => UNCHANGED <<posn, orders, settler, close>>
  BY DEF ScanEffect, book
<1> QED
  BY <1>1, <1>2, <1>3, <1>4, <1>5, <1>6, Moves

(* An open that commits after a pause had its locks before it.             *)
LEMMA PauseStep ==
  ASSUME TypeOK, ScanShape, Locks, PauseDrains, PauseStops, Next
  PROVE  PauseDrains' /\ PauseStops'
<1> USE DEF HoldsRun, Opening
<1>a. late \in [Runs -> Nat]
  BY DEF TypeOK
<1>1. CASE ControlEffect
  <2>1. open' = open
    BY <1>1 DEF ControlEffect
  <2> QED
    BY <1>1, <2>1 DEF ControlEffect, PauseDrains, PauseStops, RunFree
<1>2. ASSUME NEW s \in Scans, ScanEffect(s) PROVE PauseDrains' /\ PauseStops'
  <2>1. late' = late /\ epoch' = epoch
    BY <1>2 DEF ScanEffect, book, control
  <2>2. \A x \in Scans, y \in Candidates :
          open'[x][y] = open[x][y] \/ open'[x][y].pc \in {"none", "check"}
    BY <1>2, ScanOpens
  <2>3. \A u \in Runs : RunFree(u) => RunFree(u)'
    BY <2>2 DEF RunFree, Of
  <2> QED
    BY <2>1, <2>3 DEF PauseDrains, PauseStops
<1>3. ASSUME NEW s \in Scans, NEW k \in Candidates, OpenEffect(s, k)
      PROVE  PauseDrains' /\ PauseStops'
  <2>1. epoch' = epoch
    BY <1>3 DEF OpenEffect, control
  <2>2. PICK v \in OpenState :
          /\ open' = [open EXCEPT ![s][k] = v]
          /\ \/ v.pc = "cash" /\ epoch = "enabled" /\ late' = late
             \/ v.pc = "commit" /\ open[s][k].pc = "cash" /\ late' = late
             \/ v.pc \notin {"cash", "commit"} /\ late' = late
             \/ v.pc \notin {"cash", "commit"} /\ Opening(s, k) /\ Opens(s, k)
    BY <1>3 DEF OpenEffect, book
  <2>3. /\ open'[s][k] = v
        /\ \A x \in Scans, y \in Candidates :
             x # s \/ y # k => open'[x][y] = open[x][y]
    BY <2>2 DEF TypeOK
  <2>4. CASE v.pc = "cash" /\ epoch = "enabled" /\ late' = late
    BY <2>1, <2>4 DEF PauseDrains, PauseStops
  <2>5. CASE v.pc = "commit" /\ open[s][k].pc = "cash" /\ late' = late
    <3>1. \A u \in Runs : RunFree(u) => RunFree(u)'
      BY <2>3, <2>5 DEF RunFree, Of
    <3> QED
      BY <2>1, <2>5, <3>1 DEF PauseDrains, PauseStops
  <2>6. CASE v.pc \notin {"cash", "commit"} /\ late' = late
    <3>1. \A u \in Runs : RunFree(u) => RunFree(u)'
      BY <2>3, <2>6 DEF RunFree, Of
    <3> QED
      BY <2>1, <2>6, <3>1 DEF PauseDrains, PauseStops
  <2>7. CASE v.pc \notin {"cash", "commit"} /\ Opening(s, k) /\ Opens(s, k)
    <3>1. /\ Run[k] \in Runs
          /\ late'[Run[k]] = IF epoch = "paused" THEN late[Run[k]] + 1
                                                ELSE late[Run[k]]
          /\ \A u \in Runs : u # Run[k] => late'[u] = late[u]
      BY <1>a, <2>7, ArmType DEF Opens
    <3>2. ~RunFree(Run[k])
      BY <2>7 DEF RunFree, Of
    <3>3. epoch = "paused" => late[Run[k]] = 0
      BY <3>1, <3>2 DEF PauseDrains
    <3>4. PauseStops'
      BY <1>a, <3>1, <3>3 DEF PauseStops
    <3>5. RunFree(Run[k])'
      BY <2>3, <2>7 DEF RunFree, Of, Locks, RunLock
    <3>6. \A u \in Runs : RunFree(u) => RunFree(u)'
      BY <2>3, <2>7 DEF RunFree, Of
    <3>7. PauseDrains'
      BY <2>1, <3>1, <3>5, <3>6 DEF PauseDrains
    <3> QED
      BY <3>4, <3>7
  <2> QED
    BY <2>2, <2>4, <2>5, <2>6, <2>7
<1>4. ASSUME open' = open, epoch' = epoch, late' = late
      PROVE  PauseDrains' /\ PauseStops'
  BY <1>4 DEF PauseDrains, PauseStops, RunFree
<1>5. \A m \in Settlers : SettleEffect(m) => UNCHANGED <<open, epoch, late>>
  BY DEF SettleEffect, book, control
<1>6. \A m \in Settlers, k \in Candidates :
        CloseEffect(m, k) => UNCHANGED <<open, epoch, late>>
  BY DEF CloseEffect, Closes, book, control
<1> QED
  BY <1>1, <1>2, <1>3, <1>4, <1>5, <1>6, Moves

(* The contracts of a portfolio that are carried at cost.                  *)
Carried(a) == {k \in OfArm(a) : posn[k] = "open"}

(* Net liquidation as a sum over the carried contracts.                    *)
LEMMA Worth ==
  /\ NetLiqIsWorth <=>
       \A a \in Arms : netliq[a] = cash[a] + SumOf(tape, Carried(a))
  /\ NetLiqIsWorth' <=>
       \A a \in Arms : netliq'[a] = cash'[a] + SumOf(tape', Carried(a)')
<1>1. \A f, S : Total(f, S) = SumOf(f, S)
  BY DEF Total, SumOf
<1> QED
  BY <1>1 DEF NetLiqIsWorth, Carried

(* Opening and closing move cost between cash and what is carried.         *)
LEMMA WorthStep ==
  ASSUME TypeOK, ScanShape, Locks, FreshBalance, Positions, NetLiqIsWorth,
         Next, UNCHANGED tape
  PROVE  NetLiqIsWorth'
<1> USE DEF Opening, Closing
<1>a. \A k \in Candidates : Arm[k] \in Arms /\ tape[k] \in Nat
  BY ArmType, ExperimentAssumption DEF TypeOK
<1>b. \A a \in Arms : /\ netliq[a] = cash[a] + SumOf(tape, Carried(a))
                      /\ cash[a] \in Int /\ netliq[a] \in Int
  BY Worth DEF TypeOK
<1>c. \A S \in SUBSET Candidates :
        IsFiniteSet(S) /\ \A k \in S : tape[k] \in Int
  BY <1>a, ExperimentAssumption, FS_Subset
<1>d. \A a \in Arms : Carried(a) \in SUBSET Candidates
  BY DEF Carried, OfArm
<1>e. \A S \in SUBSET Candidates : SumOf(tape, S) \in Int
  BY <1>c, SumType
<1>1. ASSUME posn' = posn, cash' = cash, netliq' = netliq PROVE NetLiqIsWorth'
  <2>1. \A a \in Arms : Carried(a)' = Carried(a)
    BY <1>1 DEF Carried
  <2> QED
    BY <1>1, <1>b, <2>1, Worth
<1>2. ASSUME NEW s \in Scans, NEW k \in Candidates, Opening(s, k), k \notin orders,
             Opens(s, k)
      PROVE  NetLiqIsWorth'
  <2>1. /\ cash'[Arm[k]] = cash[Arm[k]] - tape[k] /\ netliq' = netliq
        /\ \A a \in Arms : a # Arm[k] => cash'[a] = cash[a]
    BY <1>2, <1>a DEF Opens, FreshBalance, TypeOK
  <2>2. /\ k \notin Carried(Arm[k])
        /\ Carried(Arm[k])' = Carried(Arm[k]) \cup {k}
        /\ \A a \in Arms : a # Arm[k] => Carried(a)' = Carried(a)
    BY <1>2 DEF Opens, Positions, Carried, OfArm, TypeOK
  <2>3. Carried(Arm[k]) \cup {k} \in SUBSET Candidates
    BY <1>a, <1>d
  <2>4. SumOf(tape, Carried(Arm[k]) \cup {k})
          = tape[k] + SumOf(tape, Carried(Arm[k]))
    BY <1>a, <1>c, <1>d, <2>2, <2>3, SumAdd
  <2>5. netliq'[Arm[k]] = cash'[Arm[k]] + SumOf(tape, Carried(Arm[k]) \cup {k})
    BY <1>a, <1>b, <1>d, <1>e, <2>1, <2>4
  <2>6. \A a \in Arms : netliq'[a] = cash'[a] + SumOf(tape', Carried(a)')
    BY <1>b, <2>1, <2>2, <2>5
  <2> QED
    BY <2>6, Worth
<1>3. ASSUME NEW m \in Settlers, NEW k \in Candidates, Closing(m, k), Closes(m, k)
      PROVE  NetLiqIsWorth'
  <2>1. close[m][k].pay \in Nat
    BY DEF TypeOK, CloseState
  <2>2. /\ cash'[Arm[k]] = cash[Arm[k]] + close[m][k].pay
        /\ netliq'[Arm[k]] = netliq[Arm[k]] + (close[m][k].pay - tape[k])
        /\ \A a \in Arms : a # Arm[k] =>
             cash'[a] = cash[a] /\ netliq'[a] = netliq[a]
    BY <1>3, <1>a DEF Closes, FreshBalance, TypeOK
  <2>3. /\ k \in Carried(Arm[k])
        /\ Carried(Arm[k])' = Carried(Arm[k]) \ {k}
        /\ \A a \in Arms : a # Arm[k] => Carried(a)' = Carried(a)
    BY <1>3 DEF Closes, Positions, Carried, OfArm, TypeOK
  <2>4. Carried(Arm[k]) \ {k} \in SUBSET Candidates
    BY <1>a, <1>d
  <2>5. SumOf(tape, Carried(Arm[k]))
          = tape[k] + SumOf(tape, Carried(Arm[k]) \ {k})
    BY <1>a, <1>c, <1>d, <2>3, SumRemove
  <2>6. netliq'[Arm[k]] = cash'[Arm[k]] + SumOf(tape, Carried(Arm[k]) \ {k})
    <3>1. SumOf(tape, Carried(Arm[k]) \ {k}) \in Int
      BY <1>e, <2>4
    <3>2. /\ netliq[Arm[k]] = cash[Arm[k]] + SumOf(tape, Carried(Arm[k]))
          /\ cash[Arm[k]] \in Int /\ tape[k] \in Int
      BY <1>a, <1>b
    <3> QED
      BY <2>1, <2>2, <2>5, <3>1, <3>2
  <2>7. \A a \in Arms : netliq'[a] = cash'[a] + SumOf(tape', Carried(a)')
    BY <1>b, <2>2, <2>3, <2>6
  <2> QED
    BY <2>7, Worth
<1>4. ControlEffect => UNCHANGED <<posn, cash, netliq>>
  BY DEF ControlEffect
<1>5. \A s \in Scans : ScanEffect(s) => UNCHANGED <<posn, cash, netliq>>
  BY DEF ScanEffect, book
<1>6. ASSUME NEW s \in Scans, NEW k \in Candidates, OpenEffect(s, k)
      PROVE  NetLiqIsWorth'
  <2>1. UNCHANGED book \/ (Opening(s, k) /\ k \notin orders /\ Opens(s, k))
    BY <1>6 DEF OpenEffect
  <2> QED
    BY <1>1, <1>2, <2>1 DEF book
<1>7. \A m \in Settlers : SettleEffect(m) => UNCHANGED <<posn, cash, netliq>>
  BY DEF SettleEffect, book
<1>8. ASSUME NEW m \in Settlers, NEW k \in Candidates, CloseEffect(m, k)
      PROVE  NetLiqIsWorth'
  <2>1. UNCHANGED book \/ (Closing(m, k) /\ Closes(m, k))
    BY <1>8 DEF CloseEffect
  <2> QED
    BY <1>1, <1>3, <2>1 DEF book
<1> QED
  BY <1>1, <1>4, <1>5, <1>6, <1>7, <1>8, Moves

-----------------------------------------------------------------------------
(* The outcome of every candidate.                                         *)

(* A run that was scanned is still to be executed after Rest.              *)
LEMMA RestOwes ==
  ASSUME NEW r \in ScanState, r.left = {}, r.call = None,
         NEW k \in Candidates, Run[k] \in r.runs
  PROVE  Owes(Rest(r), k)
<1>1. Rest(r) = [r EXCEPT !.pc = "scan", !.run = None,
                              !.dark = FALSE]
  BY DEF Rest
<1>2. Rest(r).pc = "scan" /\ Rest(r).runs = r.runs
  BY <1>1 DEF ScanState
<1> QED
  BY <1>2 DEF Owes

(* It is enough that a scan hands on what it owes, and owes what it has    *)
(* recorded.                                                               *)
LEMMA HandsOn ==
  ASSUME TypeOK, Owed, NEW s \in Scans, NEW q, scan' = [scan EXCEPT ![s] = q],
         Counted, orders' = orders, rejected \subseteq rejected',
         \A k \in attempts : Owes(scan[s], k) => Owes(q, k) \/ k \in orders \cup rejected',
         \A k \in attempts' : k \in attempts \/ Owes(q, k)
  PROVE  Owed'
<1>1. scan'[s] = q /\ \A t \in Scans : t # s => scan'[t] = scan[t]
  BY DEF TypeOK
<1>2. SUFFICES ASSUME "silent" \notin troubles', NEW k \in attempts'
               PROVE  \/ k \in orders \cup rejected'
                      \/ \E t \in Scans : Owes(scan'[t], k)
  BY DEF Owed, Owes
<1>3. CASE Owes(q, k)
  BY <1>1, <1>3
<1>4. CASE k \in attempts /\ ~Owes(q, k)
  <2>1. k \in orders \cup rejected \/ \E t \in Scans : Owes(scan[t], k)
    BY <1>2, <1>4 DEF Owed, Counted
  <2> QED
    BY <1>1, <1>4, <2>1
<1> QED
  BY <1>3, <1>4

(* A scan leaves no candidate behind that it owes an answer.               *)
LEMMA ScanOwes ==
  ASSUME TypeOK, ScanShape, FirstOrder, Owed, NEW s \in Scans, ScanStep(s)
  PROVE  Owed'
<1> DEFINE r == scan[s]
<1>a. WellFormed(r) /\ r \in ScanState
  BY DEF ScanShape, WellFormed
<1>b. attempts \subseteq Candidates
  BY DEF TypeOK
<1>c. Counted /\ orders' = orders
  BY ScanMoves DEF ScanEffect, book
<1>d. Fails("silent") => Owed'
  BY DEF Fails, Owed
<1>e. \A k \in Candidates, u \in Runs : k \in Of(u) <=> Run[k] = u
  BY DEF Of
<1> HIDE DEF r
<1>f. ASSUME NEW q, scan' = [scan EXCEPT ![s] = q], rejected \subseteq rejected',
             \A k \in attempts :
               Owes(r, k) => Owes(q, k) \/ k \in orders \cup rejected',
             \A k \in attempts' : k \in attempts \/ Owes(q, k)
      PROVE  Owed'
  BY <1>c, <1>f, HandsOn DEF r
<1>g. UNCHANGED table => attempts' = attempts /\ rejected' = rejected
  BY DEF table
<1>1. ASSUME ScanFails(s) \/ \E d \in Decisions : ScanStart(s, d) PROVE Owed'
  <2>1. r.pc = "idle" /\ UNCHANGED table
    BY <1>1 DEF ScanStart, ScanFails, r
  <2>2. \A k : ~Owes(r, k)
    BY <2>1 DEF Owes
  <2>3. \E q : scan' = [scan EXCEPT ![s] = q]
    BY <1>1 DEF ScanStart, ScanFails, Goes
  <2> QED
    BY <1>f, <1>g, <2>1, <2>2, <2>3
<1>2. ASSUME NEW u \in Runs, BeginRun(s, u) PROVE Owed'
  <2> DEFINE q == [r EXCEPT !.pc = "record", !.todo = @ \ {u}, !.run = u,
                            !.left = Of(u), !.bad = FALSE]
  <2>1. r.pc = "scan" /\ scan' = [scan EXCEPT ![s] = q]
    BY <1>2 DEF BeginRun, Goes, r
  <2>2. q.pc = "record" /\ q.runs = r.runs
    BY <1>a DEF ScanState
  <2>3. attempts' = attempts /\ rejected' = rejected
    BY <1>2 DEF BeginRun
  <2> HIDE DEF q
  <2>4. \A k : Owes(r, k) => Owes(q, k)
    BY <2>1, <2>2 DEF Owes
  <2> QED
    BY <1>f, <2>1, <2>3, <2>4
<1>3. ASSUME NEW u \in Runs, BeginFails(s, u) PROVE Owed'
  <2> DEFINE q == [r EXCEPT !.todo = @ \ {u}]
  <2>1. r.pc = "scan" /\ scan' = [scan EXCEPT ![s] = Rest(q)] /\ UNCHANGED table
    BY <1>3 DEF BeginFails, Goes, r
  <2>2. q \in ScanState /\ q.left = {} /\ q.call = None /\ q.runs = r.runs
    BY <1>a, <2>1 DEF ScanState, WellFormed
  <2> HIDE DEF q
  <2>3. \A k \in Candidates : Owes(r, k) => Owes(Rest(q), k)
    BY <2>1, <2>2, RestOwes DEF Owes
  <2> QED
    BY <1>b, <1>f, <1>g, <2>1, <2>3
<1>4. ASSUME NEW u \in Runs, ExecuteStart(s, u) PROVE Owed'
  <2> DEFINE q == [r EXCEPT !.pc = "execute", !.run = u,
                            !.left = attempts \cap Of(u), !.bad = FALSE]
  <2>1. r.pc = "scan" /\ scan' = [scan EXCEPT ![s] = q] /\ UNCHANGED table
    BY <1>4 DEF ExecuteStart, Goes, r
  <2>2. /\ q.pc = "execute" /\ q.runs = r.runs /\ q.run = u
        /\ q.left = attempts \cap Of(u)
    BY <1>a DEF ScanState
  <2> HIDE DEF q
  <2>3. \A k \in attempts : Owes(r, k) => Owes(q, k)
    BY <1>b, <1>e, <2>1, <2>2 DEF Owes
  <2> QED
    BY <1>f, <1>g, <2>1, <2>3
<1>5. ASSUME NEW u \in Runs, TapeFails(s, u) PROVE Owed'
  <2> DEFINE q == [r EXCEPT !.pc = "execute", !.run = u,
                            !.left = attempts \cap Of(u), !.bad = TRUE,
                            !.dark = TRUE]
  <2>1. r.pc = "scan" /\ scan' = [scan EXCEPT ![s] = q] /\ UNCHANGED table
    BY <1>5 DEF TapeFails, Goes, r
  <2>2. /\ q.pc = "execute" /\ q.runs = r.runs /\ q.run = u
        /\ q.left = attempts \cap Of(u)
    BY <1>a DEF ScanState
  <2> HIDE DEF q
  <2>3. \A k \in attempts : Owes(r, k) => Owes(q, k)
    BY <1>b, <1>e, <2>1, <2>2 DEF Owes
  <2> QED
    BY <1>f, <1>g, <2>1, <2>3
<1>6. ASSUME RecordCandidate(s) PROVE Owed'
  <2> DEFINE c == First(r.left)
             q == [r EXCEPT !.left = @ \ {c}]
  <2>1. /\ r.pc = "record" /\ r.left # {}
        /\ scan' = [scan EXCEPT ![s] = q]
        /\ attempts' = attempts \cup {c} /\ rejected' = rejected
    BY <1>6 DEF RecordCandidate, Recording, Goes, r
  <2>2. c \in r.left /\ r.run \in Runs /\ r.left \subseteq Of(r.run)
    BY <1>a, <2>1, FirstOfSet DEF WellFormed
  <2>3. /\ q.pc = "record" /\ q.runs = r.runs /\ q.run = r.run
        /\ q.left = r.left \ {c}
    BY <1>a, <2>1 DEF ScanState
  <2>4. Run[c] = r.run
    BY <2>2 DEF Of
  <2> HIDE DEF q, c
  <2>5. \A k : Owes(r, k) => Owes(q, k)
    BY <2>1, <2>3 DEF Owes
  <2>6. Owes(q, c)
    BY <2>3, <2>4 DEF Owes
  <2> QED
    BY <1>f, <2>1, <2>5, <2>6
<1>7. ASSUME RecordFails(s) PROVE Owed'
  <2> DEFINE q == [r EXCEPT !.left = @ \ {First(@)}, !.bad = TRUE]
  <2>1. /\ r.pc = "record" /\ scan' = [scan EXCEPT ![s] = q]
        /\ UNCHANGED table
    BY <1>7 DEF RecordFails, Recording, Goes, r
  <2>2. /\ q.pc = "record" /\ q.runs = r.runs /\ q.run = r.run
        /\ q.left \subseteq r.left
    BY <1>a, <2>1 DEF ScanState
  <2> HIDE DEF q
  <2>3. \A k : Owes(r, k) => Owes(q, k)
    BY <2>1, <2>2 DEF Owes
  <2> QED
    BY <1>f, <1>g, <2>1, <2>3
<1>8. ASSUME SelectorFails(s) PROVE Owed'
  <2> DEFINE q == [r EXCEPT !.left = {}]
  <2>1. /\ r.pc = "record" /\ r.left = Of(r.run)
        /\ scan' = [scan EXCEPT ![s] = Rest(q)]
        /\ attempts' = attempts /\ rejected' = rejected
    BY <1>8 DEF SelectorFails, Recording, Goes, r
  <2>2. q \in ScanState /\ q.left = {} /\ q.call = None /\ q.runs = r.runs
    BY <1>a, <2>1 DEF ScanState, WellFormed
  <2> HIDE DEF q
  <2>3. \A k \in Candidates : Owes(r, k) => Run[k] \in r.runs
    BY <2>1 DEF Owes, Of
  <2>4. \A k \in Candidates : Owes(r, k) => Owes(Rest(q), k)
    BY <2>2, <2>3, RestOwes
  <2> QED
    BY <1>b, <1>f, <2>1, <2>4
<1>9. ASSUME FinishRun(s) \/ FinishFails(s) PROVE Owed'
  <2> DEFINE q == [r EXCEPT !.runs = @ \cup {r.run},
                            !.partial = IF r.bad THEN @ \cup {r.run} ELSE @]
  <2>1. /\ r.pc = "record" /\ r.left = {}
        /\ scan' = [scan EXCEPT ![s] = Rest(q)]
        /\ attempts' = attempts /\ rejected' = rejected
    BY <1>9 DEF FinishRun, FinishFails, Recording, Goes, Finished, r, table
  <2>2. /\ q \in ScanState /\ q.left = {} /\ q.call = None
        /\ q.runs = r.runs \cup {r.run}
    BY <1>a, <2>1 DEF ScanState, WellFormed
  <2> HIDE DEF q
  <2>3. \A k \in Candidates : Owes(r, k) => Run[k] \in q.runs
    BY <2>1, <2>2 DEF Owes
  <2>4. \A k \in Candidates : Owes(r, k) => Owes(Rest(q), k)
    BY <2>2, <2>3, RestOwes
  <2> QED
    BY <1>b, <1>f, <2>1, <2>4
<1>10. ASSUME NEW c \in Candidates, Reject(s, c) PROVE Owed'
  <2> DEFINE q == [r EXCEPT !.left = @ \ {c}]
  <2>1. /\ r.pc = "execute" /\ scan' = [scan EXCEPT ![s] = q]
        /\ attempts' = attempts /\ rejected' = rejected \cup {c}
    BY <1>10 DEF Reject, Executing, Goes, r
  <2>2. /\ q.pc = "execute" /\ q.runs = r.runs /\ q.run = r.run
        /\ q.left = r.left \ {c}
    BY <1>a, <2>1 DEF ScanState
  <2> HIDE DEF q
  <2>3. \A k : Owes(r, k) => Owes(q, k) \/ k = c
    BY <2>1, <2>2 DEF Owes
  <2> QED
    BY <1>f, <2>1, <2>3
<1>11. ASSUME NEW c \in Candidates, CallOpen(s, c) PROVE Owed'
  <2> DEFINE q == [r EXCEPT !.call = c]
  <2>1. /\ scan' = [scan EXCEPT ![s] = q] /\ UNCHANGED table
    BY <1>11 DEF CallOpen, Goes, r
  <2>2. /\ q.pc = r.pc /\ q.runs = r.runs /\ q.run = r.run
        /\ q.left = r.left
    BY <1>a DEF ScanState
  <2> HIDE DEF q
  <2>3. \A k : Owes(r, k) => Owes(q, k)
    BY <2>2 DEF Owes
  <2> QED
    BY <1>f, <1>g, <2>1, <2>3
<1>12. ASSUME NEW q, r.call # None, scan' = [scan EXCEPT ![s] = q],
              q = Answered(s) \/ q = [Answered(s) EXCEPT !.bad = TRUE],
              attempts' = attempts, rejected \subseteq rejected',
              r.call \in orders \cup rejected'
       PROVE  Owed'
  <2>1. r.pc = "execute"
    BY <1>a, <1>12 DEF WellFormed
  <2>2. /\ q.pc = "execute" /\ q.runs = r.runs /\ q.run = r.run
        /\ q.left = r.left \ {r.call}
    BY <1>a, <1>12, <2>1 DEF ScanState, Answered, r
  <2>3. \A k : Owes(r, k) => Owes(q, k) \/ k = r.call
    BY <2>1, <2>2 DEF Owes
  <2> QED
    BY <1>f, <1>12, <2>3
<1>13. ASSUME OpenAnswers(s) PROVE Owed'
  <2>1. r.call \in orders
    BY <1>13, <1>a DEF OpenAnswers, FirstOrder, ScanState, r
  <2> QED
    BY <1>12, <1>13, <1>g, <2>1 DEF OpenAnswers, Goes, r
<1>14. ASSUME OpenRaises(s) PROVE Owed'
  BY <1>12, <1>14 DEF OpenRaises, Goes, r
<1>15. ASSUME OpenLost(s) PROVE Owed'
  BY <1>12, <1>15 DEF OpenLost, Goes, r
<1>16. ASSUME Persist(s) \/ PersistFails(s) PROVE Owed'
  <2> DEFINE q == [r EXCEPT !.runs = @ \ {r.run}]
  <2>1. /\ r.pc = "execute" /\ r.left = {}
        /\ scan' = [scan EXCEPT ![s] = Rest(q)]
        /\ attempts' = attempts /\ rejected' = rejected
    BY <1>16 DEF Persist, PersistFails, Executed, Goes, RunExecuted, r, table
  <2>2. /\ q \in ScanState /\ q.left = {} /\ q.call = None
        /\ q.runs = r.runs \ {r.run}
    BY <1>a, <2>1 DEF ScanState, WellFormed
  <2> HIDE DEF q
  <2>3. \A k \in Candidates : Owes(r, k) => Run[k] \in q.runs
    BY <2>1, <2>2 DEF Owes
  <2>4. \A k \in Candidates : Owes(r, k) => Owes(Rest(q), k)
    BY <2>2, <2>3, RestOwes
  <2> QED
    BY <1>b, <1>f, <2>1, <2>4
<1>17. ASSUME \/ ScanCrash(s)
              \/ \E u \in Runs : ReadFails(s, u)
              \/ \E c \in Candidates : RejectFails(s, c)
       PROVE  Owed'
  BY <1>17, <1>d DEF ScanCrash, ReadFails, RejectFails
<1> QED
  BY <1>1, <1>2, <1>3, <1>4, <1>5, <1>6, <1>7, <1>8, <1>9, <1>10, <1>11,
     <1>13, <1>14, <1>15, <1>16, <1>17 DEF ScanStep

(* Nor does any other step.                                                *)
LEMMA OwedStep ==
  ASSUME TypeOK, ScanShape, FirstOrder, Owed, Next
  PROVE  Owed'
<1>1. ASSUME UNCHANGED <<attempts, rejected, scan>>, orders \subseteq orders', Counted
      PROVE  Owed'
  BY <1>1 DEF Owed, Owes, Counted
<1>2. ASSUME \/ Setup \/ Approve \/ EnableStart \/ PauseStart
             \/ \E a \in Arms : CtlLock(a)
             \/ CtlCommit \/ CtlAborts
         \/ \E d \in Decisions : Enqueue(d)
      PROVE  Owed'
  BY <1>1, <1>2, ControlMoves DEF ControlEffect, table
<1>3. ASSUME NEW s \in Scans, NEW k \in Candidates,
             OpenStep(s, k) \/ OpenAborts(s, k)
      PROVE  Owed'
  <2>1. OpenEffect(s, k)
    BY <1>3, OpenMoves
  <2> QED
    BY <1>1, <2>1 DEF OpenEffect, Opens, table, book
<1>4. ASSUME NEW m \in Settlers, SettlerStep(m) PROVE Owed'
  BY <1>1, <1>4, SettleMoves DEF SettleEffect, table, book
<1>5. ASSUME NEW m \in Settlers, NEW k \in Candidates, CloseStep(m, k)
      PROVE  Owed'
  BY <1>1, <1>5, CloseMoves DEF CloseEffect, Closes, table, book
<1> QED
  BY <1>2, <1>3, <1>4, <1>5, ScanOwes DEF Next

-----------------------------------------------------------------------------
(* The inductive invariant and what follows from it.                       *)

Inv ==
  /\ TypeOK /\ ScanShape /\ Funded
  /\ Locks
  /\ FreshBalance /\ CashIsEvents
  /\ FirstOrder /\ ReplayGetsReceipt
  /\ Positions /\ NetLiqIsWorth
  /\ PauseDrains /\ PauseStops
  /\ Owed

(* The inductive invariant holds at the start, ...                         *)
LEMMA InvInit == Init => Inv
<1> SUFFICES ASSUME Init PROVE Inv
  OBVIOUS
<1>1. \A s \in Scans, k \in Candidates : open[s][k].pc = "none"
  BY DEF Init, NoOpen
<1>2. \A m \in Settlers, k \in Candidates : close[m][k].pc = "none"
  BY DEF Init, NoClose
<1>3. Locks /\ FreshBalance /\ FirstOrder /\ ReplayGetsReceipt
  BY <1>1, <1>2 DEF Locks, RunLock, PositionLock, PortfolioLock, FreshBalance,
     FirstOrder, ReplayGetsReceipt, HoldsRun, Opening, Closing
<1>4. CashIsEvents
  BY ExperimentAssumption DEF Init, CashIsEvents
<1>5. Positions
  <2>1. \A m \in Settlers : settler[m].left = {}
    BY DEF Init, IdleSettler
  <2> QED
    BY <1>2, <2>1 DEF Init, Positions
<1>6. PauseDrains /\ PauseStops
  BY DEF Init, PauseDrains, PauseStops
<1>7. Owed
  BY DEF Init, Owed
<1>8. NetLiqIsWorth
  <2>1. \A a \in Arms : Carried(a) = {}
    BY DEF Init, Carried, OfArm
  <2>2. \A a \in Arms : netliq[a] = cash[a] + 0
    BY ExperimentAssumption DEF Init
  <2> QED
    BY <2>1, <2>2, SumEmpty, Worth
<1> QED
  BY <1>3, <1>4, <1>5, <1>6, <1>7, <1>8, TypeInit DEF Inv

(* ... every step keeps it, ...                                            *)
LEMMA InvStep == Inv /\ [Next /\ UNCHANGED tape]_vars => Inv'
<1> SUFFICES ASSUME Inv, [Next /\ UNCHANGED tape]_vars PROVE Inv'
  OBVIOUS
<1>1. CASE Next /\ UNCHANGED tape
  BY <1>1, TypeStep, LockStep, BalanceStep, OrderStep, PositionStep, WorthStep,
     PauseStep, OwedStep DEF Inv
<1>2. CASE UNCHANGED vars
  <2> USE <1>2 DEF vars, control, table, book
  <2>1. TypeOK' /\ ScanShape' /\ Funded'
    BY TypeStutter DEF Inv
  <2>2. Locks'
    BY DEF Inv, Locks, RunLock, PositionLock, PortfolioLock, HoldsRun, Opening,
       Closing
  <2>3. FreshBalance' /\ CashIsEvents'
    BY DEF Inv, FreshBalance, CashIsEvents, Opening, Closing
  <2>4. FirstOrder' /\ ReplayGetsReceipt'
    BY DEF Inv, FirstOrder, ReplayGetsReceipt, HoldsRun
  <2>5. Positions'
    BY DEF Inv, Positions
  <2>6. PauseDrains' /\ PauseStops'
    BY DEF Inv, PauseDrains, PauseStops, RunFree
  <2>7. Owed'
    BY DEF Inv, Owed, Owes
  <2>8. NetLiqIsWorth'
    <3>1. \A a \in Arms : Carried(a)' = Carried(a)
      BY DEF Carried
    <3> QED
      BY <3>1, Worth DEF Inv
  <2> QED
    BY <2>1, <2>2, <2>3, <2>4, <2>5, <2>6, <2>7, <2>8 DEF Inv
<1> QED
  BY <1>1, <1>2

(* ... so it always holds.                                                 *)
LEMMA Invariance == Spec => []Inv
  BY InvInit, InvStep, PTL DEF Spec

(* The balance of every portfolio is its starting capital plus its cash    *)
(* events, whatever opens and settlements overlap: the row locks make the  *)
(* balance a transaction read the balance it replaces.                     *)
THEOREM CashAccounted == Spec => []CashIsEvents
<1>1. Inv => CashIsEvents
  BY DEF Inv
<1> QED
  BY <1>1, Invariance, PTL

(* Net liquidation value is cash plus open contracts at cost: an open      *)
(* moves its cost from cash to the contracts, and a settlement, which adds *)
(* only the profit, finds the position still open.                         *)
THEOREM NetLiqFollows == Spec => []NetLiqIsWorth
<1>1. Inv => NetLiqIsWorth
  BY DEF Inv
<1> QED
  BY <1>1, Invariance, PTL

(* No open RPC ever meets the unique key: the lock on the run row is taken *)
(* before the look for an earlier order and kept until the commit.         *)
THEOREM ReplayAnswered == Spec => []ReplayGetsReceipt
<1>1. Inv => ReplayGetsReceipt
  BY DEF Inv
<1> QED
  BY <1>1, Invariance, PTL

(* After a pause at most one more order of each run lands, whatever the    *)
(* number of decisions, scans, candidates and pauses: the lock on the run  *)
(* row lets one transaction past the check of the epoch at a time.         *)
THEOREM PauseHolds == Spec => []PauseStops
<1>1. Inv => PauseStops
  BY DEF Inv
<1> QED
  BY <1>1, Invariance, PTL

(* When no scan is under way and no failure was silent, every recorded     *)
(* candidate has an order or a durable rejection.                          *)
THEOREM Resolved == Spec => []CandidatesResolved
<1>1. Inv => CandidatesResolved
  <2> SUFFICES ASSUME Inv, \A s \in Scans : scan[s].pc \in {"idle", "done"},
                      "silent" \notin troubles
               PROVE  attempts \subseteq orders \cup rejected
    BY DEF CandidatesResolved
  <2>1. \A s \in Scans, k \in Candidates : ~Owes(scan[s], k)
    BY DEF Owes
  <2>2. attempts \subseteq Candidates
    BY DEF Inv, TypeOK
  <2> QED
    BY <2>1, <2>2 DEF Inv, Owed
<1> QED
  BY <1>1, Invariance, PTL

-----------------------------------------------------------------------------
(* The transactions implement ShadowBook.                                  *)

(* A control RPC finds at its commit the epoch it checked, an open past    *)
(* its check has seen the experiment enabled, and a close pays what the    *)
(* settlement computed.                                                    *)
Licensed ==
  /\ ctl.op = "enable" => epoch \in {"disabled", "paused"}
  /\ ctl.op = "pause" => epoch # "absent"
  /\ \A s \in Scans, k \in Candidates :
       HoldsRun(s, k) => epoch \in {"enabled", "paused"}
  /\ \A m \in Settlers, k \in Candidates :
       close[m][k].pc # "none" => close[m][k].pay \in Payoffs

(* Every step keeps that.                                                  *)
LEMMA LicensedStep ==
  ASSUME Inv, Licensed, Next
  PROVE  Licensed'
<1> USE DEF HoldsRun
<1>t. TypeOK /\ ScanShape
  BY DEF Inv
<1>a. ctl \in [op : {"none", "enable", "pause"}, locked : SUBSET Arms]
  BY <1>t DEF TypeOK
<1>1. ASSUME open' = open, close' = close,
             epoch' = epoch \/ epoch' \in {"enabled", "paused"}
                            \/ epoch = "absent",
             ctl'.op = "enable" => epoch' \in {"disabled", "paused"},
             ctl'.op = "pause" => epoch' # "absent"
      PROVE  Licensed'
  BY <1>1 DEF Licensed
<1>2. CASE Setup
  BY <1>1, <1>2 DEF Setup, Control
<1>3. CASE Approve \/ EnableStart \/ PauseStart
  BY <1>1, <1>3 DEF Approve, EnableStart, PauseStart, Licensed
<1>4. ASSUME NEW a \in Arms, CtlLock(a) PROVE Licensed'
  <2>1. ctl'.op \in {"none", ctl.op}
    BY <1>a, <1>4 DEF CtlLock
  <2> QED
    BY <1>1, <1>4, <2>1 DEF CtlLock, Licensed
<1>5. CASE CtlCommit \/ CtlAborts
  <2>1. ctl'.op = "none"
    BY <1>5 DEF CtlCommit, CtlAborts
  <2> QED
    BY <1>1, <1>5, <2>1 DEF CtlCommit, CtlAborts
<1>6. ASSUME NEW d \in Decisions, Enqueue(d) PROVE Licensed'
  BY <1>1, <1>6 DEF Enqueue, control, Licensed
<1>7. ASSUME NEW s \in Scans, ScanStep(s) PROVE Licensed'
  <2>1. ScanEffect(s)
    BY <1>t, <1>7, ScanMoves
  <2>2. \A x \in Scans, y \in Candidates :
          open'[x][y] = open[x][y] \/ open'[x][y].pc \in {"none", "check"}
    BY <1>t, <2>1, ScanOpens
  <2> QED
    BY <2>1, <2>2 DEF ScanEffect, control, Licensed
<1>8. ASSUME NEW s \in Scans, NEW k \in Candidates,
             OpenStep(s, k) \/ OpenAborts(s, k)
      PROVE  Licensed'
  <2>1. OpenEffect(s, k)
    BY <1>t, <1>8, OpenMoves
  <2>2. PICK v \in OpenState :
          /\ open' = [open EXCEPT ![s][k] = v]
          /\ \/ v.pc = "cash" /\ epoch = "enabled"
             \/ v.pc = "commit" /\ open[s][k].pc = "cash"
             \/ v.pc \notin {"cash", "commit"}
    BY <2>1 DEF OpenEffect
  <2>3. /\ open'[s][k] = v
        /\ \A x \in Scans, y \in Candidates :
             x # s \/ y # k => open'[x][y] = open[x][y]
    BY <1>t, <2>2 DEF TypeOK
  <2>4. UNCHANGED <<epoch, ctl, close>>
    BY <2>1 DEF OpenEffect, control
  <2> QED
    BY <2>2, <2>3, <2>4 DEF Licensed
<1>9. ASSUME UNCHANGED <<epoch, ctl, open>>,
             \A n \in Settlers, l \in Candidates :
               \/ close'[n][l].pc = "none"
               \/ close'[n][l].pay \in Payoffs
               \/ close[n][l].pc # "none" /\ close'[n][l].pay = close[n][l].pay
      PROVE  Licensed'
  BY <1>9 DEF Licensed
<1>10. ASSUME NEW m \in Settlers, SettlerStep(m) PROVE Licensed'
  <2>1. UNCHANGED <<epoch, ctl, open>>
    BY <1>t, <1>10, SettleMoves DEF SettleEffect, control
  <2>2. CASE close' = close
    BY <1>9, <2>1, <2>2 DEF Licensed
  <2>3. ASSUME NEW k \in Candidates, NEW v \in Payoffs, SettleCall(m, k, v)
        PROVE  Licensed'
    <3> DEFINE c == [NoClose EXCEPT !.pc = "check", !.pay = v]
    <3>1. c.pay = v
      BY DEF NoClose
    <3>2. close' = [close EXCEPT ![m][k] = c]
      BY <2>3 DEF SettleCall
    <3> HIDE DEF c
    <3>3. \A n \in Settlers, l \in Candidates :
            close'[n][l] = c \/ close'[n][l] = close[n][l]
      BY <1>t, <3>2 DEF TypeOK
    <3> QED
      BY <1>9, <2>1, <3>1, <3>3 DEF Licensed
  <2> QED
    BY <1>10, <2>2, <2>3 DEF SettlerStep, SettleStart, SettleDefer,
       SettleAnswer, SettleLost
<1>11. ASSUME NEW m \in Settlers, NEW k \in Candidates, CloseStep(m, k)
       PROVE  Licensed'
  <2>1. UNCHANGED <<epoch, ctl, open>> /\ close[m][k].pc # "none"
    BY <1>t, <1>11, CloseMoves DEF CloseEffect, control
  <2>2. close[m][k] \in CloseState
    BY <1>t DEF TypeOK
  <2>3. \E v \in CloseState :
          /\ close' = [close EXCEPT ![m][k] = v]
          /\ v.pc = "none" \/ v.pay = close[m][k].pay
    <3>1. NoClose \in CloseState /\ NoClose.pc = "none"
      BY DEF NoClose, CloseState
    <3>2. CASE CloseCheck(m, k)
      <4> DEFINE v == [close[m][k] EXCEPT !.pc = "cash"]
      <4>1. v \in CloseState /\ v.pay = close[m][k].pay
        BY <2>2 DEF CloseState
      <4>2. \/ close' = [close EXCEPT ![m][k] = NoClose]
            \/ close' = [close EXCEPT ![m][k] = v]
        BY <1>t, <3>2 DEF CloseCheck, TypeOK
      <4> HIDE DEF v
      <4> QED
        BY <3>1, <4>1, <4>2
    <3>3. CASE CloseCash(m, k)
      <4> DEFINE v == [close[m][k] EXCEPT !.pc = "commit",
                                          !.before = cash[Arm[k]]]
      <4>0. cash[Arm[k]] \in Nat
        BY <1>t, ArmType DEF TypeOK
      <4>1. v \in CloseState /\ v.pay = close[m][k].pay
        BY <2>2, <4>0 DEF CloseState
      <4>2. close' = [close EXCEPT ![m][k] = v]
        BY <1>t, <2>2, <3>3 DEF CloseCash, TypeOK, CloseState
      <4> HIDE DEF v
      <4> QED
        BY <4>1, <4>2
    <3>4. CASE CloseCommit(m, k) \/ CloseAborts(m, k)
      BY <3>1, <3>4 DEF CloseCommit, CloseCommitOf, CloseAborts
    <3> QED
      BY <1>11, <3>2, <3>3, <3>4 DEF CloseStep
  <2>4. \A n \in Settlers, l \in Candidates :
          \/ close'[n][l] = close[n][l]
          \/ n = m /\ l = k /\ (\/ close'[n][l].pc = "none"
                                \/ close'[n][l].pay = close[m][k].pay)
    BY <1>t, <2>3 DEF TypeOK
  <2> QED
    BY <1>9, <2>1, <2>4 DEF Licensed
<1> QED
  BY <1>2, <1>3, <1>4, <1>5, <1>6, <1>7, <1>8, <1>10, <1>11 DEF Next

(* A committed open is ShadowBook's, against the balance it read.          *)
LEMMA OpenRefines ==
  ASSUME Inv, Licensed, UNCHANGED tape, NEW s \in Scans, NEW k \in Candidates,
         OpenEffect(s, k)
  PROVE  Books!Open(k) \/ UNCHANGED Books!vars
<1> USE DEF Opening, HoldsRun
<1>a. /\ late \in [Runs -> Nat] /\ cash \in [Arms -> Nat]
      /\ Arm[k] \in Arms /\ Run[k] \in Runs /\ tape[k] \in Nat
  BY ArmType, ExperimentAssumption DEF Inv, TypeOK
<1>1. UNCHANGED epoch
  BY DEF OpenEffect, control
<1>2. CASE UNCHANGED book
  BY <1>1, <1>2 DEF book, Books!vars
<1>3. CASE Opening(s, k) /\ k \notin orders /\ Opens(s, k)
  <2>1. posn[k] = "none"
    BY <1>3 DEF Inv, Positions
  <2>2. open[s][k].before = cash[Arm[k]] /\ cash[Arm[k]] >= tape[k]
    BY <1>3 DEF Inv, FreshBalance, Funded
  <2>3. epoch \in {"enabled", "paused"}
    BY <1>3 DEF Licensed
  <2>4. epoch = "paused" => late[Run[k]] = 0
    BY <1>3, <1>a DEF Inv, PauseDrains, RunFree, Of
  <2>5. \/ epoch = "enabled" /\ UNCHANGED late
        \/ /\ epoch = "paused" /\ late[Run[k]] = 0
           /\ late' = [late EXCEPT ![Run[k]] = 1]
    <3>1. late' = [late EXCEPT ![Run[k]] = IF epoch = "paused"
                                           THEN late[Run[k]] + 1
                                           ELSE late[Run[k]]]
      BY <1>3 DEF Opens
    <3>2. CASE epoch = "enabled"
      <4>1. late' = [late EXCEPT ![Run[k]] = late[Run[k]]]
        BY <3>1, <3>2
      <4> QED
        BY <1>a, <3>2, <4>1
    <3>3. CASE epoch = "paused"
      <4>1. late' = [late EXCEPT ![Run[k]] = late[Run[k]] + 1]
        BY <3>1, <3>3
      <4>2. late[Run[k]] = 0 /\ late[Run[k]] + 1 = 1
        BY <2>4, <3>3
      <4> QED
        BY <3>3, <4>1, <4>2
    <3> QED
      BY <2>3, <3>2, <3>3
  <2>6. cash' = [cash EXCEPT ![Arm[k]] = @ - tape[k]]
    BY <1>3, <1>a, <2>2 DEF Opens
  <2> QED
    BY <1>1, <1>3, <2>1, <2>2, <2>5, <2>6 DEF Opens, Books!Open
<1> QED
  BY <1>2, <1>3 DEF OpenEffect

(* So is a committed close.                                                *)
LEMMA CloseRefines ==
  ASSUME Inv, Licensed, UNCHANGED tape,
         NEW m \in Settlers, NEW k \in Candidates, CloseEffect(m, k)
  PROVE  (\E v \in Payoffs : Books!Settle(k, v)) \/ UNCHANGED Books!vars
<1> USE DEF Closing
<1>1. UNCHANGED epoch
  BY DEF CloseEffect, control
<1>2. CASE UNCHANGED book
  BY <1>1, <1>2 DEF book, Books!vars
<1>3. CASE Closing(m, k) /\ Closes(m, k)
  <2> DEFINE v == close[m][k].pay
  <2>1. v \in Payoffs
    BY <1>3 DEF Licensed
  <2>2. posn[k] = "open" /\ close[m][k].before = cash[Arm[k]]
    BY <1>3 DEF Inv, Positions, FreshBalance
  <2>3. /\ posn' = [posn EXCEPT ![k] = "closed"]
        /\ cash' = [cash EXCEPT ![Arm[k]] = @ + v]
        /\ netliq' = [netliq EXCEPT ![Arm[k]] = @ + (v - tape[k])]
        /\ UNCHANGED late
    BY <1>3, <2>2 DEF Closes
  <2> QED
    BY <1>1, <2>1, <2>2, <2>3 DEF Books!Settle
<1> QED
  BY <1>2, <1>3 DEF CloseEffect

(* Every step is a step of ShadowBook or leaves its variables alone.       *)
LEMMA StepRefines ==
  ASSUME Inv, Licensed, Next, UNCHANGED tape
  PROVE  Books!Next \/ UNCHANGED Books!vars
<1>t. TypeOK /\ ScanShape
  BY DEF Inv
<1>1. CASE Setup
  BY <1>1 DEF Setup, book, Books!Setup, Books!Next
<1>2. CASE Approve \/ EnableStart \/ PauseStart \/ CtlAborts
  BY <1>2 DEF Approve, EnableStart, PauseStart, CtlAborts, book, Books!vars
<1>3. ASSUME NEW a \in Arms, CtlLock(a) PROVE UNCHANGED Books!vars
  BY <1>3 DEF CtlLock, book, Books!vars
<1>4. CASE CtlCommit
  <2>1. CASE ctl.op = "enable"
    BY <1>4, <2>1 DEF CtlCommit, Licensed, Books!Enable, Books!Next
  <2>2. CASE ctl.op = "pause" /\ epoch # "paused"
    BY <1>4, <2>2, <1>t
       DEF CtlCommit, Licensed, Books!Pause, Books!Next, TypeOK
  <2>3. CASE ctl.op = "pause" /\ epoch = "paused"
    BY <1>4, <2>3 DEF CtlCommit, Books!vars
  <2>4. ctl.op \in {"none", "enable", "pause"}
    BY <1>t DEF TypeOK
  <2> QED
    BY <1>4, <2>1, <2>2, <2>3, <2>4 DEF CtlCommit
<1>5. ASSUME NEW d \in Decisions, Enqueue(d) PROVE UNCHANGED Books!vars
  BY <1>5 DEF Enqueue, control, book, Books!vars
<1>6. ASSUME NEW s \in Scans, ScanStep(s) PROVE UNCHANGED Books!vars
  BY <1>t, <1>6, ScanMoves DEF ScanEffect, control, book, Books!vars
<1>7. ASSUME NEW s \in Scans, NEW k \in Candidates,
             OpenStep(s, k) \/ OpenAborts(s, k)
      PROVE  Books!Next \/ UNCHANGED Books!vars
  BY <1>t, <1>7, OpenMoves, OpenRefines DEF Books!Next
<1>8. ASSUME NEW m \in Settlers, SettlerStep(m) PROVE UNCHANGED Books!vars
  BY <1>t, <1>8, SettleMoves DEF SettleEffect, control, book, Books!vars
<1>9. ASSUME NEW m \in Settlers, NEW k \in Candidates, CloseStep(m, k)
      PROVE  Books!Next \/ UNCHANGED Books!vars
  BY <1>t, <1>9, CloseMoves, CloseRefines DEF Books!Next
<1> QED
  BY <1>1, <1>2, <1>3, <1>4, <1>5, <1>6, <1>7, <1>8, <1>9 DEF Next

(* The open and close RPCs are atomic: under every overlap of scans,       *)
(* retries, settlements, abandoned calls and control RPCs, the books take  *)
(* only the steps ShadowBook allows. Each candidate is bought at most once *)
(* and settled at most once, at the balance of the moment of the commit.   *)
THEOREM Refinement == Spec => RPCsAreAtomic
<1>1. Init => Books!Init
  BY DEF Init, Books!Init
<1>2. Init => Licensed
  <2> SUFFICES ASSUME Init PROVE Licensed
    OBVIOUS
  <2>1. \A s \in Scans, k \in Candidates : open[s][k].pc = "none"
    BY DEF Init, NoOpen
  <2>2. \A m \in Settlers, k \in Candidates : close[m][k].pc = "none"
    BY DEF Init, NoClose
  <2> QED
    BY <2>1, <2>2 DEF Init, Licensed, HoldsRun
<1>3. Inv /\ Licensed /\ [Next /\ UNCHANGED tape]_vars => Licensed'
  <2>1. ASSUME Licensed, UNCHANGED vars PROVE Licensed'
    BY <2>1 DEF Licensed, HoldsRun, vars, control
  <2> QED
    BY <2>1, LicensedStep
<1>4. Inv /\ Licensed /\ [Next /\ UNCHANGED tape]_vars
        => [Books!Next]_(Books!vars)
  <2>1. UNCHANGED vars => UNCHANGED Books!vars
    BY DEF vars, control, book, Books!vars
  <2> QED
    BY <2>1, StepRefines
<1> QED
  BY <1>1, <1>2, <1>3, <1>4, Invariance, PTL DEF Spec, RPCsAreAtomic, Books!Spec
=============================================================================
