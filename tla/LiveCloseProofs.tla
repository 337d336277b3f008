--------------------------- MODULE LiveCloseProofs ---------------------------
(***************************************************************************)
(* Theorems about LiveClose, for every number of orders, closing runs and  *)
(* sync runs, every position size and every value of the bounds.           *)
(***************************************************************************)
EXTENDS LiveClose, TLAPS

-----------------------------------------------------------------------------
(* Lemmas on the records: every update the code makes yields a record of   *)
(* the same kind.                                                          *)

(* The empty values have their types.                                      *)
LEMMA Constants ==
  /\ NoRow \in Row
  /\ NoOrder \in BrokerOrder /\ NewOrder \in BrokerOrder
  /\ IdleCloser \in CloserState
  /\ IdleSync \in SyncState
  /\ IdleSweep \in SweepState
<1>1. NoRow \in Row
  BY DEF NoRow, Row, OrderStatus
<1>2. NoOrder \in BrokerOrder /\ NewOrder \in BrokerOrder
  BY DEF NoOrder, NewOrder, BrokerOrder
<1>3. IdleCloser \in CloserState
  BY DEF IdleCloser, CloserState
<1>4. IdleSync \in SyncState
  BY DEF IdleSync, SyncState
<1>5. IdleSweep \in SweepState
  BY <1>1 DEF IdleSweep, SweepState
<1> QED
  BY <1>1, <1>2, <1>3, <1>4, <1>5

(* Updates of a row of paper_orders.                                       *)
LEMMA RowUpdates ==
  ASSUME NEW row \in Row
  PROVE  /\ row.qty \in Int /\ row.filled \in Int /\ row.resp \in Int
         /\ \A st \in OrderStatus, n \in Int : Answered(row, st, n) \in Row
         /\ \A n \in Int : Submitted(row, n) \in Row
         /\ \A st \in OrderStatus, n \in Int : Observed(row, st, n) \in Row
         /\ \A age \in {"fresh", "stale", "old"} :
              Cancelled(row, age) \in Row /\ [row EXCEPT !.age = age] \in Row
         /\ [row EXCEPT !.status = "working"] \in Row
         /\ \A st \in OrderStatus, n \in Int : Simulated(row, st, n) \in Row
         /\ Submitted(row, 0) \in Row
         /\ Answered(row, "needs_manual_review", 0) \in Row
         /\ Simulated(row, "working", 0) \in Row
<1>1. row.qty \in Int /\ row.filled \in Int /\ row.resp \in Int
  BY DEF Row
<1>2. \A st \in OrderStatus, n \in Int : Answered(row, st, n) \in Row
  BY DEF Row, Answered
<1>3. ASSUME NEW n \in Int PROVE Submitted(row, n) \in Row
  <2>1. Answered(row, "submitted", n) \in Row
    BY <1>2 DEF OrderStatus
  <2>2. \A r \in Row : [r EXCEPT !.alp = "set"] \in Row
    BY DEF Row
  <2> QED
    BY <2>1, <2>2 DEF Submitted
<1>4. ASSUME NEW st \in OrderStatus, NEW n \in Int
      PROVE  Observed(row, st, n) \in Row
  <2> DEFINE m == IF n > 0 THEN n ELSE row.filled
  <2>1. m \in Int
    BY <1>1
  <2>2. Answered(row, st, n) \in Row
    BY <1>2
  <2> HIDE DEF m
  <2>3. \A r \in Row : [r EXCEPT !.filled = m, !.age = "fresh"] \in Row
    BY <2>1 DEF Row
  <2> QED
    BY <2>2, <2>3 DEF Observed, m
<1>5. \A age \in {"fresh", "stale", "old"} :
        Cancelled(row, age) \in Row /\ [row EXCEPT !.age = age] \in Row
  BY DEF Row, OrderStatus, Cancelled
<1>6. [row EXCEPT !.status = "working"] \in Row
  BY DEF Row, OrderStatus
<1>7. \A st \in OrderStatus, n \in Int : Simulated(row, st, n) \in Row
  BY DEF Row, Simulated
<1>8. /\ Submitted(row, 0) \in Row
      /\ Answered(row, "needs_manual_review", 0) \in Row
      /\ Simulated(row, "working", 0) \in Row
  <2>1. 0 \in Int
    OBVIOUS
  <2>2. "needs_manual_review" \in OrderStatus /\ "working" \in OrderStatus
    BY DEF OrderStatus
  <2> QED
    BY <2>1, <2>2, <1>2, <1>3, <1>7, Zenon
<1> QED
  BY <1>1, <1>2, <1>3, <1>4, <1>5, <1>6, <1>7, <1>8

(* States of a run of _close_position.                                     *)
LEMMA CloserUpdates ==
  ASSUME NEW st \in CloserState
  PROVE  /\ st.qty \in Int
         /\ \A n \in Int : Querying(n) \in CloserState
         /\ st.pc = "query" => [st EXCEPT !.pc = "stage"] \in CloserState
         /\ st.pc = "stage" =>
              \A o \in Orders : Holding(st, o) \in CloserState
         /\ st.pc \in {"precancel", "submit", "ack", "review"} =>
              /\ st.order \in Orders
              /\ Attempted(st) \in CloserState
              /\ \A pc \in {"submit", "ack", "review"} :
                   [st EXCEPT !.pc = pc] \in CloserState
<1>1. st.qty \in Int
  BY DEF CloserState
<1>2. \A n \in Int : Querying(n) \in CloserState
  BY DEF CloserState, IdleCloser, Querying
<1>3. st.pc = "query" => [st EXCEPT !.pc = "stage"] \in CloserState
  BY DEF CloserState
<1>4. ASSUME st.pc = "stage", NEW o \in Orders
      PROVE  Holding(st, o) \in CloserState
  <2>1. st \in [pc : {"idle", "query", "stage"},
                order : {None}, qty : Int, tries : {0}]
    BY <1>4 DEF CloserState
  <2>2. Holding(st, o) \in [pc : {"precancel", "submit", "ack", "review"},
                            order : Orders, qty : Int, tries : Nat]
    <3>1. st \in [pc : {"idle", "query", "stage"},
                  order : {None}, qty : Int, tries : Nat]
      BY <2>1
    <3> QED
      BY <3>1 DEF Holding
  <2> QED
    BY <2>2 DEF CloserState
<1>5. ASSUME st.pc \in {"precancel", "submit", "ack", "review"}
      PROVE  /\ st.order \in Orders
             /\ Attempted(st) \in CloserState
             /\ \A pc \in {"submit", "ack", "review"} :
                  [st EXCEPT !.pc = pc] \in CloserState
  <2> DEFINE Busy == [pc : {"precancel", "submit", "ack", "review"},
                      order : Orders, qty : Int, tries : Nat]
  <2>1. st \in Busy
    BY <1>5 DEF CloserState
  <2>2. st.order \in Orders
    BY <2>1
  <2>3. \A pc \in {"submit", "ack", "review"} : [st EXCEPT !.pc = pc] \in Busy
    BY <2>1
  <2>4. Attempted(st) \in Busy
    <3>1. \A pc \in {"submit", "review"}, n \in Nat :
            [st EXCEPT !.pc = pc, !.tries = n] \in Busy
      BY <2>1
    <3>2. st.tries + 1 \in Nat
      BY <2>1
    <3> QED
      BY <3>1, <3>2 DEF Attempted
  <2> QED
    BY <2>2, <2>3, <2>4 DEF CloserState
<1> QED
  BY <1>1, <1>2, <1>3, <1>4, <1>5

(* States of a run of the order sync.                                      *)
LEMMA SyncUpdates ==
  ASSUME NEW st \in SyncState
  PROVE  /\ st.todo \in SUBSET Orders
         /\ st.seen \in BrokerOrder
         /\ \A pc \in {"poll", "lost", "stuck"}, T \in SUBSET Orders :
              Looping(pc, T) \in SyncState
         /\ \A pc \in {"fetched", "write", "found"}, o \in Orders,
               b \in BrokerOrder : Looking(st, o, pc, b) \in SyncState
         /\ st.pc \in {"fetched", "refetch", "write", "commit", "found"} =>
              /\ st.order \in Orders
              /\ [st EXCEPT !.pc = "refetch"] \in SyncState
              /\ [st EXCEPT !.pc = "commit"] \in SyncState
<1>0. NoOrder \in BrokerOrder
  BY Constants
<1>1. st.todo \in SUBSET Orders /\ st.seen \in BrokerOrder
  BY <1>0 DEF SyncState
<1>2. \A pc \in {"poll", "lost", "stuck"}, T \in SUBSET Orders :
        Looping(pc, T) \in SyncState
  BY DEF SyncState, IdleSync, Looping
<1>3. \A pc \in {"fetched", "write", "found"}, o \in Orders,
         b \in BrokerOrder : Looking(st, o, pc, b) \in SyncState
  BY DEF SyncState, Looking
<1>4. st.pc \in {"fetched", "refetch", "write", "commit", "found"} =>
        /\ st.order \in Orders
        /\ [st EXCEPT !.pc = "refetch"] \in SyncState
        /\ [st EXCEPT !.pc = "commit"] \in SyncState
  BY DEF SyncState
<1> QED
  BY <1>1, <1>2, <1>3, <1>4

(* Orders at the broker.                                                   *)
LEMMA BrokerUpdates ==
  ASSUME NEW b \in BrokerOrder
  PROVE  /\ b.fill \in Int
         /\ \A st \in {"canceled", "expired"} :
              [b EXCEPT !.state = st] \in BrokerOrder
         /\ InternalStatus(b) \in OrderStatus
<1>1. b.fill \in Int
  BY DEF BrokerOrder
<1>2. \A st \in {"canceled", "expired"} : [b EXCEPT !.state = st] \in BrokerOrder
  BY DEF BrokerOrder
<1>3. InternalStatus(b) \in OrderStatus
  BY DEF InternalStatus, OrderStatus, BrokerOrder
<1> QED
  BY <1>1, <1>2, <1>3

(* The position.                                                           *)
LEMMA PositionUpdates ==
  ASSUME NEW p \in Position
  PROVE  /\ p.qty \in Int
         /\ \A n \in Int : ClosedBy(p, n) \in Position
         /\ \A n \in Int : [p EXCEPT !.qty = n] \in Position
<1>1. p.qty \in Int
  BY DEF Position
<1>2. \A n \in Int : ClosedBy(p, n) \in Position
  BY DEF ClosedBy, Position
<1>3. \A n \in Int : [p EXCEPT !.qty = n] \in Position
  BY DEF Position
<1> QED
  BY <1>1, <1>2, <1>3

(* The row a closer inserts.                                               *)
LEMMA StagedRowType ==
  ASSUME NEW n \in Int, NEW coid \in {"null", "set"}
  PROVE  StagedRow(n, coid) \in Row
<1>1. \A r \in Row :
        [r EXCEPT !.status = "staged", !.qty = n, !.coid = coid] \in Row
  BY DEF Row, OrderStatus
<1> QED
  BY <1>1, Constants DEF StagedRow

(* The row of the resting profit limit.                                    *)
LEMMA GtcRowType == GtcRow \in Row
<1>1. \A r \in Row, n \in Int :
        [r EXCEPT !.status = "submitted", !.engine = "gtc", !.qty = n,
                  !.coid = "set", !.alp = "set"] \in Row
  BY DEF Row, OrderStatus
<1>2. Qty \in Int
  BY LiveAssumption
<1> QED
  BY <1>1, <1>2, Constants DEF GtcRow

-----------------------------------------------------------------------------
(* Every row, order, run and counter keeps its type in every reachable     *)
(* state.                                                                  *)
THEOREM TypeCorrect == Spec => []TypeOK
<1>1. Init => TypeOK
  <2> SUFFICES ASSUME Init PROVE TypeOK
    OBVIOUS
  <2>1. GtcRow \in Row
    BY GtcRowType
  <2>2. pos \in Position
    BY LiveAssumption DEF Init, Position
  <2>3. rows \in [Orders -> Row]
    BY <2>1, Constants DEF Init
  <2>4. /\ broker \in [Orders -> BrokerOrder]
        /\ closer \in [Closers -> CloserState]
        /\ sync \in [Syncs -> SyncState]
        /\ sweep \in SweepState
    BY Constants DEF Init
  <2>5. held \in Nat /\ budget \in [faults : Nat, crashes : Nat]
    BY LiveAssumption DEF Init
  <2> QED
    BY <2>2, <2>3, <2>4, <2>5 DEF TypeOK
<1>2. TypeOK /\ [Next]_vars => TypeOK'
  <2> SUFFICES ASSUME TypeOK, [Next]_vars PROVE TypeOK'
    OBVIOUS
  <2>a. Fault => budget' \in [faults : Nat, crashes : Nat]
    BY DEF Fault, TypeOK
  <2>b. Crash => budget' \in [faults : Nat, crashes : Nat]
    BY DEF Crash, TypeOK
  <2>c. {"submitted", "working", "filled", "watchdog_cancelled",
         "needs_manual_review"} \subseteq OrderStatus
    BY DEF OrderStatus
  <2>1. ASSUME NEW c \in Closers, CloseStart(c) PROVE TypeOK'
    BY <2>1, PositionUpdates, CloserUpdates, Constants DEF CloseStart, TypeOK
  <2>2. ASSUME NEW c \in Closers, CloseStep(c) PROVE TypeOK'
    <3>a. closer[c] \in CloserState
      BY DEF TypeOK
    <3>1. CASE CloseQuery(c)
      BY <3>1, <3>a, <2>a, CloserUpdates DEF CloseQuery, ToCloser, TypeOK
    <3>2. CASE CloseSkip(c)
      BY <3>2, Constants DEF CloseSkip, CloserDone, TypeOK
    <3>3. ASSUME NEW o \in Orders, CloseStage(c, o) PROVE TypeOK'
      <4>1. budget' \in [faults : Nat, crashes : Nat]
        BY <3>3, <2>b DEF CloseStage, TypeOK
      <4>2. rows' \in [Orders -> Row]
        <5>1. PICK coid \in {"null", "set"} :
                rows' = [rows EXCEPT ![o] = StagedRow(closer[c].qty, coid)]
          BY <3>3 DEF CloseStage
        <5>2. StagedRow(closer[c].qty, coid) \in Row
          BY <3>a, <5>1, CloserUpdates, StagedRowType
        <5> QED
          BY <5>1, <5>2 DEF TypeOK
      <4>3. closer' \in [Closers -> CloserState]
        BY <3>3, <3>a, CloserUpdates DEF CloseStage, TypeOK
      <4> QED
        BY <3>3, <4>1, <4>2, <4>3 DEF CloseStage, TypeOK
    <3>4. CASE ClosePreCancel(c)
      <4>1. broker' \in [Orders -> BrokerOrder]
        BY <3>4, BrokerUpdates DEF ClosePreCancel, TypeOK
      <4>2. closer' \in [Closers -> CloserState]
        BY <3>4, <3>a, CloserUpdates DEF ClosePreCancel, ToCloser, TypeOK
      <4> QED
        BY <3>4, <4>1, <4>2 DEF ClosePreCancel, TypeOK
    <3>5. CASE SubmitAccepted(c)
      BY <3>5, <3>a, Constants, CloserUpdates
         DEF SubmitAccepted, ToCloser, TypeOK
    <3>6. CASE SubmitLost(c)
      BY <3>6, <3>a, <2>a, Constants, CloserUpdates
         DEF SubmitLost, RetrySubmit, TypeOK
    <3>7. CASE SubmitRejected(c)
      BY <3>7, <3>a, CloserUpdates DEF SubmitRejected, ToCloser, TypeOK
    <3>8. CASE SubmitMismatch(c)
      BY <3>8, Constants DEF SubmitMismatch, CloserDone, TypeOK
    <3>9. CASE SubmitDuplicate(c)
      <4>1. closer[c].order \in Orders
        BY <3>9, <3>a, CloserUpdates DEF SubmitDuplicate
      <4>2. broker[closer[c].order].fill \in Int
        BY <4>1, BrokerUpdates DEF TypeOK
      <4>3. rows' \in [Orders -> Row]
        <5>1. Submitted(rows[closer[c].order], broker[closer[c].order].fill)
                \in Row
          BY <4>1, <4>2, RowUpdates DEF TypeOK
        <5> QED
          BY <3>9, <4>1, <5>1 DEF SubmitDuplicate, TypeOK
      <4>4. closer' \in [Closers -> CloserState]
        BY <3>9, <3>a, CloserUpdates, Constants
           DEF SubmitDuplicate, CloserDone, RetrySubmit, ToCloser, TypeOK
      <4> QED
        BY <3>9, <2>a, <4>3, <4>4 DEF SubmitDuplicate, TypeOK
    <3>10. CASE CloseAck(c)
      <4>1. rows' \in [Orders -> Row]
        <5>1. closer[c].order \in Orders
          BY <3>10, <3>a, CloserUpdates DEF CloseAck
        <5>2. Submitted(rows[closer[c].order], 0) \in Row
          BY <5>1, RowUpdates DEF TypeOK
        <5> QED
          BY <3>10, <5>1, <5>2 DEF CloseAck, TypeOK
      <4>2. closer' \in [Closers -> CloserState]
        BY <3>10, <3>a, CloserUpdates, Constants
           DEF CloseAck, CloserDone, RetrySubmit, TypeOK
      <4> QED
        BY <3>10, <2>a, <4>1, <4>2 DEF CloseAck, TypeOK
    <3>11. CASE CloseReview(c)
      <4>1. rows' \in [Orders -> Row]
        <5>1. closer[c].order \in Orders
          BY <3>11, <3>a, CloserUpdates DEF CloseReview
        <5>2. Answered(rows[closer[c].order], "needs_manual_review", 0) \in Row
          BY <5>1, <2>c, RowUpdates DEF TypeOK
        <5> QED
          BY <3>11, <5>1, <5>2 DEF CloseReview, TypeOK
      <4>2. closer' \in [Closers -> CloserState]
        BY <3>11, Constants DEF CloseReview, CloserDone, TypeOK
      <4> QED
        BY <3>11, <2>b, <4>1, <4>2 DEF CloseReview, TypeOK
    <3> QED
      BY <2>2, <3>1, <3>2, <3>3, <3>4, <3>5, <3>6, <3>7, <3>8, <3>9, <3>10,
         <3>11 DEF CloseStep
  <2>3. ASSUME NEW c \in Closers, CloseCrash(c) PROVE TypeOK'
    BY <2>3, <2>b, Constants DEF CloseCrash, CloserDone, TypeOK
  <2>4. ASSUME NEW s \in Syncs, SyncStart(s) PROVE TypeOK'
    <3>1. Polled \in SUBSET Orders
      BY DEF Polled
    <3>2. sync' \in [Syncs -> SyncState]
      BY <2>4, <3>1, SyncUpdates, Constants DEF SyncStart, Phase, TypeOK
    <3> QED
      BY <2>4, <3>2 DEF SyncStart, TypeOK
  <2>5. ASSUME NEW s \in Syncs, SyncStep(s) PROVE TypeOK'
    <3>a. /\ sync[s] \in SyncState
          /\ sync[s].seen.fill \in Int
      <4>1. sync[s] \in SyncState
        BY DEF TypeOK
      <4> QED
        BY <4>1, SyncUpdates, BrokerUpdates
    <3>b. \A pc \in {"poll", "lost"} :
            NextRow(s, pc) => sync' \in [Syncs -> SyncState]
      <4>1. sync[s].todo \ {sync[s].order} \in SUBSET Orders
        BY <3>a, SyncUpdates
      <4> QED
        BY <3>a, <4>1, SyncUpdates DEF NextRow, TypeOK
    <3>1. ASSUME NEW o \in Orders, PollFetch(s, o) PROVE TypeOK'
      BY <3>1, <3>a, SyncUpdates DEF PollFetch, Look, TypeOK
    <3>2. ASSUME NEW o \in Orders, LostLookup(s, o) PROVE TypeOK'
      BY <3>2, <3>a, SyncUpdates DEF LostLookup, Look, TypeOK
    <3>3. ASSUME NEW o \in Orders, StuckClose(s, o) PROVE TypeOK'
      <4>1. StoredFill(o) \in Int
        BY RowUpdates DEF StoredFill, TypeOK
      <4>2. pos' \in Position
        BY <3>3, <4>1, PositionUpdates DEF StuckClose, TypeOK
      <4>3. sync' \in [Syncs -> SyncState]
        <5>1. sync[s].todo \ {o} \in SUBSET Orders
          BY <3>a, SyncUpdates
        <5> QED
          BY <3>3, <3>a, <5>1, SyncUpdates DEF StuckClose, Phase, TypeOK
      <4> QED
        BY <3>3, <2>a, <4>2, <4>3 DEF StuckClose, TypeOK
    <3>4. CASE Watchdog(s)
      <4>1. broker' \in [Orders -> BrokerOrder]
        <5> DEFINE o == sync[s].order
        <5>1. o \in Orders
          BY <3>4, <3>a, SyncUpdates DEF Watchdog
        <5>2. [broker[o] EXCEPT !.state = "canceled"] \in BrokerOrder
          BY <5>1, BrokerUpdates DEF TypeOK
        <5>3. \/ broker' = broker
              \/ broker' = [broker EXCEPT ![o] =
                   [broker[o] EXCEPT !.state = "canceled"]]
          BY <3>4, <5>1 DEF Watchdog, TypeOK
        <5> QED
          BY <5>1, <5>2, <5>3 DEF TypeOK
      <4>2. sync' \in [Syncs -> SyncState]
        BY <3>4, <3>a, SyncUpdates DEF Watchdog, TypeOK
      <4> QED
        BY <3>4, <4>1, <4>2 DEF Watchdog, TypeOK
    <3>5. CASE Refetch(s)
      BY <3>5, <3>a, SyncUpdates DEF Refetch, Look, TypeOK
    <3>6. CASE PollWrite(s)
      <4>1. sync[s].seen \in BrokerOrder
        BY <3>a, SyncUpdates
      <4>2. rows' \in [Orders -> Row]
        BY <3>6, <3>a, <4>1, <2>c, RowUpdates, BrokerUpdates
           DEF PollWrite, TypeOK
      <4>3. sync' \in [Syncs -> SyncState]
        BY <3>6, <3>a, <3>b, SyncUpdates DEF PollWrite, TypeOK
      <4> QED
        BY <3>6, <4>2, <4>3 DEF PollWrite, TypeOK
    <3>7. CASE PollCommit(s)
      BY <3>7, <3>a, <3>b, PositionUpdates DEF PollCommit, TypeOK
    <3>8. CASE PollError(s)
      BY <3>8, <3>b, <2>a DEF PollError, TypeOK
    <3>9. CASE StartLost(s)
      BY <3>9, <3>a, SyncUpdates DEF StartLost, Phase, LostSubmits, TypeOK
    <3>10. CASE LostResolve(s)
      <4>1. rows' \in [Orders -> Row]
        BY <3>10, <3>a, RowUpdates DEF LostResolve, TypeOK
      <4> QED
        BY <3>10, <4>1, <3>b DEF LostResolve, TypeOK
    <3>11. CASE LostError(s)
      BY <3>11, <3>b, <2>a DEF LostError, TypeOK
    <3>12. CASE StartStuck(s)
      BY <3>12, <3>a, SyncUpdates DEF StartStuck, Phase, TypeOK
    <3>13. CASE SyncEnd(s)
      BY <3>13, Constants DEF SyncEnd, TypeOK
    <3> QED
      BY <2>5, <3>1, <3>2, <3>3, <3>4, <3>5, <3>6, <3>7, <3>8, <3>9, <3>10,
         <3>11, <3>12, <3>13 DEF SyncStep
  <2>6. ASSUME NEW s \in Syncs, SyncCrash(s) PROVE TypeOK'
    BY <2>6, <2>b, Constants DEF SyncCrash, TypeOK
  <2>7. ASSUME NEW o \in Orders, BrokerFill(o) PROVE TypeOK'
    <3>1. PICK n \in 1 .. held :
            /\ held' = held - n
            /\ broker' = [broker EXCEPT ![o] =
                 [state |-> IF @.fill + n = rows[o].qty THEN "filled"
                            ELSE "open",
                  fill |-> @.fill + n]]
      BY <2>7 DEF BrokerFill
    <3>2. held' \in Nat
      BY <3>1 DEF TypeOK
    <3>3. broker[o].fill + n \in Int
      <4>1. broker[o].fill \in Int
        BY BrokerUpdates DEF TypeOK
      <4> QED
        BY <4>1
    <3>4. \A m \in Int : \A st \in {"filled", "open"} :
            [state |-> st, fill |-> m] \in BrokerOrder
      BY DEF BrokerOrder
    <3>5. broker' \in [Orders -> BrokerOrder]
      BY <3>1, <3>3, <3>4 DEF TypeOK
    <3> QED
      BY <2>7, <3>2, <3>5 DEF BrokerFill, TypeOK
  <2>8. ASSUME NEW o \in Orders, BrokerEnd(o) PROVE TypeOK'
    <3>1. broker' \in [Orders -> BrokerOrder]
      <4>1. PICK st \in {"canceled", "expired"} :
              broker' = [broker EXCEPT ![o] = [broker[o] EXCEPT !.state = st]]
        BY <2>8 DEF BrokerEnd
      <4>2. [broker[o] EXCEPT !.state = st] \in BrokerOrder
        BY BrokerUpdates DEF TypeOK
      <4> QED
        BY <4>1, <4>2 DEF TypeOK
    <3> QED
      BY <2>8, <3>1 DEF BrokerEnd, TypeOK
  <2>9. ASSUME NEW o \in Orders, Age(o) PROVE TypeOK'
    BY <2>9, RowUpdates DEF Age, TypeOK
  <2>10. CASE SweepStart
    BY <2>10 DEF SweepStart, SweepState, TypeOK
  <2>11. ASSUME NEW o \in Orders,
                SweepStale(o) \/ SweepWorking(o) \/ SweepFill(o)
                  \/ SweepRollback(o)
         PROVE  TypeOK'
    <3>1. /\ sweep.prior[o] \in Row
          /\ sweep.prior[o].qty \in Int /\ sweep.prior[o].filled \in Int
      BY RowUpdates DEF TypeOK, SweepState
    <3>2. SweepNext(o) => sweep' \in SweepState
      <4>1. sweep.todo \ {o} \in SUBSET Orders
        BY DEF TypeOK, SweepState
      <4>2. [sweep EXCEPT !.todo = sweep.todo \ {o}] \in SweepState
        BY <4>1 DEF TypeOK, SweepState
      <4> QED
        BY <4>2, Constants DEF SweepNext
    <3>3. CASE SweepStale(o)
      <4>1. rows[o] \in Row
        BY DEF TypeOK
      <4>2. PICK age \in {"stale", "old"} :
              rows' = [rows EXCEPT ![o] = Cancelled(rows[o], age)]
        BY <3>3 DEF SweepStale
      <4>3. Cancelled(rows[o], age) \in Row
        BY <4>1, <4>2, RowUpdates
      <4>4. rows' \in [Orders -> Row]
        BY <4>2, <4>3 DEF TypeOK
      <4> QED
        BY <3>3, <3>2, <4>4 DEF SweepStale, TypeOK
    <3>4. CASE SweepWorking(o)
      BY <3>4, <3>2, RowUpdates DEF SweepWorking, TypeOK
    <3>5. CASE SweepFill(o)
      <4>1. rows' \in [Orders -> Row]
        BY <3>5, <3>1, <2>c, RowUpdates DEF SweepFill, TypeOK
      <4>2. pos' \in Position
        <5>1. pos.qty - (sweep.prior[o].qty - sweep.prior[o].filled) \in Int
          <6>1. pos.qty \in Int
            BY PositionUpdates DEF TypeOK
          <6> QED
            BY <3>1, <6>1
        <5>2. \A n \in Int : [pos EXCEPT !.qty = n] \in Position
          BY PositionUpdates DEF TypeOK
        <5> QED
          BY <3>5, <5>1, <5>2 DEF SweepFill, TypeOK
      <4> QED
        BY <3>5, <3>2, <4>1, <4>2 DEF SweepFill, TypeOK
    <3>6. CASE SweepRollback(o)
      <4>1. Simulated(rows[o], "working", 0) \in Row
        BY <2>c, RowUpdates DEF TypeOK
      <4> QED
        BY <3>6, <3>2, <2>a, <4>1 DEF SweepRollback, TypeOK
    <3> QED
      BY <2>11, <3>3, <3>4, <3>5, <3>6
  <2>12. CASE UNCHANGED vars
    BY <2>12 DEF vars, TypeOK
  <2> QED
    BY <2>1, <2>2, <2>3, <2>4, <2>5, <2>6, <2>7, <2>8, <2>9, <2>10, <2>11,
       <2>12 DEF Next
<1> QED
  BY <1>1, <1>2, PTL DEF Spec

-----------------------------------------------------------------------------
(* Fills.  A step other than a fill at the broker moves copies of fills    *)
(* around and invents none.                                                *)

Copied(n) ==
  \/ n = 0
  \/ \E o \in Orders : n = broker[o].fill \/ n = rows[o].resp
  \/ \E s \in Syncs : n = sync[s].seen.fill

Copies ==
  /\ held' = held
  /\ \A o \in Orders : Copied(broker'[o].fill)
  /\ \A o \in Orders : Copied(rows'[o].resp)
  /\ \A s \in Syncs : Copied(sync'[s].seen.fill)

(* The fill in a row after each of its updates.                            *)
LEMMA RowFills ==
  ASSUME NEW row \in Row
  PROVE  /\ \A st, n : Answered(row, st, n).resp = n
         /\ \A n : Submitted(row, n).resp = n
         /\ \A st, n : Observed(row, st, n).resp = n
         /\ \A age : Cancelled(row, age).resp = row.resp
         /\ \A age : [row EXCEPT !.age = age].resp = row.resp
         /\ [row EXCEPT !.status = "working"].resp = row.resp
         /\ \A st, n : Simulated(row, st, n).resp = row.resp
BY DEF Answered, Submitted, Observed, Cancelled, Simulated, Row

(* The other records that carry a fill.                                    *)
LEMMA OtherFills ==
  /\ \A n, coid : StagedRow(n, coid).resp = 0
  /\ NoOrder.fill = 0 /\ NewOrder.fill = 0
  /\ \A b \in BrokerOrder : \A st : [b EXCEPT !.state = st].fill = b.fill
  /\ IdleSync.seen = NoOrder
  /\ \A pc, T : Looping(pc, T).seen = NoOrder
  /\ \A st \in SyncState : \A o, pc, b : Looking(st, o, pc, b).seen = b
  /\ \A st \in SyncState : \A pc : [st EXCEPT !.pc = pc].seen = st.seen
<1>1. \A n, coid : StagedRow(n, coid).resp = 0
  BY DEF StagedRow, NoRow
<1>2. NoOrder.fill = 0 /\ NewOrder.fill = 0
  BY DEF NoOrder, NewOrder
<1>3. \A b \in BrokerOrder : \A st : [b EXCEPT !.state = st].fill = b.fill
  BY DEF BrokerOrder
<1>4. IdleSync.seen = NoOrder /\ \A pc, T : Looping(pc, T).seen = NoOrder
  BY DEF IdleSync, Looping
<1>5. \A st \in SyncState :
        /\ \A o, pc, b : Looking(st, o, pc, b).seen = b
        /\ \A pc : [st EXCEPT !.pc = pc].seen = st.seen
  BY DEF Looking, SyncState
<1> QED
  BY <1>1, <1>2, <1>3, <1>4, <1>5

(* What a step leaves alone is copied.                                     *)
LEMMA Unmoved ==
  /\ broker' = broker => \A o \in Orders : Copied(broker'[o].fill)
  /\ rows' = rows => \A o \in Orders : Copied(rows'[o].resp)
  /\ sync' = sync => \A s \in Syncs : Copied(sync'[s].seen.fill)
BY DEF Copied

(* One order, one row or one sync run changes and the rest is left alone.  *)
LEMMA Moved ==
  ASSUME TypeOK
  PROVE  /\ \A p \in Orders : \A b :
              broker' = [broker EXCEPT ![p] = b] /\ Copied(b.fill)
                => \A o \in Orders : Copied(broker'[o].fill)
         /\ \A p \in Orders : \A r :
              rows' = [rows EXCEPT ![p] = r] /\ Copied(r.resp)
                => \A o \in Orders : Copied(rows'[o].resp)
         /\ \A t \in Syncs : \A st :
              sync' = [sync EXCEPT ![t] = st] /\ Copied(st.seen.fill)
                => \A s \in Syncs : Copied(sync'[s].seen.fill)
<1>1. ASSUME NEW p \in Orders, NEW b, NEW o \in Orders,
             broker' = [broker EXCEPT ![p] = b], Copied(b.fill)
      PROVE  Copied(broker'[o].fill)
  <2>1. CASE o = p
    BY <1>1, <2>1 DEF TypeOK
  <2>2. CASE o # p
    <3>1. broker'[o] = broker[o]
      BY <1>1, <2>2 DEF TypeOK
    <3> QED
      BY <3>1 DEF Copied
  <2> QED
    BY <2>1, <2>2
<1>2. ASSUME NEW p \in Orders, NEW r, NEW o \in Orders,
             rows' = [rows EXCEPT ![p] = r], Copied(r.resp)
      PROVE  Copied(rows'[o].resp)
  <2>1. CASE o = p
    BY <1>2, <2>1 DEF TypeOK
  <2>2. CASE o # p
    <3>1. rows'[o] = rows[o]
      BY <1>2, <2>2 DEF TypeOK
    <3> QED
      BY <3>1 DEF Copied
  <2> QED
    BY <2>1, <2>2
<1>3. ASSUME NEW t \in Syncs, NEW st, NEW s \in Syncs,
             sync' = [sync EXCEPT ![t] = st], Copied(st.seen.fill)
      PROVE  Copied(sync'[s].seen.fill)
  <2>1. CASE s = t
    BY <1>3, <2>1 DEF TypeOK
  <2>2. CASE s # t
    <3>1. sync'[s] = sync[s]
      BY <1>3, <2>2 DEF TypeOK
    <3> QED
      BY <3>1 DEF Copied
  <2> QED
    BY <2>1, <2>2
<1> QED
  BY <1>1, <1>2, <1>3

(* The position of a row changes through _close_position_on_fill alone,    *)
(* unless the sweep runs.                                                  *)
Booked ==
  \/ pos' = pos
  \/ \E n \in Int : Copied(n) /\ pos' = ClosedBy(pos, n)

(* The steps of a closing run copy fills and leave the position alone.     *)
LEMMA CloserCopies ==
  ASSUME TypeOK, NEW c \in Closers,
         CloseStart(c) \/ CloseStep(c) \/ CloseCrash(c)
  PROVE  Copies /\ pos' = pos
<1>a. closer[c] \in CloserState
  BY DEF TypeOK
<1>b. Copied(0)
  BY DEF Copied
<1>1. CASE CloseStart(c) \/ CloseCrash(c)
  BY <1>1, Unmoved DEF CloseStart, CloseCrash, Copies
<1>2. CASE CloseQuery(c) \/ CloseSkip(c) \/ SubmitRejected(c)
             \/ SubmitMismatch(c)
  BY <1>2, Unmoved
     DEF CloseQuery, CloseSkip, SubmitRejected, SubmitMismatch, Copies
<1>3. ASSUME NEW o \in Orders, CloseStage(c, o) PROVE Copies /\ pos' = pos
  <2>1. PICK coid :
          rows' = [rows EXCEPT ![o] = StagedRow(closer[c].qty, coid)]
    BY <1>3 DEF CloseStage
  <2>2. Copied(StagedRow(closer[c].qty, coid).resp)
    BY <1>b, OtherFills
  <2>3. \A p \in Orders : Copied(rows'[p].resp)
    BY <2>1, <2>2, Moved
  <2> QED
    BY <1>3, <2>3, Unmoved DEF CloseStage, Copies
<1>4. CASE ClosePreCancel(c)
  <2>1. ASSUME NEW o \in Orders PROVE broker'[o].fill = broker[o].fill
    <3>1. broker[o] \in BrokerOrder
      BY DEF TypeOK
    <3>2. \/ broker'[o] = broker[o]
          \/ broker'[o] = [broker[o] EXCEPT !.state = "canceled"]
      BY <1>4 DEF ClosePreCancel
    <3> QED
      BY <3>1, <3>2, OtherFills
  <2>2. \A o \in Orders : Copied(broker'[o].fill)
    BY <2>1 DEF Copied
  <2> QED
    BY <1>4, <2>2, Unmoved DEF ClosePreCancel, Copies
<1>5. CASE SubmitAccepted(c) \/ SubmitLost(c)
  <2>1. closer[c].order \in Orders
    BY <1>5, <1>a, CloserUpdates DEF SubmitAccepted, SubmitLost
  <2>2. \/ broker' = broker
        \/ broker' = [broker EXCEPT ![closer[c].order] = NewOrder]
    BY <1>5 DEF SubmitAccepted, SubmitLost
  <2>3. Copied(NewOrder.fill)
    BY <1>b, OtherFills
  <2>4. \A o \in Orders : Copied(broker'[o].fill)
    BY <2>1, <2>2, <2>3, Moved, Unmoved
  <2> QED
    BY <1>5, <2>4, Unmoved DEF SubmitAccepted, SubmitLost, Copies
<1>6. CASE SubmitDuplicate(c) \/ CloseAck(c) \/ CloseReview(c)
  <2> DEFINE o == closer[c].order
  <2>1. o \in Orders /\ rows[o] \in Row
    BY <1>6, <1>a, CloserUpdates
       DEF SubmitDuplicate, CloseAck, CloseReview, TypeOK
  <2>2. \/ rows' = rows
        \/ rows' = [rows EXCEPT ![o] = Submitted(rows[o], broker[o].fill)]
        \/ rows' = [rows EXCEPT ![o] = Submitted(rows[o], 0)]
        \/ rows' = [rows EXCEPT
              ![o] = Answered(rows[o], "needs_manual_review", 0)]
    BY <1>6 DEF SubmitDuplicate, CloseAck, CloseReview
  <2>3. /\ Copied(Submitted(rows[o], broker[o].fill).resp)
        /\ Copied(Submitted(rows[o], 0).resp)
        /\ Copied(Answered(rows[o], "needs_manual_review", 0).resp)
    <3>1. Copied(broker[o].fill)
      BY <2>1 DEF Copied
    <3> QED
      BY <1>b, <2>1, <3>1, RowFills
  <2>4. \A p \in Orders : Copied(rows'[p].resp)
    BY <2>1, <2>2, <2>3, Moved, Unmoved
  <2> QED
    BY <1>6, <2>4, Unmoved DEF SubmitDuplicate, CloseAck, CloseReview, Copies
<1> QED
  BY <1>1, <1>2, <1>3, <1>4, <1>5, <1>6 DEF CloseStep

(* The steps of a sync run copy fills and book a copied fill.              *)
LEMMA SyncCopies ==
  ASSUME TypeOK, NEW s \in Syncs,
         SyncStart(s) \/ SyncStep(s) \/ SyncCrash(s)
  PROVE  Copies /\ Booked
<1>a. sync[s] \in SyncState /\ sync[s].seen \in BrokerOrder
  BY SyncUpdates DEF TypeOK
<1>b. Copied(0) /\ Copied(sync[s].seen.fill)
  BY DEF Copied
<1>c. ASSUME NEW pc, NEW T, sync' = [sync EXCEPT ![s] = Looping(pc, T)]
      PROVE  \A t \in Syncs : Copied(sync'[t].seen.fill)
  <2>1. Copied(Looping(pc, T).seen.fill)
    BY <1>b, OtherFills
  <2> QED
    BY <1>c, <2>1, Moved
<1>d. ASSUME NEW o \in Orders, NEW pc, Look(s, o, pc)
      PROVE  \A t \in Syncs : Copied(sync'[t].seen.fill)
  <2>1. Looking(sync[s], o, pc, broker[o]).seen = broker[o]
    BY <1>a, OtherFills
  <2>2. Copied(broker[o].fill)
    BY DEF Copied
  <2> QED
    BY <1>d, <2>1, <2>2, Moved DEF Look
<1>e. ASSUME NEW pc, NextRow(s, pc)
      PROVE  \A t \in Syncs : Copied(sync'[t].seen.fill)
  BY <1>e, <1>c DEF NextRow
<1>f. ASSUME NEW pc, sync' = [sync EXCEPT ![s] = [sync[s] EXCEPT !.pc = pc]]
      PROVE  \A t \in Syncs : Copied(sync'[t].seen.fill)
  <2>1. [sync[s] EXCEPT !.pc = pc].seen = sync[s].seen
    BY <1>a, OtherFills
  <2> QED
    BY <1>f, <1>b, <2>1, Moved
<1>g. sync' = [sync EXCEPT ![s] = IdleSync]
        => \A t \in Syncs : Copied(sync'[t].seen.fill)
  <2>1. Copied(IdleSync.seen.fill)
    BY <1>b, OtherFills
  <2> QED
    BY <2>1, Moved
<1>1. CASE SyncStart(s) \/ StartLost(s) \/ StartStuck(s)
  BY <1>1, <1>c, Unmoved
     DEF SyncStart, StartLost, StartStuck, Phase, Copies, Booked
<1>2. ASSUME NEW o \in Orders, PollFetch(s, o) \/ LostLookup(s, o)
      PROVE  Copies /\ Booked
  BY <1>2, <1>d, Unmoved DEF PollFetch, LostLookup, Copies, Booked
<1>3. CASE Refetch(s)
  <2>1. sync[s].order \in Orders
    BY <1>3, <1>a, SyncUpdates DEF Refetch
  <2> QED
    BY <1>3, <2>1, <1>d, Unmoved DEF Refetch, Copies, Booked
<1>4. CASE SyncEnd(s) \/ SyncCrash(s)
  BY <1>4, <1>g, Unmoved DEF SyncEnd, SyncCrash, Copies, Booked
<1>5. CASE PollError(s) \/ LostError(s)
  BY <1>5, <1>e, Unmoved DEF PollError, LostError, Copies, Booked
<1>6. CASE Watchdog(s)
  <2> DEFINE o == sync[s].order
  <2>1. o \in Orders /\ broker[o] \in BrokerOrder
    BY <1>6, <1>a, SyncUpdates DEF Watchdog, TypeOK
  <2>2. \/ broker' = broker
        \/ broker' = [broker EXCEPT ![o] =
             [broker[o] EXCEPT !.state = "canceled"]]
    BY <1>6, <2>1 DEF Watchdog, TypeOK
  <2>3. Copied([broker[o] EXCEPT !.state = "canceled"].fill)
    BY <2>1, OtherFills DEF Copied
  <2>4. \A p \in Orders : Copied(broker'[p].fill)
    BY <2>1, <2>2, <2>3, Moved, Unmoved
  <2> QED
    BY <1>6, <2>4, <1>f, Unmoved DEF Watchdog, Copies, Booked
<1>7. CASE PollWrite(s)
  <2> DEFINE o == sync[s].order
  <2>1. o \in Orders /\ rows[o] \in Row
    BY <1>7, <1>a, SyncUpdates DEF PollWrite, TypeOK
  <2>2. PICK st :
          rows' = [rows EXCEPT ![o] = Observed(rows[o], st, sync[s].seen.fill)]
    BY <1>7 DEF PollWrite
  <2>3. Copied(Observed(rows[o], st, sync[s].seen.fill).resp)
    BY <1>b, <2>1, RowFills
  <2>4. \A p \in Orders : Copied(rows'[p].resp)
    BY <2>1, <2>2, <2>3, Moved
  <2>5. \A t \in Syncs : Copied(sync'[t].seen.fill)
    BY <1>7, <1>e, <1>f DEF PollWrite
  <2> QED
    BY <1>7, <2>4, <2>5, Unmoved DEF PollWrite, Copies, Booked
<1>8. CASE PollCommit(s)
  <2>1. sync[s].seen.fill \in Int
    BY <1>a, BrokerUpdates
  <2> QED
    BY <1>8, <2>1, <1>b, <1>e, Unmoved DEF PollCommit, Copies, Booked
<1>9. CASE LostResolve(s)
  <2> DEFINE o == sync[s].order
  <2>1. o \in Orders /\ rows[o] \in Row
    BY <1>9, <1>a, SyncUpdates DEF LostResolve, TypeOK
  <2>2. \/ rows' = [rows EXCEPT ![o] = Submitted(rows[o], sync[s].seen.fill)]
        \/ rows' = [rows EXCEPT ![o] = Cancelled(rows[o], "fresh")]
    BY <1>9 DEF LostResolve
  <2>3. /\ Copied(Submitted(rows[o], sync[s].seen.fill).resp)
        /\ Copied(Cancelled(rows[o], "fresh").resp)
    <3>1. Copied(rows[o].resp)
      BY <2>1 DEF Copied
    <3> QED
      BY <1>b, <2>1, <3>1, RowFills
  <2>4. \A p \in Orders : Copied(rows'[p].resp)
    BY <2>1, <2>2, <2>3, Moved
  <2> QED
    BY <1>9, <1>e, <2>4, Unmoved DEF LostResolve, Copies, Booked
<1>10. ASSUME NEW o \in Orders, StuckClose(s, o) PROVE Copies /\ Booked
  <2>1. StoredFill(o) \in Int /\ Copied(StoredFill(o))
    BY RowUpdates DEF StoredFill, Copied, TypeOK
  <2> QED
    BY <1>10, <2>1, <1>c, Unmoved DEF StuckClose, Phase, Copies, Booked
<1> QED
  BY <1>1, <1>2, <1>3, <1>4, <1>5, <1>6, <1>7, <1>8, <1>9, <1>10 DEF SyncStep

(* The sweep and the passing of time copy fills.                           *)
LEMMA SweepCopies ==
  ASSUME TypeOK, NEW o \in Orders,
         SweepStale(o) \/ SweepWorking(o) \/ SweepFill(o)
           \/ SweepRollback(o) \/ BrokerEnd(o) \/ Age(o)
  PROVE  Copies
<1>1. rows[o] \in Row /\ Copied(rows[o].resp)
  BY DEF TypeOK, Copied
<1>2. CASE SweepStale(o)
  <2>1. PICK age : rows' = [rows EXCEPT ![o] = Cancelled(rows[o], age)]
    BY <1>2 DEF SweepStale
  <2>2. Copied(Cancelled(rows[o], age).resp)
    BY <1>1, RowFills
  <2>3. \A p \in Orders : Copied(rows'[p].resp)
    BY <2>1, <2>2, Moved
  <2> QED
    BY <1>2, <2>3, Unmoved DEF SweepStale, Copies
<1>3. CASE SweepWorking(o)
  <2>1. \/ rows' = rows
        \/ rows' = [rows EXCEPT ![o] = [rows[o] EXCEPT !.status = "working"]]
    BY <1>3 DEF SweepWorking
  <2>2. Copied([rows[o] EXCEPT !.status = "working"].resp)
    BY <1>1, RowFills
  <2>3. \A p \in Orders : Copied(rows'[p].resp)
    BY <2>1, <2>2, Moved, Unmoved
  <2> QED
    BY <1>3, <2>3, Unmoved DEF SweepWorking, Copies
<1>4. CASE SweepFill(o) \/ SweepRollback(o)
  <2>1. PICK st, n : rows' = [rows EXCEPT ![o] = Simulated(rows[o], st, n)]
    BY <1>4 DEF SweepFill, SweepRollback
  <2>2. Copied(Simulated(rows[o], st, n).resp)
    BY <1>1, RowFills
  <2>3. \A p \in Orders : Copied(rows'[p].resp)
    BY <2>1, <2>2, Moved
  <2> QED
    BY <1>4, <2>3, Unmoved DEF SweepFill, SweepRollback, Copies
<1>5. CASE BrokerEnd(o)
  <2>1. PICK st : broker' = [broker EXCEPT ![o] =
                    [broker[o] EXCEPT !.state = st]]
    BY <1>5 DEF BrokerEnd
  <2>2. Copied([broker[o] EXCEPT !.state = st].fill)
    <3>1. broker[o] \in BrokerOrder /\ Copied(broker[o].fill)
      BY DEF TypeOK, Copied
    <3> QED
      BY <3>1, OtherFills
  <2>3. \A p \in Orders : Copied(broker'[p].fill)
    BY <2>1, <2>2, Moved
  <2> QED
    BY <1>5, <2>3, Unmoved DEF BrokerEnd, Copies
<1>6. CASE Age(o)
  <2>1. PICK age : rows' = [rows EXCEPT ![o] = [rows[o] EXCEPT !.age = age]]
    BY <1>6 DEF Age
  <2>2. Copied([rows[o] EXCEPT !.age = age].resp)
    BY <1>1, RowFills
  <2>3. \A p \in Orders : Copied(rows'[p].resp)
    BY <2>1, <2>2, Moved
  <2> QED
    BY <1>6, <2>3, Unmoved DEF Age, Copies
<1> QED
  BY <1>2, <1>3, <1>4, <1>5, <1>6

(* Every step copies fills or is a fill at the broker.                     *)
LEMMA StepCopies ==
  ASSUME TypeOK, [Next]_vars
  PROVE  Copies \/ \E o \in Orders : BrokerFill(o)
<1>1. CASE SweepStart
  BY <1>1, Unmoved DEF SweepStart, Copies
<1>2. CASE UNCHANGED vars
  BY <1>2, Unmoved DEF vars, Copies
<1> QED
  BY <1>1, <1>2, CloserCopies, SyncCopies, SweepCopies DEF Next

(* No copy of a fill says that more was sold than the broker sold.         *)
THEOREM FillsSold == Spec => []FillsAreSold
<1>1. Init => FillsAreSold
  <2> SUFFICES ASSUME Init PROVE FillsAreSold
    OBVIOUS
  <2>1. held = Qty /\ Qty \in Nat
    BY LiveAssumption DEF Init
  <2>2. \A o \in Orders : broker[o].fill = 0
    BY OtherFills DEF Init
  <2>3. \A o \in Orders : rows[o].resp = 0
    BY DEF Init, GtcRow, NoRow
  <2>4. \A s \in Syncs : sync[s].seen.fill = 0
    BY OtherFills DEF Init
  <2> QED
    BY <2>1, <2>2, <2>3, <2>4 DEF FillsAreSold
<1>2. TypeOK /\ FillsAreSold /\ [Next]_vars => FillsAreSold'
  <2> SUFFICES ASSUME TypeOK, FillsAreSold, [Next]_vars PROVE FillsAreSold'
    OBVIOUS
  <2>1. CASE Copies
    <3>1. \A n : Copied(n) => n + held <= Qty
      <4>1. 0 + held <= Qty
        BY DEF FillsAreSold, TypeOK
      <4> QED
        BY <4>1 DEF Copied, FillsAreSold
    <3>2. held' = held /\ held' <= Qty
      BY <2>1 DEF Copies, FillsAreSold
    <3>3. \A o \in Orders : broker'[o].fill + held' <= Qty
      BY <2>1, <3>1, <3>2 DEF Copies
    <3>4. \A o \in Orders : rows'[o].resp + held' <= Qty
      BY <2>1, <3>1, <3>2 DEF Copies
    <3>5. \A s \in Syncs : sync'[s].seen.fill + held' <= Qty
      BY <2>1, <3>1, <3>2 DEF Copies
    <3> QED
      BY <3>2, <3>3, <3>4, <3>5 DEF FillsAreSold
  <2>2. ASSUME NEW o \in Orders, BrokerFill(o) PROVE FillsAreSold'
    <3>1. PICK n \in 1 .. held :
            /\ held' = held - n
            /\ broker' = [broker EXCEPT ![o] =
                 [state |-> IF @.fill + n = rows[o].qty THEN "filled"
                            ELSE "open",
                  fill |-> @.fill + n]]
      BY <2>2 DEF BrokerFill
    <3>2. held \in Nat /\ Qty \in Nat /\ n \in Nat
      BY LiveAssumption DEF TypeOK
    <3>3. \A k \in Int : k + held <= Qty =>
            k + held' <= Qty /\ (k + n) + held' <= Qty
      BY <3>1, <3>2
    <3>4. held' <= Qty
      BY <3>1, <3>2 DEF FillsAreSold
    <3>5. ASSUME NEW p \in Orders PROVE broker'[p].fill + held' <= Qty
      <4>1. broker[p].fill \in Int /\ broker[p].fill + held <= Qty
        BY BrokerUpdates DEF TypeOK, FillsAreSold
      <4>2. broker'[p].fill = broker[p].fill
              \/ broker'[p].fill = broker[p].fill + n
        BY <3>1 DEF TypeOK
      <4> QED
        BY <3>3, <4>1, <4>2
    <3>6. ASSUME NEW p \in Orders PROVE rows'[p].resp + held' <= Qty
      <4>1. rows[p].resp \in Int /\ rows[p].resp + held <= Qty
        BY RowUpdates DEF TypeOK, FillsAreSold
      <4> QED
        BY <2>2, <3>3, <4>1 DEF BrokerFill
    <3>7. ASSUME NEW s \in Syncs PROVE sync'[s].seen.fill + held' <= Qty
      <4>1. sync[s].seen.fill \in Int
        BY SyncUpdates, BrokerUpdates DEF TypeOK
      <4>2. sync[s].seen.fill + held <= Qty
        BY DEF FillsAreSold
      <4> QED
        BY <2>2, <3>3, <4>1, <4>2 DEF BrokerFill
    <3> QED
      BY <3>4, <3>5, <3>6, <3>7 DEF FillsAreSold
  <2> QED
    BY <2>1, <2>2, StepCopies
<1> QED
  BY <1>1, <1>2, TypeCorrect, PTL DEF Spec

-----------------------------------------------------------------------------
(* The position.  While the sweep does not run, the quantity of an open    *)
(* position is the whole one and only _close_position_on_fill writes it.   *)

Uncut == pos.status = "open" => pos.qty = Qty

Whole == sweep.todo = {} /\ Uncut

(* Every step books a copied fill or leaves the position alone.            *)
LEMMA StepBooks ==
  ASSUME ~Sweeping, TypeOK, sweep.todo = {}, [Next]_vars
  PROVE  Booked /\ sweep'.todo = {}
<1>1. ASSUME NEW c \in Closers,
             CloseStart(c) \/ CloseStep(c) \/ CloseCrash(c)
      PROVE  Booked /\ sweep' = sweep
  <2>1. Booked
    BY <1>1, CloserCopies DEF Booked
  <2>2. sweep' = sweep
    BY <1>1 DEF CloseStart, CloseCrash, CloseStep, CloseQuery, CloseSkip,
                CloseStage, ClosePreCancel, SubmitAccepted, SubmitLost,
                SubmitRejected, SubmitMismatch, SubmitDuplicate, CloseAck,
                CloseReview
  <2> QED
    BY <2>1, <2>2
<1>2. ASSUME NEW s \in Syncs, SyncStart(s) \/ SyncStep(s) \/ SyncCrash(s)
      PROVE  Booked /\ sweep' = sweep
  <2>1. Booked
    BY <1>2, SyncCopies
  <2>2. sweep' = sweep
    BY <1>2 DEF SyncStart, SyncCrash, SyncStep, PollFetch, LostLookup,
                StuckClose, Watchdog, Refetch, PollWrite, PollCommit,
                PollError, StartLost, LostResolve, LostError, StartStuck,
                SyncEnd
  <2> QED
    BY <2>1, <2>2
<1>3. ASSUME NEW o \in Orders, BrokerFill(o) \/ BrokerEnd(o) \/ Age(o)
      PROVE  Booked /\ sweep' = sweep
  BY <1>3 DEF BrokerFill, BrokerEnd, Age, Booked
<1>4. ~SweepStart
  BY DEF SweepStart
<1>5. ASSUME NEW o \in Orders
      PROVE  ~(SweepStale(o) \/ SweepWorking(o) \/ SweepFill(o)
                 \/ SweepRollback(o))
  BY DEF SweepStale, SweepWorking, SweepFill, SweepRollback
<1>6. CASE UNCHANGED vars
  BY <1>6 DEF vars, Booked
<1> QED
  BY <1>1, <1>2, <1>3, <1>4, <1>5, <1>6 DEF Next

(* A step that changes the position closes an open one, and the broker     *)
(* holds nothing any more.                                                 *)
LEMMA StepCloses ==
  ASSUME TypeOK, FillsAreSold, Uncut, Booked, pos' # pos
  PROVE  /\ pos.status = "open" /\ pos' = [status |-> "closed", qty |-> 0]
         /\ held = 0
<1>1. PICK n \in Int : Copied(n) /\ pos' = ClosedBy(pos, n)
  BY DEF Booked
<1>2. /\ pos.status # "closed" /\ n = pos.qty
      /\ pos' = [status |-> "closed", qty |-> 0]
  BY <1>1 DEF ClosedBy
<1>3. pos.status = "open"
  BY <1>2 DEF TypeOK, Position
<1>4. n = Qty
  BY <1>2, <1>3 DEF Uncut
<1>5. n + held <= Qty
  <2>1. 0 + held <= Qty
    BY DEF FillsAreSold, TypeOK
  <2> QED
    BY <1>1, <2>1 DEF Copied, FillsAreSold
<1>6. held = 0
  BY <1>4, <1>5, LiveAssumption DEF TypeOK
<1> QED
  BY <1>2, <1>3, <1>6

(* Without the sweep an open position keeps its quantity.                  *)
LEMMA WholeInvariant == ASSUME ~Sweeping PROVE Spec => []Whole
<1>1. Init => Whole
  BY DEF Init, Whole, Uncut, IdleSweep
<1>2. TypeOK /\ FillsAreSold /\ Whole /\ [Next]_vars => Whole'
  <2> SUFFICES ASSUME TypeOK, FillsAreSold, Whole, [Next]_vars PROVE Whole'
    OBVIOUS
  <2>1. Booked /\ sweep'.todo = {}
    BY StepBooks DEF Whole
  <2>2. CASE pos' = pos
    BY <2>1, <2>2 DEF Whole, Uncut
  <2>3. CASE pos' # pos
    BY <2>1, <2>3, StepCloses DEF Whole, Uncut
  <2> QED
    BY <2>2, <2>3
<1> QED
  BY <1>1, <1>2, TypeCorrect, FillsSold, PTL DEF Spec

(* A broker's holdings only shrink.                                        *)
LEMMA HeldShrinks ==
  ASSUME TypeOK, FillsAreSold, [Next]_vars
  PROVE  held' = held \/ (held' \in 0 .. Qty /\ held' < held /\ pos' = pos)
<1>1. CASE Copies
  BY <1>1 DEF Copies
<1>2. ASSUME NEW o \in Orders, BrokerFill(o)
      PROVE  held' \in 0 .. Qty /\ held' < held /\ pos' = pos
  BY <1>2, LiveAssumption DEF BrokerFill, TypeOK, FillsAreSold
<1> QED
  BY <1>1, <1>2, StepCopies

(* The database never says "closed" while the broker holds contracts, for  *)
(* any number of orders, runs, faults and crashes, as long as no sweep     *)
(* fills live orders with simulated fills.                                 *)
THEOREM ClosedFlat == ASSUME ~Sweeping PROVE Spec => []ClosedIsFlat
<1>1. Init => ClosedIsFlat
  BY DEF Init, ClosedIsFlat
<1>2. TypeOK /\ FillsAreSold /\ Whole /\ ClosedIsFlat /\ [Next]_vars
        => ClosedIsFlat'
  <2> SUFFICES ASSUME TypeOK, FillsAreSold, Whole, ClosedIsFlat, [Next]_vars
               PROVE  ClosedIsFlat'
    OBVIOUS
  <2>1. Booked
    BY StepBooks DEF Whole
  <2>2. held = 0 => held' = 0
    BY HeldShrinks DEF TypeOK
  <2>3. CASE pos' = pos
    BY <2>2, <2>3 DEF ClosedIsFlat
  <2>4. CASE pos' # pos
    BY <2>1, <2>2, <2>4, StepCloses DEF ClosedIsFlat, Whole
  <2> QED
    BY <2>3, <2>4
<1> QED
  BY <1>1, <1>2, TypeCorrect, FillsSold, WholeInvariant, PTL DEF Spec

(* The close path implements PositionTruth: every step is a fill, the one  *)
(* booking of the close after the last fill, or a stutter.                 *)
THEOREM Refinement == ASSUME ~Sweeping PROVE Spec => BookFollowsBroker
<1>1. Init => Truth!Init
  BY DEF Init, Truth!Init
<1>2. TypeOK /\ FillsAreSold /\ Whole /\ [Next]_vars
        => [Truth!Next]_<<held, pos.status>>
  <2> SUFFICES ASSUME TypeOK, FillsAreSold, Whole, [Next]_vars
               PROVE  [Truth!Next]_<<held, pos.status>>
    OBVIOUS
  <2>1. Booked
    BY StepBooks DEF Whole
  <2>2. CASE pos' = pos
    BY <2>2, HeldShrinks DEF Truth!Next, Truth!Sell
  <2>3. CASE pos' # pos
    <3>1. held = 0 /\ pos.status = "open" /\ pos'.status = "closed"
      BY <2>1, <2>3, StepCloses DEF Whole
    <3>2. held' = held
      BY <2>3, HeldShrinks
    <3> QED
      BY <3>1, <3>2 DEF Truth!Next, Truth!Book
  <2> QED
    BY <2>2, <2>3
<1> QED
  BY <1>1, <1>2, TypeCorrect, FillsSold, WholeInvariant, PTL
     DEF Spec, BookFollowsBroker, Truth!Spec

-----------------------------------------------------------------------------
(* One contract, with the sweep running: no order can be partly filled, so *)
(* a simulated fill takes all of the position or nothing, and a fill that  *)
(* takes all is refused.                                                   *)

Small(row) == row.qty \in 0 .. Qty /\ row.filled \in Nat

Units ==
  /\ Uncut
  /\ \A o \in Orders : Small(rows[o]) /\ Small(sweep.prior[o])
  /\ \A c \in Closers : closer[c].qty \in 0 .. Qty

(* The updates of a row keep it small.                                     *)
LEMMA SmallRows ==
  ASSUME NEW row \in Row, Small(row)
  PROVE  /\ \A st, n : Small(Answered(row, st, n))
         /\ \A n : Small(Submitted(row, n))
         /\ \A st : \A n \in Int : Small(Observed(row, st, n))
         /\ \A age : Small(Cancelled(row, age))
         /\ \A age : Small([row EXCEPT !.age = age])
         /\ Small([row EXCEPT !.status = "working"])
         /\ \A st : \A n \in Nat : Small(Simulated(row, st, n))
<1>1. \A st, n : Small(Answered(row, st, n)) /\ Small(Submitted(row, n))
  BY DEF Answered, Submitted, Small, Row
<1>2. ASSUME NEW st, NEW n \in Int PROVE Small(Observed(row, st, n))
  <2>1. /\ Observed(row, st, n).qty = row.qty
        /\ Observed(row, st, n).filled = IF n > 0 THEN n ELSE row.filled
    BY DEF Observed, Answered, Row
  <2> QED
    BY <2>1 DEF Small
<1>3. /\ \A age : Small(Cancelled(row, age))
      /\ \A age : Small([row EXCEPT !.age = age])
      /\ Small([row EXCEPT !.status = "working"])
  BY DEF Cancelled, Small, Row
<1>4. \A st : \A n \in Nat : Small(Simulated(row, st, n))
  BY DEF Simulated, Small, Row
<1> QED
  BY <1>1, <1>2, <1>3, <1>4

(* The runs of _close_position keep the units.                             *)
LEMMA CloserUnits ==
  ASSUME TypeOK, Units, NEW c \in Closers,
         CloseStart(c) \/ CloseStep(c) \/ CloseCrash(c)
  PROVE  Units'
<1>a. /\ closer[c] \in CloserState /\ closer[c].qty \in 0 .. Qty
      /\ \A d \in Closers : closer[d].qty \in 0 .. Qty
      /\ rows \in [Orders -> Row] /\ \A o \in Orders : Small(rows[o])
      /\ Qty \in Nat
  BY LiveAssumption DEF TypeOK, Units
<1>b. pos' = pos
  BY CloserCopies
<1>c. sweep' = sweep
  BY DEF CloseStart, CloseCrash, CloseStep, CloseQuery, CloseSkip, CloseStage,
         ClosePreCancel, SubmitAccepted, SubmitLost, SubmitRejected,
         SubmitMismatch, SubmitDuplicate, CloseAck, CloseReview
<1>d. ASSUME NEW st, closer' = [closer EXCEPT ![c] = st], st.qty \in 0 .. Qty
      PROVE  \A d \in Closers : closer'[d].qty \in 0 .. Qty
  BY <1>a, <1>d DEF TypeOK
<1>e. CloserDone(c) => \A d \in Closers : closer'[d].qty \in 0 .. Qty
  <2>1. IdleCloser.qty \in 0 .. Qty
    BY <1>a DEF IdleCloser
  <2> QED
    BY <1>d, <2>1 DEF CloserDone
<1>f. ASSUME NEW pc, ToCloser(c, pc)
      PROVE  \A d \in Closers : closer'[d].qty \in 0 .. Qty
  <2>1. [closer[c] EXCEPT !.pc = pc].qty = closer[c].qty
    BY <1>a DEF CloserState
  <2> QED
    BY <1>a, <1>d, <1>f, <2>1 DEF ToCloser
<1>g. RetrySubmit(c) => \A d \in Closers : closer'[d].qty \in 0 .. Qty
  <2>1. Attempted(closer[c]).qty = closer[c].qty
    BY <1>a DEF Attempted, CloserState
  <2> QED
    BY <1>a, <1>d, <2>1 DEF RetrySubmit
<1>1. \A d \in Closers : closer'[d].qty \in 0 .. Qty
  <2>1. CASE CloseStart(c)
    <3>1. pos.status = "open"
      BY <2>1 DEF CloseStart, TypeOK, Position
    <3>2. Querying(pos.qty).qty = pos.qty /\ pos.qty = Qty
      BY <3>1 DEF Querying, IdleCloser, Units, Uncut
    <3> QED
      BY <1>a, <1>d, <2>1, <3>2 DEF CloseStart
  <2>2. ASSUME NEW o \in Orders, CloseStage(c, o)
        PROVE  \A d \in Closers : closer'[d].qty \in 0 .. Qty
    <3>1. Holding(closer[c], o).qty = closer[c].qty
      BY <1>a DEF Holding, CloserState
    <3> QED
      BY <1>a, <1>d, <2>2, <3>1 DEF CloseStage
  <2>3. CASE \/ CloseQuery(c) \/ CloseSkip(c) \/ ClosePreCancel(c)
             \/ SubmitAccepted(c) \/ SubmitLost(c) \/ SubmitRejected(c)
             \/ SubmitMismatch(c) \/ SubmitDuplicate(c)
             \/ CloseAck(c) \/ CloseReview(c) \/ CloseCrash(c)
    BY <1>e, <1>f, <1>g, <2>3
       DEF CloseQuery, CloseSkip, ClosePreCancel, SubmitAccepted, SubmitLost,
           SubmitRejected, SubmitMismatch, SubmitDuplicate, CloseAck,
           CloseReview, CloseCrash
  <2> QED
    BY <2>1, <2>2, <2>3 DEF CloseStep
<1>2. \A o \in Orders : Small(rows'[o])
  <2>1. ASSUME NEW o \in Orders, CloseStage(c, o)
        PROVE  \A p \in Orders : Small(rows'[p])
    <3>1. PICK coid :
            rows' = [rows EXCEPT ![o] = StagedRow(closer[c].qty, coid)]
      BY <2>1 DEF CloseStage
    <3>2. Small(StagedRow(closer[c].qty, coid))
      BY <1>a DEF StagedRow, NoRow, Small
    <3> QED
      BY <1>a, <3>1, <3>2
  <2>2. CASE SubmitDuplicate(c) \/ CloseAck(c) \/ CloseReview(c)
    <3> DEFINE o == closer[c].order
    <3>1. o \in Orders
      BY <1>a, <2>2, CloserUpdates DEF SubmitDuplicate, CloseAck, CloseReview
    <3>2. \/ rows' = rows
          \/ \E n : rows' = [rows EXCEPT ![o] = Submitted(rows[o], n)]
          \/ rows' = [rows EXCEPT
                        ![o] = Answered(rows[o], "needs_manual_review", 0)]
      BY <2>2 DEF SubmitDuplicate, CloseAck, CloseReview
    <3>3. /\ \A n : Small(Submitted(rows[o], n))
          /\ Small(Answered(rows[o], "needs_manual_review", 0))
      BY <1>a, <3>1, SmallRows
    <3> QED
      BY <1>a, <3>1, <3>2, <3>3
  <2>3. CASE rows' = rows
    BY <1>a, <2>3
  <2> QED
    BY <2>1, <2>2, <2>3
       DEF CloseStart, CloseCrash, CloseStep, CloseQuery, CloseSkip,
           ClosePreCancel, SubmitAccepted, SubmitLost, SubmitRejected,
           SubmitMismatch
<1> QED
  BY <1>b, <1>c, <1>1, <1>2 DEF Units, Uncut

(* The runs of the order sync keep the units: they cut nothing off the     *)
(* position, they close it.                                                *)
LEMMA SyncUnits ==
  ASSUME TypeOK, FillsAreSold, Units, NEW s \in Syncs,
         SyncStart(s) \/ SyncStep(s) \/ SyncCrash(s)
  PROVE  Units'
<1>a. /\ sync[s] \in SyncState /\ sync[s].seen \in BrokerOrder
      /\ rows \in [Orders -> Row] /\ \A o \in Orders : Small(rows[o])
  BY SyncUpdates DEF TypeOK, Units
<1>b. closer' = closer /\ sweep' = sweep
  BY DEF SyncStart, SyncCrash, SyncStep, PollFetch, LostLookup, StuckClose,
         Watchdog, Refetch, PollWrite, PollCommit, PollError, StartLost,
         LostResolve, LostError, StartStuck, SyncEnd
<1>1. Uncut'
  <2>1. Booked
    BY SyncCopies
  <2>2. CASE pos' = pos
    BY <2>2 DEF Units, Uncut
  <2>3. CASE pos' # pos
    BY <2>1, <2>3, StepCloses DEF Units, Uncut
  <2> QED
    BY <2>2, <2>3
<1>2. \A o \in Orders : Small(rows'[o])
  <2>1. CASE PollWrite(s)
    <3> DEFINE o == sync[s].order
    <3>1. o \in Orders /\ sync[s].seen.fill \in Int
      BY <1>a, <2>1, SyncUpdates, BrokerUpdates DEF PollWrite
    <3>2. \E st : rows' = [rows EXCEPT
                             ![o] = Observed(rows[o], st, sync[s].seen.fill)]
      BY <2>1 DEF PollWrite
    <3>3. \A st : Small(Observed(rows[o], st, sync[s].seen.fill))
      BY <1>a, <3>1, SmallRows
    <3> QED
      BY <1>a, <3>1, <3>2, <3>3
  <2>2. CASE LostResolve(s)
    <3> DEFINE o == sync[s].order
    <3>1. o \in Orders
      BY <1>a, <2>2, SyncUpdates DEF LostResolve
    <3>2. \/ \E n : rows' = [rows EXCEPT ![o] = Submitted(rows[o], n)]
          \/ rows' = [rows EXCEPT ![o] = Cancelled(rows[o], "fresh")]
      BY <2>2 DEF LostResolve
    <3>3. /\ \A n : Small(Submitted(rows[o], n))
          /\ Small(Cancelled(rows[o], "fresh"))
      BY <1>a, <3>1, SmallRows
    <3> QED
      BY <1>a, <3>1, <3>2, <3>3
  <2>3. CASE rows' = rows
    BY <1>a, <2>3
  <2> QED
    BY <2>1, <2>2, <2>3
       DEF SyncStart, SyncCrash, SyncStep, PollFetch, LostLookup, StuckClose,
           Watchdog, Refetch, PollCommit, PollError, StartLost, LostError,
           StartStuck, SyncEnd
<1> QED
  BY <1>b, <1>1, <1>2 DEF Units

(* The sweep, the broker and the clock keep the units of one contract.     *)
LEMMA SweepUnits ==
  ASSUME Qty = 1, TypeOK, Units, NEW o \in Orders,
         SweepStale(o) \/ SweepWorking(o) \/ SweepFill(o)
           \/ SweepRollback(o) \/ BrokerFill(o) \/ BrokerEnd(o) \/ Age(o)
  PROVE  Units' /\ pos'.status = pos.status
<1>a. /\ rows \in [Orders -> Row] /\ sweep \in SweepState
      /\ \A p \in Orders : Small(rows[p]) /\ Small(sweep.prior[p])
      /\ pos \in Position
  BY DEF TypeOK, Units
<1>b. closer' = closer
  BY DEF SweepStale, SweepWorking, SweepFill, SweepRollback, BrokerFill,
         BrokerEnd, Age
<1>1. \A p \in Orders : Small(sweep'.prior[p])
  <2>1. \A p \in Orders : Small(IdleSweep.prior[p])
    BY LiveAssumption DEF IdleSweep, NoRow, Small
  <2>2. \/ sweep' = sweep \/ sweep' = IdleSweep
        \/ sweep' = [sweep EXCEPT !.todo = sweep.todo \ {o}]
    BY DEF SweepStale, SweepWorking, SweepFill, SweepRollback, BrokerFill,
           BrokerEnd, Age, SweepNext
  <2>3. [sweep EXCEPT !.todo = sweep.todo \ {o}].prior = sweep.prior
    BY <1>a DEF SweepState
  <2> QED
    BY <1>a, <2>1, <2>2, <2>3
<1>2. \A p \in Orders : Small(rows'[p])
  <2>1. \/ rows' = rows
        \/ \E age : \/ rows' = [rows EXCEPT ![o] = Cancelled(rows[o], age)]
                     \/ rows' = [rows EXCEPT
                                   ![o] = [rows[o] EXCEPT !.age = age]]
        \/ rows' = [rows EXCEPT ![o] = [rows[o] EXCEPT !.status = "working"]]
        \/ rows' = [rows EXCEPT
                      ![o] = Simulated(rows[o], "filled", sweep.prior[o].qty)]
        \/ rows' = [rows EXCEPT ![o] = Simulated(rows[o], "working", 0)]
    BY DEF SweepStale, SweepWorking, SweepFill, SweepRollback, BrokerFill,
           BrokerEnd, Age
  <2>2. sweep.prior[o].qty \in Nat
    BY <1>a, LiveAssumption DEF Small
  <2>3. /\ \A age : /\ Small(Cancelled(rows[o], age))
                    /\ Small([rows[o] EXCEPT !.age = age])
        /\ Small([rows[o] EXCEPT !.status = "working"])
        /\ Small(Simulated(rows[o], "filled", sweep.prior[o].qty))
        /\ Small(Simulated(rows[o], "working", 0))
    BY <1>a, <2>2, SmallRows
  <2> QED
    BY <1>a, <2>1, <2>3
<1>3. Uncut' /\ pos'.status = pos.status
  <2>1. CASE SweepFill(o)
    <3> DEFINE left == sweep.prior[o].qty - sweep.prior[o].filled
    <3>1. /\ left > 0
          /\ pos' = IF pos.qty - left = 0 THEN pos
                    ELSE [pos EXCEPT !.qty = pos.qty - left]
      BY <2>1 DEF SweepFill
    <3>2. left = 1
      BY <1>a, <3>1 DEF Small
    <3> HIDE DEF left
    <3>3. pos'.status = pos.status
      BY <1>a, <3>1 DEF Position
    <3>4. pos.status = "open" => pos' = pos
      BY <3>1, <3>2 DEF Units, Uncut
    <3> QED
      BY <3>3, <3>4 DEF Units, Uncut
  <2>2. CASE pos' = pos
    BY <2>2 DEF Units, Uncut
  <2> QED
    BY <2>1, <2>2 DEF SweepStale, SweepWorking, SweepRollback, BrokerFill,
                      BrokerEnd, Age
<1> QED
  BY <1>b, <1>1, <1>2, <1>3 DEF Units

(* The units are kept.                                                     *)
LEMMA UnitsInvariant == ASSUME Qty = 1 PROVE Spec => []Units
<1>1. Init => Units
  <2> SUFFICES ASSUME Init PROVE Units
    OBVIOUS
  <2>1. Uncut
    BY DEF Init, Uncut
  <2>2. Small(NoRow) /\ Small(GtcRow)
    BY LiveAssumption DEF NoRow, GtcRow, Small
  <2>3. \A o \in Orders : Small(rows[o]) /\ Small(sweep.prior[o])
    BY <2>2 DEF Init, IdleSweep
  <2>4. \A c \in Closers : closer[c].qty \in 0 .. Qty
    BY LiveAssumption DEF Init, IdleCloser
  <2> QED
    BY <2>1, <2>3, <2>4 DEF Units
<1>2. TypeOK /\ FillsAreSold /\ Units /\ [Next]_vars => Units'
  <2> SUFFICES ASSUME TypeOK, FillsAreSold, Units, [Next]_vars PROVE Units'
    OBVIOUS
  <2>1. CASE SweepStart
    BY <2>1 DEF SweepStart, Units, Uncut
  <2>2. CASE UNCHANGED vars
    BY <2>2 DEF vars, Units, Uncut
  <2> QED
    BY <2>1, <2>2, CloserUnits, SyncUnits, SweepUnits DEF Next
<1> QED
  BY <1>1, <1>2, TypeCorrect, FillsSold, PTL DEF Spec

(* The database never says "closed" while the broker holds the contract of *)
(* a position of one, for any number of orders, runs, faults and crashes,  *)
(* although the sweep fills live orders with simulated fills: Step 3 takes *)
(* the fill from the stored broker response (StoredFill).                  *)
THEOREM SingleClosedFlat == ASSUME Qty = 1 PROVE Spec => []ClosedIsFlat
<1>1. Init => ClosedIsFlat
  BY DEF Init, ClosedIsFlat
<1>2. TypeOK /\ FillsAreSold /\ Units /\ ClosedIsFlat /\ [Next]_vars
        => ClosedIsFlat'
  <2> SUFFICES ASSUME TypeOK, FillsAreSold, Units, ClosedIsFlat, [Next]_vars
               PROVE  ClosedIsFlat'
    OBVIOUS
  <2>1. held = 0 => held' = 0
    BY HeldShrinks DEF TypeOK
  <2>2. CASE pos'.status = pos.status
    BY <2>1, <2>2 DEF ClosedIsFlat
  <2>3. CASE pos' # pos /\ Booked
    BY <2>1, <2>3, StepCloses DEF ClosedIsFlat, Units
  <2>4. pos' = pos \/ Booked \/ pos'.status = pos.status
    <3>1. SweepStart \/ UNCHANGED vars => pos' = pos
      BY DEF SweepStart, vars
    <3> QED
      BY <3>1, CloserCopies, SyncCopies, SweepUnits DEF Next
  <2> QED
    BY <2>2, <2>3, <2>4
<1> QED
  BY <1>1, <1>2, TypeCorrect, FillsSold, UnitsInvariant, PTL DEF Spec

-----------------------------------------------------------------------------
(* Rows nobody will ask about.                                             *)

(* Before the run that staged the row has let go of it, and after the last *)
(* run that asks the broker about it.                                      *)
Early(row) == row.status = "absent" \/ row.status = "staged"
Ended(row) == row.status = "cancelled" \/ row.status = "watchdog_cancelled"

(* A run of _close_position has its order to itself, and no other actor    *)
(* has touched the row while it is in its hands ...                        *)
Exclusive ==
  \A c \in Closers : closer[c].order # None =>
    /\ rows[closer[c].order].status = "staged"
    /\ \A d \in Closers : closer[d].order = closer[c].order => d = c

(* ... so an order that a sync run looks at is never submitted any more:   *)
(* what the run saw, unless the order was open, is what the broker has.    *)
Watched ==
  \A s \in Syncs :
    /\ \A o \in sync[s].todo : ~Early(rows[o])
    /\ sync[s].order # None =>
         /\ ~Early(rows[sync[s].order])
         /\ sync[s].seen.state # "open" => broker[sync[s].order] = sync[s].seen

(* The broker never takes a fill back.                                     *)
Fills ==
  \A o \in Orders : /\ broker[o].fill >= 0
                    /\ broker[o].state = "none" => broker[o].fill = 0

(* The inductive form of NothingForgotten.                                 *)
Remembered == Exclusive /\ Watched /\ Fills /\ NothingForgotten

(* The status a row has after each of its updates.                         *)
LEMMA RowStatus ==
  ASSUME NEW row \in Row
  PROVE  /\ \A st, n : Answered(row, st, n).status = st
         /\ \A n : Submitted(row, n).status = "submitted"
         /\ \A st, n : Observed(row, st, n).status = st
         /\ \A age : Cancelled(row, age).status = "cancelled"
         /\ \A age : [row EXCEPT !.age = age].status = row.status
         /\ \A n, coid : StagedRow(n, coid).status = "staged"
<1>1. \A n, coid : StagedRow(n, coid).status = "staged"
  BY DEF StagedRow, NoRow
<1> QED
  BY <1>1 DEF Answered, Submitted, Observed, Cancelled, Row

(* At the broker an order stays as it is, or was open and is filled        *)
(* further or ended.                                                       *)
Settles ==
  \A o \in Orders :
    \/ broker'[o] = broker[o]
    \/ /\ broker[o].state = "open" /\ broker'[o].state # "none"
       /\ broker'[o].fill \in Int /\ broker'[o].fill >= broker[o].fill

(* What a run of _close_position does, in the terms of Remembered.         *)
CloserStages(c) ==
  /\ broker' = broker
  /\ \E o \in Orders :
       /\ rows[o].status = "absent" /\ rows'[o].status = "staged"
       /\ \A p \in Orders \ {o} : rows'[p] = rows[p]
       /\ closer'[c].order = o
CloserKeeps(c) ==
  /\ rows' = rows /\ Settles
  /\ closer'[c].order = closer[c].order \/ closer'[c].order = None
CloserSubmits(c) ==
  LET o == closer[c].order
  IN  /\ o \in Orders
      /\ rows' = rows
      /\ broker[o].state = "none" /\ broker'[o] = NewOrder
      /\ \A p \in Orders \ {o} : broker'[p] = broker[p]
      /\ closer'[c].order = o
CloserFiles(c) ==
  LET o == closer[c].order
  IN  /\ o \in Orders
      /\ broker' = broker
      /\ \/ rows'[o].status = "submitted"
         \/ rows'[o].status = "needs_manual_review"
      /\ \A p \in Orders \ {o} : rows'[p] = rows[p]
      /\ closer'[c].order = None

(* The steps of a run of _close_position.                                  *)
LEMMA CloserMoves ==
  ASSUME TypeOK, NEW c \in Closers,
         CloseStart(c) \/ CloseStep(c) \/ CloseCrash(c)
  PROVE  /\ sync' = sync
         /\ \A d \in Closers \ {c} : closer'[d] = closer[d]
         /\ \/ CloserStages(c) \/ CloserKeeps(c)
            \/ CloserSubmits(c) \/ CloserFiles(c)
<1>a. closer[c] \in CloserState
  BY DEF TypeOK
<1>b. broker' = broker => Settles
  BY DEF Settles
<1>c. ASSUME CloserDone(c)
      PROVE  /\ closer'[c].order = None
             /\ \A d \in Closers \ {c} : closer'[d] = closer[d]
  BY <1>c DEF CloserDone, TypeOK, IdleCloser
<1>d. ASSUME NEW pc, ToCloser(c, pc)
      PROVE  /\ closer'[c].order = closer[c].order
             /\ \A d \in Closers \ {c} : closer'[d] = closer[d]
  BY <1>a, <1>d DEF ToCloser, TypeOK, CloserState
<1>e. ASSUME RetrySubmit(c)
      PROVE  /\ closer'[c].order = closer[c].order
             /\ \A d \in Closers \ {c} : closer'[d] = closer[d]
  <2>1. Attempted(closer[c]).order = closer[c].order
    BY <1>a DEF Attempted, CloserState
  <2> QED
    BY <1>e, <2>1 DEF RetrySubmit, TypeOK
<1>1. CASE CloseStart(c)
  <2>1. closer'[c].order = None
    BY <1>1 DEF CloseStart, Querying, IdleCloser, TypeOK
  <2> QED
    BY <1>1, <2>1, <1>b DEF CloseStart, CloserKeeps, TypeOK
<1>2. CASE CloseQuery(c)
  BY <1>2, <1>b, <1>d DEF CloseQuery, CloserKeeps
<1>3. CASE CloseSkip(c) \/ SubmitMismatch(c) \/ CloseCrash(c)
  BY <1>3, <1>b, <1>c DEF CloseSkip, SubmitMismatch, CloseCrash, CloserKeeps
<1>4. ASSUME NEW o \in Orders, CloseStage(c, o)
      PROVE  /\ sync' = sync
             /\ \A d \in Closers \ {c} : closer'[d] = closer[d]
             /\ CloserStages(c)
  <2>1. PICK coid :
          rows' = [rows EXCEPT ![o] = StagedRow(closer[c].qty, coid)]
    BY <1>4 DEF CloseStage
  <2>2. /\ rows'[o].status = "staged"
        /\ \A p \in Orders \ {o} : rows'[p] = rows[p]
    BY <2>1, Constants, RowStatus DEF TypeOK
  <2>3. Holding(closer[c], o).order = o
    BY <1>a DEF Holding, CloserState
  <2> QED
    BY <1>4, <2>2, <2>3 DEF CloseStage, CloserStages, TypeOK
<1>5. CASE ClosePreCancel(c)
  <2>1. ASSUME NEW o \in Orders
        PROVE  \/ broker'[o] = broker[o]
               \/ /\ broker[o].state = "open" /\ broker'[o].state # "none"
                  /\ broker'[o].fill \in Int
                  /\ broker'[o].fill >= broker[o].fill
    <3>1. broker[o] \in BrokerOrder /\ broker[o].fill \in Int
      BY BrokerUpdates DEF TypeOK
    <3>2. \/ broker'[o] = broker[o]
          \/ /\ broker[o].state = "open"
             /\ broker'[o] = [broker[o] EXCEPT !.state = "canceled"]
      BY <1>5 DEF ClosePreCancel
    <3> QED
      BY <3>1, <3>2 DEF BrokerOrder
  <2> QED
    BY <1>5, <2>1, <1>d DEF ClosePreCancel, Settles, CloserKeeps
<1>6. CASE SubmitAccepted(c) \/ SubmitLost(c)
  <2>1. closer[c].order \in Orders
    BY <1>6, <1>a, CloserUpdates DEF SubmitAccepted, SubmitLost
  <2>2. \/ broker' = broker
        \/ broker' = [broker EXCEPT ![closer[c].order] = NewOrder]
    BY <1>6 DEF SubmitAccepted, SubmitLost
  <2>3. /\ rows' = rows /\ sync' = sync
        /\ closer'[c].order = closer[c].order
        /\ \A d \in Closers \ {c} : closer'[d] = closer[d]
        /\ broker[closer[c].order].state = "none"
    BY <1>6, <1>d, <1>e DEF SubmitAccepted, SubmitLost
  <2>4. CASE broker' = broker
    BY <2>3, <2>4, <1>b DEF CloserKeeps
  <2>5. CASE broker' = [broker EXCEPT ![closer[c].order] = NewOrder]
    BY <2>1, <2>3, <2>5 DEF CloserSubmits, TypeOK
  <2> QED
    BY <2>2, <2>3, <2>4, <2>5
<1>7. CASE SubmitRejected(c)
  BY <1>7, <1>b, <1>d DEF SubmitRejected, CloserKeeps
<1>8. CASE SubmitDuplicate(c) \/ CloseAck(c) \/ CloseReview(c)
  <2> DEFINE o == closer[c].order
  <2>1. o \in Orders /\ rows[o] \in Row
    BY <1>8, <1>a, CloserUpdates
       DEF SubmitDuplicate, CloseAck, CloseReview, TypeOK
  <2>2. \/ rows' = rows
        \/ /\ closer'[c].order = None
           /\ \/ rows' = [rows EXCEPT
                   ![o] = Submitted(rows[o], broker[o].fill)]
              \/ rows' = [rows EXCEPT ![o] = Submitted(rows[o], 0)]
              \/ rows' = [rows EXCEPT
                   ![o] = Answered(rows[o], "needs_manual_review", 0)]
    BY <1>8, <1>c DEF SubmitDuplicate, CloseAck, CloseReview
  <2>3. /\ broker' = broker /\ sync' = sync
        /\ closer'[c].order = closer[c].order \/ closer'[c].order = None
        /\ \A d \in Closers \ {c} : closer'[d] = closer[d]
    BY <1>8, <1>c, <1>d, <1>e DEF SubmitDuplicate, CloseAck, CloseReview
  <2>4. CASE rows' = rows
    BY <2>3, <2>4, <1>b DEF CloserKeeps
  <2>5. CASE rows' # rows
    <3>1. /\ \/ rows'[o].status = "submitted"
             \/ rows'[o].status = "needs_manual_review"
          /\ \A p \in Orders \ {o} : rows'[p] = rows[p]
          /\ closer'[c].order = None
      BY <2>1, <2>2, <2>5, RowStatus DEF TypeOK
    <3> QED
      BY <2>1, <2>3, <3>1 DEF CloserFiles
  <2> QED
    BY <2>3, <2>4, <2>5
<1> QED
  BY <1>1, <1>2, <1>3, <1>4, <1>5, <1>6, <1>7, <1>8 DEF CloseStep

(* What a run of the order sync does, in the same terms.                   *)
SyncLoops(s) ==
  /\ rows' = rows /\ broker' = broker
  /\ sync'[s].order = None
  /\ \A o \in sync'[s].todo : o \in sync[s].todo \/ ~Early(rows[o])
SyncLooks(s) ==
  /\ rows' = rows /\ broker' = broker
  /\ sync'[s].todo = sync[s].todo
  /\ sync'[s].order \in Orders
  /\ sync'[s].order \in sync[s].todo \/ sync'[s].order = sync[s].order
  /\ sync'[s].seen = broker[sync'[s].order]
SyncCancels(s) ==
  /\ rows' = rows /\ Settles
  /\ sync'[s].todo = sync[s].todo /\ sync'[s].order = sync[s].order
  /\ sync'[s].seen = sync[s].seen
SyncWrites(s) ==
  LET o == sync[s].order
  IN  /\ o \in Orders
      /\ broker' = broker
      /\ ~Early(rows'[o])
      /\ Ended(rows'[o]) =>
           /\ sync[s].seen.state # "open"
           /\ sync[s].seen.state = "none" \/ sync[s].seen.fill <= 0
      /\ \A p \in Orders \ {o} : rows'[p] = rows[p]
      /\ sync'[s].todo \subseteq sync[s].todo
      /\ \/ sync'[s].order = None
         \/ sync'[s].order = o /\ sync'[s].seen = sync[s].seen

(* The fields of a run of the order sync after each of its moves.          *)
LEMMA SyncFields ==
  /\ IdleSync.order = None /\ IdleSync.todo = {}
  /\ \A pc, T : Looping(pc, T).order = None /\ Looping(pc, T).todo = T
  /\ \A st \in SyncState : \A o, pc, b :
       /\ Looking(st, o, pc, b).todo = st.todo
       /\ Looking(st, o, pc, b).order = o
       /\ Looking(st, o, pc, b).seen = b
  /\ \A st \in SyncState : \A pc :
       /\ [st EXCEPT !.pc = pc].todo = st.todo
       /\ [st EXCEPT !.pc = pc].order = st.order
       /\ [st EXCEPT !.pc = pc].seen = st.seen
<1>1. /\ IdleSync.order = None /\ IdleSync.todo = {}
      /\ \A pc, T : Looping(pc, T).order = None /\ Looping(pc, T).todo = T
  BY DEF IdleSync, Looping
<1>2. \A st \in SyncState : \A o, pc, b :
        /\ Looking(st, o, pc, b).todo = st.todo
        /\ Looking(st, o, pc, b).order = o
        /\ Looking(st, o, pc, b).seen = b
  BY DEF Looking, SyncState
<1>3. \A st \in SyncState : \A pc :
        /\ [st EXCEPT !.pc = pc].todo = st.todo
        /\ [st EXCEPT !.pc = pc].order = st.order
        /\ [st EXCEPT !.pc = pc].seen = st.seen
  BY DEF SyncState
<1> QED
  BY <1>1, <1>2, <1>3

(* The steps of a run of the order sync.                                   *)
LEMMA SyncMoves ==
  ASSUME TypeOK, NEW s \in Syncs, SyncStart(s) \/ SyncStep(s) \/ SyncCrash(s)
  PROVE  /\ closer' = closer
         /\ \A t \in Syncs \ {s} : sync'[t] = sync[t]
         /\ \/ SyncLoops(s) \/ SyncLooks(s)
            \/ SyncCancels(s) \/ SyncWrites(s)
<1>a. sync[s] \in SyncState /\ sync[s].seen \in BrokerOrder
  BY SyncUpdates DEF TypeOK
<1>b. ASSUME NEW st, sync' = [sync EXCEPT ![s] = st]
      PROVE  sync'[s] = st /\ \A t \in Syncs \ {s} : sync'[t] = sync[t]
  BY <1>b DEF TypeOK
<1>c. ASSUME NEW pc, NEW T, Phase(s, pc, T)
      PROVE  /\ sync'[s].order = None /\ sync'[s].todo = T
             /\ \A t \in Syncs \ {s} : sync'[t] = sync[t]
  <2>1. /\ sync'[s] = Looping(pc, T)
        /\ \A t \in Syncs \ {s} : sync'[t] = sync[t]
    BY <1>c DEF Phase, TypeOK
  <2> QED
    BY <2>1, SyncFields
<1>d. ASSUME NEW pc, NextRow(s, pc)
      PROVE  /\ sync'[s].order = None /\ sync'[s].todo \subseteq sync[s].todo
             /\ \A t \in Syncs \ {s} : sync'[t] = sync[t]
  <2>1. /\ sync'[s] = Looping(pc, sync[s].todo \ {sync[s].order})
        /\ \A t \in Syncs \ {s} : sync'[t] = sync[t]
    BY <1>d DEF NextRow, TypeOK
  <2>2. /\ sync'[s].order = None
        /\ sync'[s].todo = sync[s].todo \ {sync[s].order}
    BY <2>1, SyncFields
  <2> QED
    BY <2>1, <2>2
<1>e. ASSUME NEW o \in Orders, NEW pc, Look(s, o, pc)
      PROVE  /\ sync'[s].todo = sync[s].todo /\ sync'[s].order = o
             /\ sync'[s].seen = broker[o]
             /\ \A t \in Syncs \ {s} : sync'[t] = sync[t]
  <2>1. /\ sync'[s] = Looking(sync[s], o, pc, broker[o])
        /\ \A t \in Syncs \ {s} : sync'[t] = sync[t]
    BY <1>e DEF Look, TypeOK
  <2> QED
    BY <2>1, <1>a, SyncFields
<1>f. ASSUME NEW pc, sync' = [sync EXCEPT ![s] = [sync[s] EXCEPT !.pc = pc]]
      PROVE  /\ sync'[s].todo = sync[s].todo
             /\ sync'[s].order = sync[s].order
             /\ sync'[s].seen = sync[s].seen
             /\ \A t \in Syncs \ {s} : sync'[t] = sync[t]
  BY <1>a, <1>b, <1>f, SyncFields
<1>g. sync' = [sync EXCEPT ![s] = IdleSync] =>
        /\ sync'[s].order = None /\ sync'[s].todo = {}
        /\ \A t \in Syncs \ {s} : sync'[t] = sync[t]
  BY <1>b, SyncFields
<1>1. CASE SyncStart(s)
  BY <1>1, <1>c DEF SyncStart, SyncLoops, Polled, Early
<1>2. CASE StartLost(s)
  BY <1>2, <1>c DEF StartLost, SyncLoops, LostSubmits, Early
<1>3. CASE StartStuck(s)
  BY <1>3, <1>c DEF StartStuck, SyncLoops, Early
<1>4. CASE SyncEnd(s) \/ SyncCrash(s)
  BY <1>4, <1>g DEF SyncEnd, SyncCrash, SyncLoops
<1>5. CASE PollError(s) \/ LostError(s) \/ PollCommit(s)
  BY <1>5, <1>d DEF PollError, LostError, PollCommit, SyncLoops
<1>6. ASSUME NEW o \in Orders, StuckClose(s, o)
      PROVE  /\ closer' = closer /\ SyncLoops(s)
             /\ \A t \in Syncs \ {s} : sync'[t] = sync[t]
  BY <1>6, <1>c DEF StuckClose, SyncLoops
<1>7. ASSUME NEW o \in Orders, PollFetch(s, o) \/ LostLookup(s, o)
      PROVE  /\ closer' = closer /\ SyncLooks(s)
             /\ \A t \in Syncs \ {s} : sync'[t] = sync[t]
  BY <1>7, <1>e DEF PollFetch, LostLookup, SyncLooks
<1>8. CASE Refetch(s)
  <2>1. sync[s].order \in Orders
    BY <1>8, <1>a, SyncUpdates DEF Refetch
  <2> QED
    BY <1>8, <2>1, <1>e DEF Refetch, SyncLooks
<1>9. CASE Watchdog(s)
  <2> DEFINE o == sync[s].order
  <2>1. o \in Orders /\ broker[o] \in BrokerOrder
    BY <1>9, <1>a, SyncUpdates DEF Watchdog, TypeOK
  <2>2. \/ broker' = broker
        \/ /\ broker[o].state = "open"
           /\ broker' = [broker EXCEPT ![o] =
                [broker[o] EXCEPT !.state = "canceled"]]
    BY <1>9, <2>1 DEF Watchdog, TypeOK
  <2>3. /\ [broker[o] EXCEPT !.state = "canceled"].state = "canceled"
        /\ [broker[o] EXCEPT !.state = "canceled"].fill \in Int
        /\ [broker[o] EXCEPT !.state = "canceled"].fill >= broker[o].fill
    BY <2>1 DEF BrokerOrder
  <2>4. Settles
    BY <2>1, <2>2, <2>3 DEF Settles, TypeOK
  <2> QED
    BY <1>9, <2>4, <1>f DEF Watchdog, SyncCancels
<1>10. CASE PollWrite(s)
  <2> DEFINE o == sync[s].order
             seen == sync[s].seen
             clean == [state |-> "canceled", fill |-> 0]
             st == IF sync[s].pc = "write" /\ seen = clean
                   THEN "watchdog_cancelled" ELSE InternalStatus(seen)
  <2>1. o \in Orders /\ rows[o] \in Row
    BY <1>10, <1>a, SyncUpdates DEF PollWrite, TypeOK
  <2>2. rows' = [rows EXCEPT ![o] = Observed(rows[o], st, seen.fill)]
    BY <1>10 DEF PollWrite
  <2>3. /\ InternalStatus(seen) # "absent" /\ InternalStatus(seen) # "staged"
        /\ InternalStatus(seen) # "watchdog_cancelled"
        /\ InternalStatus(seen) = "cancelled" =>
             seen.state # "open" /\ seen.fill <= 0
    BY <1>a DEF InternalStatus, BrokerOrder
  <2>4. /\ st # "absent" /\ st # "staged"
        /\ st = "cancelled" \/ st = "watchdog_cancelled" =>
             seen.state # "open" /\ seen.fill <= 0
    BY <2>3
  <2> HIDE DEF st
  <2>5. /\ rows'[o].status = st
        /\ \A p \in Orders \ {o} : rows'[p] = rows[p]
    BY <2>1, <2>2, RowStatus DEF TypeOK
  <2>6. /\ sync'[s].todo \subseteq sync[s].todo
        /\ \A t \in Syncs \ {s} : sync'[t] = sync[t]
        /\ \/ sync'[s].order = None
           \/ sync'[s].order = o /\ sync'[s].seen = sync[s].seen
    BY <1>10, <1>d, <1>f DEF PollWrite
  <2>7. broker' = broker /\ closer' = closer
    BY <1>10 DEF PollWrite
  <2> QED
    BY <2>1, <2>4, <2>5, <2>6, <2>7 DEF SyncWrites, Early, Ended
<1>11. CASE LostResolve(s)
  <2> DEFINE o == sync[s].order
  <2>1. o \in Orders /\ rows[o] \in Row
    BY <1>11, <1>a, SyncUpdates DEF LostResolve, TypeOK
  <2>2. /\ \A p \in Orders \ {o} : rows'[p] = rows[p]
        /\ \/ rows'[o].status = "submitted"
           \/ rows'[o].status = "cancelled" /\ sync[s].seen.state = "none"
    BY <1>11, <2>1, RowStatus DEF LostResolve, TypeOK
  <2> QED
    BY <1>11, <2>1, <2>2, <1>d DEF LostResolve, SyncWrites, Early, Ended
<1> QED
  BY <1>1, <1>2, <1>3, <1>4, <1>5, <1>6, <1>7, <1>8, <1>9, <1>10, <1>11
     DEF SyncStep

(* The steps of the broker and of the clock.                               *)
LEMMA WorldMoves ==
  ASSUME TypeOK, NEW o \in Orders, BrokerFill(o) \/ BrokerEnd(o) \/ Age(o)
  PROVE  /\ closer' = closer /\ sync' = sync /\ Settles
         /\ \A p \in Orders : rows'[p].status = rows[p].status
<1>a. broker[o] \in BrokerOrder /\ rows[o] \in Row
  BY DEF TypeOK
<1>1. CASE BrokerFill(o)
  <2>1. PICK n \in 1 .. held :
          broker' = [broker EXCEPT ![o] =
            [state |-> IF @.fill + n = rows[o].qty THEN "filled" ELSE "open",
             fill |-> @.fill + n]]
    BY <1>1 DEF BrokerFill
  <2>a. broker[o].fill \in Int
    BY <1>a, BrokerUpdates
  <2>b. held \in Nat
    BY DEF TypeOK
  <2>c. n \in Nat
    BY <2>b
  <2>2. broker[o].fill + n \in Int /\ broker[o].fill + n >= broker[o].fill
    BY <2>a, <2>c
  <2>3. /\ broker'[o].state = "filled" \/ broker'[o].state = "open"
        /\ broker'[o].fill = broker[o].fill + n
        /\ \A p \in Orders \ {o} : broker'[p] = broker[p]
    BY <2>1 DEF TypeOK
  <2> QED
    BY <1>1, <2>2, <2>3 DEF BrokerFill, Settles
<1>2. CASE BrokerEnd(o)
  <2>1. PICK st \in {"canceled", "expired"} :
          broker' = [broker EXCEPT ![o] = [broker[o] EXCEPT !.state = st]]
    BY <1>2 DEF BrokerEnd
  <2>2. /\ [broker[o] EXCEPT !.state = st].state = st
        /\ [broker[o] EXCEPT !.state = st].fill \in Int
        /\ [broker[o] EXCEPT !.state = st].fill >= broker[o].fill
    BY <1>a DEF BrokerOrder
  <2> QED
    BY <1>2, <2>1, <2>2 DEF BrokerEnd, Settles, TypeOK
<1>3. CASE Age(o)
  <2>1. PICK age : rows' = [rows EXCEPT ![o] = [rows[o] EXCEPT !.age = age]]
    BY <1>3 DEF Age
  <2>2. \A p \in Orders : rows'[p].status = rows[p].status
    BY <1>a, <2>1, RowStatus DEF TypeOK
  <2> QED
    BY <1>3, <2>2 DEF Age, Settles
<1> QED
  BY <1>1, <1>2, <1>3

(* A run of _close_position forgets nothing.                               *)
LEMMA CloserRemembers ==
  ASSUME TypeOK, Remembered, NEW c \in Closers,
         CloseStart(c) \/ CloseStep(c) \/ CloseCrash(c)
  PROVE  Remembered'
<1>a. /\ sync' = sync
      /\ \A d \in Closers \ {c} : closer'[d] = closer[d]
      /\ \/ CloserStages(c) \/ CloserKeeps(c)
         \/ CloserSubmits(c) \/ CloserFiles(c)
  BY CloserMoves
<1>b. \A d \in Closers : closer[d].order \in Orders \cup {None}
  BY DEF TypeOK, CloserState
<1>c. \A s \in Syncs : /\ sync[s].todo \subseteq Orders
                       /\ sync[s].order \in Orders \cup {None}
  BY DEF TypeOK, SyncState
<1>d. \A o \in Orders : broker[o].fill \in Int
  BY BrokerUpdates DEF TypeOK
<1>e. None \notin Orders
  BY LiveAssumption
<1>1. CASE CloserStages(c)
  <2>1. PICK o \in Orders :
          /\ rows[o].status = "absent" /\ rows'[o].status = "staged"
          /\ \A p \in Orders \ {o} : rows'[p] = rows[p]
          /\ closer'[c].order = o
    BY <1>1 DEF CloserStages
  <2>2. \A d \in Closers : closer[d].order # o
    BY <2>1, <1>e DEF Remembered, Exclusive
  <2>3. Exclusive'
    BY <1>a, <1>b, <2>1, <2>2 DEF Remembered, Exclusive
  <2>4. Watched'
    <3>1. \A s \in Syncs : o \notin sync[s].todo /\ sync[s].order # o
      BY <2>1, <1>e DEF Remembered, Watched, Early
    <3> QED
      BY <1>1, <1>a, <1>c, <2>1, <3>1
         DEF CloserStages, Remembered, Watched, Early
  <2>5. Fills'
    BY <1>1 DEF CloserStages, Remembered, Fills
  <2>6. NothingForgotten'
    BY <1>1, <2>1 DEF CloserStages, Remembered, NothingForgotten
  <2> QED
    BY <2>3, <2>4, <2>5, <2>6 DEF Remembered
<1>2. CASE CloserKeeps(c)
  <2>1. Exclusive'
    BY <1>2, <1>a DEF CloserKeeps, Remembered, Exclusive
  <2>2. Watched'
    BY <1>2, <1>a, <1>c DEF CloserKeeps, Settles, Remembered, Watched, Early
  <2>3. Fills'
    BY <1>2, <1>d DEF CloserKeeps, Settles, Remembered, Fills
  <2>4. NothingForgotten'
    BY <1>2 DEF CloserKeeps, Settles, Remembered, NothingForgotten
  <2> QED
    BY <2>1, <2>2, <2>3, <2>4 DEF Remembered
<1>3. CASE CloserSubmits(c)
  <2> DEFINE o == closer[c].order
  <2>1. /\ o \in Orders /\ rows' = rows /\ closer'[c].order = o
        /\ broker'[o] = NewOrder
        /\ \A p \in Orders \ {o} : broker'[p] = broker[p]
    BY <1>3 DEF CloserSubmits
  <2>2. rows[o].status = "staged"
    BY <2>1, <1>e DEF Remembered, Exclusive
  <2>3. Exclusive'
    BY <1>a, <2>1 DEF Remembered, Exclusive
  <2>4. Watched'
    <3>1. \A s \in Syncs : sync[s].order # o
      BY <2>1, <2>2, <1>e DEF Remembered, Watched, Early
    <3> QED
      BY <1>a, <1>c, <2>1, <3>1 DEF Remembered, Watched, Early
  <2>5. Fills'
    BY <2>1 DEF Remembered, Fills, NewOrder
  <2>6. NothingForgotten'
    BY <2>1, <2>2 DEF Remembered, NothingForgotten
  <2> QED
    BY <2>3, <2>4, <2>5, <2>6 DEF Remembered
<1>4. CASE CloserFiles(c)
  <2> DEFINE o == closer[c].order
  <2>1. /\ o \in Orders /\ broker' = broker /\ closer'[c].order = None
        /\ \/ rows'[o].status = "submitted"
           \/ rows'[o].status = "needs_manual_review"
        /\ \A p \in Orders \ {o} : rows'[p] = rows[p]
    BY <1>4 DEF CloserFiles
  <2>2. Exclusive'
    BY <1>a, <1>b, <1>e, <2>1 DEF Remembered, Exclusive
  <2>3. Watched'
    BY <1>a, <1>c, <2>1 DEF Remembered, Watched, Early
  <2>4. Fills'
    BY <2>1 DEF Remembered, Fills
  <2>5. NothingForgotten'
    BY <2>1 DEF Remembered, NothingForgotten
  <2> QED
    BY <2>2, <2>3, <2>4, <2>5 DEF Remembered
<1> QED
  BY <1>a, <1>1, <1>2, <1>3, <1>4

(* A run of the order sync forgets nothing.                                *)
LEMMA SyncRemembers ==
  ASSUME TypeOK, Remembered, NEW s \in Syncs,
         SyncStart(s) \/ SyncStep(s) \/ SyncCrash(s)
  PROVE  Remembered'
<1>a. /\ closer' = closer
      /\ \A t \in Syncs \ {s} : sync'[t] = sync[t]
      /\ \/ SyncLoops(s) \/ SyncLooks(s)
         \/ SyncCancels(s) \/ SyncWrites(s)
  BY SyncMoves
<1>b. \A d \in Closers : closer[d].order \in Orders \cup {None}
  BY DEF TypeOK, CloserState
<1>c. \A t \in Syncs : /\ sync[t].todo \subseteq Orders
                       /\ sync[t].order \in Orders \cup {None}
  BY DEF TypeOK, SyncState
<1>d. \A o \in Orders : broker[o].fill \in Int
  BY BrokerUpdates DEF TypeOK
<1>e. None \notin Orders
  BY LiveAssumption
<1>1. CASE SyncLoops(s)
  <2>1. Watched'
    BY <1>1, <1>a DEF SyncLoops, Remembered, Watched, Early
  <2> QED
    BY <1>1, <1>a, <2>1
       DEF SyncLoops, Remembered, Exclusive, Fills, NothingForgotten
<1>2. CASE SyncLooks(s)
  <2>1. Watched'
    BY <1>2, <1>a, <1>e DEF SyncLooks, Remembered, Watched, Early
  <2> QED
    BY <1>2, <1>a, <2>1
       DEF SyncLooks, Remembered, Exclusive, Fills, NothingForgotten
<1>3. CASE SyncCancels(s)
  <2>1. Exclusive'
    BY <1>3, <1>a DEF SyncCancels, Remembered, Exclusive
  <2>2. Watched'
    BY <1>3, <1>a, <1>c DEF SyncCancels, Settles, Remembered, Watched, Early
  <2>3. Fills'
    BY <1>3, <1>d DEF SyncCancels, Settles, Remembered, Fills
  <2>4. NothingForgotten'
    BY <1>3 DEF SyncCancels, Settles, Remembered, NothingForgotten
  <2> QED
    BY <2>1, <2>2, <2>3, <2>4 DEF Remembered
<1>4. CASE SyncWrites(s)
  <2> DEFINE o == sync[s].order
  <2>1. /\ o \in Orders /\ broker' = broker
        /\ ~Early(rows'[o])
        /\ Ended(rows'[o]) =>
             /\ sync[s].seen.state # "open"
             /\ sync[s].seen.state = "none" \/ sync[s].seen.fill <= 0
        /\ \A p \in Orders \ {o} : rows'[p] = rows[p]
        /\ sync'[s].todo \subseteq sync[s].todo
        /\ \/ sync'[s].order = None
           \/ sync'[s].order = o /\ sync'[s].seen = sync[s].seen
    BY <1>4 DEF SyncWrites
  <2>2. /\ ~Early(rows[o])
        /\ sync[s].seen.state # "open" => broker[o] = sync[s].seen
    BY <2>1, <1>e DEF Remembered, Watched
  <2>3. Exclusive'
    <3>1. \A d \in Closers : closer[d].order # o
      BY <2>1, <2>2, <1>e DEF Remembered, Exclusive, Early
    <3> QED
      BY <1>a, <1>b, <2>1, <3>1 DEF Remembered, Exclusive
  <2>4. Watched'
    BY <1>a, <1>c, <2>1, <2>2 DEF Remembered, Watched, Early
  <2>5. Fills'
    BY <2>1 DEF Remembered, Fills
  <2>6. NothingForgotten'
    <3>1. Ended(rows'[o]) => broker[o].state # "open" /\ broker[o].fill = 0
      BY <2>1, <2>2, <1>d DEF Remembered, Fills
    <3> QED
      BY <2>1, <3>1 DEF Remembered, NothingForgotten, Ended
  <2> QED
    BY <2>3, <2>4, <2>5, <2>6 DEF Remembered
<1> QED
  BY <1>a, <1>1, <1>2, <1>3, <1>4

(* The broker and the clock cannot make the rows forget.                   *)
LEMMA WorldRemembers ==
  ASSUME TypeOK, Remembered, NEW o \in Orders,
         BrokerFill(o) \/ BrokerEnd(o) \/ Age(o)
  PROVE  Remembered'
<1>a. /\ closer' = closer /\ sync' = sync /\ Settles
      /\ \A p \in Orders : rows'[p].status = rows[p].status
  BY WorldMoves
<1>b. \A d \in Closers : closer[d].order \in Orders \cup {None}
  BY DEF TypeOK, CloserState
<1>c. \A t \in Syncs : /\ sync[t].todo \subseteq Orders
                       /\ sync[t].order \in Orders \cup {None}
  BY DEF TypeOK, SyncState
<1>d. \A p \in Orders : broker[p].fill \in Int
  BY BrokerUpdates DEF TypeOK
<1>1. Exclusive'
  BY <1>a, <1>b DEF Remembered, Exclusive
<1>2. Watched'
  BY <1>a, <1>c DEF Settles, Remembered, Watched, Early
<1>3. Fills'
  BY <1>a, <1>d DEF Settles, Remembered, Fills
<1>4. NothingForgotten'
  BY <1>a DEF Settles, Remembered, NothingForgotten
<1> QED
  BY <1>1, <1>2, <1>3, <1>4 DEF Remembered

(* The rows remember.                                                      *)
LEMMA Remembering == ASSUME ~Sweeping PROVE Spec => []Remembered
<1>1. Init => Remembered
  <2> SUFFICES ASSUME Init PROVE Remembered
    OBVIOUS
  <2>1. Exclusive /\ Watched
    BY DEF Init, IdleCloser, IdleSync, Exclusive, Watched
  <2>2. Fills
    BY DEF Init, Fills, NewOrder, NoOrder
  <2>3. NothingForgotten
    BY DEF Init, NothingForgotten, GtcRow, NoRow
  <2> QED
    BY <2>1, <2>2, <2>3 DEF Remembered
<1>2. TypeOK /\ Whole /\ Remembered /\ [Next]_vars => Remembered'
  <2> SUFFICES ASSUME TypeOK, Whole, Remembered, [Next]_vars PROVE Remembered'
    OBVIOUS
  <2>1. ~SweepStart
    BY DEF SweepStart
  <2>2. ASSUME NEW o \in Orders
        PROVE  ~(SweepStale(o) \/ SweepWorking(o) \/ SweepFill(o)
                   \/ SweepRollback(o))
    BY DEF Whole, SweepStale, SweepWorking, SweepFill, SweepRollback
  <2>3. CASE UNCHANGED vars
    BY <2>3 DEF vars, Remembered, Exclusive, Watched, Early, Fills,
                NothingForgotten
  <2> QED
    BY <2>1, <2>2, <2>3, CloserRemembers, SyncRemembers, WorldRemembers
       DEF Next
<1> QED
  BY <1>1, <1>2, TypeCorrect, WholeInvariant, PTL DEF Spec

(* A row that no later run asks the broker about hides neither an open     *)
(* order nor a fill, for any number of closing and sync runs at once, any  *)
(* number of lost requests, answers and writes and any crash, as long as   *)
(* no sweep runs.                                                          *)
THEOREM NothingIsForgotten == ASSUME ~Sweeping PROVE Spec => []NothingForgotten
<1>1. Remembered => NothingForgotten
  BY DEF Remembered
<1> QED
  BY <1>1, Remembering, PTL
=============================================================================
