--------------------------- MODULE LiveReachProofs ---------------------------
(***************************************************************************)
(* The safety part of LiveClose's promise that every fill is booked: the   *)
(* orders that matter stay within reach of the next run of the order sync, *)
(* for every number of orders, closing runs and sync runs and every value  *)
(* of the bounds.                                                          *)
(***************************************************************************)
EXTENDS LiveCloseProofs

(* A staged row whose order the broker has: a run has it in hand, or one   *)
(* of the excuses holds.                                                   *)
Tended(o) ==
  \/ \E c \in Closers : closer[c].order = o
  \/ budget.crashes < MaxCrashes
  \/ held = 0 /\ ~DuplicateIdFirst

(* What the row of an order tells of it.                                   *)
Traced(o) ==
  /\ rows[o].status # "absent" =>
       /\ rows[o].qty = Qty
       /\ rows[o].coid = "null" => budget.crashes < MaxCrashes
  /\ rows[o].status = "partial" => rows[o].alp = "set"
  /\ rows[o].status = "filled" =>
       /\ broker[o].state = "filled"
       /\ rows[o].filled = Qty /\ rows[o].resp = Qty
  /\ broker[o].state # "none" => rows[o].status # "absent"
  /\ broker[o].state = "filled" => broker[o].fill = Qty
  /\ rows[o].status = "staged" /\ broker[o].state # "none" => Tended(o)

(* A closing run stages the whole position; a sync run polls rows that     *)
(* have the broker's id.                                                   *)
Sized ==
  \A c \in Closers : closer[c].pc \in {"query", "stage"} => closer[c].qty = Qty

Asking == {"fetched", "refetch", "write", "commit"}

Linked ==
  \A s \in Syncs :
    /\ sync[s].pc \in Asking \cup {"poll"} =>
         \A o \in sync[s].todo : rows[o].alp = "set"
    /\ sync[s].pc \in Asking => rows[sync[s].order].alp = "set"

Spending == budget.crashes <= MaxCrashes

Traces == (\A o \in Orders : Traced(o)) /\ Sized /\ Linked /\ Spending

-----------------------------------------------------------------------------
(* The steps, in these terms.                                              *)

(* The fields of a row after each of its updates.                          *)
LEMMA RowFields ==
  ASSUME NEW row \in Row
  PROVE  /\ \A n : /\ Submitted(row, n).status = "submitted"
                   /\ Submitted(row, n).qty = row.qty
                   /\ Submitted(row, n).coid = row.coid
                   /\ Submitted(row, n).alp = "set"
         /\ \A st, n : /\ Answered(row, st, n).status = st
                       /\ Answered(row, st, n).qty = row.qty
                       /\ Answered(row, st, n).coid = row.coid
                       /\ Answered(row, st, n).alp = row.alp
         /\ \A st, n : /\ Observed(row, st, n).status = st
                       /\ Observed(row, st, n).qty = row.qty
                       /\ Observed(row, st, n).coid = row.coid
                       /\ Observed(row, st, n).alp = row.alp
                       /\ Observed(row, st, n).resp = n
                       /\ n > 0 => Observed(row, st, n).filled = n
         /\ \A age : /\ Cancelled(row, age).status = "cancelled"
                     /\ Cancelled(row, age).qty = row.qty
                     /\ Cancelled(row, age).coid = row.coid
                     /\ Cancelled(row, age).alp = row.alp
         /\ \A age : /\ [row EXCEPT !.age = age].status = row.status
                     /\ [row EXCEPT !.age = age].qty = row.qty
                     /\ [row EXCEPT !.age = age].coid = row.coid
                     /\ [row EXCEPT !.age = age].alp = row.alp
<1>1. \A n : /\ Submitted(row, n).status = "submitted"
             /\ Submitted(row, n).qty = row.qty
             /\ Submitted(row, n).coid = row.coid
             /\ Submitted(row, n).alp = "set"
  BY DEF Row, Submitted, Answered
<1>2. \A st, n : /\ Answered(row, st, n).status = st
                 /\ Answered(row, st, n).qty = row.qty
                 /\ Answered(row, st, n).coid = row.coid
                 /\ Answered(row, st, n).alp = row.alp
  BY DEF Row, Answered
<1>3. \A st, n : /\ Observed(row, st, n).status = st
                 /\ Observed(row, st, n).qty = row.qty
                 /\ Observed(row, st, n).coid = row.coid
                 /\ Observed(row, st, n).alp = row.alp
                 /\ Observed(row, st, n).resp = n
                 /\ n > 0 => Observed(row, st, n).filled = n
  BY DEF Row, Observed, Answered
<1>4. \A age : /\ Cancelled(row, age).status = "cancelled"
               /\ Cancelled(row, age).qty = row.qty
               /\ Cancelled(row, age).coid = row.coid
               /\ Cancelled(row, age).alp = row.alp
  BY DEF Row, Cancelled
<1>5. \A age : /\ [row EXCEPT !.age = age].status = row.status
               /\ [row EXCEPT !.age = age].qty = row.qty
               /\ [row EXCEPT !.age = age].coid = row.coid
               /\ [row EXCEPT !.age = age].alp = row.alp
  BY DEF Row
<1> QED
  BY <1>1, <1>2, <1>3, <1>4, <1>5

(* Crashes are counted down.                                               *)
Spends == budget'.crashes \in Nat /\ budget'.crashes <= budget.crashes

Struck == budget'.crashes < MaxCrashes

LEMMA Spent ==
  ASSUME TypeOK, Spending
  PROVE  /\ UNCHANGED budget \/ Fault => Spends
         /\ Crash => Spends /\ Struck
BY LiveAssumption DEF TypeOK, Spending, Spends, Struck, Fault, Crash

(* What a closing run writes: a row of its own size, or over the row in    *)
(* its hands; and what it lets go of, unwritten.                           *)
CloserWrites(c, o) ==
  \/ rows'[o] = rows[o]
  \/ /\ rows[o].status = "absent" /\ closer[c].pc = "stage"
     /\ \E coid \in {"null", "set"} :
          /\ rows'[o] = StagedRow(closer[c].qty, coid)
          /\ coid = "null" => Struck
  \/ /\ o = closer[c].order
     /\ \/ \E n : rows'[o] = Submitted(rows[o], n)
        \/ rows'[o] = Answered(rows[o], "needs_manual_review", 0)

CloserHolds(c) ==
  LET o == closer[c].order
  IN (o # None /\ rows' = rows /\ rows[o].status = "staged") =>
       \/ closer'[c].order = o
       \/ Struck
       \/ held = 0 /\ (broker[o].state = "none" \/ ~DuplicateIdFirst)

CloserActs(c) ==
  /\ Spends /\ held' = held
  /\ \A o \in Orders : CloserWrites(c, o)
  /\ \A o \in Orders : broker'[o].state = "filled" => broker'[o] = broker[o]
  /\ CloserHolds(c)
  /\ closer'[c].pc \in {"query", "stage"} =>
       \/ closer[c].pc = "query" /\ closer'[c].qty = closer[c].qty
       \/ pos.status = "open" /\ closer'[c].qty = pos.qty

LEMMA CloserFacts ==
  ASSUME TypeOK, Spending, NEW c \in Closers,
         CloseStart(c) \/ CloseStep(c) \/ CloseCrash(c)
  PROVE  CloserActs(c)
<1>a. closer[c] \in CloserState /\ rows \in [Orders -> Row]
  BY DEF TypeOK
<1>b. rows' = rows => \A o \in Orders : CloserWrites(c, o)
  BY DEF CloserWrites
<1>c. ASSUME CloserDone(c)
      PROVE  closer'[c].order = None /\ closer'[c].pc = "idle"
  BY <1>c DEF CloserDone, TypeOK, IdleCloser
<1>d. ASSUME NEW pc, ToCloser(c, pc)
      PROVE  /\ closer'[c].order = closer[c].order /\ closer'[c].pc = pc
             /\ closer'[c].qty = closer[c].qty
  BY <1>a, <1>d DEF ToCloser, TypeOK, CloserState
<1>e. ASSUME RetrySubmit(c)
      PROVE  /\ closer'[c].order = closer[c].order
             /\ closer'[c].pc \notin {"query", "stage"}
  <2>1. /\ Attempted(closer[c]).order = closer[c].order
        /\ Attempted(closer[c]).pc \in {"submit", "review"}
    BY <1>a DEF Attempted, CloserState
  <2> QED
    BY <1>e, <2>1 DEF RetrySubmit, TypeOK
<1>f. closer[c].pc \in {"idle", "query", "stage"} => closer[c].order = None
  BY <1>a DEF CloserState
<1>g. closer[c].pc \in {"precancel", "submit", "ack", "review"} =>
        closer[c].order \in Orders
  BY <1>a DEF CloserState
<1> USE DEF CloserActs, CloserHolds
<1>1. CASE CloseStart(c)
  <2>1. closer'[c].pc = "query" /\ closer'[c].qty = pos.qty
    BY <1>1 DEF CloseStart, Querying, IdleCloser, TypeOK
  <2>2. pos.status = "open"
    BY <1>1 DEF CloseStart, TypeOK, Position
  <2>3. closer[c].order = None
    BY <1>1, <1>f DEF CloseStart
  <2> QED
    BY <1>1, <1>b, <2>1, <2>2, <2>3, Spent DEF CloseStart
<1>2. CASE CloseQuery(c)
  <2>1. /\ closer'[c].qty = closer[c].qty /\ closer[c].pc = "query"
        /\ closer[c].order = None
    BY <1>2, <1>d, <1>f DEF CloseQuery
  <2> QED
    BY <1>2, <1>b, <2>1, Spent DEF CloseQuery
<1>3. CASE CloseSkip(c)
  <2>1. closer'[c].pc = "idle" /\ closer[c].order = None
    BY <1>3, <1>c, <1>f DEF CloseSkip
  <2> QED
    BY <1>3, <1>b, <2>1, Spent DEF CloseSkip
<1>4. ASSUME NEW o \in Orders, CloseStage(c, o) PROVE CloserActs(c)
  <2>1. PICK coid \in {"null", "set"} :
          /\ IF coid = "set" THEN UNCHANGED budget ELSE Crash
          /\ rows' = [rows EXCEPT ![o] = StagedRow(closer[c].qty, coid)]
    BY <1>4 DEF CloseStage
  <2>2. Spends /\ (coid = "null" => Struck)
    BY <2>1, Spent
  <2>3. \A p \in Orders : CloserWrites(c, p)
    <3>1. closer[c].pc = "stage" /\ rows[o].status = "absent"
      BY <1>4 DEF CloseStage
    <3>2. /\ rows'[o] = StagedRow(closer[c].qty, coid)
          /\ \A p \in Orders \ {o} : rows'[p] = rows[p]
      BY <1>a, <2>1
    <3> QED
      BY <2>2, <3>1, <3>2 DEF CloserWrites
  <2>4. closer'[c].pc = "precancel" /\ closer[c].order = None
    BY <1>4, <1>a, <1>f DEF CloseStage, Holding, CloserState, TypeOK
  <2>5. held' = held /\ broker' = broker
    BY <1>4 DEF CloseStage
  <2> QED
    BY <2>2, <2>3, <2>4, <2>5
<1>5. CASE ClosePreCancel(c)
  <2>1. \A o \in Orders :
          broker'[o].state = "filled" => broker'[o] = broker[o]
    <3> SUFFICES ASSUME NEW o \in Orders, broker'[o] # broker[o]
                 PROVE  broker'[o].state # "filled"
      OBVIOUS
    <3>1. broker[o] \in BrokerOrder
      BY DEF TypeOK
    <3>2. broker'[o] = [broker[o] EXCEPT !.state = "canceled"]
      BY <1>5 DEF ClosePreCancel
    <3> QED
      BY <3>1, <3>2 DEF BrokerOrder
  <2>2. closer'[c].order = closer[c].order /\ closer'[c].pc = "submit"
    BY <1>5, <1>d DEF ClosePreCancel
  <2> QED
    BY <1>5, <1>b, <2>1, <2>2, Spent DEF ClosePreCancel
<1>6. CASE SubmitAccepted(c) \/ SubmitLost(c)
  <2>1. closer'[c].order = closer[c].order /\ closer'[c].pc \notin {"query", "stage"}
    BY <1>6, <1>d, <1>e DEF SubmitAccepted, SubmitLost
  <2>2. \/ broker' = broker
        \/ broker' = [broker EXCEPT ![closer[c].order] = NewOrder]
    BY <1>6 DEF SubmitAccepted, SubmitLost
  <2>3. \A o \in Orders :
          broker'[o].state = "filled" => broker'[o] = broker[o]
    BY <2>2 DEF NewOrder, TypeOK
  <2> QED
    BY <1>6, <1>b, <2>1, <2>3, Spent DEF SubmitAccepted, SubmitLost
<1>7. CASE SubmitRejected(c)
  <2>1. closer'[c].order = closer[c].order /\ closer'[c].pc = "review"
    BY <1>7, <1>d DEF SubmitRejected
  <2> QED
    BY <1>7, <1>b, <2>1, Spent DEF SubmitRejected
<1>8. CASE SubmitMismatch(c)
  <2>1. closer'[c].pc = "idle"
    BY <1>8, <1>c DEF SubmitMismatch
  <2>2. held = 0 /\ (broker[closer[c].order].state = "none" \/ ~DuplicateIdFirst)
    BY <1>8 DEF SubmitMismatch
  <2> QED
    BY <1>8, <1>b, <2>1, <2>2, Spent DEF SubmitMismatch
<1>9. CASE CloseCrash(c)
  <2>1. closer'[c].pc = "idle"
    BY <1>9, <1>c DEF CloseCrash
  <2> QED
    BY <1>9, <1>b, <2>1, Spent DEF CloseCrash
<1>10. CASE SubmitDuplicate(c) \/ CloseAck(c) \/ CloseReview(c)
  <2> DEFINE o == closer[c].order
  <2>1. o \in Orders
    BY <1>10, <1>g DEF SubmitDuplicate, CloseAck, CloseReview
  <2>2. \/ rows' = rows
        \/ \E n : rows' = [rows EXCEPT ![o] = Submitted(rows[o], n)]
        \/ rows' = [rows EXCEPT
                      ![o] = Answered(rows[o], "needs_manual_review", 0)]
    BY <1>10 DEF SubmitDuplicate, CloseAck, CloseReview
  <2>3. \A p \in Orders : CloserWrites(c, p)
    BY <1>a, <2>1, <2>2 DEF CloserWrites
  <2>4. /\ closer'[c].pc \notin {"query", "stage"}
        /\ Spends /\ held' = held /\ broker' = broker
    BY <1>10, <1>c, <1>d, <1>e, Spent
       DEF SubmitDuplicate, CloseAck, CloseReview
  <2>5. ASSUME rows' = rows, rows[o].status = "staged"
        PROVE  closer'[c].order = o \/ Struck
    <3>1. \A n : /\ [rows EXCEPT ![o] = Submitted(rows[o], n)] # rows
                 /\ [rows EXCEPT ![o] =
                       Answered(rows[o], "needs_manual_review", n)] # rows
      BY <1>a, <2>1, <2>5, RowFields
    <3> HIDE DEF o
    <3>2. CASE CloseReview(c)
      BY <2>5, <3>1, <3>2, Spent DEF CloseReview, o
    <3>3. CASE SubmitDuplicate(c) \/ CloseAck(c)
      BY <2>5, <3>1, <3>3, <1>d, <1>e DEF SubmitDuplicate, CloseAck, o
    <3> QED
      BY <1>10, <3>2, <3>3
  <2> QED
    BY <2>3, <2>4, <2>5
<1> QED
  BY <1>1, <1>2, <1>3, <1>4, <1>5, <1>6, <1>7, <1>8, <1>9, <1>10 DEF CloseStep

(* What a run of the order sync writes, and over which row.                *)
SyncFiles(s, o) ==
  \/ rows'[o] = rows[o]
  \/ /\ o = sync[s].order
     /\ \/ /\ sync[s].pc \in Asking
           /\ \E st : /\ rows'[o] = Observed(rows[o], st, sync[s].seen.fill)
                      /\ st # "absent" /\ st # "staged"
                      /\ st = "filled" => sync[s].seen.state = "filled"
        \/ \E n : rows'[o] = Submitted(rows[o], n)
        \/ rows'[o] = Cancelled(rows[o], "fresh")

SyncLinks(s) ==
  /\ sync'[s].pc \in Asking \cup {"poll"} =>
       \A o \in sync'[s].todo : rows[o].alp = "set"
  /\ sync'[s].pc \in Asking => rows[sync'[s].order].alp = "set"

SyncActs(s) ==
  /\ Spends /\ held' = held
  /\ \A o \in Orders : SyncFiles(s, o)
  /\ \A o \in Orders : broker'[o].state = "filled" => broker'[o] = broker[o]
  /\ SyncLinks(s)

LEMMA SyncFacts ==
  ASSUME TypeOK, Spending, Linked, NEW s \in Syncs,
         SyncStart(s) \/ SyncStep(s) \/ SyncCrash(s)
  PROVE  SyncActs(s)
<1>a. sync[s] \in SyncState /\ rows \in [Orders -> Row]
  BY DEF TypeOK
<1>b. rows' = rows => \A o \in Orders : SyncFiles(s, o)
  BY DEF SyncFiles
<1>c. ASSUME NEW pc, NEW T, Phase(s, pc, T)
      PROVE  sync'[s].pc = pc /\ sync'[s].todo = T
  BY <1>c DEF Phase, TypeOK, Looping, IdleSync
<1>d. ASSUME NEW pc, NextRow(s, pc)
      PROVE  sync'[s].pc = pc /\ sync'[s].todo = sync[s].todo \ {sync[s].order}
  BY <1>d DEF NextRow, TypeOK, Looping, IdleSync
<1>e. ASSUME NEW o \in Orders, NEW pc, Look(s, o, pc)
      PROVE  /\ sync'[s].pc = pc /\ sync'[s].todo = sync[s].todo
             /\ sync'[s].order = o
  <2>1. sync'[s] = Looking(sync[s], o, pc, broker[o])
    BY <1>e DEF Look, TypeOK
  <2>2. Looking(sync[s], o, pc, broker[o]).pc = pc
    BY <1>a DEF Looking, SyncState
  <2> QED
    BY <1>a, <2>1, <2>2, SyncFields
<1>f. ASSUME NEW pc, sync' = [sync EXCEPT ![s] = [sync[s] EXCEPT !.pc = pc]]
      PROVE  /\ sync'[s].pc = pc /\ sync'[s].todo = sync[s].todo
             /\ sync'[s].order = sync[s].order
  <2>1. sync'[s] = [sync[s] EXCEPT !.pc = pc]
    BY <1>f DEF TypeOK
  <2>2. [sync[s] EXCEPT !.pc = pc].pc = pc
    BY <1>a DEF SyncState
  <2> QED
    BY <1>a, <2>1, <2>2, SyncFields
<1>g. sync' = [sync EXCEPT ![s] = IdleSync] => sync'[s].pc = "idle"
  BY DEF TypeOK, IdleSync
<1>h. sync[s].pc \in Asking \cup {"found"} => sync[s].order \in Orders
  BY <1>a DEF SyncState, Asking
<1>i. /\ sync[s].pc \in Asking \cup {"poll"} =>
           \A o \in sync[s].todo : rows[o].alp = "set"
      /\ sync[s].pc \in Asking => rows[sync[s].order].alp = "set"
  BY DEF Linked
<1>1. CASE SyncStart(s)
  <2>1. sync'[s].pc = "poll" /\ sync'[s].todo = Polled
    BY <1>1, <1>c DEF SyncStart
  <2>2. SyncLinks(s)
    BY <2>1 DEF SyncLinks, Polled, Asking
  <2> QED
    BY <1>1, <1>b, <2>2, Spent DEF SyncStart, SyncActs
<1>2. CASE StartLost(s) \/ StartStuck(s) \/ SyncEnd(s) \/ SyncCrash(s)
  <2>1. sync'[s].pc \in {"lost", "stuck", "idle"}
    BY <1>2, <1>c, <1>g DEF StartLost, StartStuck, SyncEnd, SyncCrash
  <2>2. SyncLinks(s)
    BY <2>1 DEF SyncLinks, Asking
  <2> QED
    BY <1>2, <1>b, <2>2, Spent
       DEF StartLost, StartStuck, SyncEnd, SyncCrash, SyncActs
<1>3. ASSUME NEW o \in Orders, PollFetch(s, o) \/ LostLookup(s, o)
                               \/ StuckClose(s, o)
      PROVE  SyncActs(s)
  <2>1. CASE PollFetch(s, o)
    <3>1. /\ sync'[s].todo = sync[s].todo /\ sync'[s].order = o
          /\ o \in sync[s].todo /\ sync[s].pc = "poll"
      BY <2>1, <1>e DEF PollFetch
    <3>2. SyncLinks(s)
      BY <3>1, <1>i DEF SyncLinks
    <3> QED
      BY <2>1, <1>b, <3>2, Spent DEF PollFetch, SyncActs
  <2>2. CASE LostLookup(s, o) \/ StuckClose(s, o)
    <3>1. sync'[s].pc \in {"found", "stuck"}
      BY <2>2, <1>c, <1>e DEF LostLookup, StuckClose
    <3>2. SyncLinks(s)
      BY <3>1 DEF SyncLinks, Asking
    <3> QED
      BY <2>2, <1>b, <3>2, Spent DEF LostLookup, StuckClose, SyncActs
  <2> QED
    BY <1>3, <2>1, <2>2
<1>4. CASE Watchdog(s)
  <2> DEFINE o == sync[s].order
  <2>1. o \in Orders /\ sync[s].pc \in Asking
    BY <1>4, <1>h DEF Watchdog, Asking
  <2>2. broker[o] \in BrokerOrder
    BY <2>1 DEF TypeOK
  <2>3. \A p \in Orders :
          broker'[p].state = "filled" => broker'[p] = broker[p]
    <3>1. \/ broker' = broker
          \/ broker' = [broker EXCEPT ![o] =
                          [broker[o] EXCEPT !.state = "canceled"]]
      BY <1>4, <2>1 DEF Watchdog, TypeOK
    <3>2. [broker[o] EXCEPT !.state = "canceled"].state = "canceled"
      BY <2>2 DEF BrokerOrder
    <3> QED
      BY <2>1, <3>1, <3>2 DEF TypeOK
  <2>4. sync'[s].todo = sync[s].todo /\ sync'[s].order = o
    BY <1>4, <1>f DEF Watchdog
  <2>5. SyncLinks(s)
    BY <2>1, <2>4, <1>i DEF SyncLinks
  <2> QED
    BY <1>4, <1>b, <2>3, <2>5, Spent DEF Watchdog, SyncActs
<1>5. CASE Refetch(s)
  <2>1. sync[s].order \in Orders /\ sync[s].pc \in Asking
    BY <1>5, <1>h DEF Refetch, Asking
  <2>2. sync'[s].todo = sync[s].todo /\ sync'[s].order = sync[s].order
    BY <1>5, <1>e, <2>1 DEF Refetch
  <2>3. SyncLinks(s)
    BY <2>1, <2>2, <1>i DEF SyncLinks
  <2> QED
    BY <1>5, <1>b, <2>3, Spent DEF Refetch, SyncActs
<1>6. CASE PollCommit(s) \/ PollError(s)
  <2>1. sync[s].pc \in Asking
    BY <1>6 DEF PollCommit, PollError, Asking
  <2>2. /\ sync'[s].pc = "poll"
        /\ sync'[s].todo = sync[s].todo \ {sync[s].order}
    BY <1>6, <1>d DEF PollCommit, PollError
  <2>3. SyncLinks(s)
    BY <2>1, <2>2, <1>i DEF SyncLinks, Asking
  <2> QED
    BY <1>6, <1>b, <2>3, Spent DEF PollCommit, PollError, SyncActs
<1>7. CASE PollWrite(s)
  <2> DEFINE o == sync[s].order
             seen == sync[s].seen
             clean == [state |-> "canceled", fill |-> 0]
             st == IF sync[s].pc = "write" /\ seen = clean
                   THEN "watchdog_cancelled" ELSE InternalStatus(seen)
  <2>1. o \in Orders /\ sync[s].pc \in Asking
    BY <1>7, <1>h DEF PollWrite, Asking
  <2>2. rows' = [rows EXCEPT ![o] = Observed(rows[o], st, seen.fill)]
    BY <1>7 DEF PollWrite
  <2>3. /\ st # "absent" /\ st # "staged"
        /\ st = "filled" => seen.state = "filled"
    BY DEF InternalStatus
  <2> HIDE DEF st
  <2>4. \A p \in Orders : SyncFiles(s, p)
    BY <1>a, <2>1, <2>2, <2>3 DEF SyncFiles
  <2>5. /\ sync'[s].todo \subseteq sync[s].todo
        /\ sync'[s].pc = "poll" \/ sync'[s].order = o
    BY <1>7, <1>d, <1>f DEF PollWrite
  <2>6. SyncLinks(s)
    BY <2>1, <2>5, <1>i DEF SyncLinks, Asking
  <2> QED
    BY <1>7, <2>4, <2>6, Spent DEF PollWrite, SyncActs
<1>8. CASE LostResolve(s) \/ LostError(s)
  <2> DEFINE o == sync[s].order
  <2>1. o \in Orders
    BY <1>8, <1>h DEF LostResolve, LostError
  <2>2. \/ rows' = rows
        \/ \E n : rows' = [rows EXCEPT ![o] = Submitted(rows[o], n)]
        \/ rows' = [rows EXCEPT ![o] = Cancelled(rows[o], "fresh")]
    BY <1>8 DEF LostResolve, LostError
  <2>3. \A p \in Orders : SyncFiles(s, p)
    BY <1>a, <2>1, <2>2 DEF SyncFiles
  <2>4. sync'[s].pc = "lost"
    BY <1>8, <1>d DEF LostResolve, LostError
  <2>5. SyncLinks(s)
    BY <2>4 DEF SyncLinks, Asking
  <2> QED
    BY <1>8, <2>3, <2>5, Spent DEF LostResolve, LostError, SyncActs
<1> QED
  BY <1>1, <1>2, <1>3, <1>4, <1>5, <1>6, <1>7, <1>8 DEF SyncStep

-----------------------------------------------------------------------------
(* A row that stays, one that is rewritten and one that is inserted.       *)

Same(o) ==
  /\ rows'[o].status = rows[o].status /\ rows'[o].qty = rows[o].qty
  /\ rows'[o].coid = rows[o].coid /\ rows'[o].alp = rows[o].alp
  /\ rows'[o].filled = rows[o].filled /\ rows'[o].resp = rows[o].resp

LEMMA TracedStays ==
  ASSUME TypeOK, NEW o \in Orders, Traced(o), Spends, Same(o),
         broker[o].state = "filled" => broker'[o] = broker[o],
         broker'[o].state = "filled" => broker'[o].fill = Qty,
         broker'[o].state # "none" => rows[o].status # "absent",
         rows[o].status = "staged" /\ broker'[o].state # "none" => Tended(o)'
  PROVE  Traced(o)'
<1>1. rows'[o].coid = "null" /\ rows'[o].status # "absent" =>
        budget'.crashes < MaxCrashes
  BY LiveAssumption DEF Traced, Same, Spends, TypeOK
<1> QED
  BY <1>1 DEF Traced, Same

LEMMA TracedFiled ==
  ASSUME TypeOK, NEW o \in Orders, Traced(o), Spends, broker'[o] = broker[o],
         rows[o].status # "absent",
         rows'[o].status # "absent", rows'[o].status # "staged",
         rows'[o].qty = rows[o].qty, rows'[o].coid = rows[o].coid,
         rows'[o].status = "partial" => rows'[o].alp = "set",
         rows'[o].status = "filled" =>
           broker[o].state = "filled" /\ rows'[o].filled = Qty
             /\ rows'[o].resp = Qty
  PROVE  Traced(o)'
<1>1. rows'[o].coid = "null" => budget'.crashes < MaxCrashes
  BY LiveAssumption DEF Traced, Spends, TypeOK
<1> QED
  BY <1>1 DEF Traced

LEMMA TracedStaged ==
  ASSUME NEW o \in Orders, Traced(o), broker'[o] = broker[o],
         rows[o].status = "absent",
         NEW coid, rows'[o] = StagedRow(Qty, coid), coid = "null" => Struck
  PROVE  Traced(o)'
<1>1. /\ StagedRow(Qty, coid).status = "staged"
      /\ StagedRow(Qty, coid).qty = Qty /\ StagedRow(Qty, coid).coid = coid
  BY DEF StagedRow, NoRow
<1> QED
  BY <1>1 DEF Traced, Struck

-----------------------------------------------------------------------------
(* Every step keeps the traces.                                            *)

(* A run of _close_position.                                               *)
LEMMA CloserTraces ==
  ASSUME TypeOK, Whole, Remembered, Traces, NEW c \in Closers,
         CloseStart(c) \/ CloseStep(c) \/ CloseCrash(c)
  PROVE  Traces'
<1>a. /\ sync' = sync
      /\ \A d \in Closers \ {c} : closer'[d] = closer[d]
      /\ \/ CloserStages(c) \/ CloserKeeps(c)
         \/ CloserSubmits(c) \/ CloserFiles(c)
  BY CloserMoves
<1>b. CloserActs(c)
  BY CloserFacts DEF Traces
<1>c. None \notin Orders /\ closer[c].order \in Orders \cup {None}
  BY LiveAssumption DEF TypeOK, CloserState
<1>d. rows \in [Orders -> Row] /\ closer \in [Closers -> CloserState]
  BY DEF TypeOK
<1>1. Sized'
  BY <1>a, <1>b DEF CloserActs, Sized, Traces, Whole, Uncut
<1>2. \A o \in Orders : rows'[o] = rows[o] \/ Early(rows[o])
  <2> SUFFICES ASSUME NEW o \in Orders, o = closer[c].order
               PROVE  Early(rows[o])
    BY <1>b DEF CloserActs, CloserWrites, Early
  <2> QED
    BY <1>c DEF Remembered, Exclusive, Early
<1>3. Linked'
  <2>1. \A s \in Syncs : \A o \in sync[s].todo : o \in Orders
    BY DEF TypeOK, SyncState
  <2>2. \A s \in Syncs : sync[s].pc \in Asking => sync[s].order \in Orders
    BY DEF TypeOK, SyncState, Asking
  <2>3. \A s \in Syncs : \A o \in sync[s].todo : rows'[o] = rows[o]
    BY <1>2, <2>1 DEF Remembered, Watched
  <2>4. \A s \in Syncs :
          sync[s].pc \in Asking => rows'[sync[s].order] = rows[sync[s].order]
    BY <1>2, <1>c, <2>2 DEF Remembered, Watched
  <2> QED
    BY <1>a, <2>3, <2>4 DEF Linked, Traces
<1>4. Spending'
  BY <1>b, LiveAssumption DEF CloserActs, Spends, Spending, Traces, TypeOK
<1>5. ASSUME NEW o \in Orders PROVE Traced(o)'
  <2>a. Traced(o) /\ Spends /\ held' = held
    BY <1>b DEF Traces, CloserActs
  <2>b. broker'[o].state = "filled" => broker'[o] = broker[o]
    BY <1>b DEF CloserActs
  <2>c. /\ broker[o].state = "filled" => broker'[o] = broker[o]
        /\ \/ broker'[o].state = "none" \/ broker[o].state # "none"
           \/ o = closer[c].order /\ closer'[c].order = o
    BY <1>a DEF CloserStages, CloserKeeps, CloserSubmits, CloserFiles, Settles
  <2>1. CASE rows'[o] = rows[o]
    <3>1. Same(o)
      BY <2>1 DEF Same
    <3>2. broker'[o].state = "filled" => broker'[o].fill = Qty
      BY <2>a, <2>b DEF Traced
    <3>3. broker'[o].state # "none" => rows[o].status # "absent"
      <4>1. o = closer[c].order => rows[o].status = "staged"
        BY <1>c DEF Remembered, Exclusive
      <4> QED
        BY <2>a, <2>c, <4>1 DEF Traced
    <3>4. ASSUME rows[o].status = "staged", broker'[o].state # "none"
          PROVE  Tended(o)'
      <4>1. CASE closer'[c].order = o
        BY <4>1 DEF Tended
      <4>2. CASE closer[c].order # o /\ closer'[c].order # o
        <5>1. Tended(o)
          BY <2>a, <2>c, <3>4, <4>2 DEF Traced
        <5>2. budget.crashes < MaxCrashes => budget'.crashes < MaxCrashes
          BY <2>a, LiveAssumption DEF Spends, TypeOK
        <5> QED
          BY <1>a, <2>a, <4>2, <5>1, <5>2 DEF Tended
      <4>3. CASE closer[c].order = o /\ closer'[c].order # o
        <5>1. rows' = rows
          <6>1. CloserKeeps(c) \/ CloserFiles(c) \/ CloserStages(c)
            BY <1>a, <4>3 DEF CloserSubmits
          <6>2. ~CloserFiles(c)
            BY <2>1, <3>4, <4>3 DEF CloserFiles
          <6>3. ~CloserStages(c)
            <7>1. \/ closer[c].pc = "stage"
                  \/ \A p \in Orders : rows[p].status = "absent" =>
                       rows'[p] = rows[p] \/ p = closer[c].order
              BY <1>b DEF CloserActs, CloserWrites
            <7>2. closer[c].pc # "stage"
              BY <1>c, <1>d, <4>3 DEF CloserState
            <7> QED
              BY <7>1, <7>2, <3>4, <4>3 DEF CloserStages
          <6> QED
            BY <6>1, <6>2, <6>3 DEF CloserKeeps
        <5>2. \/ Struck
              \/ held = 0 /\ (broker[o].state = "none" \/ ~DuplicateIdFirst)
          BY <1>b, <1>c, <3>4, <4>3, <5>1 DEF CloserActs, CloserHolds
        <5>3. broker[o].state # "none"
          BY <2>c, <3>4, <4>3
        <5> QED
          BY <2>a, <5>2, <5>3 DEF Tended, Struck
      <4> QED
        BY <4>1, <4>2, <4>3
    <3> QED
      BY <2>a, <2>c, <3>1, <3>2, <3>3, <3>4, TracedStays
  <2>2. CASE rows'[o] # rows[o]
    <3>1. broker' = broker
      BY <1>a, <2>2 DEF CloserStages, CloserKeeps, CloserSubmits, CloserFiles
    <3>2. CASE o = closer[c].order
      <4>1. rows[o].status = "staged"
        BY <1>c, <3>2 DEF Remembered, Exclusive
      <4>2. \/ \E n : rows'[o] = Submitted(rows[o], n)
            \/ rows'[o] = Answered(rows[o], "needs_manual_review", 0)
        BY <1>b, <2>2, <4>1 DEF CloserActs, CloserWrites
      <4>3. /\ rows'[o].qty = rows[o].qty /\ rows'[o].coid = rows[o].coid
            /\ rows'[o].status \in {"submitted", "needs_manual_review"}
        BY <1>d, <4>2, RowFields
      <4> QED
        BY <2>a, <3>1, <4>1, <4>3, TracedFiled
    <3>3. CASE o # closer[c].order
      <4>1. /\ rows[o].status = "absent" /\ closer[c].pc = "stage"
            /\ \E coid \in {"null", "set"} :
                 /\ rows'[o] = StagedRow(closer[c].qty, coid)
                 /\ coid = "null" => Struck
        BY <1>b, <2>2, <3>3 DEF CloserActs, CloserWrites
      <4>2. closer[c].qty = Qty
        BY <4>1 DEF Traces, Sized
      <4> QED
        BY <2>a, <3>1, <4>1, <4>2, TracedStaged
    <3> QED
      BY <3>2, <3>3
  <2> QED
    BY <2>1, <2>2
<1> QED
  BY <1>1, <1>3, <1>4, <1>5 DEF Traces

(* A run of the order sync.                                                *)
LEMMA SyncTraces ==
  ASSUME TypeOK, TypeOK', Remembered, Traces, NEW s \in Syncs,
         SyncStart(s) \/ SyncStep(s) \/ SyncCrash(s)
  PROVE  Traces'
<1>a. /\ closer' = closer
      /\ \A t \in Syncs \ {s} : sync'[t] = sync[t]
      /\ \/ SyncLoops(s) \/ SyncLooks(s)
         \/ SyncCancels(s) \/ SyncWrites(s)
  BY SyncMoves
<1>b. SyncActs(s)
  BY SyncFacts DEF Traces
<1>c. rows \in [Orders -> Row] /\ None \notin Orders
  BY LiveAssumption DEF TypeOK
<1>1. Sized'
  BY <1>a DEF Sized, Traces
<1>2. \A o \in Orders : rows[o].alp = "set" => rows'[o].alp = "set"
  BY <1>b, <1>c, RowFields DEF SyncActs, SyncFiles
<1>3. Linked'
  <2>1. ASSUME NEW t \in Syncs
        PROVE  /\ \A o \in sync'[t].todo : o \in Orders
               /\ sync'[t].pc \in Asking => sync'[t].order \in Orders
    BY DEF TypeOK, SyncState, Asking
  <2>2. SyncLinks(s)
    BY <1>b DEF SyncActs
  <2>3. \A t \in Syncs \ {s} : SyncLinks(t)
    BY <1>a DEF SyncLinks, Linked, Traces
  <2> QED
    BY <1>2, <2>1, <2>2, <2>3 DEF Linked, SyncLinks
<1>4. Spending'
  BY <1>b, LiveAssumption DEF SyncActs, Spends, Spending, Traces, TypeOK
<1>5. ASSUME NEW o \in Orders PROVE Traced(o)'
  <2>a. Traced(o) /\ Spends /\ held' = held
    BY <1>b DEF Traces, SyncActs
  <2>b. broker'[o].state = "filled" => broker'[o] = broker[o]
    BY <1>b DEF SyncActs
  <2>c. /\ broker[o].state = "filled" => broker'[o] = broker[o]
        /\ broker'[o].state # "none" => broker[o].state # "none"
    BY <1>a DEF SyncLoops, SyncLooks, SyncCancels, SyncWrites, Settles
  <2>1. CASE rows'[o] = rows[o]
    <3>1. Same(o)
      BY <2>1 DEF Same
    <3>2. /\ broker'[o].state = "filled" => broker'[o].fill = Qty
          /\ broker'[o].state # "none" => rows[o].status # "absent"
      BY <2>a, <2>b, <2>c DEF Traced
    <3>3. ASSUME rows[o].status = "staged", broker'[o].state # "none"
          PROVE  Tended(o)'
      <4>1. Tended(o)
        BY <2>a, <2>c, <3>3 DEF Traced
      <4>2. budget.crashes < MaxCrashes => budget'.crashes < MaxCrashes
        BY <2>a, LiveAssumption DEF Spends, TypeOK
      <4> QED
        BY <1>a, <2>a, <4>1, <4>2 DEF Tended
    <3> QED
      BY <2>a, <2>c, <3>1, <3>2, <3>3, TracedStays
  <2>2. CASE rows'[o] # rows[o]
    <3>1. o = sync[s].order /\ SyncFiles(s, o)
      BY <1>b, <2>2 DEF SyncActs, SyncFiles
    <3>2. broker' = broker
      BY <1>a, <2>2 DEF SyncLoops, SyncLooks, SyncCancels, SyncWrites
    <3>3. /\ rows[o].status # "absent"
          /\ sync[s].seen.state # "open" => broker[o] = sync[s].seen
      BY <1>c, <3>1 DEF Remembered, Watched, Early
    <3>4. CASE rows'[o].status \in {"submitted", "cancelled"}
               /\ rows'[o].qty = rows[o].qty /\ rows'[o].coid = rows[o].coid
      BY <2>a, <3>2, <3>3, <3>4, TracedFiled
    <3>5. ASSUME sync[s].pc \in Asking, NEW st, st # "absent", st # "staged",
                 rows'[o] = Observed(rows[o], st, sync[s].seen.fill),
                 st = "filled" => sync[s].seen.state = "filled"
          PROVE  Traced(o)'
      <4>1. /\ rows'[o].status = st /\ rows'[o].qty = rows[o].qty
            /\ rows'[o].coid = rows[o].coid /\ rows'[o].alp = rows[o].alp
            /\ rows'[o].resp = sync[s].seen.fill
            /\ sync[s].seen.fill > 0 => rows'[o].filled = sync[s].seen.fill
        BY <1>c, <3>5, RowFields
      <4>2. rows'[o].alp = "set"
        BY <3>1, <3>5, <4>1 DEF Traces, Linked
      <4>3. ASSUME st = "filled"
            PROVE  /\ broker[o].state = "filled"
                   /\ rows'[o].filled = Qty /\ rows'[o].resp = Qty
        <5>1. broker[o] = sync[s].seen /\ broker[o].state = "filled"
          BY <3>3, <3>5, <4>3
        <5>2. sync[s].seen.fill = Qty
          BY <2>a, <5>1 DEF Traced
        <5> QED
          BY <4>1, <5>1, <5>2, LiveAssumption
      <4> QED
        BY <2>a, <3>2, <3>3, <3>5, <4>1, <4>2, <4>3, TracedFiled
    <3> QED
      BY <1>c, <2>2, <3>1, <3>4, <3>5, RowFields DEF SyncFiles
  <2> QED
    BY <2>1, <2>2
<1> QED
  BY <1>1, <1>3, <1>4, <1>5 DEF Traces

(* The broker and the clock.                                               *)
LEMMA WorldTraces ==
  ASSUME TypeOK, Traces, NEW o \in Orders,
         BrokerFill(o) \/ BrokerEnd(o) \/ Age(o)
  PROVE  Traces'
<1>a. closer' = closer /\ sync' = sync /\ Settles
  BY WorldMoves
<1>b. rows \in [Orders -> Row] /\ broker \in [Orders -> BrokerOrder]
  BY DEF TypeOK
<1>c. budget' = budget /\ Spends
  BY Spent DEF BrokerFill, BrokerEnd, Age, Traces
<1>d. \A p \in Orders : Same(p)
  <2>1. CASE BrokerFill(o) \/ BrokerEnd(o)
    BY <2>1 DEF BrokerFill, BrokerEnd, Same
  <2>2. CASE Age(o)
    <3>1. PICK age : rows' = [rows EXCEPT ![o] = [rows[o] EXCEPT !.age = age]]
      BY <2>2 DEF Age
    <3>2. /\ rows'[o] = [rows[o] EXCEPT !.age = age]
          /\ \A p \in Orders \ {o} : rows'[p] = rows[p]
      BY <1>b, <3>1
    <3>3. rows[o] \in Row
      BY <1>b
    <3>4. Same(o)
      BY <3>2, <3>3 DEF Same, Row
    <3> QED
      BY <3>2, <3>4 DEF Same
  <2> QED
    BY <2>1, <2>2
<1>e. held = 0 => held' = 0
  BY DEF BrokerFill, BrokerEnd, Age, TypeOK
<1>1. Sized' /\ Spending'
  BY <1>a, <1>c DEF Traces, Sized, Spending
<1>2. Linked'
  <2>1. \A s \in Syncs : /\ \A p \in sync[s].todo : p \in Orders
                         /\ sync[s].pc \in Asking => sync[s].order \in Orders
    BY DEF TypeOK, SyncState, Asking
  <2> QED
    BY <1>a, <1>d, <2>1 DEF Linked, Traces, Same
<1>3. ASSUME NEW p \in Orders PROVE Traced(p)'
  <2>a. Traced(p)
    BY DEF Traces
  <2>b. /\ broker[p].state = "filled" => broker'[p] = broker[p]
        /\ broker'[p].state # "none" => broker[p].state # "none"
    BY <1>a DEF Settles
  <2>1. broker'[p].state = "filled" => broker'[p].fill = Qty
    <3>1. CASE broker'[p] = broker[p]
      BY <2>a, <3>1 DEF Traced
    <3>2. CASE broker'[p] # broker[p] /\ BrokerFill(o)
      <4>1. PICK n \in 1 .. held :
              broker' = [broker EXCEPT ![o] =
                [state |-> IF @.fill + n = rows[o].qty
                           THEN "filled" ELSE "open",
                 fill |-> @.fill + n]]
        BY <3>2 DEF BrokerFill
      <4>2. p = o /\ (broker'[p].state = "filled" =>
                        broker'[p].fill = rows[o].qty)
        BY <1>b, <3>2, <4>1
      <4>3. broker[o].state = "open"
        BY <3>2 DEF BrokerFill
      <4> QED
        BY <2>a, <4>2, <4>3 DEF Traced
    <3>3. CASE broker'[p] # broker[p] /\ BrokerEnd(o)
      <4>1. PICK st \in {"canceled", "expired"} :
              broker' = [broker EXCEPT ![o] = [broker[o] EXCEPT !.state = st]]
        BY <3>3 DEF BrokerEnd
      <4>2. /\ broker'[p] = [broker[o] EXCEPT !.state = st]
            /\ broker[o] \in BrokerOrder
        BY <1>b, <3>3, <4>1
      <4> QED
        BY <4>2 DEF BrokerOrder
    <3>4. CASE broker'[p] # broker[p] /\ Age(o)
      BY <3>4 DEF Age
    <3> QED
      BY <3>1, <3>2, <3>3, <3>4
  <2>2. rows[p].status = "staged" /\ broker'[p].state # "none" => Tended(p)'
    BY <1>a, <1>c, <1>e, <2>a, <2>b DEF Traced, Tended
  <2>3. broker'[p].state # "none" => rows[p].status # "absent"
    BY <2>a, <2>b DEF Traced
  <2>4. Same(p)
    BY <1>d
  <2> QED
    BY <1>c, <2>a, <2>b, <2>1, <2>2, <2>3, <2>4, TracedStays
<1> QED
  BY <1>1, <1>2, <1>3 DEF Traces

(* The traces are kept.                                                    *)
LEMMA Tracing == ASSUME ~Sweeping PROVE Spec => []Traces
<1>1. Init => Traces
  <2> SUFFICES ASSUME Init PROVE Traces
    OBVIOUS
  <2>1. ASSUME NEW o \in Orders PROVE Traced(o)
    <3>1. CASE o = Gtc
      <4>1. rows[o] = GtcRow /\ broker[o] = NewOrder
        BY <3>1 DEF Init
      <4> QED
        BY <4>1 DEF Traced, GtcRow, NoRow, NewOrder
    <3>2. CASE o # Gtc
      <4>1. rows[o] = NoRow /\ broker[o] = NoOrder
        BY <3>2 DEF Init
      <4> QED
        BY <4>1 DEF Traced, NoRow, NoOrder
    <3> QED
      BY <3>1, <3>2
  <2>2. Sized /\ Linked
    BY DEF Init, Sized, Linked, IdleCloser, IdleSync, Asking
  <2>3. Spending
    BY LiveAssumption DEF Init, Spending
  <2> QED
    BY <2>1, <2>2, <2>3 DEF Traces
<1>2. TypeOK /\ TypeOK' /\ Whole /\ Remembered /\ Traces /\ [Next]_vars
        => Traces'
  <2> SUFFICES ASSUME TypeOK, TypeOK', Whole, Remembered, Traces, [Next]_vars
               PROVE  Traces'
    OBVIOUS
  <2>1. ~SweepStart
    BY DEF SweepStart
  <2>2. ASSUME NEW o \in Orders
        PROVE  ~(SweepStale(o) \/ SweepWorking(o) \/ SweepFill(o)
                   \/ SweepRollback(o))
    BY DEF Whole, SweepStale, SweepWorking, SweepFill, SweepRollback
  <2>3. CASE UNCHANGED vars
    BY <2>3 DEF vars, Traces, Traced, Tended, Sized, Linked, Spending
  <2> QED
    BY <2>1, <2>2, <2>3, CloserTraces, SyncTraces, WorldTraces DEF Next
<1> QED
  BY <1>1, <1>2, TypeCorrect, WholeInvariant, Remembering, PTL DEF Spec

(* Every order open at the broker and every filled close of a position     *)
(* still open in the database stays within reach of the next run of the    *)
(* order sync (Polled, LostSubmits, StartStuck, with the fill that         *)
(* StuckClose will believe), for any number of closing and sync runs at    *)
(* once and any number of lost requests, answers and writes, as long as no *)
(* sweep runs. What is excused needs a crash, or the broker's "position    *)
(* intent mismatch" answer to a client order id it already has.            *)
THEOREM InReach == ASSUME ~Sweeping PROVE Spec => []WithinReach
<1>1. TypeOK /\ Whole /\ Remembered /\ Traces => WithinReach
  <2> SUFFICES ASSUME TypeOK, Whole, Remembered, Traces,
                      pos.status = "open", NEW o \in Orders,
                      \/ broker[o].state = "open"
                      \/ broker[o].state = "filled" /\ rows[o].engine # "gtc",
                      ~\E c \in Closers : closer[c].order = o
               PROVE  \/ o \in Polled \cup LostSubmits
                      \/ /\ rows[o].status = "filled"
                         /\ rows[o].engine = "exit"
                         /\ rows[o].filled > 0 /\ rows[o].resp = pos.qty
                      \/ /\ budget.crashes < MaxCrashes
                         /\ rows[o].status = "staged" \/ rows[o].coid = "null"
                      \/ rows[o].status = "staged" /\ held = 0
                           /\ ~DuplicateIdFirst
    BY DEF WithinReach
  <2>1. Traced(o)
    BY DEF Traces
  <2>2. rows[o] \in Row
    BY DEF TypeOK
  <2>3. rows[o].status # "absent"
    BY <2>1 DEF Traced
  <2>4. rows[o].status \notin {"cancelled", "watchdog_cancelled"}
    <3>1. broker[o].state = "open" \/ broker[o].fill = Qty
      BY <2>1 DEF Traced
    <3> QED
      BY <3>1, LiveAssumption DEF Remembered, NothingForgotten
  <2>5. CASE rows[o].status = "staged"
    BY <2>1, <2>5 DEF Traced, Tended
  <2>6. CASE rows[o].status = "filled"
    <3>1. /\ broker[o].state = "filled"
          /\ rows[o].filled = Qty /\ rows[o].resp = Qty
      BY <2>1, <2>6 DEF Traced
    <3>2. rows[o].engine = "exit"
      BY <2>2, <3>1 DEF Row
    <3> QED
      BY <2>6, <3>1, <3>2, LiveAssumption DEF Whole, Uncut
  <2>7. CASE rows[o].status = "partial"
    BY <2>1, <2>7 DEF Traced, Polled
  <2>8. CASE rows[o].status \in {"submitted", "working", "needs_manual_review"}
    <3>1. rows[o].alp = "set" \/ rows[o].alp = "null"
      BY <2>2 DEF Row
    <3>2. rows[o].coid = "set" \/ rows[o].coid = "null"
      BY <2>2 DEF Row
    <3>3. rows[o].coid = "null" => budget.crashes < MaxCrashes
      BY <2>1, <2>3 DEF Traced
    <3> QED
      BY <2>8, <3>1, <3>2, <3>3 DEF Polled, LostSubmits
  <2> QED
    BY <2>2, <2>3, <2>4, <2>5, <2>6, <2>7, <2>8 DEF Row, OrderStatus
<1> QED
  BY <1>1, TypeCorrect, WholeInvariant, Remembering, Tracing, PTL
=============================================================================
