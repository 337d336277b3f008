--------------------------- MODULE LiveEntryProofs ---------------------------
(***************************************************************************)
(* Theorems about LiveEntry, for every set of suggestions and symbols and  *)
(* every value of the caps, quantities, thresholds and bounds.             *)
(***************************************************************************)
EXTENDS LiveEntry, TLAPS, NaturalsInduction, WellFoundedInduction

-----------------------------------------------------------------------------
(* The row is in the table; written off, its entry may be made again.      *)
Present(o) == orders[o].status # "absent"

WrittenOff(o) ==
  orders[o].status \in {"cancelled", "watchdog_cancelled"} /\ ~orders[o].stale

(* What the worker's job holds at each of its stages. Attempts left; the   *)
(* row in hand, which nobody else touches before the autopilot is done     *)
(* with it; the position a stop was sent for.                              *)
JobFits ==
  /\ job.pc = "pick" \/ job.pc = "stamp" => job.tries = 0
  /\ job.pc = "submit" \/ job.pc = "ack" => job.tries < MaxSubmit
  /\ job.pc = "stamp" \/ job.pc = "submit" \/ job.pc = "ack"
       \/ job.pc = "review" =>
       job.order \in Orders /\ orders[job.order].status = "staged"
  /\ job.pc = "cancel" => job.order \in Orders /\ Present(job.order)
  /\ \A p \in job.polls : Present(p)
  /\ job.pc = "bench" => job.order \in Orders /\ posn[job.order] # "none"

(* Rows are entries of suggestions, and positions belong to rows.          *)
RowsFit ==
  \A o \in Orders :
    /\ Present(o) => orders[o].sug \in Suggestions
    /\ posn[o] # "none" => Present(o)

(* The broker fills what it took, contract by contract.                    *)
BrokerFits ==
  \A o \in Orders :
    /\ broker[o].state = "none" => broker[o].fill = 0
    /\ broker[o].state = "live" => broker[o].fill < Qty

Fits == TypeOK /\ JobFits /\ RowsFit /\ BrokerFits

(* A symbol stopped today is benched, or its cooldown is being written.    *)
BenchComes(y) ==
  job.pc = "bench" /\ job.order \notin strays /\ Of(job.order) = y

StopsHold ==
  "bench" \in troubles \/ \A y \in stopped : Benched(y) \/ BenchComes(y)

(* An outcome is counted once; a window on trial is the one the history    *)
(* remembers, and so is the window that was stamped if it still stands.    *)
WindowsHold ==
  /\ ops.stamp \subseteq {outcomes[i] : i \in DOMAIN outcomes}
  /\ job.pc = "trip" \/ job.pc = "mark" => streak.window = Window
  /\ ops.stamp = Window /\ Window # {} => streak.window = Window

(* A losing window nobody has looked at keeps entries paused, from the     *)
(* trip on.                                                                *)
StreakHolds ==
  \/ troubles \cap {"pause", "read", "crash"} # {}
  \/ ~streak.unseen
  \/ ops.paused
  \/ job.pc = "trip"

-----------------------------------------------------------------------------
(* Lemmas on the values.                                                   *)

(* The constants are numbers.                                              *)
LEMMA Numbers ==
  /\ Qty \in Nat /\ Qty > 0 /\ MaxSubmit \in Nat /\ MaxSubmit > 0
  /\ N \in Nat /\ N > 0 /\ MaxDays \in Nat /\ MaxDays > 0
  /\ Cap \in Nat /\ MaxOrders \in Nat /\ MaxTroubles \in Nat
BY EntryAssumption

(* A set of orders has a first one.                                        *)
LEMMA FirstOrder ==
  ASSUME NEW S, S \subseteq Orders, S # {}
  PROVE  Min(S) \in S
<1>1. S \subseteq Nat
  BY Numbers DEF Orders
<1> DEFINE Less == OpToRel(<, Nat)
<1>2. IsWellFoundedOn(Less, Nat)
  BY NatLessThanWellFounded
<1>3. \A i, j \in Nat : i < j => <<i, j>> \in Less
  BY DEF OpToRel
<1> HIDE DEF Less
<1>4. PICK x \in S : \A y \in S : <<y, x>> \notin Less
  BY <1>1, <1>2, WFMin
<1>5. ASSUME NEW y \in S PROVE x <= y
  <2>1. x \in Nat /\ y \in Nat
    BY <1>1
  <2>2. ~(y < x)
    BY <1>3, <1>4, <2>1
  <2> QED
    BY <2>1, <2>2
<1> QED
  BY <1>5 DEF Min

(* What the poll writes.                                                   *)
LEMMA MirroredRow ==
  ASSUME TypeOK, BrokerFits, NEW o \in Orders
  PROVE  /\ Mirrored(o) \in OrderRow
         /\ Mirrored(o).sug = orders[o].sug
         /\ Mirrored(o).status = StatusOf(broker[o])
         /\ StatusOf(broker[o]) # "absent"
         /\ StatusOf(broker[o]) # "watchdog_cancelled"
         /\ StatusOf(broker[o]) = "cancelled" => ~Exposed(o)
<1>1. orders[o] \in OrderRow /\ broker[o] \in BrokerRow
  BY DEF TypeOK
<1>2. broker[o].fill \in 0..Qty /\ orders[o].filled \in 0..Qty
  BY <1>1 DEF BrokerRow, OrderRow
<1>3. /\ StatusOf(broker[o]) \in {"working", "partial", "filled",
                                  "needs_manual_review", "cancelled"}
      /\ StatusOf(broker[o]) = "cancelled" =>
           broker[o].state # "live" /\ ~(broker[o].fill > 0)
  <2>1. /\ broker[o].state \in {"none", "live", "filled", "ended"}
        /\ broker[o].fill \in Nat
        /\ broker[o].state = "none" => broker[o].fill = 0
    BY <1>1, <1>2, Numbers DEF BrokerRow, BrokerFits
  <2>2. broker[o].fill = 0 \/ broker[o].fill > 0
    BY <2>1
  <2>3. CASE broker[o].fill = 0
    BY <2>1, <2>3 DEF StatusOf
  <2>4. CASE broker[o].fill > 0
    BY <2>1, <2>4 DEF StatusOf
  <2> QED
    BY <2>2, <2>3, <2>4
<1> DEFINE st == StatusOf(broker[o])
           n == IF broker[o].fill > 0 THEN broker[o].fill ELSE orders[o].filled
<1>4. n \in 0..Qty
  BY <1>2
<1>5. Mirrored(o) = [orders[o] EXCEPT !.status = st, !.filled = n,
                                      !.stale = FALSE]
  BY DEF Mirrored
<1>6. st \in {"working", "partial", "filled", "needs_manual_review", "cancelled"}
  BY <1>3
<1> HIDE DEF st, n
<1>7. /\ Mirrored(o) \in OrderRow
      /\ Mirrored(o).sug = orders[o].sug /\ Mirrored(o).status = st
  BY <1>1, <1>4, <1>5, <1>6 DEF OrderRow
<1> QED
  BY <1>3, <1>7 DEF st, Exposed

-----------------------------------------------------------------------------
(* What a step may do to the rows, to the positions and at the broker.     *)

(* A row stays in the table, its suggestion's, and is written off only     *)
(* when the broker has nothing of it.                                      *)
Kept(o) ==
  /\ orders'[o].sug = orders[o].sug
  /\ Present(o)' <=> Present(o)
  /\ WrittenOff(o)' => WrittenOff(o) \/ ~Exposed(o)

Keeps == orders' \in [Orders -> OrderRow] /\ \A o \in Orders : Kept(o)

(* A position is opened for a row of the table and never forgotten.        *)
Books ==
  /\ posn' \in [Orders -> {"none", "open", "closing", "won", "lost"}]
  /\ \A o \in Orders :
       /\ posn[o] # "none" => posn'[o] # "none"
       /\ posn'[o] # "none" => posn[o] # "none" \/ Present(o)

(* The broker has something of an order only by a submission.              *)
Trades ==
  /\ broker' \in [Orders -> BrokerRow]
  /\ BrokerFits'
  /\ \A o \in Orders :
       Exposed(o)' => Exposed(o) \/ (job.pc = "submit" /\ o = job.order)

(* One row is rewritten.                                                   *)
LEMMA SetKeeps ==
  ASSUME TypeOK, NEW o \in Orders, NEW row \in OrderRow, Set(o, row),
         row.sug = orders[o].sug, row.status # "absent", Present(o),
         (row.status \in {"cancelled", "watchdog_cancelled"} /\ ~row.stale) =>
            WrittenOff(o) \/ ~Exposed(o)
  PROVE  Keeps
<1>1. orders \in [Orders -> OrderRow]
  BY DEF TypeOK
<1>2. orders' = [orders EXCEPT ![o] = row]
  BY DEF Set
<1>3. orders' \in [Orders -> OrderRow]
  BY <1>1, <1>2
<1>4. Kept(o)
  <2>1. orders'[o] = row
    BY <1>1, <1>2
  <2> QED
    BY <2>1 DEF Kept, Present, WrittenOff
<1>5. ASSUME NEW p \in Orders, p # o PROVE Kept(p)
  <2>1. orders'[p] = orders[p]
    BY <1>1, <1>2, <1>5
  <2> QED
    BY <2>1 DEF Kept, Present, WrittenOff
<1> QED
  BY <1>3, <1>4, <1>5 DEF Keeps

(* Nothing is rewritten.                                                   *)
LEMMA SameKeeps == ASSUME TypeOK, UNCHANGED orders PROVE Keeps
BY DEF TypeOK, Keeps, Kept, Present, WrittenOff

(* The autopilot's own updates.                                            *)
LEMMA AutopilotKeeps ==
  ASSUME Fits, Stamp \/ Ack \/ Review
  PROVE  Keeps
<1> DEFINE o == job.order
<1>1. /\ o \in Orders /\ orders[o].status = "staged"
      /\ orders[o] \in OrderRow /\ TypeOK
  BY DEF Fits, JobFits, TypeOK, Stamp, Ack, Review
<1>2. CASE UNCHANGED orders
  BY <1>1, <1>2, SameKeeps
<1>3. CASE Set(o, [orders[o] EXCEPT !.coid = TRUE])
  <2> DEFINE row == [orders[o] EXCEPT !.coid = TRUE]
  <2>1. row \in OrderRow /\ row.sug = orders[o].sug /\ row.status = "staged"
    BY <1>1 DEF OrderRow
  <2>2. Set(o, row)
    BY <1>3
  <2> HIDE DEF row, o
  <2> QED
    BY <1>1, <2>1, <2>2, SetKeeps DEF Present
<1>4. CASE Set(o, Submitted(o))
  <2> DEFINE row == Submitted(o)
  <2>1. row \in OrderRow /\ row.sug = orders[o].sug /\ row.status = "submitted"
    BY <1>1 DEF OrderRow, Submitted
  <2>2. Set(o, row)
    BY <1>4
  <2> HIDE DEF row, o
  <2> QED
    BY <1>1, <2>1, <2>2, SetKeeps DEF Present
<1>5. CASE Set(o, [orders[o] EXCEPT !.status = "needs_manual_review"])
  <2> DEFINE row == [orders[o] EXCEPT !.status = "needs_manual_review"]
  <2>1. /\ row \in OrderRow /\ row.sug = orders[o].sug
        /\ row.status = "needs_manual_review"
    BY <1>1 DEF OrderRow
  <2>2. Set(o, row)
    BY <1>5
  <2> HIDE DEF row, o
  <2> QED
    BY <1>1, <2>1, <2>2, SetKeeps DEF Present
<1> QED
  BY <1>2, <1>3, <1>4, <1>5 DEF Stamp, Ack, Review

(* What the sync writes of one polled row, and the age of a row.           *)
LEMMA SyncKeeps ==
  ASSUME Fits,
         Refetch \/ \E o \in Orders : Poll(o) \/ Older(o)
  PROVE  Keeps
<1> TypeOK /\ BrokerFits
  BY DEF Fits
<1>1. ASSUME NEW o \in Orders, Present(o), Set(o, Mirrored(o)) PROVE Keeps
  <2>1. \/ Mirrored(o).status \notin {"cancelled", "watchdog_cancelled"}
        \/ ~Exposed(o)
    BY MirroredRow
  <2> QED
    BY <1>1, <2>1, SetKeeps, MirroredRow
<1>2. ASSUME NEW o \in Orders, Poll(o) PROVE Keeps
  BY <1>1, <1>2 DEF Poll, Reconcile, Fits, JobFits
<1>3. CASE Refetch
  <2> DEFINE o == job.order
  <2>1. o \in Orders /\ Present(o) /\ orders[o] \in OrderRow
    BY <1>3 DEF Refetch, Fits, JobFits, TypeOK
  <2>2. CASE broker[o] = [state |-> "ended", fill |-> 0]
    <3>1. Set(o, [orders[o] EXCEPT !.status = "watchdog_cancelled"])
      BY <1>3, <2>2 DEF Refetch, Refetched
    <3>2. ~Exposed(o)
      BY <2>2 DEF Exposed
    <3> DEFINE row == [orders[o] EXCEPT !.status = "watchdog_cancelled"]
    <3>3. /\ row \in OrderRow /\ row.sug = orders[o].sug
          /\ row.status = "watchdog_cancelled"
      BY <2>1 DEF OrderRow
    <3>4. Set(o, row)
      BY <3>1
    <3> HIDE DEF row, o
    <3> QED
      BY <2>1, <3>2, <3>3, <3>4, SetKeeps
  <2>3. CASE broker[o] # [state |-> "ended", fill |-> 0]
    <3>1. Set(o, Mirrored(o))
      BY <1>3, <2>3 DEF Refetch, Refetched, Reconcile
    <3> QED
      BY <1>1, <2>1, <3>1
  <2> QED
    BY <2>2, <2>3
<1>4. ASSUME NEW o \in Orders, Older(o) PROVE Keeps
  <2>1. orders[o] \in OrderRow
    BY DEF TypeOK
  <2>2. PICK a \in {"idle", "old"} : Set(o, [orders[o] EXCEPT !.age = a])
    BY <1>4 DEF Older
  <2> DEFINE row == [orders[o] EXCEPT !.age = a]
  <2>3. /\ row \in OrderRow /\ row.sug = orders[o].sug
        /\ row.status = orders[o].status
    BY <2>1 DEF OrderRow
  <2>4. Set(o, row)
    BY <2>2
  <2>5. Present(o) /\ orders[o].status \notin {"cancelled", "watchdog_cancelled"}
    BY <1>4 DEF Older, Present
  <2> HIDE DEF row
  <2> QED
    BY <2>3, <2>4, <2>5, SetKeeps DEF Present
<1> QED
  BY <1>2, <1>3, <1>4

(* The position a fill goes to is a row's.                                 *)
LEMMA HomeIsRow ==
  ASSUME TypeOK, NEW booked \in SUBSET Orders, NEW o \in booked
  PROVE  Home(o, booked) \in 0..MaxOrders
<1> DEFINE kin == {p \in Orders : orders[p].sug = orders[o].sug}
           open == {p \in kin : InBook(p)}
<1>1. orders[o].link \in 0..MaxOrders
  BY DEF TypeOK, OrderRow
<1>2. open # {} => Min(open) \in Orders
  <2> SUFFICES ASSUME open # {} PROVE Min(open) \in Orders
    OBVIOUS
  <2>1. open \subseteq Orders
    OBVIOUS
  <2> HIDE DEF open
  <2> QED
    BY <2>1, FirstOrder
<1>3. Min(kin \cap booked) \in Orders
  <2>1. kin \cap booked \subseteq Orders /\ o \in kin \cap booked
    OBVIOUS
  <2> DEFINE both == kin \cap booked
  <2>2. both \subseteq Orders /\ both # {}
    BY <2>1
  <2> HIDE DEF both, kin
  <2>3. Min(both) \in Orders
    BY <2>2, FirstOrder
  <2> QED
    BY <2>3 DEF both
<1>4. Home(o, booked) = IF orders[o].link # 0 THEN orders[o].link
                        ELSE IF open # {} THEN Min(open) ELSE Min(kin \cap booked)
  BY DEF Home
<1>5. Orders \subseteq 0..MaxOrders
  BY DEF Orders
<1> HIDE DEF open, kin
<1> QED
  BY <1>1, <1>2, <1>3, <1>4, <1>5

(* A row after its simulated fill.                                         *)
LEMMA SimulatedRow ==
  ASSUME TypeOK, NEW o \in InFlight, NEW got \in 0..Qty, NEW home,
         got > orders[o].filled => home \in 0..MaxOrders
  PROVE  /\ Simulated(o, got, home) \in OrderRow
         /\ Simulated(o, got, home).sug = orders[o].sug
         /\ Simulated(o, got, home).status \in {"filled", "partial", "working"}
<1>1. o \in Orders /\ orders[o] \in OrderRow
  BY DEF TypeOK, InFlight
<1>2. orders[o].status \in {"staged", "working", "partial"}
  BY DEF InFlight
<1>3. CASE got > orders[o].filled
  <2> DEFINE st == IF got = Qty THEN "filled" ELSE "partial"
             row == [orders[o] EXCEPT !.filled = got, !.link = home,
                                      !.status = st]
  <2>1. st \in {"filled", "partial"}
    OBVIOUS
  <2>2. Simulated(o, got, home) = row
    BY <1>3 DEF Simulated
  <2> HIDE DEF st
  <2>3. row \in OrderRow /\ row.sug = orders[o].sug /\ row.status = st
    BY <1>1, <1>3, <2>1 DEF OrderRow
  <2> QED
    BY <2>1, <2>2, <2>3
<1>4. CASE ~(got > orders[o].filled) /\ orders[o].status = "staged"
  <2>1. Simulated(o, got, home) = [orders[o] EXCEPT !.status = "working",
                                                    !.age = "fresh"]
    BY <1>4 DEF Simulated
  <2> QED
    BY <1>1, <2>1 DEF OrderRow
<1>5. CASE ~(got > orders[o].filled) /\ orders[o].status # "staged"
  <2>1. Simulated(o, got, home) = orders[o]
    BY <1>5 DEF Simulated
  <2> QED
    BY <1>1, <1>2, <1>5, <2>1
<1> QED
  BY <1>3, <1>4, <1>5

(* The sweep repairs, writes off as stale and simulates.                   *)
LEMMA SweptKeeps ==
  ASSUME Fits, NEW fixed \in SUBSET Orphans, NEW got \in [InFlight -> 0..Qty],
         Swept(fixed, got)
  PROVE  Keeps /\ Books /\ sugg' \in [Suggestions -> SuggRow]
<1> DEFINE kept == InFlight \ Stale
           booked == fixed \cup {o \in kept : got[o] > orders[o].filled}
           opened == {o \in booked : Home(o, booked) = o /\ posn[o] = "none"}
           Linked(o) == [orders[o] EXCEPT !.link = Home(o, booked)]
           Aged(o) == [orders[o] EXCEPT !.status = "cancelled", !.stale = TRUE]
<1>1. TypeOK /\ fixed \subseteq Orders /\ InFlight \subseteq Orders
  BY DEF Fits, Orphans, InFlight
<1>2. /\ orders' = [o \in Orders |->
           CASE o \in fixed -> Linked(o)
             [] o \in Stale -> Aged(o)
             [] o \in kept -> Simulated(o, got[o], Home(o, booked))
             [] OTHER -> orders[o]]
      /\ posn' = [o \in Orders |-> IF o \in opened THEN "open" ELSE posn[o]]
      /\ sugg' = [s \in Suggestions |->
           IF s \in {orders[o].sug : o \in opened} /\ s \in Pending
             THEN [sugg[s] EXCEPT !.status = "executed"] ELSE sugg[s]]
  BY DEF Swept
<1>3. /\ booked \subseteq Orders /\ opened \subseteq booked
      /\ \A o \in booked : Present(o)
  BY <1>1 DEF Orphans, InFlight, Present
<1>4. \A o \in kept : got[o] > orders[o].filled => o \in booked
  OBVIOUS
<1>5. /\ kept \subseteq InFlight /\ Stale \subseteq InFlight
      /\ fixed \subseteq booked /\ fixed \cap InFlight = {}
      /\ kept \cap Stale = {}
  BY DEF Stale, Orphans, InFlight
<1>6. orders' = [o \in Orders |->
           CASE o \in fixed -> Linked(o)
             [] o \in Stale -> Aged(o)
             [] o \in kept -> Simulated(o, got[o], Home(o, booked))
             [] OTHER -> orders[o]]
  BY <1>2
<1> HIDE DEF kept, booked, Linked, Aged
<1>7. ASSUME NEW o \in Orders
      PROVE  orders'[o] \in OrderRow /\ Kept(o)
  <2>1. orders[o] \in OrderRow
    BY <1>1 DEF TypeOK
  <2>2. CASE o \in fixed
    <3> DEFINE h == Home(o, booked)
    <3>1. h \in 0..MaxOrders
      BY <1>1, <1>3, <1>5, <2>2, HomeIsRow
    <3>2. orders'[o] = Linked(o)
      BY <1>5, <1>6, <2>2
    <3>3. Linked(o) = [orders[o] EXCEPT !.link = h]
      BY DEF Linked
    <3> HIDE DEF h
    <3>4. /\ orders'[o] \in OrderRow /\ orders'[o].sug = orders[o].sug
          /\ orders'[o].status = orders[o].status
          /\ orders'[o].stale = orders[o].stale
      BY <2>1, <3>1, <3>2, <3>3 DEF OrderRow
    <3> QED
      BY <3>4 DEF Kept, Present, WrittenOff
  <2>3. CASE o \notin fixed /\ o \in Stale
    <3>1. orders'[o] = Aged(o)
      BY <1>5, <1>6, <2>3
    <3>2. /\ orders'[o] \in OrderRow /\ orders'[o].sug = orders[o].sug
          /\ orders'[o].status = "cancelled" /\ orders'[o].stale
      BY <2>1, <3>1 DEF OrderRow, Aged
    <3>3. Present(o)
      BY <2>3 DEF Stale, Present
    <3> QED
      BY <3>2, <3>3 DEF Kept, Present, WrittenOff
  <2>4. CASE o \notin fixed /\ o \notin Stale /\ o \in kept
    <3> DEFINE h == Home(o, booked)
               g == got[o]
    <3>1. g \in 0..Qty /\ o \in InFlight
      BY <1>5, <2>4
    <3>2. g > orders[o].filled => h \in 0..MaxOrders
      BY <1>1, <1>3, <1>4, <2>4, HomeIsRow
    <3>3. orders'[o] = Simulated(o, g, h)
      BY <1>5, <1>6, <2>4
    <3>4. Present(o)
      BY <3>1 DEF InFlight, Present
    <3> HIDE DEF h, g
    <3>5. /\ orders'[o] \in OrderRow /\ orders'[o].sug = orders[o].sug
          /\ orders'[o].status \in {"filled", "partial", "working"}
      BY <1>1, <3>1, <3>2, <3>3, SimulatedRow
    <3> QED
      BY <3>4, <3>5 DEF Kept, Present, WrittenOff
  <2>5. CASE o \notin fixed /\ o \notin Stale /\ o \notin kept
    <3>1. orders'[o] = orders[o]
      BY <1>6, <2>5
    <3> QED
      BY <2>1, <3>1 DEF Kept, Present, WrittenOff
  <2> QED
    BY <2>2, <2>3, <2>4, <2>5
<1>8. orders' \in [Orders -> OrderRow]
  <2>1. orders' = [o \in Orders |-> orders'[o]]
    BY <1>6
  <2> QED
    BY <1>7, <2>1
<1>9. Books
  <2>1. posn \in [Orders -> {"none", "open", "closing", "won", "lost"}]
    BY <1>1 DEF TypeOK
  <2> HIDE DEF opened
  <2> QED
    BY <1>2, <1>3, <2>1 DEF Books
<1>10. sugg' \in [Suggestions -> SuggRow]
  <2>1. sugg \in [Suggestions -> SuggRow]
    BY <1>1 DEF TypeOK
  <2>2. ASSUME NEW s \in Suggestions
        PROVE  [sugg[s] EXCEPT !.status = "executed"] \in SuggRow
    BY <2>1 DEF SuggRow
  <2> HIDE DEF opened
  <2> QED
    BY <1>2, <2>1, <2>2
<1> QED
  BY <1>7, <1>8, <1>9, <1>10 DEF Keeps

(* Step 1.5 writes the broker's id, or the row off.                        *)
LEMMA ResolveKeeps == ASSUME Fits, Resolve PROVE Keeps
<1>1. PICK found \in SUBSET Lost :
        orders' = [o \in Orders |-> IF o \in found THEN Resolved(o)
                                                   ELSE orders[o]]
  BY DEF Resolve
<1>2. ASSUME NEW o \in Orders
      PROVE  orders'[o] \in OrderRow /\ Kept(o)
  <2>1. orders[o] \in OrderRow
    BY DEF Fits, TypeOK
  <2>2. CASE o \notin found
    <3>1. orders'[o] = orders[o]
      BY <1>1, <2>2
    <3> QED
      BY <2>1, <3>1 DEF Kept, Present, WrittenOff
  <2>3. CASE o \in found /\ broker[o].state # "none"
    <3>1. orders'[o] = Submitted(o)
      BY <1>1, <2>3 DEF Resolved
    <3>2. /\ orders'[o] \in OrderRow /\ orders'[o].sug = orders[o].sug
          /\ orders'[o].status = "submitted"
      BY <2>1, <3>1 DEF Submitted, OrderRow
    <3>3. Present(o)
      BY <1>1, <2>3 DEF Lost, Present
    <3> QED
      BY <3>2, <3>3 DEF Kept, Present, WrittenOff
  <2>4. CASE o \in found /\ broker[o].state = "none"
    <3>1. orders'[o] = [orders[o] EXCEPT !.status = "cancelled"]
      BY <1>1, <2>4 DEF Resolved
    <3>2. /\ orders'[o] \in OrderRow /\ orders'[o].sug = orders[o].sug
          /\ orders'[o].status = "cancelled"
      BY <2>1, <3>1 DEF OrderRow
    <3>3. Present(o)
      BY <1>1, <2>4 DEF Lost, Present
    <3>4. ~Exposed(o)
      BY <2>4 DEF Exposed, Fits, BrokerFits
    <3> QED
      BY <3>2, <3>3, <3>4 DEF Kept, Present, WrittenOff
  <2> QED
    BY <2>2, <2>3, <2>4
<1>3. orders' \in [Orders -> OrderRow]
  <2>1. orders' = [o \in Orders |-> orders'[o]]
    BY <1>1
  <2> QED
    BY <1>2, <2>1
<1> QED
  BY <1>2, <1>3 DEF Keeps

-----------------------------------------------------------------------------
(* Which actions touch what.                                               *)

Touches ==
  /\ UNCHANGED day \/ NewDay
  /\ UNCHANGED sugg \/ Sweep \/ SuggestionsClose
       \/ \E s \in Suggestions : PickUnexecutable(s) \/ Propose(s)
  /\ UNCHANGED orders \/ Stamp \/ Ack \/ Review \/ Refetch \/ Sweep \/ Resolve
       \/ (\E s \in Suggestions : PickStage(s))
       \/ \E o \in Orders : Poll(o) \/ Older(o)
  /\ UNCHANGED broker \/ Submit
       \/ \E o \in Orders : Watchdog(o) \/ BrokerFills(o) \/ BrokerEnds(o)
  /\ UNCHANGED posn \/ Refetch \/ Sweep
       \/ \E o \in Orders : Poll(o) \/ MonitorStop(o) \/ PositionCloses(o)
  /\ UNCHANGED strays \/ Sweep
  /\ UNCHANGED bench \/ Bench
  /\ UNCHANGED ops \/ EvaluateFails \/ Trip \/ Mark \/ OperatorResume
  /\ UNCHANGED outcomes \/ \E o \in Orders : Ingest(o)
  /\ UNCHANGED stopped \/ NewDay \/ \E o \in Orders : MonitorStop(o)
  /\ UNCHANGED streak \/ Evaluate \/ OperatorResume

(* Every step does.                                                        *)
LEMMA Touching == Next => Touches
<1>1. CASE Autopilot
  <2>1. CASE RunStart
    BY <2>1 DEF Touches, RunStart
  <2>2. CASE Stamp
    BY <2>2 DEF Touches, Stamp
  <2>3. CASE Submit
    BY <2>3 DEF Touches, Submit
  <2>4. CASE SubmitDuplicate
    BY <2>4 DEF Touches, SubmitDuplicate
  <2>5. CASE Ack
    BY <2>5 DEF Touches, Ack
  <2>6. CASE Review
    BY <2>6 DEF Touches, Review
  <2>7. CASE RunDone
    BY <2>7 DEF Touches, RunDone
  <2>8. ASSUME NEW s \in Suggestions, PickSkip(s) PROVE Touches
    BY <2>8 DEF Touches, PickSkip
  <2>9. ASSUME NEW s \in Suggestions, PickUnexecutable(s) PROVE Touches
    BY <2>9 DEF Touches, PickUnexecutable
  <2>10. ASSUME NEW s \in Suggestions, PickStage(s) PROVE Touches
    BY <2>10 DEF Touches, PickStage
  <2> QED
    BY <1>1, <2>1, <2>2, <2>3, <2>4, <2>5, <2>6, <2>7, <2>8, <2>9, <2>10 DEF Autopilot
<1>2. CASE Sync
  <2>1. CASE SyncStart
    BY <2>1 DEF Touches, SyncStart
  <2>2. CASE Refetch
    BY <2>2 DEF Touches, Refetch
  <2>3. CASE RefetchFails
    BY <2>3 DEF Touches, RefetchFails
  <2>4. CASE Sweep
    BY <2>4 DEF Touches, Sweep
  <2>5. CASE PollDone
    BY <2>5 DEF Touches, PollDone
  <2>6. CASE Resolve
    BY <2>6 DEF Touches, Resolve
  <2>7. ASSUME NEW o \in Orders, Poll(o) PROVE Touches
    BY <2>7 DEF Touches, Poll
  <2>8. ASSUME NEW o \in Orders, PollFails(o) PROVE Touches
    BY <2>8 DEF Touches, PollFails
  <2>9. ASSUME NEW o \in Orders, Watchdog(o) PROVE Touches
    BY <2>9 DEF Touches, Watchdog
  <2> QED
    BY <1>2, <2>1, <2>2, <2>3, <2>4, <2>5, <2>6, <2>7, <2>8, <2>9 DEF Sync
<1>3. CASE Breaker
  <2>1. CASE IngestStart
    BY <2>1 DEF Touches, IngestStart
  <2>2. CASE IngestDone
    BY <2>2 DEF Touches, IngestDone
  <2>3. CASE Evaluate
    BY <2>3 DEF Touches, Evaluate
  <2>4. CASE EvaluateFails
    BY <2>4 DEF Touches, EvaluateFails
  <2>5. CASE Trip
    BY <2>5 DEF Touches, Trip
  <2>6. CASE Mark
    BY <2>6 DEF Touches, Mark
  <2>7. ASSUME NEW o \in Orders, Ingest(o) PROVE Touches
    BY <2>7 DEF Touches, Ingest
  <2> QED
    BY <1>3, <2>1, <2>2, <2>3, <2>4, <2>5, <2>6, <2>7 DEF Breaker
<1>4. CASE Around
  <2>1. CASE Bench
    BY <2>1 DEF Touches, Bench
  <2>2. CASE OperatorResume
    BY <2>2 DEF Touches, OperatorResume
  <2>3. CASE SuggestionsClose
    BY <2>3 DEF Touches, SuggestionsClose
  <2>4. CASE NewDay
    BY <2>4 DEF Touches, NewDay
  <2>5. CASE Crash
    BY <2>5 DEF Touches, Crash
  <2>6. ASSUME NEW s \in Suggestions, Propose(s) PROVE Touches
    BY <2>6 DEF Touches, Propose
  <2>7. ASSUME NEW o \in Orders, MonitorStop(o) PROVE Touches
    BY <2>7 DEF Touches, MonitorStop
  <2>8. ASSUME NEW o \in Orders, PositionCloses(o) PROVE Touches
    BY <2>8 DEF Touches, PositionCloses
  <2>9. ASSUME NEW o \in Orders, Older(o) PROVE Touches
    BY <2>9 DEF Touches, Older
  <2>10. ASSUME NEW o \in Orders, BrokerFills(o) PROVE Touches
    BY <2>10 DEF Touches, BrokerFills
  <2>11. ASSUME NEW o \in Orders, BrokerEnds(o) PROVE Touches
    BY <2>11 DEF Touches, BrokerEnds
  <2> QED
    BY <1>4, <2>1, <2>2, <2>3, <2>4, <2>5, <2>6, <2>7, <2>8, <2>9, <2>10, <2>11 DEF Around
<1> QED
  BY <1>1, <1>2, <1>3, <1>4 DEF Next

(* A failure that struck is remembered.                                    *)
Suffers == troubles \subseteq troubles' /\ troubles' \subseteq Kinds

(* Every step remembers.                                                   *)
LEMMA Suffering == ASSUME TypeOK, Next PROVE Suffers
<1> USE DEF Suffers, Fails, Strike, Steady, Kinds, TypeOK
<1>1. CASE Autopilot
  <2>1. CASE RunStart
    BY <2>1 DEF RunStart
  <2>2. CASE Stamp
    BY <2>2 DEF Stamp
  <2>3. CASE Submit
    BY <2>3 DEF Submit
  <2>4. CASE SubmitDuplicate
    BY <2>4 DEF SubmitDuplicate
  <2>5. CASE Ack
    BY <2>5 DEF Ack
  <2>6. CASE Review
    BY <2>6 DEF Review
  <2>7. CASE RunDone
    BY <2>7 DEF RunDone
  <2>8. ASSUME NEW s \in Suggestions, PickSkip(s) PROVE Suffers
    BY <2>8 DEF PickSkip
  <2>9. ASSUME NEW s \in Suggestions, PickUnexecutable(s) PROVE Suffers
    BY <2>9 DEF PickUnexecutable
  <2>10. ASSUME NEW s \in Suggestions, PickStage(s) PROVE Suffers
    BY <2>10 DEF PickStage
  <2> QED
    BY <1>1, <2>1, <2>2, <2>3, <2>4, <2>5, <2>6,
       <2>7, <2>8, <2>9, <2>10 DEF Autopilot
<1>2. CASE Sync
  <2>1. CASE SyncStart
    BY <2>1 DEF SyncStart
  <2>2. CASE Refetch
    BY <2>2 DEF Refetch
  <2>3. CASE RefetchFails
    BY <2>3 DEF RefetchFails
  <2>4. CASE Sweep
    BY <2>4 DEF Sweep
  <2>5. CASE PollDone
    BY <2>5 DEF PollDone
  <2>6. CASE Resolve
    BY <2>6 DEF Resolve
  <2>7. ASSUME NEW o \in Orders, Poll(o) PROVE Suffers
    BY <2>7 DEF Poll
  <2>8. ASSUME NEW o \in Orders, PollFails(o) PROVE Suffers
    BY <2>8 DEF PollFails
  <2>9. ASSUME NEW o \in Orders, Watchdog(o) PROVE Suffers
    BY <2>9 DEF Watchdog
  <2> QED
    BY <1>2, <2>1, <2>2, <2>3, <2>4, <2>5, <2>6, <2>7, <2>8, <2>9 DEF Sync
<1>3. CASE Breaker
  <2>1. CASE IngestStart
    BY <2>1 DEF IngestStart
  <2>2. CASE IngestDone
    BY <2>2 DEF IngestDone
  <2>3. CASE Evaluate
    BY <2>3 DEF Evaluate
  <2>4. CASE EvaluateFails
    BY <2>4 DEF EvaluateFails
  <2>5. CASE Trip
    BY <2>5 DEF Trip
  <2>6. CASE Mark
    BY <2>6 DEF Mark
  <2>7. ASSUME NEW o \in Orders, Ingest(o) PROVE Suffers
    BY <2>7 DEF Ingest
  <2> QED
    BY <1>3, <2>1, <2>2, <2>3, <2>4, <2>5, <2>6, <2>7 DEF Breaker
<1>4. CASE Around
  <2>1. CASE Bench
    BY <2>1 DEF Bench
  <2>2. CASE OperatorResume
    BY <2>2 DEF OperatorResume
  <2>3. CASE SuggestionsClose
    BY <2>3 DEF SuggestionsClose
  <2>4. CASE NewDay
    BY <2>4 DEF NewDay
  <2>5. CASE Crash
    BY <2>5 DEF Crash
  <2>6. ASSUME NEW s \in Suggestions, Propose(s) PROVE Suffers
    BY <2>6 DEF Propose
  <2>7. ASSUME NEW o \in Orders, MonitorStop(o) PROVE Suffers
    BY <2>7 DEF MonitorStop
  <2>8. ASSUME NEW o \in Orders, PositionCloses(o) PROVE Suffers
    BY <2>8 DEF PositionCloses
  <2>9. ASSUME NEW o \in Orders, Older(o) PROVE Suffers
    BY <2>9 DEF Older
  <2>10. ASSUME NEW o \in Orders, BrokerFills(o) PROVE Suffers
    BY <2>10 DEF BrokerFills
  <2>11. ASSUME NEW o \in Orders, BrokerEnds(o) PROVE Suffers
    BY <2>11 DEF BrokerEnds
  <2> QED
    BY <1>4, <2>1, <2>2, <2>3, <2>4, <2>5, <2>6, <2>7,
       <2>8, <2>9, <2>10, <2>11 DEF Around
<1> QED
  BY <1>1, <1>2, <1>3, <1>4 DEF Next

(* Steps and the table.                                                    *)
LEMMA Rows ==
  ASSUME Fits, Next
  PROVE  Keeps \/ \E s \in Suggestions : PickStage(s)
<1>1. CASE UNCHANGED orders
  BY <1>1, SameKeeps DEF Fits
<1>2. CASE Sweep
  <2>1. PICK got \in [InFlight -> 0..Qty], fixed \in SUBSET Orphans :
          Swept(fixed, got)
    BY <1>2 DEF Sweep
  <2> QED
    BY <2>1, SweptKeeps
<1> QED
  BY <1>1, <1>2, AutopilotKeeps, SyncKeeps, ResolveKeeps, Touching DEF Touches

(* Steps and the positions.                                                *)
LEMMA Bookings == ASSUME Fits, Next PROVE Books
<1> DEFINE P == {"none", "open", "closing", "won", "lost"}
<1>1. posn \in [Orders -> P]
  BY DEF Fits, TypeOK
<1>2. CASE UNCHANGED posn
  BY <1>1, <1>2 DEF Books
<1>3. ASSUME NEW o, CloseOnFill(o) PROVE Books
  <2>1. CASE ~InBook(o)
    BY <1>2, <1>3, <2>1 DEF CloseOnFill
  <2>2. CASE InBook(o)
    <3>1. PICK r \in {"won", "lost"} : posn' = [posn EXCEPT ![o] = r]
      BY <1>3, <2>2 DEF CloseOnFill
    <3> QED
      BY <1>1, <2>2, <3>1 DEF Books, InBook
  <2> QED
    BY <2>1, <2>2
<1>4. CASE Refetch \/ \E o \in Orders : Poll(o)
  BY <1>2, <1>3, <1>4 DEF Refetch, Refetched, Poll, Reconcile
<1>5. CASE Sweep
  <2>1. PICK got \in [InFlight -> 0..Qty], fixed \in SUBSET Orphans :
          Swept(fixed, got)
    BY <1>5 DEF Sweep
  <2> QED
    BY <2>1, SweptKeeps
<1>6. ASSUME NEW o \in Orders, MonitorStop(o) PROVE Books
  BY <1>1, <1>6 DEF MonitorStop, Books
<1>7. ASSUME NEW o \in Orders, PositionCloses(o) PROVE Books
  BY <1>3, <1>7 DEF PositionCloses
<1> QED
  BY <1>2, <1>4, <1>5, <1>6, <1>7, Touching DEF Touches

(* Steps and the broker.                                                   *)
LEMMA Trading == ASSUME Fits, Next PROVE Trades
<1>1. broker \in [Orders -> BrokerRow] /\ BrokerFits
  BY DEF Fits, TypeOK
<1>2. ASSUME UNCHANGED broker PROVE Trades
  BY <1>1, <1>2 DEF Trades, BrokerFits, Exposed
<1>3. ASSUME NEW o \in Orders, NEW b \in BrokerRow,
             broker' = [broker EXCEPT ![o] = b],
             b.state = "none" => b.fill = 0, b.state = "live" => b.fill < Qty,
             b.state = "live" \/ b.fill > 0 =>
               Exposed(o) \/ (job.pc = "submit" /\ o = job.order)
      PROVE  Trades
  <2>1. broker' \in [Orders -> BrokerRow]
    BY <1>1, <1>3
  <2>2. broker'[o] = b /\ \A p \in Orders \ {o} : broker'[p] = broker[p]
    BY <1>1, <1>3
  <2>3. BrokerFits'
    BY <1>1, <1>3, <2>2 DEF BrokerFits
  <2>4. \A p \in Orders : Exposed(p)' =>
                            Exposed(p) \/ (job.pc = "submit" /\ p = job.order)
    BY <1>3, <2>2 DEF Exposed
  <2> QED
    BY <2>1, <2>3, <2>4 DEF Trades
<1>4. ASSUME NEW o \in Orders
      PROVE  /\ broker[o] \in BrokerRow
             /\ broker[o].fill \in 0..Qty /\ broker[o].fill \in Nat
             /\ broker[o].state = "none" => broker[o].fill = 0
             /\ broker[o].state = "live" => broker[o].fill < Qty
  BY <1>1, Numbers DEF BrokerRow, BrokerFits
<1>5. CASE Submit /\ broker' # broker
  <2> DEFINE o == job.order
             b == [broker[o] EXCEPT !.state = "live"]
  <2>1. o \in Orders
    BY <1>5 DEF Submit, Fits, JobFits
  <2>2. broker' = [broker EXCEPT ![o] = b] /\ broker[o].state = "none"
    BY <1>5 DEF Submit
  <2>3. b \in BrokerRow /\ b.state = "live" /\ b.fill = 0
    BY <1>4, <2>1, <2>2 DEF BrokerRow
  <2>4. job.pc = "submit"
    BY <1>5 DEF Submit
  <2>5. 0 < Qty
    BY Numbers
  <2> HIDE DEF b
  <2> QED
    BY <1>3, <2>1, <2>2, <2>3, <2>4, <2>5
<1>6. ASSUME NEW o \in Orders, broker[o].state = "live",
             broker' = [broker EXCEPT ![o] = [@ EXCEPT !.state = "ended"]]
      PROVE  Trades
  <2> DEFINE b == [broker[o] EXCEPT !.state = "ended"]
  <2>1. broker' = [broker EXCEPT ![o] = b]
    BY <1>6
  <2>2. b \in BrokerRow /\ b.state = "ended"
    BY <1>4 DEF BrokerRow
  <2> HIDE DEF b
  <2> QED
    BY <1>3, <1>6, <2>1, <2>2 DEF Exposed
<1>7. ASSUME NEW o \in Orders, Watchdog(o) \/ BrokerEnds(o) PROVE Trades
  BY <1>2, <1>6, <1>7 DEF Watchdog, BrokerEnds, IdlesTooLong
<1>8. ASSUME NEW o \in Orders, BrokerFills(o) PROVE Trades
  <2> DEFINE st == IF broker[o].fill + 1 = Qty THEN "filled" ELSE "live"
             b == [state |-> st, fill |-> broker[o].fill + 1]
  <2>1. broker' = [broker EXCEPT ![o] = b] /\ broker[o].state = "live"
    BY <1>8 DEF BrokerFills
  <2>2. /\ st \in {"filled", "live"} /\ broker[o].fill + 1 \in 0..Qty
        /\ st = "live" => broker[o].fill + 1 < Qty
    BY <1>4, <2>1, Numbers
  <2> HIDE DEF st
  <2>3. /\ b \in BrokerRow /\ b.state = st
        /\ b.state = "live" => b.fill < Qty
    BY <2>2 DEF BrokerRow
  <2> HIDE DEF b
  <2> QED
    BY <1>3, <2>1, <2>2, <2>3 DEF Exposed
<1> QED
  BY <1>2, <1>5, <1>7, <1>8, Touching DEF Touches

(* A staged row is the suggestion's and new.                               *)
LEMMA Staged ==
  ASSUME TypeOK, NEW s \in Suggestions, PickStage(s)
  PROVE  \E o \in Orders :
           /\ ~Present(o)
           /\ orders' \in [Orders -> OrderRow]
           /\ \A p \in Orders \ {o} : orders'[p] = orders[p]
           /\ orders'[o].status = "staged" /\ orders'[o].sug = s
           /\ orders'[o].day = day
           /\ job' = [job EXCEPT !.sugs = @ \ {s}, !.pc = "stamp", !.order = o]
<1> DEFINE o == Min(Unused)
           row == [NoOrder EXCEPT !.status = "staged", !.sug = s, !.day = day]
<1>1. o \in Unused
  <2>1. Unused \subseteq Orders /\ Unused # {}
    BY DEF PickStage, Unused
  <2> QED
    BY <2>1, FirstOrder
<1>2. /\ row \in OrderRow
      /\ row.status = "staged" /\ row.sug = s /\ row.day = day
  <2>1. NoOrder \in OrderRow
    BY Numbers DEF NoOrder, OrderRow
  <2>2. day \in 0..MaxDays
    BY Numbers DEF TypeOK
  <2> QED
    BY <2>1, <2>2 DEF OrderRow
<1>3. /\ orders' = [orders EXCEPT ![o] = row]
      /\ job' = [job EXCEPT !.sugs = @ \ {s}, !.pc = "stamp", !.order = o]
  BY DEF PickStage, Set, Picked
<1> HIDE DEF o, row
<1>4. o \in Orders /\ ~Present(o)
  BY <1>1 DEF Unused, Present
<1>5. /\ orders' \in [Orders -> OrderRow]
      /\ \A p \in Orders \ {o} : orders'[p] = orders[p]
      /\ orders'[o].status = "staged" /\ orders'[o].sug = s
      /\ orders'[o].day = day
  BY <1>2, <1>3, <1>4 DEF TypeOK
<1> QED
  BY <1>3, <1>4, <1>5

(* No row leaves the table.                                                *)
LEMMA Lasting ==
  ASSUME Fits, Next
  PROVE  /\ orders' \in [Orders -> OrderRow]
         /\ \A o \in Orders : orders[o].status # "absent" =>
              orders'[o].status # "absent" /\ orders'[o].sug = orders[o].sug
<1>1. CASE Keeps
  BY <1>1 DEF Keeps, Kept, Present
<1>2. ASSUME NEW s \in Suggestions, PickStage(s)
      PROVE  /\ orders' \in [Orders -> OrderRow]
             /\ \A o \in Orders : orders[o].status # "absent" =>
                  orders'[o].status # "absent" /\ orders'[o].sug = orders[o].sug
  <2>1. PICK n \in Orders :
           /\ ~Present(n)
           /\ orders' \in [Orders -> OrderRow]
           /\ \A p \in Orders \ {n} : orders'[p] = orders[p]
    BY <1>2, Staged DEF Fits
  <2> QED
    BY <2>1 DEF Present
<1> QED
  BY <1>1, <1>2, Rows

(* What the worker's job becomes, from what its fields become.             *)
Works == job' \in JobState /\ JobFits'

(* The job fits when its fields do.                                        *)
LEMMA JobSet ==
  ASSUME Fits, Next, NEW j \in JobState, job' = j,
         j.polls \subseteq job.polls
           \/ \A p \in j.polls : orders[p].status # "absent",
         j.pc \in {"pick", "stamp"} => j.tries = 0,
         j.pc \in {"submit", "ack"} => j.tries < MaxSubmit,
         j.pc \in {"stamp", "submit", "ack", "review"} =>
           j.order \in Orders /\ orders'[j.order].status = "staged",
         j.pc = "cancel" =>
           j.order \in Orders /\ orders[j.order].status # "absent",
         j.pc = "bench" => j.order \in Orders /\ posn[j.order] # "none"
  PROVE  Works
<1>1. \A o \in Orders : posn[o] # "none" => posn'[o] # "none"
  <2>1. Books
    BY Bookings
  <2> QED
    BY <2>1 DEF Books
<1>2. \A o \in Orders :
        orders[o].status # "absent" => orders'[o].status # "absent"
  BY Lasting
<1>3. \A p \in j.polls : p \in Orders /\ orders[p].status # "absent"
  BY DEF Fits, JobFits, Present, JobState
<1> QED
  BY <1>1, <1>2, <1>3 DEF Works, JobFits, Present

(* The job ends.                                                           *)
LEMMA JobEnds == ASSUME Fits, Next, job' = IdleJob PROVE Works
<1>1. /\ IdleJob \in JobState /\ IdleJob.pc = "idle" /\ IdleJob.polls = {}
  BY Numbers DEF IdleJob, JobState
<1> HIDE DEF IdleJob
<1> QED
  BY <1>1, JobSet

(* The job goes on to a stage where it holds no row.                       *)
LEMMA JobGoes ==
  ASSUME Fits, Next,
         NEW pc \in {"poll", "resolve", "repair", "evaluate", "trip", "mark"},
         Goes(pc)
  PROVE  Works
<1> DEFINE j == [job EXCEPT !.pc = pc]
<1>1. j \in JobState /\ j.pc = pc /\ j.polls = job.polls
  BY DEF Fits, TypeOK, JobState
<1>2. job' = j
  BY DEF Goes
<1> HIDE DEF j
<1> QED
  BY <1>1, <1>2, JobSet

(* A row has been polled.                                                  *)
LEMMA JobPolled ==
  ASSUME Fits, Next, NEW o, NEW pc \in {"sweep", "poll"}, Polled(o, pc)
  PROVE  Works
<1> DEFINE j == [job EXCEPT !.polls = @ \ {o}, !.linked = @ \ {o}, !.pc = pc,
                            !.order = 0]
<1>1. j \in JobState /\ j.pc = pc /\ j.polls \subseteq job.polls
  <2>1. job \in JobState /\ 0 \in 0..MaxOrders
    BY Numbers DEF Fits, TypeOK
  <2> QED
    BY <2>1 DEF JobState
<1>2. job' = j
  BY DEF Polled
<1> HIDE DEF j
<1> QED
  BY <1>1, <1>2, JobSet

(* The autopilot goes on to the next candidate.                            *)
LEMMA JobPicks ==
  ASSUME Fits, Next, NEW S \in SUBSET Suggestions, NEW b \in BOOLEAN,
         job' = Picking(S, b)
  PROVE  Works
<1> DEFINE j == Picking(S, b)
<1>1. j \in JobState /\ j.pc = "pick" /\ j.polls = {} /\ j.tries = 0
  <2>1. IdleJob \in JobState /\ IdleJob.polls = {} /\ IdleJob.tries = 0
    BY Numbers DEF IdleJob, JobState
  <2> QED
    BY <2>1 DEF JobState, Picking
<1>2. job' = j
  OBVIOUS
<1> HIDE DEF j
<1> QED
  BY <1>1, <1>2, JobSet

(* A candidate is left out.                                                *)
LEMMA JobSkips ==
  ASSUME Fits, Next, NEW s, job.pc = "pick", job' = Picked(s)
  PROVE  Works
<1> DEFINE j == [job EXCEPT !.sugs = @ \ {s}]
<1>1. /\ j \in JobState /\ j.pc = "pick" /\ j.polls = job.polls
      /\ j.tries = job.tries
  <2>1. job \in JobState
    BY DEF Fits, TypeOK
  <2> QED
    BY <2>1 DEF JobState
<1>2. j.tries = 0 /\ job' = j
  BY <1>1 DEF Fits, JobFits, Picked
<1> HIDE DEF j
<1> QED
  BY <1>1, <1>2, JobSet

(* The autopilot goes on with the row it has in hand.                      *)
LEMMA JobHolds ==
  ASSUME Fits, Next, NEW j \in JobState, job' = j,
         job.pc \in {"stamp", "submit", "ack"},
         j.pc \in {"submit", "ack", "review"}, j.order = job.order,
         j.polls = job.polls, j.pc = "review" \/ j.tries < MaxSubmit,
         orders'[job.order].status = orders[job.order].status
  PROVE  Works
<1>1. job.order \in Orders /\ orders[job.order].status = "staged"
  BY DEF Fits, JobFits
<1> QED
  BY <1>1, JobSet

(* An attempt failed.                                                      *)
LEMMA JobAgain ==
  ASSUME Fits, Next, job.pc \in {"submit", "ack"}, Again, UNCHANGED orders
  PROVE  Works
<1> DEFINE next == IF job.tries + 1 < MaxSubmit THEN "submit" ELSE "review"
           n == job.tries + 1
           j == [job EXCEPT !.tries = n, !.pc = next]
<1>1. job \in JobState /\ job.tries \in Nat /\ job.tries < MaxSubmit
  BY Numbers DEF Fits, TypeOK, JobState, JobFits
<1>2. n \in 0..MaxSubmit /\ next \in {"submit", "review"}
  BY <1>1, Numbers
<1>3. next = "review" \/ n < MaxSubmit
  OBVIOUS
<1>4. job' = j
  BY DEF Again
<1> HIDE DEF n, next
<1>5. /\ j \in JobState /\ j.pc = next /\ j.tries = n
      /\ j.polls = job.polls /\ j.order = job.order
  BY <1>1, <1>2 DEF JobState
<1> HIDE DEF j
<1> QED
  BY <1>2, <1>3, <1>4, <1>5, JobHolds

(* The autopilot goes on to its next stage.                                *)
LEMMA JobOn ==
  ASSUME Fits, Next, NEW pc \in {"submit", "ack", "review"},
         job.pc \in {"stamp", "submit"}, Goes(pc),
         orders'[job.order].status = orders[job.order].status
  PROVE  Works
<1> DEFINE j == [job EXCEPT !.pc = pc]
<1>1. job \in JobState /\ job.tries < MaxSubmit
  BY Numbers DEF Fits, TypeOK, JobFits
<1>2. /\ j \in JobState /\ j.pc = pc /\ j.tries = job.tries
      /\ j.polls = job.polls /\ j.order = job.order
  BY <1>1 DEF JobState
<1>3. job' = j
  BY DEF Goes
<1> HIDE DEF j
<1> QED
  BY <1>1, <1>2, <1>3, JobHolds

(* Steps and the worker's job.                                             *)
LEMMA Working == ASSUME Fits, Next PROVE Works
<1>1. TypeOK /\ JobFits /\ job \in JobState /\ orders \in [Orders -> OrderRow]
  BY DEF Fits, TypeOK
<1>2. ASSUME job' = job, UNCHANGED <<orders, posn>> PROVE Works
  BY <1>1, <1>2 DEF Works, JobFits, Present
<1>3. ASSUME Idle, job' = job PROVE Works
  BY <1>1, <1>3, JobSet DEF Idle
<1>4. CASE Autopilot
  <2>1. CASE RunStart
    <3> DEFINE today == {t \in Pending : sugg[t].day = day}
               left(top, K) == {s \in {t \in top \ Already :
                                         Symbol[t] \notin Held} :
                                  ~Benched(Symbol[s]) \/ K \ {"read"} # {}}
    <3>1. PICK top \in kSubset(Min({Cap, Cardinality(today)}), today),
               K \in SUBSET {"read", "filter", "resolve"} :
            job' = Picking(left(top, K), "resolve" \in K)
      BY <2>1 DEF RunStart
    <3>2. left(top, K) \in SUBSET Suggestions
      BY <3>1 DEF kSubset, Pending
    <3>3. ("resolve" \in K) \in BOOLEAN
      OBVIOUS
    <3> HIDE DEF left, today
    <3> QED
      BY <3>1, <3>2, <3>3, JobPicks
  <2>2. CASE Stamp
    <3>1. /\ job.pc = "stamp" /\ Goes("submit") /\ job.order \in Orders
          /\ \/ Set(job.order, [orders[job.order] EXCEPT !.coid = TRUE])
             \/ UNCHANGED orders
      BY <1>1, <2>2 DEF Stamp, JobFits
    <3>2. orders'[job.order].status = orders[job.order].status
      BY <1>1, <3>1 DEF Set, OrderRow
    <3> QED
      BY <3>1, <3>2, JobOn
  <2>3. CASE Submit
    <3>1. job.pc = "submit" /\ UNCHANGED orders
      BY <2>3 DEF Submit
    <3>2. Goes("ack") \/ Goes("review") \/ Again
      BY <2>3 DEF Submit
    <3> QED
      BY <3>1, <3>2, JobOn, JobAgain
  <2>4. CASE SubmitDuplicate
    <3>1. job.pc = "submit" /\ UNCHANGED orders
      BY <2>4 DEF SubmitDuplicate
    <3>2. CASE Again
      BY <3>1, <3>2, JobAgain
    <3>3. CASE job' = [job EXCEPT !.pc = "ack", !.dup = TRUE]
      <4> DEFINE j == [job EXCEPT !.pc = "ack", !.dup = TRUE]
      <4>1. /\ j \in JobState /\ j.pc = "ack" /\ j.tries = job.tries
            /\ j.polls = job.polls /\ j.order = job.order
        BY <1>1 DEF JobState
      <4>2. job' = j /\ job.tries < MaxSubmit
        BY <1>1, <3>1, <3>3 DEF JobFits
      <4> HIDE DEF j
      <4> QED
        BY <3>1, <4>1, <4>2, JobHolds
    <3> QED
      BY <2>4, <3>2, <3>3 DEF SubmitDuplicate
  <2>5. CASE Ack
    <3>1. CASE NextPick
      <4>1. job.sugs \in SUBSET Suggestions /\ job.blind \in BOOLEAN
        BY <1>1 DEF JobState
      <4> QED
        BY <3>1, <4>1, JobPicks DEF NextPick
    <3>2. CASE ~NextPick
      BY <2>5, <3>2, JobAgain DEF Ack
    <3> QED
      BY <3>1, <3>2
  <2>6. CASE Review
    <3>1. job.sugs \in SUBSET Suggestions /\ job.blind \in BOOLEAN
      BY <1>1 DEF JobState
    <3> QED
      BY <2>6, <3>1, JobPicks DEF Review, NextPick
  <2>7. CASE RunDone
    BY <2>7, JobEnds DEF RunDone
  <2>8. ASSUME NEW s \in Suggestions, PickSkip(s) PROVE Works
    BY <2>8, JobSkips DEF PickSkip
  <2>9. ASSUME NEW s \in Suggestions, PickUnexecutable(s) PROVE Works
    BY <2>9, JobSkips DEF PickUnexecutable
  <2>10. ASSUME NEW s \in Suggestions, PickStage(s) PROVE Works
    <3>1. PICK o \in Orders :
            /\ orders'[o].status = "staged"
            /\ job' = [job EXCEPT !.sugs = @ \ {s}, !.pc = "stamp", !.order = o]
      BY <1>1, <2>10, Staged
    <3> DEFINE j == [job EXCEPT !.sugs = @ \ {s}, !.pc = "stamp", !.order = o]
    <3>2. Orders \subseteq 0..MaxOrders
      BY DEF Orders
    <3>3. /\ j \in JobState /\ j.pc = "stamp" /\ j.tries = job.tries
          /\ j.polls = job.polls /\ j.order = o
      BY <1>1, <3>2 DEF JobState
    <3>4. job.tries = 0 /\ job' = j
      BY <1>1, <2>10, <3>1 DEF JobFits, PickStage
    <3> HIDE DEF j
    <3> QED
      BY <3>1, <3>3, <3>4, JobSet
  <2> QED
    BY <1>4, <2>1, <2>2, <2>3, <2>4, <2>5, <2>6,
       <2>7, <2>8, <2>9, <2>10 DEF Autopilot
<1>5. CASE Sync
  <2>1. CASE SyncStart
    <3> DEFINE L == {o \in Pollable : orders[o].link # 0}
               j == [IdleJob EXCEPT !.pc = "poll", !.polls = Pollable,
                                    !.linked = L]
    <3>1. /\ Pollable \subseteq Orders /\ L \subseteq Orders
          /\ \A p \in Pollable : orders[p].status # "absent"
      BY DEF Pollable
    <3>2. job' = j
      BY <2>1 DEF SyncStart
    <3> HIDE DEF L
    <3>3. IdleJob \in JobState
      BY Numbers DEF IdleJob, JobState
    <3>4. j \in JobState /\ j.pc = "poll" /\ j.polls = Pollable
      BY <3>1, <3>3 DEF JobState
    <3> HIDE DEF j
    <3> QED
      BY <3>1, <3>2, <3>4, JobSet
  <2>2. CASE Refetch
    <3>1. \E pc \in {"sweep", "poll"} : Polled(job.order, pc)
      BY <2>2 DEF Refetch, Reconcile, Refetched
    <3> QED
      BY <3>1, JobPolled
  <2>3. CASE RefetchFails
    BY <2>3, JobPolled DEF RefetchFails
  <2>4. CASE Sweep
    BY <2>4, JobGoes, JobEnds DEF Sweep
  <2>5. CASE PollDone
    BY <2>5, JobGoes DEF PollDone
  <2>6. CASE Resolve
    BY <2>6, JobGoes, JobEnds DEF Resolve
  <2>7. ASSUME NEW o \in Orders, Poll(o) PROVE Works
    <3>1. \E pc \in {"sweep", "poll"} : Polled(o, pc)
      BY <2>7 DEF Poll, Reconcile, Refetched
    <3> QED
      BY <3>1, JobPolled
  <2>8. ASSUME NEW o \in Orders, PollFails(o) PROVE Works
    BY <2>8, JobPolled DEF PollFails
  <2>9. ASSUME NEW o \in Orders, Watchdog(o) PROVE Works
    <3> DEFINE j == [job EXCEPT !.pc = "cancel", !.order = o]
    <3>1. Orders \subseteq 0..MaxOrders
      BY DEF Orders
    <3>2. /\ j \in JobState /\ j.pc = "cancel" /\ j.polls = job.polls
          /\ j.order = o
      BY <1>1, <3>1 DEF JobState
    <3>3. job' = j /\ orders[o].status # "absent"
      BY <1>1, <2>9 DEF Watchdog, JobFits, Present
    <3> HIDE DEF j
    <3> QED
      BY <3>2, <3>3, JobSet
  <2> QED
    BY <1>5, <2>1, <2>2, <2>3, <2>4, <2>5, <2>6, <2>7, <2>8, <2>9 DEF Sync
<1>6. CASE Breaker
  <2>1. CASE IngestStart
    <3> DEFINE j == [IdleJob EXCEPT !.pc = "ingest"]
    <3>1. IdleJob \in JobState /\ IdleJob.polls = {}
      BY Numbers DEF IdleJob, JobState
    <3>2. j \in JobState /\ j.pc = "ingest" /\ j.polls = {}
      BY <3>1 DEF JobState
    <3>3. job' = j
      BY <2>1 DEF IngestStart
    <3> HIDE DEF j
    <3> QED
      BY <3>2, <3>3, JobSet
  <2>2. CASE IngestDone
    BY <2>2, JobGoes DEF IngestDone
  <2>3. CASE Evaluate
    BY <2>3, JobGoes, JobEnds DEF Evaluate
  <2>4. CASE EvaluateFails
    BY <2>4, JobEnds DEF EvaluateFails
  <2>5. CASE Trip
    BY <2>5, JobGoes DEF Trip
  <2>6. CASE Mark
    BY <2>6, JobEnds DEF Mark
  <2>7. ASSUME NEW o \in Orders, Ingest(o) PROVE Works
    BY <1>2, <2>7 DEF Ingest
  <2> QED
    BY <1>6, <2>1, <2>2, <2>3, <2>4, <2>5, <2>6, <2>7 DEF Breaker
<1>7. CASE Around
  <2>1. CASE Bench
    BY <2>1, JobEnds DEF Bench
  <2>2. CASE OperatorResume
    BY <1>2, <2>2 DEF OperatorResume
  <2>3. CASE SuggestionsClose
    BY <1>3, <2>3 DEF SuggestionsClose
  <2>4. CASE NewDay
    BY <1>3, <2>4 DEF NewDay
  <2>5. CASE Crash
    BY <2>5, JobEnds DEF Crash
  <2>6. ASSUME NEW s \in Suggestions, Propose(s) PROVE Works
    BY <1>3, <2>6 DEF Propose
  <2>7. ASSUME NEW o \in Orders, MonitorStop(o) PROVE Works
    <3> DEFINE j == [IdleJob EXCEPT !.pc = "bench", !.order = o]
    <3>1. IdleJob \in JobState /\ IdleJob.polls = {}
      BY Numbers DEF IdleJob, JobState
    <3>2. Orders \subseteq 0..MaxOrders
      BY DEF Orders
    <3>3. j \in JobState /\ j.pc = "bench" /\ j.polls = {} /\ j.order = o
      BY <3>1, <3>2 DEF JobState
    <3>4. job' = j /\ posn[o] # "none"
      BY <2>7 DEF MonitorStop
    <3> HIDE DEF j
    <3> QED
      BY <3>3, <3>4, JobSet
  <2>8. ASSUME NEW o \in Orders, PositionCloses(o) PROVE Works
    BY <1>3, <2>8 DEF PositionCloses
  <2>9. ASSUME NEW o \in Orders, Older(o) PROVE Works
    BY <1>3, <2>9 DEF Older
  <2>10. ASSUME NEW o \in Orders, BrokerFills(o) PROVE Works
    BY <1>2, <2>10 DEF BrokerFills
  <2>11. ASSUME NEW o \in Orders, BrokerEnds(o) PROVE Works
    BY <1>2, <2>11 DEF BrokerEnds
  <2> QED
    BY <1>7, <2>1, <2>2, <2>3, <2>4, <2>5, <2>6, <2>7,
       <2>8, <2>9, <2>10, <2>11 DEF Around
<1> QED
  BY <1>4, <1>5, <1>6, <1>7 DEF Next

-----------------------------------------------------------------------------
(* Types, and what fits.                                                   *)

(* Outcomes are of orders, and the window of the last N is among them.     *)
LEMMA Windows ==
  ASSUME outcomes \in Seq(Orders)
  PROVE  /\ Len(outcomes) \in Nat /\ DOMAIN outcomes = 1..Len(outcomes)
         /\ Window \subseteq {outcomes[i] : i \in DOMAIN outcomes}
         /\ Window \subseteq Orders
<1>1. Len(outcomes) \in Nat /\ DOMAIN outcomes = 1..Len(outcomes)
  OBVIOUS
<1> DEFINE n == Len(outcomes)
<1>2. CASE n < N
  <2>1. Window = {}
    BY <1>2 DEF Window
  <2> QED
    BY <1>1, <2>1
<1>3. CASE ~(n < N)
  <2>1. Window = {outcomes[i] : i \in (n - N + 1)..n}
    BY <1>3 DEF Window
  <2>2. (n - N + 1)..n \subseteq 1..n
    BY <1>1, <1>3, Numbers
  <2>3. \A i \in 1..n : outcomes[i] \in Orders
    OBVIOUS
  <2> HIDE DEF n
  <2> QED
    BY <1>1, <2>1, <2>2, <2>3 DEF n
<1> QED
  BY <1>2, <1>3

(* Types: every step keeps the suggestions, ...                            *)
LEMMA SuggTypes == ASSUME Fits, Next PROVE sugg' \in [Suggestions -> SuggRow]
<1>1. sugg \in [Suggestions -> SuggRow] /\ day \in 0..MaxDays
  BY Numbers DEF Fits, TypeOK
<1>2. ASSUME NEW s \in Suggestions,
             NEW st \in {"pending", "executed", "NOT_EXECUTABLE", "dismissed"}
      PROVE  /\ [sugg[s] EXCEPT !.status = st] \in SuggRow
             /\ [status |-> st, day |-> day] \in SuggRow
  BY <1>1 DEF SuggRow
<1>3. CASE Sweep
  <2>1. PICK got \in [InFlight -> 0..Qty], fixed \in SUBSET Orphans :
          Swept(fixed, got)
    BY <1>3 DEF Sweep
  <2> QED
    BY <2>1, SweptKeeps
<1>4. CASE SuggestionsClose
  <2> DEFINE st(s) == IF HasPosition(s) THEN "executed" ELSE "dismissed"
             row(s) == [sugg[s] EXCEPT !.status = st(s)]
  <2>1. sugg' = [s \in Suggestions |->
          IF s \in Pending /\ sugg[s].day < day THEN row(s) ELSE sugg[s]]
    BY <1>4 DEF SuggestionsClose
  <2>2. \A s \in Suggestions : row(s) \in SuggRow
    BY <1>2
  <2> HIDE DEF row
  <2> QED
    BY <1>1, <2>1, <2>2
<1>5. ASSUME NEW s \in Suggestions, PickUnexecutable(s) \/ Propose(s)
      PROVE  sugg' \in [Suggestions -> SuggRow]
  <2>1. CASE PickUnexecutable(s)
    <3> DEFINE row == [sugg[s] EXCEPT !.status = "NOT_EXECUTABLE"]
    <3>1. row \in SuggRow /\ sugg' = [sugg EXCEPT ![s] = row]
      BY <1>2, <2>1 DEF PickUnexecutable
    <3> HIDE DEF row
    <3> QED
      BY <1>1, <3>1
  <2>2. CASE Propose(s)
    <3> DEFINE row == [status |-> "pending", day |-> day]
    <3>1. row \in SuggRow /\ sugg' = [sugg EXCEPT ![s] = row]
      BY <1>2, <2>2 DEF Propose
    <3> HIDE DEF row
    <3> QED
      BY <1>1, <3>1
  <2> QED
    BY <1>5, <2>1, <2>2
<1> QED
  BY <1>1, <1>3, <1>4, <1>5, Touching DEF Touches

(* ... the breaker's state, ...                                            *)
LEMMA BreakerTypes ==
  ASSUME Fits, Next
  PROVE  /\ ops' \in [paused : BOOLEAN, stamp : SUBSET Orders]
         /\ outcomes' \in Seq(Orders)
         /\ streak' \in [window : SUBSET Orders, unseen : BOOLEAN]
<1>1. /\ ops \in [paused : BOOLEAN, stamp : SUBSET Orders]
      /\ outcomes \in Seq(Orders)
      /\ streak \in [window : SUBSET Orders, unseen : BOOLEAN]
  BY DEF Fits, TypeOK
<1>2. Window \subseteq Orders
  BY <1>1, Windows
<1>3. ops' \in [paused : BOOLEAN, stamp : SUBSET Orders]
  <2>1. \/ ops' = ops \/ ops' = [ops EXCEPT !.paused = TRUE]
        \/ ops' = [ops EXCEPT !.paused = FALSE]
        \/ ops' = [ops EXCEPT !.stamp = Window]
    BY Touching DEF Touches, EvaluateFails, Trip, Mark, OperatorResume,
                    Fingerprint
  <2> QED
    BY <1>1, <1>2, <2>1
<1>4. outcomes' \in Seq(Orders)
  BY <1>1, Touching DEF Touches, Ingest
<1>5. streak' \in [window : SUBSET Orders, unseen : BOOLEAN]
  <2>1. \/ streak' = streak
        \/ streak' = [window |-> Window, unseen |-> TRUE]
        \/ streak' = [streak EXCEPT !.unseen = FALSE]
    BY Touching DEF Touches, Evaluate, OperatorResume
  <2>2. CASE streak' = [window |-> Window, unseen |-> TRUE]
    BY <1>2, <2>2
  <2>3. CASE streak' = [streak EXCEPT !.unseen = FALSE]
    BY <1>1, <2>3
  <2> QED
    BY <1>1, <2>1, <2>2, <2>3
<1> QED
  BY <1>3, <1>4, <1>5

(* ... the clock and the cooldowns.                                        *)
LEMMA DayTypes ==
  ASSUME Fits, Next
  PROVE  /\ day' \in 1..MaxDays
         /\ bench' \in [Symbols -> 0..MaxDays]
         /\ stopped' \subseteq Symbols
         /\ strays' \subseteq Orders
<1>1. /\ day \in 1..MaxDays /\ bench \in [Symbols -> 0..MaxDays]
      /\ stopped \subseteq Symbols /\ strays \subseteq Orders
  BY DEF Fits, TypeOK
<1>2. day' \in 1..MaxDays
  BY <1>1, Numbers, Touching DEF Touches, NewDay
<1>3. bench' \in [Symbols -> 0..MaxDays]
  <2>1. day \in 0..MaxDays
    BY <1>1
  <2> QED
    BY <1>1, <2>1, Touching DEF Touches, Bench, Cooled
<1>4. ASSUME NEW o \in Orders, MonitorStop(o) PROVE stopped' \subseteq Symbols
  <2>1. orders[o].sug \in Suggestions
    BY <1>4 DEF MonitorStop, Fits, RowsFit
  <2>2. Of(o) \in Symbols
    BY <2>1, EntryAssumption DEF Of
  <2> QED
    BY <1>1, <1>4, <2>2 DEF MonitorStop
<1>5. stopped' \subseteq Symbols
  BY <1>1, <1>4, Touching DEF Touches, NewDay
<1>6. strays' \subseteq Orders
  BY <1>1, Touching DEF Touches, Sweep, Opened
<1> QED
  BY <1>2, <1>3, <1>5, <1>6

(* What fits goes on fitting.                                              *)
LEMMA FitsStep == ASSUME Fits, [Next]_vars PROVE Fits'
<1>1. CASE UNCHANGED vars
  BY <1>1 DEF vars, Fits, TypeOK, JobFits, RowsFit, BrokerFits, Present
<1>2. CASE Next
  <2>1. Books /\ Trades /\ Works /\ Suffers
    BY <1>2, Bookings, Trading, Working, Suffering DEF Fits
  <2>2. TypeOK'
    BY <1>2, <2>1, Lasting, SuggTypes, BreakerTypes, DayTypes
       DEF TypeOK, Books, Trades, Works, Suffers
  <2>3. RowsFit'
    <3>1. ASSUME NEW o \in Orders, orders'[o].status # "absent"
          PROVE  orders'[o].sug \in Suggestions
      <4>1. CASE Keeps
        BY <3>1, <4>1 DEF Keeps, Kept, Present, Fits, RowsFit
      <4>2. ASSUME NEW s \in Suggestions, PickStage(s)
            PROVE  orders'[o].sug \in Suggestions
        <5>1. PICK n \in Orders :
                /\ \A p \in Orders \ {n} : orders'[p] = orders[p]
                /\ orders'[n].sug = s
          BY <4>2, Staged DEF Fits
        <5> QED
          BY <3>1, <5>1 DEF Fits, RowsFit, Present
      <4> QED
        BY <1>2, <4>1, <4>2, Rows
    <3>2. ASSUME NEW o \in Orders, posn'[o] # "none"
          PROVE  orders'[o].status # "absent"
      <4>1. Present(o)
        BY <2>1, <3>2 DEF Books, Fits, RowsFit
      <4> QED
        BY <1>2, <4>1, Lasting DEF Present
    <3> QED
      BY <3>1, <3>2 DEF RowsFit, Present
  <2> QED
    BY <2>1, <2>2, <2>3 DEF Fits, Trades, Works
<1> QED
  BY <1>1, <1>2

(* At the start everything fits.                                           *)
LEMMA FitsInit == Init => Fits
<1> SUFFICES ASSUME Init PROVE Fits
  OBVIOUS
<1>1. TypeOK
  <2>1. /\ NoOrder \in OrderRow /\ IdleJob \in JobState
        /\ [status |-> "absent", day |-> 0] \in SuggRow
        /\ [state |-> "none", fill |-> 0] \in BrokerRow
    BY Numbers DEF NoOrder, OrderRow, IdleJob, JobState, SuggRow, BrokerRow
  <2>2. 1 \in 1..MaxDays /\ 0 \in 0..MaxDays /\ << >> \in Seq(Orders)
    BY Numbers
  <2> QED
    BY <2>1, <2>2 DEF Init, TypeOK
<1>2. JobFits
  BY DEF Init, JobFits, IdleJob
<1>3. RowsFit /\ BrokerFits
  BY DEF Init, RowsFit, BrokerFits, Present, NoOrder
<1> QED
  BY <1>1, <1>2, <1>3 DEF Fits

(* What fits at the start fits always.                                     *)
LEMMA Fitting == Spec => []Fits
  BY FitsInit, FitsStep, PTL DEF Spec

(* Types. Every table of the entry side, the worker's locals and the       *)
(* histories keep their types for ever.                                    *)
THEOREM TypeCorrect == Spec => []TypeOK
<1>1. Fits => TypeOK
  BY DEF Fits
<1> QED
  BY <1>1, Fitting, PTL

-----------------------------------------------------------------------------
(* Entries that are over, stops and streaks.                               *)

(* CancelledIsOver goes on holding.                                        *)
LEMMA OverStep ==
  ASSUME Fits, CancelledIsOver, [Next]_vars
  PROVE  CancelledIsOver'
<1>1. CASE UNCHANGED vars
  BY <1>1 DEF vars, CancelledIsOver, Exposed
<1>2. CASE Next
  <2> SUFFICES ASSUME NEW o \in Orders, WrittenOff(o)' PROVE ~Exposed(o)'
    BY DEF CancelledIsOver, WrittenOff
  <2>1. Trades
    BY <1>2, Trading
  <2>2. CASE Keeps
    <3>1. WrittenOff(o) \/ ~Exposed(o)
      BY <2>2 DEF Keeps, Kept
    <3>2. ~Exposed(o)
      BY <3>1 DEF WrittenOff, CancelledIsOver
    <3>3. CASE UNCHANGED orders
      <4>1. ~(job.pc = "submit" /\ o = job.order)
        BY <3>3 DEF Fits, JobFits, WrittenOff
      <4> QED
        BY <2>1, <3>2, <4>1 DEF Trades
    <3>4. CASE UNCHANGED broker
      BY <3>2, <3>4 DEF Exposed
    <3>5. UNCHANGED orders \/ UNCHANGED broker
      BY <1>2, Touching DEF Touches, Submit, Watchdog, BrokerFills, BrokerEnds
    <3> QED
      BY <3>3, <3>4, <3>5
  <2>3. ASSUME NEW s \in Suggestions, PickStage(s) PROVE ~Exposed(o)'
    <3>1. PICK n \in Orders :
            /\ \A p \in Orders \ {n} : orders'[p] = orders[p]
            /\ orders'[n].status = "staged"
      BY <2>3, Staged DEF Fits
    <3>2. o # n
      BY <3>1 DEF WrittenOff
    <3>3. WrittenOff(o)
      BY <3>1, <3>2 DEF WrittenOff
    <3>4. ~Exposed(o) /\ UNCHANGED broker
      BY <2>3, <3>3 DEF WrittenOff, CancelledIsOver, PickStage
    <3> QED
      BY <3>4 DEF Exposed
  <2> QED
    BY <1>2, <2>2, <2>3, Rows
<1> QED
  BY <1>1, <1>2

(* An entry that the sync or the watchdog wrote off has no order and no    *)
(* fill at the broker, through lost answers, cancels that come too late    *)
(* and jobs that die anywhere.                                             *)
THEOREM WrittenOffIsOver == Spec => []CancelledIsOver
<1>1. Init => CancelledIsOver
  BY DEF Init, CancelledIsOver, NoOrder
<1> QED
  BY <1>1, OverStep, Fitting, PTL DEF Spec

(* A stop's cooldown, and a trip, are left only by being done or by dying; *)
(* runs of the autopilot start in one way.                                 *)
Turns ==
  /\ job.pc = "bench" => Bench \/ Crash \/ UNCHANGED <<job, orders>>
  /\ job.pc = "trip" => Trip \/ Crash \/ UNCHANGED job
  /\ job.pc = "mark" => Mark \/ Crash \/ UNCHANGED job
  /\ job'.pc = "trip" => Evaluate \/ UNCHANGED job
  /\ job'.pc = "mark" => Trip \/ UNCHANGED job
  /\ Idle /\ job'.pc = "pick" => RunStart

(* Every step does so.                                                     *)
LEMMA Turning == ASSUME TypeOK, Next PROVE Turns
<1>1. job \in JobState
  BY DEF TypeOK
<1>2. \A pc : Goes(pc) => job'.pc = pc
  BY <1>1 DEF Goes, JobState
<1>3. IdleJob.pc = "idle"
  BY DEF IdleJob
<1>4. CASE Autopilot
  <2>1. CASE RunStart
    <3>1. Idle /\ \E S, b : job' = Picking(S, b)
      BY <2>1 DEF RunStart
    <3>2. job.pc = "idle" /\ job'.pc = "pick"
      BY <3>1 DEF Idle, IdleJob, Picking
    <3> QED
      BY <2>1, <3>2 DEF Turns
  <2>2. CASE Stamp
    BY <1>2, <1>3, <2>2 DEF Stamp, Turns, Idle
  <2>3. CASE Submit
    <3>1. job.pc = "submit" /\ job'.pc \in {"ack", "submit", "review"}
      BY <1>1, <2>3 DEF Submit, Again, JobState, Goes, Idle
    <3> QED
      BY <3>1 DEF Turns, Idle
  <2>4. CASE SubmitDuplicate
    <3>1. job.pc = "submit" /\ job'.pc \in {"ack", "submit", "review"}
      BY <1>1, <2>4 DEF SubmitDuplicate, Again, JobState, Goes, Idle
    <3> QED
      BY <3>1 DEF Turns, Idle
  <2>5. CASE Ack
    <3>1. job.pc = "ack" /\ job'.pc \in {"pick", "submit", "review"}
      BY <1>1, <2>5 DEF Ack, Again, NextPick, Picking, IdleJob, JobState, Goes,
                           Idle
    <3> QED
      BY <3>1 DEF Turns, Idle
  <2>6. CASE Review
    <3>1. job.pc = "review" /\ job'.pc = "pick"
      BY <1>1, <2>6 DEF Review, NextPick, Picking, IdleJob, JobState, Goes,
                           Idle
    <3> QED
      BY <3>1 DEF Turns, Idle
  <2>7. CASE RunDone
    BY <1>3, <2>7 DEF RunDone, Turns, Idle
  <2>8. ASSUME NEW s \in Suggestions, PickSkip(s) PROVE Turns
    <3>1. job.pc = "pick" /\ job'.pc = "pick"
      BY <1>1, <2>8 DEF PickSkip, Picked, JobState, Goes, Idle
    <3> QED
      BY <3>1 DEF Turns, Idle
  <2>9. ASSUME NEW s \in Suggestions, PickUnexecutable(s) PROVE Turns
    <3>1. job.pc = "pick" /\ job'.pc = "pick"
      BY <1>1, <2>9 DEF PickUnexecutable, Picked, JobState, Goes, Idle
    <3> QED
      BY <3>1 DEF Turns, Idle
  <2>10. ASSUME NEW s \in Suggestions, PickStage(s) PROVE Turns
    <3>1. job.pc = "pick" /\ job'.pc = "stamp"
      BY <1>1, <2>10 DEF PickStage, Picked, JobState, Goes, Idle
    <3> QED
      BY <3>1 DEF Turns, Idle
  <2> QED
    BY <1>4, <2>1, <2>2, <2>3, <2>4, <2>5, <2>6,
       <2>7, <2>8, <2>9, <2>10 DEF Autopilot
<1>5. CASE Sync
  <2>1. CASE SyncStart
    <3>1. job.pc = "idle" /\ job'.pc = "poll"
      BY <1>1, <2>1 DEF SyncStart, IdleJob, JobState, Goes, Idle
    <3> QED
      BY <3>1 DEF Turns, Idle
  <2>2. CASE Refetch
    <3>1. job.pc = "cancel" /\ job'.pc \in {"poll", "sweep"}
      BY <1>1, <2>2 DEF Refetch, Refetched, Reconcile, Polled, JobState, Goes, Idle
    <3> QED
      BY <3>1 DEF Turns, Idle
  <2>3. CASE RefetchFails
    <3>1. job.pc = "cancel" /\ job'.pc = "poll"
      BY <1>1, <2>3 DEF RefetchFails, Polled, JobState, Goes, Idle
    <3> QED
      BY <3>1 DEF Turns, Idle
  <2>4. CASE Sweep
    BY <1>2, <1>3, <2>4 DEF Sweep, Turns, Idle
  <2>5. CASE PollDone
    BY <1>2, <1>3, <2>5 DEF PollDone, Turns, Idle
  <2>6. CASE Resolve
    BY <1>2, <1>3, <2>6 DEF Resolve, Turns, Idle
  <2>7. ASSUME NEW o \in Orders, Poll(o) PROVE Turns
    <3>1. job.pc = "poll" /\ job'.pc \in {"poll", "sweep"}
      BY <1>1, <2>7 DEF Poll, Reconcile, Polled, JobState, Goes, Idle
    <3> QED
      BY <3>1 DEF Turns, Idle
  <2>8. ASSUME NEW o \in Orders, PollFails(o) PROVE Turns
    <3>1. job.pc = "poll" /\ job'.pc = "poll"
      BY <1>1, <2>8 DEF PollFails, Polled, JobState, Goes, Idle
    <3> QED
      BY <3>1 DEF Turns, Idle
  <2>9. ASSUME NEW o \in Orders, Watchdog(o) PROVE Turns
    <3>1. job.pc = "poll" /\ job'.pc = "cancel"
      BY <1>1, <2>9 DEF Watchdog, JobState, Goes, Idle
    <3> QED
      BY <3>1 DEF Turns, Idle
  <2> QED
    BY <1>5, <2>1, <2>2, <2>3, <2>4, <2>5, <2>6, <2>7, <2>8, <2>9 DEF Sync
<1>6. CASE Breaker
  <2>1. CASE IngestStart
    <3>1. job.pc = "idle" /\ job'.pc = "ingest"
      BY <1>1, <2>1 DEF IngestStart, IdleJob, JobState, Goes, Idle
    <3> QED
      BY <3>1 DEF Turns, Idle
  <2>2. CASE IngestDone
    BY <1>2, <1>3, <2>2 DEF IngestDone, Turns, Idle
  <2>3. CASE Evaluate
    BY <1>2, <1>3, <2>3 DEF Evaluate, Turns, Idle
  <2>4. CASE EvaluateFails
    BY <1>3, <2>4 DEF EvaluateFails, Turns, Idle
  <2>5. CASE Trip
    BY <1>2, <1>3, <2>5 DEF Trip, Turns, Idle
  <2>6. CASE Mark
    BY <1>3, <2>6 DEF Mark, Turns, Idle
  <2>7. ASSUME NEW o \in Orders, Ingest(o) PROVE Turns
    BY <2>7 DEF Ingest, Turns, Idle
  <2> QED
    BY <1>6, <2>1, <2>2, <2>3, <2>4, <2>5, <2>6, <2>7 DEF Breaker
<1>7. CASE Around
  <2>1. CASE Bench
    BY <1>3, <2>1 DEF Bench, Turns, Idle
  <2>2. CASE OperatorResume
    BY <2>2 DEF OperatorResume, Turns, Idle
  <2>3. CASE SuggestionsClose
    BY <2>3 DEF SuggestionsClose, Turns, Idle
  <2>4. CASE NewDay
    BY <2>4 DEF NewDay, Turns, Idle
  <2>5. CASE Crash
    BY <1>3, <2>5 DEF Crash, Turns, Idle
  <2>6. ASSUME NEW s \in Suggestions, Propose(s) PROVE Turns
    BY <2>6 DEF Propose, Turns, Idle
  <2>7. ASSUME NEW o \in Orders, MonitorStop(o) PROVE Turns
    <3>1. job.pc = "idle" /\ job'.pc = "bench"
      BY <1>1, <2>7 DEF MonitorStop, IdleJob, JobState, Goes, Idle
    <3> QED
      BY <3>1 DEF Turns, Idle
  <2>8. ASSUME NEW o \in Orders, PositionCloses(o) PROVE Turns
    BY <2>8 DEF PositionCloses, Turns, Idle
  <2>9. ASSUME NEW o \in Orders, Older(o) PROVE Turns
    BY <2>9 DEF Older, Turns, Idle
  <2>10. ASSUME NEW o \in Orders, BrokerFills(o) PROVE Turns
    BY <2>10 DEF BrokerFills, Turns, Idle
  <2>11. ASSUME NEW o \in Orders, BrokerEnds(o) PROVE Turns
    BY <2>11 DEF BrokerEnds, Turns, Idle
  <2> QED
    BY <1>7, <2>1, <2>2, <2>3, <2>4, <2>5, <2>6, <2>7,
       <2>8, <2>9, <2>10, <2>11 DEF Around
<1> QED
  BY <1>4, <1>5, <1>6, <1>7 DEF Next

(* A stop keeps its symbol on the bench, or its cooldown is on its way.    *)
LEMMA StopsStep ==
  ASSUME Fits, Fits', StopsHold, [Next]_vars
  PROVE  StopsHold'
<1>1. CASE UNCHANGED vars
  BY <1>1 DEF vars, StopsHold, BenchComes, Benched, Of
<1>2. CASE Next
  <2>1. Suffers /\ Turns /\ Touches
    BY <1>2, Suffering, Turning, Touching DEF Fits
  <2>2. CASE "bench" \in troubles'
    BY <2>2 DEF StopsHold
  <2>3. CASE "bench" \notin troubles'
    <3>1. \A y \in stopped : Benched(y) \/ BenchComes(y)
      BY <2>1, <2>3 DEF Suffers, StopsHold
    <3>2. SUFFICES ASSUME NEW y \in stopped'
                   PROVE  Benched(y)' \/ BenchComes(y)'
      BY DEF StopsHold
    <3>3. y \in Symbols /\ day \in Nat /\ bench \in [Symbols -> 0..MaxDays]
      BY DEF Fits, TypeOK
    <3>4. CASE NewDay
      BY <3>2, <3>4 DEF NewDay
    <3>5. ASSUME NEW o \in Orders, MonitorStop(o)
          PROVE  Benched(y)' \/ BenchComes(y)'
      <4>1. job' = [IdleJob EXCEPT !.pc = "bench", !.order = o]
        BY <3>5 DEF MonitorStop
      <4>2. job'.pc = "bench" /\ job'.order = o
        BY <4>1 DEF IdleJob
      <4>3. /\ y \in stopped \/ (y = Of(o) /\ o \notin strays)
            /\ job.pc = "idle"
            /\ UNCHANGED <<orders, bench, day, strays>>
        BY <3>2, <3>5 DEF MonitorStop, Idle
      <4>4. CASE y = Of(o) /\ o \notin strays
        <5>1. (Of(job.order) = y)'
          BY <4>2, <4>3, <4>4 DEF Of
        <5> QED
          BY <4>2, <4>3, <4>4, <5>1 DEF BenchComes
      <4>5. CASE y \in stopped
        BY <3>1, <4>3, <4>5 DEF Benched, BenchComes
      <4> QED
        BY <4>3, <4>4, <4>5
    <3>6. CASE Bench
      <4>1. /\ bench' = IF job.order \in strays THEN bench
                         ELSE Cooled(Of(job.order))
            /\ UNCHANGED <<day, stopped>>
        BY <2>1, <2>3, <3>6 DEF Bench, Fails
      <4>2. Benched(y) \/ BenchComes(y)
        BY <3>1, <3>2, <4>1
      <4>3. \A z \in Symbols : Benched(z) => bench'[z] >= day
        BY <3>3, <4>1 DEF Cooled, Benched
      <4>4. BenchComes(y) => bench'[y] >= day
        <5>1. CASE Benched(y)
          BY <3>3, <4>3, <5>1
        <5>2. CASE ~Benched(y) /\ BenchComes(y)
          BY <3>3, <4>1, <5>2 DEF Cooled, BenchComes
        <5> QED
          BY <5>1, <5>2
      <4> QED
        BY <3>3, <4>1, <4>2, <4>3, <4>4 DEF Benched
    <3>7. CASE ~NewDay /\ ~Bench /\ ~(\E o \in Orders : MonitorStop(o))
      <4>1. UNCHANGED <<day, bench, stopped>>
        BY <2>1, <3>7 DEF Touches
      <4>2. CASE Benched(y)
        BY <4>1, <4>2 DEF Benched
      <4>3. CASE BenchComes(y)
        <5>1. job.pc = "bench" /\ ~Crash
          BY <2>3, <4>3 DEF BenchComes, Crash, Fails
        <5>2. UNCHANGED <<job, orders>>
          BY <2>1, <3>7, <5>1 DEF Turns
        <5>3. UNCHANGED strays
          BY <2>1, <5>1 DEF Touches, Sweep
        <5> QED
          BY <4>3, <5>2, <5>3 DEF BenchComes, Of
      <4> QED
        BY <3>1, <3>2, <4>1, <4>2, <4>3
    <3> QED
      BY <3>4, <3>5, <3>6, <3>7
  <2> QED
    BY <2>2, <2>3
<1> QED
  BY <1>1, <1>2

(* No entry is staged in a symbol that was stopped out earlier in the      *)
(* session, whichever cooldown gate failed and whoever died in between, as *)
(* long as the stop's cooldown could be written, its position was booked   *)
(* with its cohort_id and the run that stages could read its own.          *)
THEOREM StoppedOut == Spec => StoppedStaysOut
<1> DEFINE A == \/ "bench" \in troubles
                \/ job.blind
                \/ \A o \in Orders :
                     (orders[o].status = "absent" /\ orders'[o].status # "absent")
                       => Symbol[orders'[o].sug] \notin stopped
<1>1. Init => StopsHold
  BY DEF Init, StopsHold
<1>2. Spec => [](Fits /\ StopsHold)
  BY <1>1, StopsStep, Fitting, PTL DEF Spec
<1>3. ASSUME Fits, StopsHold, [Next]_vars PROVE [A]_vars
  <2>1. SUFFICES ASSUME Next, "bench" \notin troubles, ~job.blind,
                        NEW o \in Orders,
                        ~Present(o), orders'[o].status # "absent"
                 PROVE  Symbol[orders'[o].sug] \notin stopped
    BY <1>3 DEF Present
  <2>2. PICK s \in Suggestions : PickStage(s)
    BY <1>3, <2>1, Rows DEF Keeps, Kept, Present
  <2>3. PICK n \in Orders : /\ \A p \in Orders \ {n} : orders'[p] = orders[p]
                           /\ orders'[n].sug = s
    BY <1>3, <2>2, Staged DEF Fits
  <2>4. orders'[o].sug = s
    BY <2>1, <2>3 DEF Present
  <2>5. ~Benched(Symbol[s]) /\ job.pc = "pick"
    BY <2>1, <2>2 DEF PickStage, StageGate
  <2> QED
    BY <1>3, <2>1, <2>4, <2>5 DEF StopsHold, BenchComes
<1>4. Fits /\ StopsHold /\ [Next]_vars => [A]_vars
  BY <1>3
<1> QED
  BY <1>2, <1>4, PTL DEF Spec, StoppedStaysOut

(* Windows of outcomes.                                                    *)
LEMMA WindowsStep ==
  ASSUME Fits, WindowsHold, [Next]_vars
  PROVE  WindowsHold'
<1> DEFINE seen == {outcomes[i] : i \in DOMAIN outcomes}
<1>1. CASE UNCHANGED vars
  <2>1. UNCHANGED <<ops, outcomes, job, streak>>
    BY <1>1 DEF vars
  <2>2. Window' = Window /\ UNCHANGED seen
    BY <2>1 DEF Window
  <2> QED
    BY <2>1, <2>2 DEF WindowsHold
<1>2. CASE Next
  <2>1. Turns /\ Touches
    BY <1>2, Turning, Touching DEF Fits
  <2>2. /\ outcomes \in Seq(Orders) /\ job \in JobState
        /\ ops \in [paused : BOOLEAN, stamp : SUBSET Orders]
        /\ streak \in [window : SUBSET Orders, unseen : BOOLEAN]
    BY DEF Fits, TypeOK
  <2>3. Window \subseteq seen
    BY <2>2, Windows
  <2>4. ASSUME NEW o \in Orders, Ingest(o) PROVE WindowsHold'
    <3>1. /\ outcomes' = Append(outcomes, o) /\ UNCHANGED <<ops, job, streak>>
          /\ job.pc = "ingest" /\ o \in Fresh
      BY <2>4 DEF Ingest
    <3>2. o \notin seen
      BY <3>1 DEF Fresh
    <3> DEFINE n == Len(outcomes)
    <3>3. /\ n \in Nat /\ Len(outcomes') = n + 1 /\ DOMAIN outcomes = 1..n
          /\ DOMAIN outcomes' = 1..(n + 1) /\ outcomes'[n + 1] = o
          /\ \A i \in 1..n : outcomes'[i] = outcomes[i]
      BY <2>2, <3>1
    <3>4. seen \subseteq {outcomes'[i] : i \in DOMAIN outcomes'}
      <4>1. ASSUME NEW i \in 1..n
            PROVE  outcomes[i] \in {outcomes'[k] : k \in DOMAIN outcomes'}
        BY <3>3
      <4> QED
        BY <3>3, <4>1
    <3>5. Window' = {} \/ o \in Window'
      <4>1. CASE n + 1 < N
        BY <3>3, <4>1 DEF Window
      <4>2. CASE ~(n + 1 < N)
        <5> DEFINE k == Len(outcomes')
        <5>1. Window' = {outcomes'[i] : i \in (k - N + 1)..k}
          BY <3>3, <4>2 DEF Window
        <5>2. n + 1 \in (k - N + 1)..k
          BY <3>3, Numbers
        <5> QED
          BY <3>3, <5>1, <5>2
      <4> QED
        BY <4>1, <4>2
    <3>6. ops.stamp \subseteq seen
      BY DEF WindowsHold
    <3> HIDE DEF seen, n
    <3>7. /\ ops'.stamp \subseteq {outcomes'[i] : i \in DOMAIN outcomes'}
          /\ job'.pc = "ingest"
          /\ ~(ops'.stamp = Window' /\ Window' # {})
      BY <3>1, <3>2, <3>4, <3>5, <3>6
    <3> QED
      BY <3>7 DEF WindowsHold
  <2>5. CASE UNCHANGED outcomes
    <3>1. Window' = Window /\ UNCHANGED seen
      BY <2>5 DEF Window
    <3>2. CASE Evaluate
      <4>1. UNCHANGED ops /\ (streak' = streak \/ streak'.window = Window)
        BY <3>2 DEF Evaluate
      <4>2. job'.pc # "mark"
        BY <2>1, <3>2 DEF Turns, Trip, Evaluate
      <4>3. job'.pc = "trip" => streak'.window = Window
        <5>1. CASE AllLosses
          BY <3>2, <5>1 DEF Evaluate
        <5>2. CASE ~AllLosses
          BY <3>2, <5>2 DEF Evaluate, IdleJob
        <5> QED
          BY <5>1, <5>2
      <4> QED
        BY <2>5, <3>1, <4>1, <4>2, <4>3 DEF WindowsHold
    <3>3. CASE Mark
      <4>1. /\ streak' = streak /\ streak.window = Window
            /\ ops' = ops \/ ops' = [ops EXCEPT !.stamp = Window]
            /\ job'.pc = "idle"
        BY <3>3 DEF Mark, Fingerprint, WindowsHold, IdleJob
      <4>2. ops'.stamp = ops.stamp \/ ops'.stamp = Window
        BY <2>2, <4>1
      <4> QED
        BY <2>3, <2>5, <3>1, <4>1, <4>2 DEF WindowsHold
    <3>4. CASE ~Evaluate /\ ~Mark
      <4>1. ops'.stamp = ops.stamp
        BY <2>1, <2>2, <3>4 DEF Touches, EvaluateFails, Trip, OperatorResume
      <4>2. streak'.window = streak.window
        BY <2>1, <2>2, <3>4 DEF Touches, OperatorResume
      <4>3. job'.pc \in {"trip", "mark"} => job.pc \in {"trip", "mark"}
        BY <2>1, <3>4 DEF Turns, Trip
      <4> QED
        BY <2>5, <3>1, <4>1, <4>2, <4>3 DEF WindowsHold
    <3> QED
      BY <3>2, <3>3, <3>4
  <2> QED
    BY <2>1, <2>4, <2>5 DEF Touches
<1> QED
  BY <1>1, <1>2

(* An unseen streak keeps entries paused.                                  *)
LEMMA StreakStep ==
  ASSUME Fits, WindowsHold, StreakHolds, [Next]_vars
  PROVE  StreakHolds'
<1>1. CASE UNCHANGED vars
  BY <1>1 DEF vars, StreakHolds
<1>2. CASE Next
  <2>1. Turns /\ Touches /\ Suffers
    BY <1>2, Turning, Touching, Suffering DEF Fits
  <2>2. SUFFICES ASSUME troubles' \cap {"pause", "read", "crash"} = {},
                        streak'.unseen, ~ops'.paused
                 PROVE  job'.pc = "trip"
    BY DEF StreakHolds
  <2>3. /\ job \in JobState /\ ops \in [paused : BOOLEAN, stamp : SUBSET Orders]
        /\ streak \in [window : SUBSET Orders, unseen : BOOLEAN]
    BY DEF Fits, TypeOK
  <2>4. ~streak.unseen \/ ops.paused \/ job.pc = "trip"
    BY <2>1, <2>2 DEF StreakHolds, Suffers
  <2>5. ~OperatorResume /\ ~EvaluateFails
    BY <2>2, <2>3 DEF OperatorResume, EvaluateFails
  <2>6. ~Trip /\ ~(job.pc = "trip" /\ Crash)
    BY <2>2, <2>3 DEF Trip, Crash, Fails
  <2>7. ops'.paused = ops.paused
    BY <2>1, <2>3, <2>5, <2>6 DEF Touches, Mark
  <2>8. CASE Evaluate
    <3>1. job.pc = "evaluate"
      BY <2>8 DEF Evaluate
    <3>2. AllLosses /\ streak.window # Window
      BY <2>2, <2>4, <2>7, <2>8, <3>1 DEF Evaluate
    <3>3. ops.stamp # Window
      BY <3>2 DEF AllLosses, WindowsHold
    <3>4. Goes("trip")
      BY <2>8, <3>2, <3>3 DEF Evaluate, Fingerprint
    <3> QED
      BY <2>3, <3>4 DEF Goes, JobState
  <2>9. CASE ~Evaluate
    <3>1. streak' = streak
      BY <2>1, <2>5, <2>9 DEF Touches
    <3>2. job.pc = "trip"
      BY <2>2, <2>4, <2>7, <3>1
    <3> QED
      BY <2>1, <2>6, <3>2 DEF Turns
  <2> QED
    BY <2>8, <2>9
<1> QED
  BY <1>1, <1>2

(* Once the breaker has evaluated a new window of losses, no run of the    *)
(* autopilot gets past its gates before the operator let entries go on,    *)
(* unless the pause could not be written or read or the ingest died.       *)
THEOREM StreakStops == Spec => NoTradeThroughStreak
<1> DEFINE A == \/ troubles' \cap {"pause", "read", "crash"} # {}
                \/ ~streak.unseen
                \/ ~(Idle /\ job'.pc = "pick")
<1>1. Init => WindowsHold /\ StreakHolds
  BY DEF Init, WindowsHold, StreakHolds, IdleJob
<1>2. Spec => [](Fits /\ WindowsHold /\ StreakHolds)
  BY <1>1, WindowsStep, StreakStep, Fitting, PTL DEF Spec
<1>3. ASSUME Fits, StreakHolds, [Next]_vars PROVE [A]_vars
  <2>1. SUFFICES ASSUME Next, troubles' \cap {"pause", "read", "crash"} = {},
                        Idle, job'.pc = "pick"
                 PROVE  ~streak.unseen
    BY <1>3
  <2>2. RunStart /\ Suffers
    BY <1>3, <2>1, Turning, Suffering DEF Turns, Fits
  <2>3. ~ops.paused
    BY <2>1, <2>2 DEF RunStart, Strike
  <2> QED
    BY <1>3, <2>1, <2>2, <2>3 DEF StreakHolds, Suffers, Idle
<1>4. Fits /\ StreakHolds /\ [Next]_vars => [A]_vars
  BY <1>3
<1> QED
  BY <1>2, <1>4, PTL DEF Spec, NoTradeThroughStreak
=============================================================================
