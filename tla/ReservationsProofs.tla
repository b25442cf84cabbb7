------------------------- MODULE ReservationsProofs -------------------------
(***************************************************************************)
(* What the row lock still guarantees about reservations although their    *)
(* own rows are read before it is taken: however many requests, sweeps and *)
(* crashes overlap, no bin promises more than it holds and no hold         *)
(* outlives its reservation.                                               *)
(*                                                                         *)
(* The argument: what has been given back only grows, so what is still     *)
(* outstanding for a reservation never exceeds what any request in flight  *)
(* once read there.  Whoever commits therefore gives back enough.          *)
(* RaceInv, at the end, is about the reservations on which requests never  *)
(* met: what was read is the case still, so each gives back just enough.   *)
(***************************************************************************)
EXTENDS Reservations, Sums

Outstanding(id) == original[id] - freed[id]

(* A request gives up at most what it read, all of it unless it is a draw, *)
(* and what it read bounds what is still outstanding.                      *)
SnapshotsBound ==
    \A p \in Processes : Busy(p) =>
        /\ resv[request[p].id].status # "NONE"
        /\ request[p].wanted <= request[p].seen
        /\ request[p].closing # "DRAW" => request[p].wanted = request[p].seen
        /\ Outstanding(request[p].id) <= request[p].seen

(* An identity that is not in use yet has no history.                      *)
UnusedHasNoHistory ==
    \A id \in Reservations :
        resv[id].status = "NONE" => original[id] = 0 /\ freed[id] = 0

IInv ==
    /\ TypeOK
    /\ PromisesAreBacked
    /\ SnapshotsBound
    /\ UnusedHasNoHistory
    /\ HoldNeverOutlivesReservation

-----------------------------------------------------------------------------
LEMMA InitEstablishesInvariant == Init => IInv
<1> SUFFICES ASSUME Init PROVE IInv
  OBVIOUS
<1>1. TypeOK
  BY MaxQuantityAssumption
     DEF Init, TypeOK, Row, Reservation, Statuses, Quantity
<1>2. PromisesAreBacked
  BY MaxQuantityAssumption DEF Init, PromisesAreBacked, Quantity
<1>3. SnapshotsBound
  BY DEF Init, SnapshotsBound, Busy
<1>4. UnusedHasNoHistory /\ HoldNeverOutlivesReservation
  BY DEF Init, UnusedHasNoHistory, HoldNeverOutlivesReservation, StillHeld, Active
<1> QED
  BY <1>1, <1>2, <1>3, <1>4 DEF IInv

LEMMA ReserveKeepsInvariant ==
    ASSUME IInv, NEW id \in Reservations, NEW quantity \in Quantity,
           Reserve(id, quantity)
    PROVE  IInv'
<1> DEFINE b == resv[id].bin
<1>1. b \in Bins /\ rows[b] \in Row
  BY DEF IInv, TypeOK, Reservation
<1>2. /\ resv[id].status = "NONE"
      /\ MayAdjustReserved(rows[b], quantity)
      /\ rows' = [rows EXCEPT ![b].reserved = @ + quantity]
      /\ resv' = [resv EXCEPT ![id].status = "ACTIVE", ![id].quantity = quantity]
      /\ original' = [original EXCEPT ![id] = quantity]
      /\ UNCHANGED <<past, request, batch, freed, raced>>
  BY DEF Reserve
<1>3. /\ rows[b].reserved + quantity \in 0..MaxQuantity
      /\ rows[b].reserved + quantity <= rows[b].onHand
  BY <1>1, <1>2, MaxQuantityAssumption DEF MayAdjustReserved, Row, Quantity
<1> HIDE DEF b
<1>4. TypeOK'
  <2>1. rows' \in [Bins -> Row]
    BY <1>1, <1>2, <1>3 DEF IInv, TypeOK, Row
  <2>2. /\ resv' \in [Reservations -> Reservation]
        /\ original' \in [Reservations -> Nat]
    <3>1. /\ resv'[id] = [[resv[id] EXCEPT !.status = "ACTIVE"]
                              EXCEPT !.quantity = quantity]
          /\ \A k \in Reservations \ {id} : resv'[k] = resv[k]
      BY <1>2 DEF IInv, TypeOK
    <3>2. DOMAIN resv' = Reservations /\ resv' = [k \in Reservations |-> resv'[k]]
      BY <1>2 DEF IInv, TypeOK
    <3>3. \A k \in Reservations : resv'[k] \in Reservation
      <4>1. resv'[id] \in Reservation
        <5>1. resv[id] \in Reservation /\ "ACTIVE" \in Statuses
          BY DEF IInv, TypeOK, Statuses
        <5>2. [resv[id] EXCEPT !.status = "ACTIVE"] \in Reservation
          BY <5>1 DEF Reservation
        <5> QED
          BY <3>1, <5>2 DEF Reservation
      <4> QED
        BY <3>1, <4>1 DEF IInv, TypeOK
    <3>4. quantity \in Nat
      BY MaxQuantityAssumption DEF Quantity
    <3>5. original' \in [Reservations -> Nat]
      BY <1>2, <3>4 DEF IInv, TypeOK
    <3> QED
      BY <3>2, <3>3, <3>5
  <2> QED
    BY <1>2, <2>1, <2>2 DEF IInv, TypeOK
<1>5. PromisesAreBacked'
  BY <1>1, <1>2, <1>3 DEF IInv, TypeOK, PromisesAreBacked, Row
<1>6. SnapshotsBound'
  <2> SUFFICES ASSUME NEW p \in Processes, Busy(p)
               PROVE  /\ resv'[request[p].id].status # "NONE"
                      /\ request[p].wanted <= request[p].seen
                      /\ request[p].closing # "DRAW"
                             => request[p].wanted = request[p].seen
                      /\ original'[request[p].id] - freed[request[p].id]
                             <= request[p].seen
    BY <1>2 DEF SnapshotsBound, Busy, Outstanding
  <2>1. request[p].id # id
    BY <1>2 DEF IInv, SnapshotsBound
  <2>2. request[p].id \in Reservations
    BY DEF IInv, TypeOK, Busy, Request
  <2> QED
    BY <1>2, <2>1, <2>2 DEF IInv, TypeOK, SnapshotsBound, Outstanding
<1>7. UnusedHasNoHistory'
  BY <1>2 DEF IInv, TypeOK, UnusedHasNoHistory, Reservation
<1>8. HoldNeverOutlivesReservation'
  BY <1>2, MaxQuantityAssumption
     DEF IInv, TypeOK, UnusedHasNoHistory, HoldNeverOutlivesReservation,
         StillHeld, Active, Reservation, Quantity
<1> QED
  BY <1>4, <1>5, <1>6, <1>7, <1>8 DEF IInv

LEMMA MoveKeepsInvariant ==
    ASSUME IInv, NEW b \in Bins, NEW type \in MovementTypes,
           MoveStock(b, type, 1)
    PROVE  IInv'
<1>1. rows[b] \in Row
  BY DEF IInv, TypeOK
<1>2. /\ MayMove(rows[b], type, 1)
      /\ rows' = [rows EXCEPT ![b].onHand = @ + SignedQuantity(type, 1)]
      /\ UNCHANGED <<resv, past, request, batch, original, freed, raced>>
  BY DEF MoveStock
<1>3. SignedQuantity(type, 1) \in Int
  BY DEF SignedQuantity, SignForMovement
<1>4. /\ rows[b].onHand + SignedQuantity(type, 1) \in 0..MaxQuantity
      /\ rows[b].reserved <= rows[b].onHand + SignedQuantity(type, 1)
  BY <1>1, <1>2, <1>3, MaxQuantityAssumption DEF MayMove, Row
<1>5. TypeOK'
  BY <1>1, <1>2, <1>4 DEF IInv, TypeOK, Row
<1>6. PromisesAreBacked'
  BY <1>1, <1>2, <1>4 DEF IInv, TypeOK, PromisesAreBacked, Row
<1>7. SnapshotsBound' /\ UnusedHasNoHistory' /\ HoldNeverOutlivesReservation'
  BY <1>2 DEF IInv, SnapshotsBound, UnusedHasNoHistory,
       HoldNeverOutlivesReservation, Busy, Outstanding, StillHeld, Active
<1> QED
  BY <1>5, <1>6, <1>7 DEF IInv

-----------------------------------------------------------------------------
(* Reading an ACTIVE reservation takes a snapshot that bounds it.          *)
LEMMA ReadingKeepsInvariant ==
    ASSUME IInv, NEW p \in Processes, NEW id \in Reservations, Active(id),
           NEW closing \in Closings, NEW wanted \in Quantity,
           wanted <= resv[id].quantity,
           closing # "DRAW" => wanted = resv[id].quantity,
           Read(p, closing, id, wanted),
           batch' \in [Sweepers -> SUBSET Reservations],
           UNCHANGED <<rows, resv, past, original, freed>>
    PROVE  IInv'
<1> DEFINE r == Reading(closing, id, wanted)
<1>1. /\ r \in Request
      /\ r.id = id /\ r.closing = closing /\ r.wanted = wanted
      /\ r.seen = resv[id].quantity
  BY DEF Reading, Request, IInv, TypeOK, Reservation
<1> HIDE DEF r
<1>2. /\ request' = [request EXCEPT ![p] = r]
      /\ raced' \in SUBSET Reservations
  BY DEF r, Read, IInv, TypeOK
<1>3. TypeOK'
  BY <1>1, <1>2 DEF IInv, TypeOK
<1>4. PromisesAreBacked' /\ UnusedHasNoHistory' /\ HoldNeverOutlivesReservation'
  BY DEF IInv, PromisesAreBacked, UnusedHasNoHistory,
     HoldNeverOutlivesReservation, StillHeld, Active
<1>5. SnapshotsBound'
  <2> SUFFICES ASSUME NEW q \in Processes, request'[q] # NoRequest
               PROVE  /\ resv[request'[q].id].status # "NONE"
                      /\ request'[q].wanted <= request'[q].seen
                      /\ request'[q].closing # "DRAW"
                             => request'[q].wanted = request'[q].seen
                      /\ original[request'[q].id] - freed[request'[q].id]
                             <= request'[q].seen
    BY DEF SnapshotsBound, Busy, Outstanding
  <2>1. CASE q = p
    <3>1. request'[q] = r
      BY <1>2, <2>1 DEF IInv, TypeOK
    <3>2. original[id] - freed[id] <= resv[id].quantity
      BY DEF IInv, HoldNeverOutlivesReservation, StillHeld
    <3> QED
      BY <1>1, <3>1, <3>2 DEF Active
  <2>2. CASE q # p
    <3>1. request'[q] = request[q]
      BY <1>2, <2>2 DEF IInv, TypeOK
    <3> QED
      BY <3>1 DEF IInv, SnapshotsBound, Busy, Outstanding
  <2> QED
    BY <2>1, <2>2
<1> QED
  BY <1>3, <1>4, <1>5 DEF IInv

(* Dropping a request, or changing nothing but the clock and the batches.  *)
LEMMA QuietKeepsInvariant ==
    ASSUME IInv, NEW p,
           request' \in {request, [request EXCEPT ![p] = NoRequest]},
           past' \in SUBSET Reservations,
           raced' \in SUBSET Reservations,
           batch' \in [Sweepers -> SUBSET Reservations],
           UNCHANGED <<rows, resv, original, freed>>
    PROVE  IInv'
<1>1. \A q \in Processes : request'[q] \in {request[q], NoRequest}
  BY DEF IInv, TypeOK
<1>2. TypeOK'
  BY <1>1 DEF IInv, TypeOK
<1>3. SnapshotsBound'
  <2> SUFFICES ASSUME NEW q \in Processes, request'[q] # NoRequest
               PROVE  /\ resv[request'[q].id].status # "NONE"
                      /\ request'[q].wanted <= request'[q].seen
                      /\ request'[q].closing # "DRAW"
                             => request'[q].wanted = request'[q].seen
                      /\ original[request'[q].id] - freed[request'[q].id]
                             <= request'[q].seen
    BY DEF SnapshotsBound, Busy, Outstanding
  <2>1. request'[q] = request[q]
    BY <1>1
  <2> QED
    BY <2>1 DEF IInv, SnapshotsBound, Busy, Outstanding
<1>4. PromisesAreBacked' /\ UnusedHasNoHistory' /\ HoldNeverOutlivesReservation'
  BY DEF IInv, PromisesAreBacked, UnusedHasNoHistory,
     HoldNeverOutlivesReservation, StillHeld, Active
<1> QED
  BY <1>2, <1>3, <1>4 DEF IInv
-----------------------------------------------------------------------------
(* A commit: the row it leaves behind is within its columns and not        *)
(* oversold, because the row is checked under the lock.                    *)
LEMMA CommittedRow ==
    ASSUME IInv, NEW r \in Request, RowAccepts(r)
    PROVE  RowAfter(r) \in Row /\ RowAfter(r).reserved <= RowAfter(r).onHand
<1>1. /\ rows[r.bin] \in Row /\ r.wanted \in 0..MaxQuantity
      /\ rows[r.bin].reserved <= rows[r.bin].onHand
  BY DEF IInv, TypeOK, PromisesAreBacked, Request, Quantity
<1>2. /\ rows[r.bin].onHand \in 0..MaxQuantity
      /\ rows[r.bin].reserved \in 0..MaxQuantity
  BY <1>1 DEF Row
<1>3. rows[r.bin].reserved - r.wanted >= 0
  BY <1>2, <1>1 DEF RowAccepts, MayAdjustReserved, GivenBack
<1>4. /\ AfterHold(r) \in Row
      /\ AfterHold(r).onHand = rows[r.bin].onHand
      /\ AfterHold(r).reserved = rows[r.bin].reserved - r.wanted
  BY <1>1, <1>2, <1>3, MaxQuantityAssumption DEF AfterHold, GivenBack, Row
<1>5. CASE Ships(r)
  <2>1. SignedQuantity("ISSUE", r.wanted) = -r.wanted
    BY <1>1 DEF SignedQuantity, SignForMovement, InboundMovements, OutboundMovements
  <2>2. AfterHold(r).onHand - r.wanted >= AfterHold(r).reserved
    BY <1>1, <1>2, <1>4, <1>5, <2>1 DEF RowAccepts, MayMove
  <2> QED
    BY <1>1, <1>2, <1>3, <1>4, <1>5, <2>2, MaxQuantityAssumption DEF RowAfter, Row
<1>6. CASE ~Ships(r)
  BY <1>1, <1>2, <1>4, <1>6 DEF RowAfter
<1> QED
  BY <1>5, <1>6

LEMMA CommitKeepsInvariant ==
    ASSUME IInv, NEW p \in Processes, Commit(p)
    PROVE  IInv'
<1> DEFINE r == request[p]
<1>1. /\ r \in Request /\ r.id \in Reservations /\ r.bin \in Bins
      /\ r.seen \in 0..MaxQuantity /\ r.wanted \in 0..MaxQuantity
      /\ r.closing \in Closings
  <2>1. r \in Request
    BY DEF Commit, Busy, IInv, TypeOK
  <2> QED
    BY <2>1 DEF Request, Quantity
<1>2. /\ resv[r.id].status # "NONE" /\ r.wanted <= r.seen
      /\ r.closing # "DRAW" => r.wanted = r.seen
      /\ Outstanding(r.id) <= r.seen
  BY DEF Commit, IInv, SnapshotsBound
<1>3. RowAfter(r) \in Row /\ RowAfter(r).reserved <= RowAfter(r).onHand
  BY <1>1, CommittedRow DEF Commit
<1>4. /\ rows' = [rows EXCEPT ![r.bin] = RowAfter(r)]
      /\ resv' = [resv EXCEPT ![r.id].status = NewStatus(r),
                              ![r.id].quantity = NewQuantity(r)]
      /\ freed' = [freed EXCEPT ![r.id] = @ + r.wanted]
      /\ request' = [request EXCEPT ![p] = NoRequest]
      /\ UNCHANGED <<past, batch, original, raced>>
  BY DEF Commit, GivenBack
<1> HIDE DEF r
<1>5. resv[r.id] \in Reservation
  BY <1>1 DEF IInv, TypeOK
<1>6. NewStatus(r) \in Statuses \ {"NONE"} /\ NewQuantity(r) \in Quantity
  <2>1. NewStatus(r) \in Statuses \ {"NONE"}
    BY <1>1, <1>2, <1>5 DEF NewStatus, Closings, Statuses, Reservation
  <2>2. NewQuantity(r) \in Quantity
    BY <1>1, <1>2, <1>5, MaxQuantityAssumption DEF NewQuantity, Quantity, Reservation
  <2> QED
    BY <2>1, <2>2
<1>7. /\ \A k \in Reservations \ {r.id} : resv'[k] = resv[k]
      /\ resv'[r.id].status = NewStatus(r) /\ resv'[r.id].quantity = NewQuantity(r)
      /\ resv'[r.id] \in Reservation
  <2>1. resv'[r.id] = [[resv[r.id] EXCEPT !.status = NewStatus(r)]
                          EXCEPT !.quantity = NewQuantity(r)]
    BY <1>1, <1>4 DEF IInv, TypeOK
  <2>2. \A k \in Reservations \ {r.id} : resv'[k] = resv[k]
    BY <1>1, <1>4 DEF IInv, TypeOK
  <2>3. /\ resv'[r.id].status = NewStatus(r) /\ resv'[r.id].quantity = NewQuantity(r)
        /\ resv'[r.id] \in Reservation
    BY <1>5, <1>6, <2>1 DEF Reservation
  <2> QED
    BY <2>2, <2>3
<1>8. \A k \in Reservations :
          freed'[k] = IF k = r.id THEN freed[k] + r.wanted ELSE freed[k]
  BY <1>4 DEF IInv, TypeOK
<1>9. \A k \in Reservations : original[k] \in Nat /\ freed[k] \in Nat
  BY DEF IInv, TypeOK
<1>10. TypeOK'
  <2>1. rows' \in [Bins -> Row]
    BY <1>1, <1>3, <1>4 DEF IInv, TypeOK
  <2>2. resv' = [k \in Reservations |-> resv'[k]]
    BY <1>4 DEF IInv, TypeOK
  <2>3. \A k \in Reservations : resv'[k] \in Reservation
    BY <1>7 DEF IInv, TypeOK
  <2>4. freed' = [k \in Reservations |-> freed'[k]]
    BY <1>4 DEF IInv, TypeOK
  <2>5. \A k \in Reservations : freed'[k] \in Nat
    BY <1>1, <1>8, <1>9, MaxQuantityAssumption
  <2>6. request' \in [Processes -> Request \cup {NoRequest}]
    BY <1>4 DEF IInv, TypeOK
  <2> QED
    BY <1>4, <2>1, <2>2, <2>3, <2>4, <2>5, <2>6 DEF IInv, TypeOK
<1>11. PromisesAreBacked'
  BY <1>1, <1>3, <1>4 DEF IInv, TypeOK, PromisesAreBacked
<1>12. \A k \in Reservations : original[k] - freed'[k] <= Outstanding(k)
  BY <1>1, <1>8, <1>9, MaxQuantityAssumption DEF Outstanding
<1>13. SnapshotsBound'
  <2> SUFFICES ASSUME NEW q \in Processes, request'[q] # NoRequest
               PROVE  /\ resv'[request'[q].id].status # "NONE"
                      /\ request'[q].wanted <= request'[q].seen
                      /\ request'[q].closing # "DRAW"
                             => request'[q].wanted = request'[q].seen
                      /\ original[request'[q].id] - freed'[request'[q].id]
                             <= request'[q].seen
    BY <1>4 DEF SnapshotsBound, Busy, Outstanding
  <2>1. request'[q] = request[q] /\ Busy(q)
    BY <1>4 DEF IInv, TypeOK, Busy
  <2>2. /\ request[q].id \in Reservations /\ request[q].seen \in 0..MaxQuantity
    BY <2>1 DEF IInv, TypeOK, Busy, Request, Quantity
  <2>3. /\ resv[request[q].id].status # "NONE"
        /\ request[q].wanted <= request[q].seen
        /\ request[q].closing # "DRAW" => request[q].wanted = request[q].seen
        /\ Outstanding(request[q].id) <= request[q].seen
    BY <2>1 DEF IInv, SnapshotsBound
  <2>4. resv'[request[q].id].status # "NONE"
    BY <1>6, <1>7, <2>2, <2>3
  <2>5. original[request[q].id] - freed'[request[q].id] <= request[q].seen
    <3>1. freed'[request[q].id] \in Nat
      BY <1>10, <2>2 DEF TypeOK
    <3> QED
      BY <1>9, <1>12, <2>2, <2>3, <3>1 DEF Outstanding
  <2> QED
    BY <2>1, <2>3, <2>4, <2>5
<1>14. UnusedHasNoHistory'
  BY <1>4, <1>6, <1>7, <1>8 DEF IInv, UnusedHasNoHistory
<1>15. HoldNeverOutlivesReservation'
  <2> SUFFICES ASSUME NEW k \in Reservations
               PROVE  original[k] - freed'[k] <= StillHeld(k)'
    BY <1>4 DEF HoldNeverOutlivesReservation
  <2>1. original[k] - freed[k] <= StillHeld(k)
    BY DEF IInv, HoldNeverOutlivesReservation
  <2>2. CASE k # r.id
    BY <1>7, <1>8, <2>1, <2>2 DEF StillHeld, Active
  <2>3. CASE k = r.id
    <3>1. original[k] - freed'[k] <= r.seen - r.wanted
      BY <1>1, <1>2, <1>8, <1>9, <2>3 DEF Outstanding
    <3>2. CASE r.closing # "DRAW"
      <4>1. NewStatus(r) # "ACTIVE"
        BY <1>1, <3>2 DEF NewStatus, Closings
      <4>2. r.seen - r.wanted = 0
        BY <1>1, <1>2, <3>2
      <4> QED
        BY <1>7, <2>3, <3>1, <4>1, <4>2 DEF StillHeld, Active
    <3>3. CASE r.closing = "DRAW" /\ r.wanted = r.seen
      <4>1. NewStatus(r) = "CONSUMED"
        BY <3>3 DEF NewStatus
      <4>2. r.seen - r.wanted = 0
        BY <1>1, <3>3
      <4> QED
        BY <1>7, <2>3, <3>1, <4>1, <4>2 DEF StillHeld, Active
    <3>4. CASE r.closing = "DRAW" /\ r.wanted # r.seen
      <4>1. NewStatus(r) = resv[k].status /\ NewQuantity(r) = r.seen - r.wanted
        BY <2>3, <3>4 DEF NewStatus, NewQuantity
      <4>2. CASE resv[k].status = "ACTIVE"
        BY <1>7, <2>3, <3>1, <4>1, <4>2 DEF StillHeld, Active
      <4>3. CASE resv[k].status # "ACTIVE"
        <5>1. original[k] - freed[k] <= 0
          BY <2>1, <4>3 DEF StillHeld, Active
        <5>2. original[k] - freed'[k] <= 0
          BY <1>1, <1>8, <1>9, <2>3, <5>1
        <5> QED
          BY <1>7, <2>3, <4>1, <4>3, <5>2 DEF StillHeld, Active
      <4> QED
        BY <4>2, <4>3
    <3> QED
      BY <3>2, <3>3, <3>4
  <2> QED
    BY <2>2, <2>3
<1> QED
  BY <1>10, <1>11, <1>13, <1>14, <1>15 DEF IInv

-----------------------------------------------------------------------------
LEMMA NextKeepsInvariant == IInv /\ [Next]_vars => IInv'
<1> SUFFICES ASSUME IInv, [Next]_vars PROVE IInv'
  OBVIOUS
<1>1. ASSUME NEW id \in Reservations, NEW quantity \in Quantity,
             Reserve(id, quantity)
      PROVE  IInv'
  BY <1>1, ReserveKeepsInvariant
<1>2. ASSUME NEW b \in Bins, NEW type \in {"RECEIPT", "ISSUE"},
             MoveStock(b, type, 1)
      PROVE  IInv'
  <2>1. type \in MovementTypes
    BY DEF MovementTypes, InboundMovements, OutboundMovements
  <2> QED
    BY <1>2, <2>1, MoveKeepsInvariant
<1>3. ASSUME NEW id \in Reservations, Elapse(id) PROVE IInv'
  BY <1>3, QuietKeepsInvariant DEF Elapse, IInv, TypeOK
<1>4. ASSUME NEW p \in Users, UserRequest(p) PROVE IInv'
  <2>0. p \in Processes
    BY DEF Processes
  <2>1. ASSUME NEW id \in Reservations, NEW closing \in {"RELEASE", "CONSUME"},
               LoadWhole(p, closing, id)
        PROVE  IInv'
    <3>1. resv[id].quantity \in Quantity /\ resv[id].quantity <= resv[id].quantity
      BY DEF IInv, TypeOK, Reservation, Quantity
    <3>2. closing \in Closings
      BY DEF Closings
    <3>3. batch' \in [Sweepers -> SUBSET Reservations]
      BY <2>1 DEF LoadWhole, IInv, TypeOK
    <3> QED
      BY <2>0, <2>1, <3>1, <3>2, <3>3, ReadingKeepsInvariant DEF LoadWhole
  <2>2. ASSUME NEW id \in Reservations, NEW wanted \in Quantity,
               FindForDraw(p, id, wanted)
        PROVE  IInv'
    <3>1. "DRAW" \in Closings /\ batch' \in [Sweepers -> SUBSET Reservations]
      BY <2>2 DEF FindForDraw, Closings, IInv, TypeOK
    <3> QED
      BY <2>0, <2>2, <3>1, ReadingKeepsInvariant DEF FindForDraw
  <2> QED
    BY <1>4, <2>1, <2>2 DEF UserRequest
<1>5. ASSUME NEW w \in Sweepers, Sweep(w) PROVE IInv'
  <2>0. w \in Processes
    BY DEF Processes
  <2>1. ASSUME StartSweep(w) PROVE IInv'
    <3>1. batch' \in [Sweepers -> SUBSET Reservations]
      BY <2>1 DEF StartSweep, Stale, IInv, TypeOK
    <3> QED
      BY <2>1, <3>1, QuietKeepsInvariant DEF StartSweep, IInv, TypeOK
  <2>2. ASSUME NEW id \in Reservations, SweepNext(w, id) PROVE IInv'
    <3>1. batch' \in [Sweepers -> SUBSET Reservations]
      BY <2>2 DEF SweepNext, IInv, TypeOK
    <3>2. CASE Active(id)
      <4>1. resv[id].quantity \in Quantity /\ resv[id].quantity <= resv[id].quantity
        BY DEF IInv, TypeOK, Reservation, Quantity
      <4>2. "EXPIRE" \in Closings
        BY DEF Closings
      <4> QED
        BY <2>0, <2>2, <3>1, <3>2, <4>1, <4>2, ReadingKeepsInvariant DEF SweepNext
    <3>3. CASE ~Active(id)
      BY <2>2, <3>1, <3>3, QuietKeepsInvariant DEF SweepNext, IInv, TypeOK
    <3> QED
      BY <3>2, <3>3
  <2> QED
    BY <1>5, <2>1, <2>2 DEF Sweep
<1>6. ASSUME NEW p \in Processes, Commit(p) PROVE IInv'
  BY <1>6, CommitKeepsInvariant
<1>7. ASSUME NEW p \in Processes, Refuse(p) PROVE IInv'
  <2>1. /\ past' \in SUBSET Reservations /\ raced' \in SUBSET Reservations
        /\ batch' \in [Sweepers -> SUBSET Reservations]
    BY <1>7 DEF Refuse, IInv, TypeOK
  <2>2. /\ request' \in {request, [request EXCEPT ![p] = NoRequest]}
        /\ UNCHANGED <<rows, resv, original, freed>>
    BY <1>7 DEF Refuse
  <2> QED
    BY <2>1, <2>2, QuietKeepsInvariant
<1>8. ASSUME NEW p \in Processes, Die(p) PROVE IInv'
  <2>1. /\ past' \in SUBSET Reservations /\ raced' \in SUBSET Reservations
        /\ batch' \in [Sweepers -> SUBSET Reservations]
    BY <1>8 DEF Die, IInv, TypeOK
  <2>2. /\ request' \in {request, [request EXCEPT ![p] = NoRequest]}
        /\ UNCHANGED <<rows, resv, original, freed>>
    BY <1>8 DEF Die
  <2> QED
    BY <2>1, <2>2, QuietKeepsInvariant
<1>9. ASSUME UNCHANGED vars PROVE IInv'
  BY <1>9, QuietKeepsInvariant DEF vars, IInv, TypeOK
<1> QED
  BY <1>1, <1>2, <1>3, <1>4, <1>5, <1>6, <1>7, <1>8, <1>9 DEF Next

-----------------------------------------------------------------------------
(* Whatever requests, sweeps and crashes overlap, IInv holds.              *)
THEOREM InvariantHolds == Spec => []IInv
<1>1. Init => IInv
  BY InitEstablishesInvariant
<1>2. IInv /\ [Next]_vars => IInv'
  BY NextKeepsInvariant
<1> QED
  BY <1>1, <1>2, PTL DEF Spec

(* Type correctness of the reservation model.                              *)
THEOREM TypeCorrectness == Spec => []TypeOK
BY InvariantHolds, PTL DEF IInv

(* Reserved stock is always backed by stock on hand, races included.       *)
THEOREM EveryPromiseIsBacked == Spec => []PromisesAreBacked
BY InvariantHolds, PTL DEF IInv

(* consume(): a reservation never ends with its hold left behind, so       *)
(* quantity_reserved is never permanently overstated.                      *)
THEOREM NoHoldIsLeftBehind == Spec => []HoldNeverOutlivesReservation
BY InvariantHolds, PTL DEF IInv

-----------------------------------------------------------------------------
(* What a request has read still holds while nobody else was at work on    *)
(* the reservation.                                                        *)
ReadingsHold ==
    /\ \A p \in Processes : Busy(p) =>
           /\ request[p].bin = resv[request[p].id].bin
           /\ request[p].id \notin raced =>
                  Active(request[p].id) /\ request[p].seen = resv[request[p].id].quantity
    /\ \A p, q \in Processes :
           p # q /\ Busy(p) /\ Busy(q) /\ request[p].id = request[q].id => request[p].id \in raced

(* What has not been given back of a reservation is what it still holds.   *)
NothingIsFreedTwice ==
    \A id \in Reservations \ raced : Outstanding(id) = StillHeld(id)

RaceInv == ReadingsHold /\ NothingIsFreedTwice /\ ReservedMatchesUnlessRaced

(* What each reservation contributes to the holds of a bin, and what those *)
(* come to.                                                                *)
Share(r, b) ==
    [id \in Reservations |->
        IF r[id].status = "ACTIVE" /\ r[id].bin = b THEN r[id].quantity ELSE 0]
Shares(r, b) == SumFunctionOnSet(Share(r, b), Reservations)

(* What a bin's ACTIVE reservations hold is the sum of the shares of all.  *)
LEMMA HoldsAreShares ==
    ASSUME NEW r \in [Reservations -> Reservation], NEW b
    PROVE  LET active == {id \in Reservations : r[id].status = "ACTIVE" /\ r[id].bin = b}
           IN  /\ SumFunction([id \in active |-> r[id].quantity]) = Shares(r, b)
               /\ Shares(r, b) \in Int
               /\ \A id \in Reservations : Share(r, b)[id] \in Int /\ r[id].quantity \in Nat
<1> DEFINE active == {id \in Reservations : r[id].status = "ACTIVE" /\ r[id].bin = b}
           f == [id \in active |-> r[id].quantity]
<1>1. \A id \in Reservations : r[id].quantity \in Nat
  BY MaxQuantityAssumption DEF Reservation, Quantity
<1>2. \A id \in Reservations : Share(r, b)[id] \in Int
  BY <1>1 DEF Share
<1>3. /\ \A id \in active : f[id] \in Int
      /\ \A id \in Reservations : Share(r, b)[id] = IF id \in active THEN f[id] ELSE 0
      /\ DOMAIN f = active /\ active \in SUBSET Reservations
  BY <1>1 DEF Share
<1>4. SumFunction(f) = SumFunctionOnSet(f, active)
  BY <1>3 DEF SumFunction
<1>5. Shares(r, b) \in Int
  BY <1>2, SumIsInt, ReservationsAssumption DEF Shares
<1> HIDE DEF f, active
<1>6. SumFunctionOnSet(f, active) = Shares(r, b)
  BY <1>3, SumOfSupport, ReservationsAssumption DEF Shares
<1>7. SumFunction(f) = Shares(r, b)
  BY <1>4, <1>6
<1> QED
  BY <1>1, <1>2, <1>5, <1>7 DEF f, active

(* One reservation changes, and its bin's reserved figure by what it holds *)
(* more or less.                                                           *)
LEMMA OneHoldMoves ==
    ASSUME TypeOK, TypeOK', ReservedMatchesUnlessRaced, raced \in SUBSET raced',
           NEW x \in Reservations, resv'[x].bin = resv[x].bin,
           \A id \in Reservations \ {x} : resv'[id] = resv[id],
           x \notin raced' =>
               rows'[resv[x].bin].reserved = rows[resv[x].bin].reserved + StillHeld(x)' - StillHeld(x),
           \A b \in Bins \ {resv[x].bin} : rows'[b].reserved = rows[b].reserved
    PROVE  ReservedMatchesUnlessRaced'
<1> SUFFICES ASSUME NEW b \in Bins, Uncontended(b)'
             PROVE  rows'[b].reserved = ActiveQuantity(b)'
  BY DEF ReservedMatchesUnlessRaced
<1>0. raced' \in SUBSET Reservations
  BY DEF TypeOK
<1>1. \A id \in Reservations : resv'[id].bin = resv[id].bin
  OBVIOUS
<1>2. Uncontended(b) /\ (resv[x].bin = b => x \notin raced')
  BY <1>0, <1>1 DEF Uncontended
<1>3. rows[b].reserved = ActiveQuantity(b)
  BY <1>2 DEF ReservedMatchesUnlessRaced
<1>4. /\ ActiveQuantity(b) = Shares(resv, b) /\ Shares(resv, b) \in Int
      /\ \A id \in Reservations : Share(resv, b)[id] \in Int
      /\ resv[x].quantity \in Nat
  BY HoldsAreShares DEF TypeOK, ActiveQuantity, Active
<1>5. /\ ActiveQuantity(b)' = Shares(resv', b) /\ Shares(resv', b) \in Int
      /\ \A id \in Reservations : Share(resv', b)[id] \in Int
      /\ resv'[x].quantity \in Nat
  BY HoldsAreShares DEF TypeOK, ActiveQuantity, Active
<1>6. \A id \in Reservations \ {x} : Share(resv', b)[id] = Share(resv, b)[id]
  BY DEF Share
<1>7. Shares(resv', b) = Shares(resv, b) - Share(resv, b)[x] + Share(resv', b)[x]
  <2> DEFINE f == Share(resv, b)
             g == Share(resv', b)
  <2>1. \A id \in Reservations : f[id] \in Int /\ g[id] \in Int
    BY <1>4, <1>5
  <2>2. \A id \in Reservations \ {x} : g[id] = f[id]
    BY <1>6
  <2> HIDE DEF f, g
  <2>3. SumFunctionOnSet(g, Reservations) = SumFunctionOnSet(f, Reservations) - f[x] + g[x]
    BY <2>1, <2>2, SumUpdate, ReservationsAssumption
  <2> QED
    BY <2>3 DEF Shares, f, g
<1>8. CASE resv[x].bin = b
  <2>1. Share(resv, b)[x] = StillHeld(x) /\ Share(resv', b)[x] = StillHeld(x)'
    BY <1>8 DEF Share, StillHeld, Active
  <2> QED
    BY <1>2, <1>3, <1>4, <1>5, <1>7, <1>8, <2>1
<1>9. CASE resv[x].bin # b
  <2>1. Share(resv, b)[x] = 0 /\ Share(resv', b)[x] = 0
    BY <1>9 DEF Share
  <2> QED
    BY <1>3, <1>4, <1>5, <1>7, <1>9, <2>1
<1> QED
  BY <1>8, <1>9

(* No reservation and no reserved figure changes.                          *)
LEMMA HoldsUnmoved ==
    ASSUME ReservedMatchesUnlessRaced, resv' = resv, raced \in SUBSET raced',
           \A b \in Bins : rows'[b].reserved = rows[b].reserved
    PROVE  ReservedMatchesUnlessRaced'
<1>1. \A b : ActiveQuantity(b)' = ActiveQuantity(b)
  BY DEF ActiveQuantity, Active
<1> QED
  BY <1>1 DEF ReservedMatchesUnlessRaced, Uncontended

(* A new hold is its reservation's, and nobody is at work on it yet.       *)
LEMMA ReserveKeepsRaceInv ==
    ASSUME IInv, IInv', RaceInv, NEW id \in Reservations, NEW quantity \in Quantity,
           Reserve(id, quantity)
    PROVE  RaceInv'
<1> DEFINE b == resv[id].bin
<1>1. /\ resv[id].status = "NONE" /\ quantity \in Nat
      /\ rows' = [rows EXCEPT ![b].reserved = @ + quantity]
      /\ resv' = [resv EXCEPT ![id].status = "ACTIVE", ![id].quantity = quantity]
      /\ original' = [original EXCEPT ![id] = quantity]
      /\ UNCHANGED <<past, request, batch, freed, raced>>
  BY MaxQuantityAssumption DEF Reserve, Quantity
<1>t. TypeOK /\ TypeOK'
  BY DEF IInv
<1>2. /\ resv[id] \in Reservation /\ b \in Bins /\ rows[b] \in Row
      /\ rows[b].reserved \in Nat
  BY <1>t, MaxQuantityAssumption DEF TypeOK, Reservation, Row
<1>3. /\ resv'[id] = [[resv[id] EXCEPT !.status = "ACTIVE"] EXCEPT !.quantity = quantity]
      /\ \A k \in Reservations \ {id} : resv'[k] = resv[k]
  BY <1>1, <1>t DEF TypeOK
<1>4. resv'[id].status = "ACTIVE" /\ resv'[id].quantity = quantity /\ resv'[id].bin = b
  BY <1>2, <1>3 DEF Reservation
<1>5. /\ rows'[b].reserved = rows[b].reserved + quantity
      /\ \A c \in Bins \ {b} : rows'[c].reserved = rows[c].reserved
  BY <1>1, <1>2, <1>t DEF TypeOK, Row
<1> HIDE DEF b
<1>6. StillHeld(id) = 0 /\ StillHeld(id)' = quantity
  BY <1>1, <1>4 DEF StillHeld, Active
<1>7. ReservedMatchesUnlessRaced'
  <2>1. rows'[b].reserved = rows[b].reserved + StillHeld(id)' - StillHeld(id)
    BY <1>1, <1>2, <1>5, <1>6
  <2> QED
    BY <1>1, <1>3, <1>4, <1>5, <1>t, <2>1, OneHoldMoves DEF RaceInv, b
<1>8. NothingIsFreedTwice'
  <2> SUFFICES ASSUME NEW k \in Reservations \ raced
               PROVE  original'[k] - freed[k] = StillHeld(k)'
    BY <1>1 DEF NothingIsFreedTwice, Outstanding
  <2>1. original[k] - freed[k] = StillHeld(k)
    BY DEF RaceInv, NothingIsFreedTwice, Outstanding
  <2>2. CASE k = id
    <3>1. original'[id] = quantity /\ freed[id] = 0
      BY <1>1, <1>t DEF TypeOK, IInv, UnusedHasNoHistory
    <3> QED
      BY <1>1, <1>6, <2>2, <3>1
  <2>3. CASE k # id
    <3>1. original'[k] = original[k] /\ StillHeld(k)' = StillHeld(k)
      BY <1>1, <1>3, <1>t, <2>3 DEF TypeOK, StillHeld, Active
    <3> QED
      BY <2>1, <3>1
  <2> QED
    BY <2>2, <2>3
<1>9. ReadingsHold'
  <2>1. \A p \in Processes : Busy(p) => request[p].id \in Reservations \ {id}
    BY <1>1, <1>t DEF IInv, SnapshotsBound, TypeOK, Busy, Request
  <2>2. \A p \in Processes : Busy(p) => resv'[request[p].id] = resv[request[p].id]
    BY <1>3, <2>1
  <2>3. ReadingsHold /\ UNCHANGED <<request, raced>>
    BY <1>1 DEF RaceInv
  <2>4. \A p \in Processes : Busy(p)' = Busy(p)
    BY <2>3 DEF Busy
  <2> QED
    BY <2>2, <2>3, <2>4 DEF ReadingsHold, Active
<1> QED
  BY <1>7, <1>8, <1>9 DEF RaceInv

(* Whoever reads a reservation in other hands has raced.                   *)
LEMMA ReadingKeepsRaceInv ==
    ASSUME IInv, RaceInv, NEW p \in Processes, ~Busy(p), NEW id \in Reservations, Active(id),
           NEW closing \in Closings, NEW wanted \in Quantity, Read(p, closing, id, wanted),
           UNCHANGED <<rows, resv, original, freed>>
    PROVE  RaceInv'
<1> DEFINE r == Reading(closing, id, wanted)
<1>1. /\ request'[p] = r /\ \A q \in Processes \ {p} : request'[q] = request[q]
      /\ r.id = id /\ r.bin = resv[id].bin /\ r.seen = resv[id].quantity
  BY DEF Reading, Read, IInv, TypeOK
<1> HIDE DEF r
<1>2. raced \in SUBSET raced' /\ (InFlight(id) => id \in raced')
  BY DEF Read
<1>3. ReservedMatchesUnlessRaced'
  BY <1>2, HoldsUnmoved DEF RaceInv
<1>4. NothingIsFreedTwice'
  BY <1>2 DEF RaceInv, NothingIsFreedTwice, Outstanding, StillHeld, Active
<1>5. ReadingsHold'
  <2>1. ASSUME NEW q \in Processes, request'[q] # NoRequest
        PROVE  /\ request'[q].bin = resv[request'[q].id].bin
               /\ request'[q].id \notin raced' =>
                      /\ resv[request'[q].id].status = "ACTIVE"
                      /\ request'[q].seen = resv[request'[q].id].quantity
    <3>1. CASE q = p
      BY <1>1, <3>1 DEF Active
    <3>2. CASE q # p
      BY <1>1, <1>2, <2>1, <3>2 DEF RaceInv, ReadingsHold, Busy, Active
    <3> QED
      BY <3>1, <3>2
  <2>2. ASSUME NEW q \in Processes, NEW s \in Processes, q # s, request'[q] # NoRequest,
               request'[s] # NoRequest, request'[q].id = request'[s].id
        PROVE  request'[q].id \in raced'
    <3>1. CASE q # p /\ s # p
      BY <1>1, <1>2, <2>2, <3>1 DEF RaceInv, ReadingsHold, Busy
    <3>2. CASE q = p \/ s = p
      BY <1>1, <1>2, <2>2, <3>2 DEF InFlight, Busy
    <3> QED
      BY <3>1, <3>2
  <2> QED
    BY <2>1, <2>2 DEF ReadingsHold, Busy, Active
<1> QED
  BY <1>3, <1>4, <1>5 DEF RaceInv

(* A request is dropped, or stock moves that no reservation holds.         *)
LEMMA QuietKeepsRaceInv ==
    ASSUME IInv, RaceInv, NEW p,
           request' \in {request, [request EXCEPT ![p] = NoRequest]},
           \A b \in Bins : rows'[b].reserved = rows[b].reserved,
           UNCHANGED <<resv, original, freed, raced>>
    PROVE  RaceInv'
<1>1. \A q \in Processes : request'[q] \in {request[q], NoRequest}
  BY DEF IInv, TypeOK
<1>2. ReservedMatchesUnlessRaced'
  BY HoldsUnmoved DEF RaceInv
<1>3. NothingIsFreedTwice'
  BY DEF RaceInv, NothingIsFreedTwice, Outstanding, StillHeld, Active
<1>4. ReadingsHold'
  BY <1>1 DEF RaceInv, ReadingsHold, Busy, Active
<1> QED
  BY <1>2, <1>3, <1>4 DEF RaceInv

(* A commit gives back what its reservation no longer holds, which nobody  *)
(* but it has seen, or the reservation is raced on.                        *)
LEMMA CommitKeepsRaceInv ==
    ASSUME IInv, IInv', RaceInv, NEW p \in Processes, Commit(p)
    PROVE  RaceInv'
<1>0. PICK r : r = request[p]
  OBVIOUS
<1>t. TypeOK /\ TypeOK'
  BY DEF IInv
<1>1. /\ Busy(p) /\ r \in Request /\ r.id \in Reservations /\ r.bin \in Bins
      /\ r.seen \in Nat /\ r.wanted \in Nat /\ r.closing \in Closings
  <2>1. r \in Request /\ Busy(p)
    BY <1>0, <1>t DEF Commit, Busy, TypeOK
  <2> QED
    BY <2>1, MaxQuantityAssumption DEF Request, Quantity
<1>2. /\ r.wanted <= r.seen
      /\ r.closing # "DRAW" => r.wanted = r.seen
      /\ r.bin = resv[r.id].bin
      /\ r.id \notin raced => Active(r.id) /\ r.seen = resv[r.id].quantity
  BY <1>0, <1>1 DEF IInv, SnapshotsBound, RaceInv, ReadingsHold
<1>3. /\ rows' = [rows EXCEPT ![r.bin] = RowAfter(r)]
      /\ resv' = [resv EXCEPT ![r.id].status = NewStatus(r), ![r.id].quantity = NewQuantity(r)]
      /\ freed' = [freed EXCEPT ![r.id] = @ + r.wanted]
      /\ request' = [request EXCEPT ![p] = NoRequest]
      /\ UNCHANGED <<past, batch, original, raced>>
  BY <1>0 DEF Commit, GivenBack
<1>4. /\ resv[r.id] \in Reservation /\ rows[r.bin] \in Row /\ rows[r.bin].reserved \in Nat
      /\ RowAfter(r).reserved = rows[r.bin].reserved - r.wanted
  <2>1. resv[r.id] \in Reservation /\ rows[r.bin] \in Row
    BY <1>1, <1>t DEF TypeOK
  <2>2. AfterHold(r).reserved = rows[r.bin].reserved - r.wanted
    BY <2>1 DEF AfterHold, GivenBack, Row
  <2>3. RowAfter(r).reserved = AfterHold(r).reserved
    BY <2>1 DEF RowAfter, AfterHold, Row
  <2> QED
    BY <2>1, <2>2, <2>3, MaxQuantityAssumption DEF Row
<1>5. /\ \A k \in Reservations \ {r.id} : resv'[k] = resv[k]
      /\ resv'[r.id].status = NewStatus(r) /\ resv'[r.id].quantity = NewQuantity(r)
      /\ resv'[r.id].bin = r.bin
  <2>1. /\ resv'[r.id] = [[resv[r.id] EXCEPT !.status = NewStatus(r)] EXCEPT !.quantity = NewQuantity(r)]
        /\ \A k \in Reservations \ {r.id} : resv'[k] = resv[k]
    BY <1>1, <1>3, <1>t DEF TypeOK
  <2> QED
    BY <1>2, <1>4, <2>1 DEF Reservation
<1>6. r.id \notin raced => StillHeld(r.id)' = StillHeld(r.id) - r.wanted
  <2> SUFFICES ASSUME r.id \notin raced PROVE StillHeld(r.id)' = r.seen - r.wanted
    BY <1>2 DEF StillHeld
  <2>1. CASE r.closing # "DRAW" \/ r.wanted = r.seen
    <3>1. NewStatus(r) # "ACTIVE" /\ r.seen - r.wanted = 0
      BY <1>1, <1>2, <2>1 DEF NewStatus, Closings
    <3> QED
      BY <1>5, <3>1 DEF StillHeld, Active
  <2>2. CASE r.closing = "DRAW" /\ r.wanted # r.seen
    <3>1. NewStatus(r) = "ACTIVE" /\ NewQuantity(r) = r.seen - r.wanted
      BY <1>2, <2>2 DEF NewStatus, NewQuantity, Active
    <3> QED
      BY <1>5, <3>1 DEF StillHeld, Active
  <2> QED
    BY <2>1, <2>2
<1>7. StillHeld(r.id) \in Nat
  BY <1>1, <1>4, MaxQuantityAssumption DEF StillHeld, Reservation, Quantity
<1>8. ReservedMatchesUnlessRaced'
  <2>1. /\ rows'[r.bin].reserved = rows[r.bin].reserved - r.wanted
        /\ \A b \in Bins \ {r.bin} : rows'[b].reserved = rows[b].reserved
    BY <1>1, <1>3, <1>4, <1>t DEF TypeOK
  <2>2. r.id \notin raced' =>
            rows'[resv[r.id].bin].reserved
                = rows[resv[r.id].bin].reserved + StillHeld(r.id)' - StillHeld(r.id)
    BY <1>1, <1>2, <1>3, <1>4, <1>6, <1>7, <2>1
  <2>3. /\ raced \in SUBSET raced' /\ resv'[r.id].bin = resv[r.id].bin
        /\ \A b \in Bins \ {resv[r.id].bin} : rows'[b].reserved = rows[b].reserved
    BY <1>2, <1>3, <1>5, <2>1
  <2> QED
    BY <1>1, <1>5, <1>t, <2>2, <2>3, OneHoldMoves DEF RaceInv
<1>9. NothingIsFreedTwice'
  <2> SUFFICES ASSUME NEW k \in Reservations \ raced
               PROVE  original[k] - freed'[k] = StillHeld(k)'
    BY <1>3 DEF NothingIsFreedTwice, Outstanding
  <2>1. original[k] - freed[k] = StillHeld(k) /\ original[k] \in Nat /\ freed[k] \in Nat
    BY <1>t DEF RaceInv, NothingIsFreedTwice, Outstanding, TypeOK
  <2>2. CASE k = r.id
    <3>1. freed'[k] = freed[k] + r.wanted
      BY <1>3, <1>t, <2>2 DEF TypeOK
    <3> QED
      BY <1>1, <1>6, <1>7, <2>1, <2>2, <3>1
  <2>3. CASE k # r.id
    <3>1. freed'[k] = freed[k] /\ StillHeld(k)' = StillHeld(k)
      BY <1>3, <1>5, <1>t, <2>3 DEF TypeOK, StillHeld, Active
    <3> QED
      BY <2>1, <3>1
  <2> QED
    BY <2>2, <2>3
<1>10. ReadingsHold'
  <2>1. \A q \in Processes : request'[q] # NoRequest =>
            q # p /\ request'[q] = request[q] /\ request[q].id \in Reservations
    BY <1>3, <1>t DEF TypeOK, Request
  <2>2. ASSUME NEW q \in Processes, request'[q] # NoRequest
        PROVE  /\ request'[q].bin = resv'[request'[q].id].bin
               /\ request'[q].id \notin raced =>
                      /\ resv'[request'[q].id].status = "ACTIVE"
                      /\ request'[q].seen = resv'[request'[q].id].quantity
    <3>1. /\ q # p /\ request'[q] = request[q] /\ request[q].id \in Reservations /\ Busy(q)
      BY <2>1, <2>2 DEF Busy
    <3>2. request[q].id = r.id => request[q].id \in raced
      BY <1>0, <1>1, <3>1 DEF RaceInv, ReadingsHold
    <3>3. resv'[request[q].id].bin = resv[request[q].id].bin
      BY <1>2, <1>5, <3>1
    <3>4. request[q].id \notin raced => resv'[request[q].id] = resv[request[q].id]
      BY <1>5, <3>1, <3>2
    <3> QED
      BY <3>1, <3>3, <3>4 DEF RaceInv, ReadingsHold, Active
  <2>3. \A q, s \in Processes : q # s /\ request'[q] # NoRequest /\ request'[s] # NoRequest
            /\ request'[q].id = request'[s].id => request'[q].id \in raced
    BY <2>1 DEF RaceInv, ReadingsHold, Busy
  <2> QED
    BY <1>3, <2>2, <2>3 DEF ReadingsHold, Busy, Active
<1> QED
  BY <1>8, <1>9, <1>10 DEF RaceInv

(* Every step keeps RaceInv.                                               *)
LEMMA NextKeepsRaceInv == IInv /\ IInv' /\ RaceInv /\ [Next]_vars => RaceInv'
<1> SUFFICES ASSUME IInv, IInv', RaceInv, [Next]_vars PROVE RaceInv'
  OBVIOUS
<1>1. ASSUME NEW b \in Bins, NEW type, MoveStock(b, type, 1) PROVE RaceInv'
  <2>1. \A c \in Bins : rows'[c].reserved = rows[c].reserved
    BY <1>1 DEF MoveStock, IInv, TypeOK, Row
  <2> QED
    BY <1>1, <2>1, QuietKeepsRaceInv DEF MoveStock
<1>2. ASSUME NEW p \in Users, UserRequest(p) PROVE RaceInv'
  <2>1. p \in Processes /\ {"RELEASE", "CONSUME", "DRAW"} \in SUBSET Closings
    BY DEF Processes, Closings
  <2>2. \A id \in Reservations : resv[id].quantity \in Quantity
    BY DEF IInv, TypeOK, Reservation
  <2> QED
    BY <1>2, <2>1, <2>2, ReadingKeepsRaceInv DEF UserRequest, LoadWhole, FindForDraw
<1>3. ASSUME NEW w \in Sweepers, Sweep(w) PROVE RaceInv'
  <2>1. w \in Processes /\ "EXPIRE" \in Closings
    BY DEF Processes, Closings
  <2>2. \A id \in Reservations : resv[id].quantity \in Quantity
    BY DEF IInv, TypeOK, Reservation
  <2>3. CASE StartSweep(w)
    BY <2>3, QuietKeepsRaceInv DEF StartSweep
  <2>4. ASSUME NEW id \in Reservations, SweepNext(w, id) PROVE RaceInv'
    <3>1. CASE Active(id)
      BY <2>1, <2>2, <2>4, <3>1, ReadingKeepsRaceInv DEF SweepNext
    <3>2. CASE ~Active(id)
      BY <2>4, <3>2, QuietKeepsRaceInv DEF SweepNext
    <3> QED
      BY <3>1, <3>2
  <2> QED
    BY <1>3, <2>3, <2>4 DEF Sweep
<1>4. ASSUME NEW p \in Processes, Refuse(p) \/ Die(p) PROVE RaceInv'
  BY <1>4, QuietKeepsRaceInv DEF Refuse, Die
<1>5. ASSUME NEW id \in Reservations, Elapse(id) PROVE RaceInv'
  BY <1>5, QuietKeepsRaceInv DEF Elapse
<1>6. CASE UNCHANGED vars
  BY <1>6, QuietKeepsRaceInv DEF vars
<1> QED
  BY <1>1, <1>2, <1>3, <1>4, <1>5, <1>6, ReserveKeepsRaceInv, CommitKeepsRaceInv DEF Next

(* Both invariants hold in every state that can be reached.                *)
LEMMA RaceInvHolds == Spec => [](IInv /\ RaceInv)
<1>1. Init => RaceInv
  <2> SUFFICES ASSUME Init PROVE RaceInv
    OBVIOUS
  <2>1. TypeOK
    BY InitEstablishesInvariant DEF IInv
  <2>2. \A id \in Reservations : StillHeld(id) = 0
    BY DEF Init, StillHeld, Active
  <2>3. ReadingsHold /\ NothingIsFreedTwice
    BY <2>2 DEF Init, ReadingsHold, NothingIsFreedTwice, Busy, Outstanding
  <2>4. ASSUME NEW b \in Bins PROVE rows[b].reserved = ActiveQuantity(b)
    <3>1. \A id \in Reservations : Share(resv, b)[id] = 0
      BY DEF Init, Share
    <3>2. Shares(resv, b) = 0
      BY <3>1, SumOfZeros, ReservationsAssumption DEF Shares
    <3>3. resv \in [Reservations -> Reservation]
      BY <2>1 DEF TypeOK
    <3>4. ActiveQuantity(b) = Shares(resv, b)
      BY <3>3, HoldsAreShares DEF ActiveQuantity, Active
    <3>5. rows[b].reserved = 0
      BY DEF Init
    <3> QED
      BY <3>2, <3>4, <3>5
  <2> QED
    BY <2>3, <2>4 DEF RaceInv, ReservedMatchesUnlessRaced
<1> QED
  BY <1>1, InvariantHolds, NextKeepsRaceInv, PTL DEF Spec

(* Reconciliation: quantity_reserved is the sum of the ACTIVE reservations *)
(* of every bin none of whose reservations two requests were ever at work  *)
(* on at once, for any requests, sweeps, crashes and reservations.         *)
THEOREM ReservedIsReconciled == Spec => []ReservedMatchesUnlessRaced
BY RaceInvHolds, PTL DEF RaceInv

(* A reservation leaves ACTIVE exactly once and gives back no more than it *)
(* held, unless two requests were at work on it.                           *)
THEOREM ReservationClosesOnce == Spec => ClosesOnce
<1>1. IInv /\ RaceInv /\ IInv' /\ RaceInv' /\ [Next]_vars =>
      [\A id \in Reservations \ raced :
           /\ resv[id].status \in Terminal => resv'[id].status = resv[id].status
           /\ id \notin raced' => freed'[id] <= original'[id]]_vars
  <2> SUFFICES ASSUME IInv, RaceInv, IInv', RaceInv', Next, NEW id \in Reservations \ raced
               PROVE  /\ resv[id].status \in Terminal => resv'[id].status = resv[id].status
                      /\ id \notin raced' => freed'[id] <= original'[id]
    OBVIOUS
  <2>1. ASSUME id \notin raced' PROVE freed'[id] <= original'[id]
    <3>1. original'[id] - freed'[id] = StillHeld(id)'
      BY <2>1 DEF RaceInv, NothingIsFreedTwice, Outstanding
    <3>2. StillHeld(id)' \in Nat /\ original'[id] \in Nat /\ freed'[id] \in Nat
      BY MaxQuantityAssumption DEF IInv, TypeOK, StillHeld, Reservation, Quantity
    <3> QED
      BY <3>1, <3>2
  <2>2. ASSUME resv[id].status \in Terminal PROVE resv'[id].status = resv[id].status
    <3>1. ~Active(id) /\ resv[id].status # "NONE"
      BY <2>2 DEF Terminal, Active
    <3>2. ASSUME NEW k \in Reservations, NEW quantity \in Quantity, Reserve(k, quantity)
          PROVE  resv'[id] = resv[id]
      BY <3>1, <3>2 DEF Reserve, IInv, TypeOK
    <3>3. ASSUME NEW p \in Processes, Commit(p) PROVE resv'[id] = resv[id]
      <4>1. request[p].id # id
        BY <3>1, <3>3 DEF RaceInv, ReadingsHold, Commit
      <4> QED
        BY <3>3, <4>1 DEF Commit, IInv, TypeOK
    <3> QED
      BY <3>2, <3>3 DEF Next, MoveStock, Elapse, UserRequest, LoadWhole, FindForDraw, Sweep,
         StartSweep, SweepNext, Refuse, Die
  <2> QED
    BY <2>1, <2>2
<1> QED
  BY <1>1, RaceInvHolds, PTL DEF Spec, ClosesOnce
===============================================================================
