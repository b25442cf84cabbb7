---------------------------- MODULE Reservations ----------------------------
(***************************************************************************)
(* ReservationsService (apps/api/src/modules/inventory/                    *)
(* reservations.service.ts): holds on stock, and the three ways a hold     *)
(* ends: it is given back, it ships, or the hourly sweep expires it.       *)
(*                                                                         *)
(* StockLedger shows that one transaction on one bin is atomic, so here a  *)
(* commit is one step.  What is NOT under the bin's lock is the read of    *)
(* the reservation row: close() and consume() load and check it before     *)
(* their transaction begins, consumeQuantity() finds it before the lock is *)
(* taken, and the final UPDATE names the row by id alone.  A request is    *)
(* therefore two steps, a read and a commit, with anything in between.     *)
(***************************************************************************)
EXTENDS StockBalance, FiniteSets, Functions

CONSTANTS Bins,          \* (warehouse, product, variant) keys
          Reservations,  \* identities of stock_reservation rows
          Users,         \* concurrent API requests
          Sweepers,      \* worker processes that run the hourly sweep
          SweepBatch,    \* most rows one sweep looks at (500)
          NoRequest      \* a process with nothing in flight

Processes == Users \cup Sweepers

ASSUME ReservationsAssumption ==
    /\ Users \cap Sweepers = {}
    /\ SweepBatch \in Nat \ {0}
    /\ IsFiniteSet(Reservations)

VARIABLES rows,      \* stock_balance: one row per bin
          resv,      \* stock_reservation: one row per identity
          past,      \* the reservations whose expiresAt has passed
          request,   \* what each process has read and is about to commit
          batch,     \* per sweeper, the rows its current sweep has still to close
          original,  \* history: the quantity each reservation was created with
          freed,     \* history: what commits have taken off quantity_reserved for it
          raced      \* history: the reservations two requests were at once at work on

vars == <<rows, resv, past, request, batch, original, freed, raced>>

Closings == {"RELEASE", "EXPIRE", "CONSUME", "DRAW"}
Statuses == {"NONE", "ACTIVE", "RELEASED", "EXPIRED", "CONSUMED"}
Terminal == {"RELEASED", "EXPIRED", "CONSUMED"}
Quantity == 0..MaxQuantity

Reservation == [status : Statuses, bin : Bins, quantity : Quantity]

(* A request in flight: the row it read, the quantity it read there, and   *)
(* how much of that it is about to give up.                                *)
Request == [closing : Closings, id : Reservations, bin : Bins,
            seen : Quantity, wanted : Quantity]

Active(id)  == resv[id].status = "ACTIVE"
Busy(p)     == request[p] # NoRequest

Init ==
    /\ \E stock \in [Bins -> Quantity] :
           rows = [b \in Bins |-> [onHand |-> stock[b], reserved |-> 0]]
    /\ \E bin \in [Reservations -> Bins] :
           resv = [id \in Reservations |->
                      [status |-> "NONE", bin |-> bin[id], quantity |-> 0]]
    /\ past = {}
    /\ request = [p \in Processes |-> NoRequest]
    /\ batch = [w \in Sweepers |-> {}]
    /\ original = [id \in Reservations |-> 0]
    /\ freed = [id \in Reservations |-> 0]
    /\ raced = {}

(***************************************************************************)
(* Taking a hold, and everything else that moves stock in a bin            *)
(***************************************************************************)
(* reserve(): adjustReserved and the new ACTIVE row, in one transaction.   *)
Reserve(id, quantity) ==
    LET b == resv[id].bin IN
        /\ resv[id].status = "NONE"
        /\ quantity > 0
        /\ MayAdjustReserved(rows[b], quantity)
        /\ rows' = [rows EXCEPT ![b].reserved = @ + quantity]
        /\ resv' = [resv EXCEPT ![id].status = "ACTIVE", ![id].quantity = quantity]
        /\ original' = [original EXCEPT ![id] = quantity]
        /\ UNCHANGED <<past, request, batch, freed, raced>>

(* A receipt, an issue or an adjustment of StockService.                   *)
MoveStock(b, type, quantity) ==
    /\ MayMove(rows[b], type, quantity)
    /\ rows' = [rows EXCEPT ![b].onHand = @ + SignedQuantity(type, quantity)]
    /\ UNCHANGED <<resv, past, request, batch, original, freed, raced>>

(* expiresAt passes.                                                       *)
Elapse(id) ==
    /\ Active(id)
    /\ id \notin past
    /\ past' = past \cup {id}
    /\ UNCHANGED <<rows, resv, request, batch, original, freed, raced>>

(***************************************************************************)
(* Reading a reservation: the check that is made once, and too early       *)
(***************************************************************************)
Reading(closing, id, wanted) ==
    [closing |-> closing, id |-> id, bin |-> resv[id].bin,
     seen |-> resv[id].quantity, wanted |-> wanted]

InFlight(id) == \E q \in Processes : Busy(q) /\ request[q].id = id

Read(p, closing, id, wanted) ==
    /\ request' = [request EXCEPT ![p] = Reading(closing, id, wanted)]
    /\ raced' = IF InFlight(id) THEN raced \cup {id} ELSE raced

(* Mutant: the transition is not checked at all.                           *)
LoadUnchecked(p, closing, id) ==
    /\ ~Busy(p)
    /\ resv[id].status # "NONE"
    /\ Read(p, closing, id, resv[id].quantity)
    /\ UNCHANGED <<rows, resv, past, batch, original, freed>>

(* load() and assertTransition() of close() and consume(): the whole hold. *)
LoadWhole(p, closing, id) ==
    /\ ~Busy(p)
    /\ Active(id)
    /\ Read(p, closing, id, resv[id].quantity)
    /\ UNCHANGED <<rows, resv, past, batch, original, freed>>

(* consumeQuantity(): the ACTIVE row of this order line.  The partial      *)
(* unique index leaves at most one, and more than it holds is refused.     *)
FindForDraw(p, id, wanted) ==
    /\ ~Busy(p)
    /\ Active(id)
    /\ wanted > 0
    /\ wanted <= resv[id].quantity
    /\ Read(p, "DRAW", id, wanted)
    /\ UNCHANGED <<rows, resv, past, batch, original, freed>>

(***************************************************************************)
(* Committing it                                                           *)
(***************************************************************************)
(* Only consuming moves stock: adjustReserved first, then the ISSUE.       *)
Ships(r) == r.closing \in {"CONSUME", "DRAW"}

(* Mutant: shipping posts the issue and forgets the hold.                  *)
HoldForgotten(r) == IF Ships(r) THEN 0 ELSE r.wanted

GivenBack(r) == r.wanted

AfterHold(r) == [rows[r.bin] EXCEPT !.reserved = @ - GivenBack(r)]

RowAccepts(r) ==
    /\ MayAdjustReserved(rows[r.bin], -GivenBack(r))
    /\ Ships(r) => MayMove(AfterHold(r), "ISSUE", r.wanted)

RowAfter(r) ==
    IF Ships(r) THEN [AfterHold(r) EXCEPT !.onHand = @ - r.wanted]
                ELSE AfterHold(r)

(* The row update.  close() and consume() leave the quantity and set the   *)
(* status; consumeQuantity() writes what it computed from the read row and *)
(* sets the status only when that is nothing.                              *)
NewStatus(r) ==
    CASE r.closing = "RELEASE" -> "RELEASED"
      [] r.closing = "EXPIRE"  -> "EXPIRED"
      [] r.closing = "CONSUME" -> "CONSUMED"
      [] r.closing = "DRAW"    -> IF r.wanted = r.seen THEN "CONSUMED"
                                  ELSE resv[r.id].status

(* Mutant: a partial dispatch releases the hold but forgets to draw the    *)
(* reservation row down.                                                   *)
QuantityNotDrawn(r) == resv[r.id].quantity

NewQuantity(r) ==
    IF r.closing = "DRAW" THEN r.seen - r.wanted ELSE resv[r.id].quantity

Commit(p) ==
    LET r == request[p] IN
        /\ Busy(p)
        /\ RowAccepts(r)
        /\ rows' = [rows EXCEPT ![r.bin] = RowAfter(r)]
        /\ resv' = [resv EXCEPT ![r.id].status = NewStatus(r),
                                ![r.id].quantity = NewQuantity(r)]
        /\ freed' = [freed EXCEPT ![r.id] = @ + GivenBack(r)]
        /\ request' = [request EXCEPT ![p] = NoRequest]
        /\ UNCHANGED <<past, batch, original, raced>>

(* The row refuses under the lock; the transaction rolls back.             *)
Refuse(p) ==
    /\ Busy(p)
    /\ ~RowAccepts(request[p])
    /\ request' = [request EXCEPT ![p] = NoRequest]
    /\ UNCHANGED <<rows, resv, past, batch, original, freed, raced>>

(* The process dies or loses its connection between the read and COMMIT.   *)
Die(p) ==
    /\ Busy(p)
    /\ request' = [request EXCEPT ![p] = NoRequest]
    /\ batch' = IF p \in Sweepers THEN [batch EXCEPT ![p] = {}] ELSE batch
    /\ UNCHANGED <<rows, resv, past, original, freed, raced>>

(***************************************************************************)
(* expireStale(): list a batch, then close its rows one by one             *)
(***************************************************************************)
(* Mutant: the sweep looks for rows that have no expiry date.              *)
NeverStale == {id \in Reservations \ past : Active(id)}

Stale == {id \in past : Active(id)}

StartSweep(w) ==
    /\ ~Busy(w)
    /\ batch[w] = {}
    /\ \E found \in SUBSET Stale :
           /\ found # {}
           /\ \/ found = Stale /\ Cardinality(Stale) <= SweepBatch
              \/ Cardinality(found) = SweepBatch
           /\ batch' = [batch EXCEPT ![w] = found]
    /\ UNCHANGED <<rows, resv, past, request, original, freed, raced>>

(* close(id, 'EXPIRED') loads the row again; one that is no longer ACTIVE  *)
(* fails the transition check, is logged and skipped.                      *)
SweepNext(w, id) ==
    /\ ~Busy(w)
    /\ id \in batch[w]
    /\ batch' = [batch EXCEPT ![w] = @ \ {id}]
    /\ IF Active(id) THEN Read(w, "EXPIRE", id, resv[id].quantity)
                     ELSE UNCHANGED <<request, raced>>
    /\ UNCHANGED <<rows, resv, past, original, freed>>

UserRequest(p) ==
    \/ \E id \in Reservations, closing \in {"RELEASE", "CONSUME"} :
           LoadWhole(p, closing, id)
    \/ \E id \in Reservations, wanted \in Quantity : FindForDraw(p, id, wanted)

Sweep(w) ==
    \/ StartSweep(w)
    \/ \E id \in Reservations : SweepNext(w, id)

Next ==
    \/ \E id \in Reservations, quantity \in Quantity : Reserve(id, quantity)
    \/ \E b \in Bins, type \in {"RECEIPT", "ISSUE"} : MoveStock(b, type, 1)
    \/ \E id \in Reservations : Elapse(id)
    \/ \E p \in Users : UserRequest(p)
    \/ \E w \in Sweepers : Sweep(w)
    \/ \E p \in Processes : Commit(p) \/ Refuse(p) \/ Die(p)

Spec == Init /\ [][Next]_vars

(* The cron fires again and again, a sweep that started goes through its   *)
(* batch, and the worker does not die in every one of its transactions.    *)
Fairness == \A w \in Sweepers :
    /\ WF_vars(StartSweep(w))
    /\ \A id \in Reservations : WF_vars(SweepNext(w, id))
    /\ SF_vars(Commit(w))
    /\ WF_vars(Refuse(w))

FairSpec == Spec /\ Fairness

(***************************************************************************)
(* Properties                                                              *)
(***************************************************************************)
(* Every variable holds a value of its kind.                               *)
TypeOK ==
    /\ rows \in [Bins -> Row]
    /\ resv \in [Reservations -> Reservation]
    /\ past \in SUBSET Reservations
    /\ request \in [Processes -> Request \cup {NoRequest}]
    /\ batch \in [Sweepers -> SUBSET Reservations]
    /\ original \in [Reservations -> Nat]
    /\ freed \in [Reservations -> Nat]
    /\ raced \in SUBSET Reservations

(* What a reservation row says is still held; a closed one holds nothing.  *)
StillHeld(id) == IF Active(id) THEN resv[id].quantity ELSE 0

ActiveQuantity(b) ==
    LET active == {id \in Reservations : Active(id) /\ resv[id].bin = b}
    IN  SumFunction([id \in active |-> resv[id].quantity])

(* No bin's reserved figure exceeds what is on hand.                       *)
PromisesAreBacked == \A b \in Bins : rows[b].reserved <= rows[b].onHand

(* A hold never outlives its reservation: whatever requests race, what has *)
(* been given back for a reservation is at least what its row no longer    *)
(* holds.  This is the half of the consume() comment that forbids a        *)
(* quantity_reserved that is "permanently overstated".                     *)
HoldNeverOutlivesReservation ==
    \A id \in Reservations : original[id] - freed[id] <= StillHeld(id)

(* Reconciliation invariant 2, quantity_reserved is exactly the sum of the *)
(* ACTIVE reservations, holds of every bin none of whose reservations was  *)
(* ever worked on by two requests at once, whatever the others, the sweep  *)
(* and crashes do.                                                         *)
Uncontended(b) == \A id \in raced : resv[id].bin # b

ReservedMatchesUnlessRaced ==
    \A b \in Bins : Uncontended(b) => rows[b].reserved = ActiveQuantity(b)

(* A reservation leaves ACTIVE exactly once, unless two requests race on   *)
(* it: it never gives back more than it was created with, and the status   *)
(* it left to is the one it keeps.                                         *)
ClosesOnce ==
    [][\A id \in Reservations \ raced :
           /\ resv[id].status \in Terminal => resv'[id].status = resv[id].status
           /\ id \notin raced' => freed'[id] <= original'[id]]_vars

(* The hourly sweep ends every hold that is past its expiry, if nothing    *)
(* else does, unless two requests once raced on a reservation of its bin:  *)
(* what one of them gave back too much, the last hold lacks, and the row   *)
(* then refuses its release for ever.                                      *)
StaleHoldsEnd ==
    \A id \in Reservations : id \in past ~> ~Active(id) \/ ~Uncontended(resv[id].bin)
=============================================================================
