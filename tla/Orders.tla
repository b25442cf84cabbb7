------------------------------- MODULE Orders -------------------------------
(***************************************************************************)
(* The life of a sales order of one distributor (apps/api/src/modules/     *)
(* sales/orders.service.ts and order-approval.service.ts): editing,        *)
(* submission, approval with its credit check and its reservations,        *)
(* rejection, cancellation and the filling of backorders.  Shipments goes  *)
(* on from here.                                                           *)
(*                                                                         *)
(* Every order has one line, for the one stocked item `row` counts: the    *)
(* services' loops do the same to each line inside one transaction.  The   *)
(* item costs 1, so an order's value is the quantity ordered.              *)
(*                                                                         *)
(* Each operation reads and checks the order BEFORE its transaction, and   *)
(* the transaction updates the row by id alone; so an operation is a step  *)
(* that loads and a step that commits, with anything in between.           *)
(***************************************************************************)
EXTENDS StockBalance, SequencesExt, FiniteSetsExt

CONSTANTS Orders,       \* identities of order rows
          Requests,     \* concurrent API requests
          MaxOrdered,   \* the largest quantity ordered
          MaxEdits,     \* bound: how often the lines of an order are replaced
          MaxHolds,     \* bound: reservation rows an order ever gets
          CreditLimit,  \* the distributor's
          NoRequest     \* a request slot with nothing in flight

ASSUME OrdersAssumption ==
    /\ MaxOrdered \in 1..MaxQuantity
    /\ MaxEdits \in Nat
    /\ MaxHolds \in Nat
    /\ CreditLimit \in Nat
    /\ IsFiniteSet(Orders)

VARIABLES row,      \* the stock_balance row of the item
          order,    \* one order row, its line included, per identity
          hold,     \* per order, its stock_reservation rows, oldest first
          request,  \* what each request has read and is about to commit
          raced,    \* history: the orders two requests were at once at work on
          crossed   \* history: two approvals of different orders overlapped

orderVars == <<row, order, hold, request, raced, crossed>>

OrderStatuses == {"DRAFT", "PENDING_APPROVAL", "APPROVED", "PROCESSING",
                  "PARTIALLY_DISPATCHED", "DISPATCHED", "DELIVERED",
                  "CANCELLED", "REJECTED"}
StockCommitted == {"APPROVED", "PROCESSING", "PARTIALLY_DISPATCHED"}
Cancellable    == {"DRAFT", "PENDING_APPROVAL", "APPROVED", "PROCESSING"}
Open           == StockCommitted \cup {"DISPATCHED"}
Dead           == {"CANCELLED", "REJECTED"}

Order == [status : OrderStatuses, ordered : 1..MaxOrdered, line : 0..MaxEdits,
          reserved : 0..MaxOrdered, backordered : 0..MaxOrdered,
          dispatched : Nat, granted : 0..MaxOrdered, overridden : BOOLEAN]

Hold == [status : {"ACTIVE", "RELEASED", "CONSUMED"}, quantity : 0..MaxOrdered]

NewOrder(quantity) ==
    [status |-> "DRAFT", ordered |-> quantity, line |-> 0, reserved |-> 0,
     backordered |-> 0, dispatched |-> 0, granted |-> 0, overridden |-> FALSE]

OrdersInit ==
    /\ row \in [onHand : 0..MaxQuantity, reserved : {0}]
    /\ order \in [Orders -> {NewOrder(q) : q \in 1..MaxOrdered}]
    /\ hold = [o \in Orders |-> <<>>]
    /\ request = [p \in Requests |-> NoRequest]
    /\ raced = {}
    /\ crossed = FALSE

Busy(p)     == request[p] # NoRequest
InFlight(o) == \E q \in Requests : Busy(q) /\ request[q].order = o

Approving(o) ==
    \E q \in Requests : Busy(q) /\ request[q].kind = "APPROVE" /\ request[q].order # o

(* load(), and the checks made on what it returned.                        *)
Load(p, r) ==
    /\ ~Busy(p)
    /\ request' = [request EXCEPT ![p] = r]
    /\ raced' = IF InFlight(r.order) THEN raced \cup {r.order} ELSE raced
    /\ crossed' = (crossed \/ (r.kind = "APPROVE" /\ Approving(r.order)))
    /\ UNCHANGED <<row, order, hold>>

Handling(p, kind) == Busy(p) /\ request[p].kind = kind

(* What every commit leaves behind; a rollback leaves only this.           *)
Answered(p) ==
    /\ request' = [request EXCEPT ![p] = NoRequest]
    /\ UNCHANGED <<raced, crossed>>

RolledBack(p) == Answered(p) /\ UNCHANGED <<row, order, hold>>

(***************************************************************************)
(* Reservations of an order                                                *)
(***************************************************************************)
ActiveHolds(o) == {i \in DOMAIN hold[o] : hold[o][i].status = "ACTIVE"}

(* The partial unique index lets an order have one ACTIVE reservation of   *)
(* an item; a second insert fails and rolls its transaction back.          *)
MayHold(o, quantity) ==
    quantity > 0 => ActiveHolds(o) = {} /\ Len(hold[o]) < MaxHolds

Held(o, quantity) ==
    IF quantity = 0 THEN hold
    ELSE [hold EXCEPT ![o] = Append(@, [status |-> "ACTIVE", quantity |-> quantity])]

(***************************************************************************)
(* update(): DRAFT only; the lines are replaced by new ones                *)
(***************************************************************************)
LoadUpdate(p, o, quantity) ==
    /\ order[o].status = "DRAFT"
    /\ Load(p, [kind |-> "UPDATE", order |-> o, quantity |-> quantity])

(* `referenced` are the orders whose lines a shipment refers to: deleting  *)
(* them breaks a foreign key.                                              *)
CommitUpdate(p, referenced) ==
    LET r == request[p]  o == r.order IN
        /\ Handling(p, "UPDATE")
        /\ o \notin referenced
        /\ order[o].line < MaxEdits
        /\ order' = [order EXCEPT ![o] = [order[o] EXCEPT
               !.ordered = r.quantity, !.line = @ + 1,
               !.reserved = 0, !.backordered = 0, !.dispatched = 0]]
        /\ Answered(p)
        /\ UNCHANGED <<row, hold>>

(***************************************************************************)
(* submit() and reject(): a status set by id                               *)
(***************************************************************************)
LoadSubmit(p, o) ==
    /\ order[o].status = "DRAFT"
    /\ Load(p, [kind |-> "SUBMIT", order |-> o])

LoadReject(p, o) ==
    /\ order[o].status = "PENDING_APPROVAL"
    /\ Load(p, [kind |-> "REJECT", order |-> o])

CommitStatus(p, kind, status) ==
    /\ Handling(p, kind)
    /\ order' = [order EXCEPT ![request[p].order].status = status]
    /\ Answered(p)
    /\ UNCHANGED <<row, hold>>

(***************************************************************************)
(* approve(): the credit gate, then reserve what exists                    *)
(***************************************************************************)
(* checkCredit(): the other open orders of the distributor.  Outstanding   *)
(* invoices, the second term, are Receivables'.                            *)
Exposure(excluded) ==
    LET others == {o \in Orders \ {excluded} : order[o].status \in Open}
    IN  SumFunction([o \in others |-> order[o].ordered])

(* Mutant: the order being approved is not counted.                        *)
ExceedsWithoutOwnValue(o) == Exposure(o) > CreditLimit

WouldExceed(o) == Exposure(o) + order[o].ordered > CreditLimit

LoadApprove(p, o, override) ==
    /\ order[o].status = "PENDING_APPROVAL"
    /\ WouldExceed(o) => override
    /\ Load(p, [kind |-> "APPROVE", order |-> o, line |-> order[o].line,
                quantity |-> order[o].ordered,
                override |-> override /\ WouldExceed(o)])

(* The transaction: reserveUpTo on the locked stock row, the reservation,  *)
(* the line (by the id that was read) and the header, by id.               *)
MayApprove(r) ==
    /\ order[r.order].line = r.line
    /\ MayHold(r.order, Reservable(row, r.quantity))

CommitApprove(p) ==
    LET r == request[p]
        o == r.order
        got == Reservable(row, r.quantity) IN
        /\ Handling(p, "APPROVE")
        /\ MayApprove(r)
        /\ row' = [row EXCEPT !.reserved = @ + got]
        /\ hold' = Held(o, got)
        /\ order' = [order EXCEPT ![o] = [@ EXCEPT
               !.status = "APPROVED", !.reserved = got,
               !.backordered = r.quantity - got,
               !.granted = r.quantity, !.overridden = r.override]]
        /\ Answered(p)

(***************************************************************************)
(* reserveOutstanding(): try again for what is backordered                 *)
(***************************************************************************)
LoadReserve(p, o) ==
    /\ order[o].status \in StockCommitted
    /\ order[o].backordered > 0
    /\ Load(p, [kind |-> "RESERVE", order |-> o, line |-> order[o].line,
                reserved |-> order[o].reserved,
                quantity |-> order[o].backordered])

MayReserve(r) ==
    LET got == Reservable(row, r.quantity) IN
        /\ MayHold(r.order, got)
        /\ got > 0 => order[r.order].line = r.line

CommitReserve(p) ==
    LET r == request[p]
        o == r.order
        got == Reservable(row, r.quantity) IN
        /\ Handling(p, "RESERVE")
        /\ MayReserve(r)
        /\ row' = [row EXCEPT !.reserved = @ + got]
        /\ hold' = Held(o, got)
        /\ order' = IF got = 0 THEN order
                    ELSE [order EXCEPT ![o].reserved = r.reserved + got,
                                       ![o].backordered = r.quantity - got]
        /\ Answered(p)

(***************************************************************************)
(* cancel(): give back what the order holds                                *)
(***************************************************************************)
LoadCancel(p, o) ==
    /\ order[o].status \in Cancellable
    /\ Load(p, [kind |-> "CANCEL", order |-> o, found |-> 0, quantity |-> 0,
                releases |-> order[o].status \in StockCommitted,
                searched |-> order[o].status \notin StockCommitted])

(* Inside the transaction, but before the stock row is locked: the ACTIVE  *)
(* reservation, if there is one.                                           *)
FindHold(p) ==
    LET r == request[p] IN
        /\ Handling(p, "CANCEL")
        /\ ~r.searched
        /\ request' = [request EXCEPT ![p] =
               IF ActiveHolds(r.order) = {} THEN [r EXCEPT !.searched = TRUE]
               ELSE LET i == Max(ActiveHolds(r.order)) IN
                    [r EXCEPT !.searched = TRUE, !.found = i,
                              !.quantity = hold[r.order][i].quantity]]
        /\ UNCHANGED <<row, order, hold, raced, crossed>>

MayCancel(r) == MayAdjustReserved(row, -r.quantity)

(* Mutant: the reservation is closed and its stock stays promised.         *)
StockStaysPromised(r) == row

StockGivenBack(r) == [row EXCEPT !.reserved = @ - r.quantity]

HoldReleased(r) ==
    IF r.found = 0 THEN hold
    ELSE [hold EXCEPT ![r.order][r.found].status = "RELEASED"]

CommitCancel(p) ==
    LET r == request[p]  o == r.order IN
        /\ Handling(p, "CANCEL")
        /\ r.searched
        /\ MayCancel(r)
        /\ row' = StockGivenBack(r)
        /\ hold' = HoldReleased(r)
        /\ order' = IF r.releases
                    THEN [order EXCEPT ![o].status = "CANCELLED",
                                       ![o].reserved = 0, ![o].backordered = 0]
                    ELSE [order EXCEPT ![o].status = "CANCELLED"]
        /\ Answered(p)

(***************************************************************************)
(* The steps, and what may go wrong with a commit                          *)
(***************************************************************************)
OrderLoad(p, o) ==
    \/ \E quantity \in 1..MaxOrdered : LoadUpdate(p, o, quantity)
    \/ LoadSubmit(p, o)
    \/ LoadReject(p, o)
    \/ \E override \in BOOLEAN : LoadApprove(p, o, override)
    \/ LoadReserve(p, o)
    \/ LoadCancel(p, o)

OrderCommit(p, referenced) ==
    \/ CommitUpdate(p, referenced)
    \/ CommitStatus(p, "SUBMIT", "PENDING_APPROVAL")
    \/ CommitStatus(p, "REJECT", "REJECTED")
    \/ CommitApprove(p)
    \/ CommitReserve(p)
    \/ FindHold(p)
    \/ CommitCancel(p)

(* A refusal under the lock, a constraint, or a process that dies: the     *)
(* transaction rolls back at any point before COMMIT.                      *)
Fail(p) == Busy(p) /\ RolledBack(p)

(* StockService.receive() of the item.                                     *)
Receive(quantity) ==
    /\ MayMove(row, "RECEIPT", quantity)
    /\ row' = [row EXCEPT !.onHand = @ + quantity]
    /\ UNCHANGED <<order, hold, request, raced, crossed>>
=============================================================================
