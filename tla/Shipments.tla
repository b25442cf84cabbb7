----------------------------- MODULE Shipments ------------------------------
(***************************************************************************)
(* Shipments of the orders of Orders (apps/api/src/modules/sales/          *)
(* shipments.service.ts): creation against the reserved line, packing,     *)
(* dispatch, which draws the reservation down, issues the stock, receives  *)
(* it in the distributor's channel warehouse and recomputes the order's    *)
(* status, and delivery.  The two services share the order rows, the       *)
(* reservations and the stock row; this module is their composition.       *)
(***************************************************************************)
EXTENDS Orders

CONSTANTS Shipments,   \* identities of shipment rows
          Serialised   \* the shipments whose lines carry serial numbers

ASSUME ShipmentsAssumption == Serialised \subseteq Shipments /\ IsFiniteSet(Shipments)

VARIABLES shipment,  \* one shipment row, its line included, per identity
          channel,   \* on hand in the distributor's channel warehouse
          left       \* history: how often each shipment left the building

shipmentVars == <<shipment, channel, left>>
vars == <<row, order, hold, request, raced, crossed, shipment, channel, left>>

ShipmentStatuses == {"NONE", "PENDING", "PACKED", "DISPATCHED", "DELIVERED"}

Shipment == [status : ShipmentStatuses, order : Orders, quantity : 0..MaxOrdered]

Exists(s) == shipment[s].status # "NONE"

Of(o) == {s \in Shipments : Exists(s) /\ shipment[s].order = o}

Init ==
    /\ OrdersInit
    /\ shipment \in [Shipments -> [status : {"NONE"}, order : Orders, quantity : {0}]]
    /\ channel = 0
    /\ left = [s \in Shipments |-> 0]

(***************************************************************************)
(* create(): the pick is checked against the line before the transaction   *)
(***************************************************************************)
Pickable(o, quantity) ==
    /\ quantity <= order[o].ordered - order[o].dispatched
    /\ quantity <= order[o].reserved

LoadCreate(p, s, quantity) ==
    LET o == shipment[s].order IN
        /\ ~Exists(s)
        /\ order[o].status \in StockCommitted
        /\ Pickable(o, quantity)
        /\ Load(p, [kind |-> "CREATE", order |-> o, shipment |-> s,
                    line |-> order[o].line, quantity |-> quantity])
        /\ UNCHANGED shipmentVars

(* The shipment line refers to the order line that was read.               *)
CommitCreate(p) ==
    LET r == request[p] IN
        /\ Handling(p, "CREATE")
        /\ ~Exists(r.shipment)
        /\ order[r.order].line = r.line
        /\ shipment' = [shipment EXCEPT ![r.shipment].status = "PENDING",
                                        ![r.shipment].quantity = r.quantity]
        /\ Answered(p)
        /\ UNCHANGED <<row, order, hold, channel, left>>

(***************************************************************************)
(* pack()                                                                  *)
(***************************************************************************)
LoadPack(p, s) ==
    /\ shipment[s].status = "PENDING"
    /\ Load(p, [kind |-> "PACK", order |-> shipment[s].order, shipment |-> s])
    /\ UNCHANGED shipmentVars

CommitPack(p) ==
    /\ Handling(p, "PACK")
    /\ shipment' = [shipment EXCEPT ![request[p].shipment].status = "PACKED"]
    /\ Answered(p)
    /\ UNCHANGED <<row, order, hold, channel, left>>

(***************************************************************************)
(* dispatch()                                                              *)
(***************************************************************************)
(* The shipment's status and how much of the order line had left are read  *)
(* before the transaction, the ACTIVE reservation inside it, but before    *)
(* the stock row is locked (consumeQuantity).                              *)
LoadDispatch(p, s) ==
    LET o == shipment[s].order IN
        /\ shipment[s].status = "PACKED"
        /\ Load(p, [kind |-> "DISPATCH", order |-> o, shipment |-> s,
                    dispatched |-> order[o].dispatched, found |-> 0, seen |-> 0])
        /\ UNCHANGED shipmentVars

FindForDispatch(p) ==
    LET r == request[p]
        i == Max(ActiveHolds(r.order)) IN
        /\ Handling(p, "DISPATCH")
        /\ r.found = 0
        /\ ActiveHolds(r.order) # {}
        /\ shipment[r.shipment].quantity <= hold[r.order][i].quantity
        /\ request' = [request EXCEPT ![p].found = i,
                                      ![p].seen = hold[r.order][i].quantity]
        /\ UNCHANGED <<row, order, hold, raced, crossed, shipment, channel, left>>

(* Mutant: a serial number may be recorded twice.                          *)
SerialsUnchecked(s) == TRUE

(* recordDispatched(): a serial number is created once, by the dispatch    *)
(* that ships it.                                                          *)
SerialsNew(s) == s \in Serialised => left[s] = 0

HoldReleasedBy(quantity) == [row EXCEPT !.reserved = @ - quantity]

MayDispatch(r, quantity) ==
    /\ MayAdjustReserved(row, -quantity)
    /\ MayMove(HoldReleasedBy(quantity), "ISSUE", quantity)
    /\ SerialsNew(r.shipment)

(* The reservation is drawn down from what was found.  A live hold of      *)
(* nothing breaks a CHECK, a closed one may be empty.                      *)
DrawnHold(r, quantity) ==
    [hold[r.order][r.found] EXCEPT
        !.quantity = r.seen - quantity,
        !.status = IF r.seen = quantity THEN "CONSUMED" ELSE @]

(* Mutant: the line is set to this shipment, not added to.                 *)
OnlyThisShipment(r, quantity) == quantity

LineDispatched(r, quantity) == r.dispatched + quantity

(* refreshFulfilmentStatus(): computed from the line, whatever the header  *)
(* said before.                                                            *)
FulfilmentStatus(ordered, dispatched) ==
    IF dispatched = 0 THEN "PROCESSING"
    ELSE IF dispatched >= ordered THEN "DISPATCHED"
    ELSE "PARTIALLY_DISPATCHED"

CommitDispatch(p) ==
    LET r == request[p]
        o == r.order
        s == r.shipment
        quantity == shipment[s].quantity
        dispatched == LineDispatched(r, quantity) IN
        /\ Handling(p, "DISPATCH")
        /\ r.found # 0
        /\ MayDispatch(r, quantity)
        /\ row' = [HoldReleasedBy(quantity) EXCEPT !.onHand = @ - quantity]
        /\ hold' = [hold EXCEPT ![o][r.found] = DrawnHold(r, quantity)]
        /\ channel' = channel + quantity
        /\ left' = [left EXCEPT ![s] = @ + 1]
        /\ shipment' = [shipment EXCEPT ![s].status = "DISPATCHED"]
        /\ order' = [order EXCEPT
               ![o].dispatched = dispatched,
               ![o].status = FulfilmentStatus(order[o].ordered, dispatched)]
        /\ Answered(p)

(***************************************************************************)
(* deliver()                                                               *)
(***************************************************************************)
LoadDeliver(p, s) ==
    /\ shipment[s].status = "DISPATCHED"
    /\ Load(p, [kind |-> "DELIVER", order |-> shipment[s].order, shipment |-> s,
                landed |-> FALSE, searched |-> FALSE])
    /\ UNCHANGED shipmentVars

(* Inside the transaction: the siblings, of which this shipment alone is   *)
(* seen as delivered already.                                              *)
CountSiblings(p) ==
    LET r == request[p] IN
        /\ Handling(p, "DELIVER")
        /\ ~r.searched
        /\ request' = [request EXCEPT ![p].searched = TRUE,
               ![p].landed = \A s \in Of(r.order) \ {r.shipment} :
                                 shipment[s].status = "DELIVERED"]
        /\ UNCHANGED <<row, order, hold, raced, crossed, shipment, channel, left>>

CommitDeliver(p) ==
    LET r == request[p]  o == r.order IN
        /\ Handling(p, "DELIVER")
        /\ r.searched
        /\ shipment' = [shipment EXCEPT ![r.shipment].status = "DELIVERED"]
        /\ order' = IF r.landed /\ order[o].status = "DISPATCHED"
                    THEN [order EXCEPT ![o].status = "DELIVERED"] ELSE order
        /\ Answered(p)
        /\ UNCHANGED <<row, hold, channel, left>>

(***************************************************************************)
(* The two services together                                               *)
(***************************************************************************)
ShipmentLoad(p, s) ==
    \/ \E quantity \in 1..MaxOrdered : LoadCreate(p, s, quantity)
    \/ LoadPack(p, s)
    \/ LoadDispatch(p, s)
    \/ LoadDeliver(p, s)

ShipmentCommit(p) ==
    \/ CommitCreate(p)
    \/ CommitPack(p)
    \/ FindForDispatch(p)
    \/ CommitDispatch(p)
    \/ CountSiblings(p)
    \/ CommitDeliver(p)

Referenced == {o \in Orders : Of(o) # {}}

OrderStep(p) ==
    /\ \/ \E o \in Orders : OrderLoad(p, o)
       \/ OrderCommit(p, Referenced)
       \/ Fail(p)
    /\ UNCHANGED shipmentVars

ShipmentStep(p) ==
    \/ \E s \in Shipments : ShipmentLoad(p, s)
    \/ ShipmentCommit(p)

GoodsReceipt == (\E q \in 1..MaxQuantity : Receive(q)) /\ UNCHANGED shipmentVars

Next == (\E p \in Requests : OrderStep(p) \/ ShipmentStep(p)) \/ GoodsReceipt

Spec == Init /\ [][Next]_vars

(***************************************************************************)
(* Properties                                                              *)
(***************************************************************************)
OrderRequest ==
    [kind : {"SUBMIT", "REJECT"}, order : Orders]
    \cup [kind : {"UPDATE"}, order : Orders, quantity : 1..MaxOrdered]
    \cup [kind : {"APPROVE"}, order : Orders, line : 0..MaxEdits,
          quantity : 1..MaxOrdered, override : BOOLEAN]
    \cup [kind : {"RESERVE"}, order : Orders, line : 0..MaxEdits,
          reserved : 0..MaxOrdered, quantity : 1..MaxOrdered]
    \cup [kind : {"CANCEL"}, order : Orders, found : 0..MaxHolds,
          quantity : 0..MaxOrdered, releases : BOOLEAN, searched : BOOLEAN]

ShipmentRequest ==
    [kind : {"PACK"}, order : Orders, shipment : Shipments]
    \cup [kind : {"CREATE"}, order : Orders, shipment : Shipments,
          line : 0..MaxEdits, quantity : 1..MaxOrdered]
    \cup [kind : {"DISPATCH"}, order : Orders, shipment : Shipments,
          dispatched : Nat, found : 0..MaxHolds, seen : 0..MaxOrdered]
    \cup [kind : {"DELIVER"}, order : Orders, shipment : Shipments,
          landed : BOOLEAN, searched : BOOLEAN]

(* Every variable holds a value of its kind.                               *)
TypeOK ==
    /\ row \in Row
    /\ order \in [Orders -> Order]
    /\ \A o \in Orders : hold[o] \in Seq(Hold) /\ Len(hold[o]) <= MaxHolds
    /\ request \in [Requests -> OrderRequest \cup ShipmentRequest \cup {NoRequest}]
    /\ raced \in SUBSET Orders
    /\ crossed \in BOOLEAN
    /\ shipment \in [Shipments -> Shipment]
    /\ channel \in Nat
    /\ left \in [Shipments -> Nat]

HeldFor(o) == SumFunction([i \in ActiveHolds(o) |-> hold[o][i].quantity])

Shipped(o) == SumFunction([s \in Of(o) |-> left[s] * shipment[s].quantity])

Approved(o) == order[o].status \in Open \cup {"DELIVERED"}

(* The stock row withholds no more than the ACTIVE reservations account    *)
(* for: no stock is lost to sale with "nothing pointing at the cause".     *)
NothingWithheldForNobody ==
    row.reserved <= SumFunction([o \in Orders |-> HeldFor(o)])

(* An order never claims that more was dispatched than left for it.        *)
NeverClaimsMoreThanLeft == \A o \in Orders : order[o].dispatched <= Shipped(o)

(* Whatever requests race, the figures err to one side only: stock may be  *)
(* given back too often, but is never lost to sale; a dispatch may go      *)
(* unrecorded, but is never invented.                                      *)
RacesOnlyUnderstate == NothingWithheldForNobody /\ NeverClaimsMoreThanLeft

(* A cancelled or rejected order holds no stock ...                        *)
DeadOrdersHoldNothing ==
    \A o \in Orders \ raced : order[o].status \in Dead => ActiveHolds(o) = {}

(* ... an approved one holds what its line says is reserved and not yet    *)
(* gone, owes the rest, and has recorded everything that left ...          *)
LineAddsUp ==
    \A o \in Orders \ raced : Approved(o) =>
        /\ order[o].reserved + order[o].backordered = order[o].ordered
        /\ order[o].dispatched = Shipped(o)
        /\ HeldFor(o) = order[o].reserved - order[o].dispatched

(* ... and its figures are frozen: what the approval was granted for is    *)
(* what the order is worth.                                                *)
ApprovalCoversTheFigures ==
    \A o \in Orders \ raced : Approved(o) => order[o].granted = order[o].ordered

(* ... and the header says what the line says: an order all of whose goods *)
(* have landed is DELIVERED.                                               *)
HeaderFollowsLine ==
    \A o \in Orders \ raced :
        LET done == order[o].dispatched >= order[o].ordered
            some == order[o].dispatched > 0
            landed == \A s \in Of(o) : shipment[s].status = "DELIVERED" IN
        CASE order[o].status = "DISPATCHED" -> done /\ ~landed
          [] order[o].status = "DELIVERED" -> done /\ landed
          [] order[o].status = "PARTIALLY_DISPATCHED" -> some /\ ~done
          [] OTHER -> ~some

(* Header, line, reservation and approval of an order agree unless two     *)
(* requests were at once at work on it.                                    *)
OrdersConsistent ==
    /\ TypeOK
    /\ DeadOrdersHoldNothing
    /\ LineAddsUp
    /\ ApprovalCoversTheFigures
    /\ HeaderFollowsLine

(* The open orders of the distributor stay within the credit limit unless  *)
(* one of them was forgiven the breach, or two requests overlapped.        *)
ExposureWithinLimit ==
    \/ crossed
    \/ raced # {}
    \/ \E o \in Orders : order[o].status \in Open /\ order[o].overridden
    \/ Exposure(NoRequest) <= CreditLimit

(* "Stock leaves the building exactly once": a shipment is dispatched at   *)
(* most once unless its order was raced on, and whatever races if its      *)
(* goods carry serial numbers.                                             *)
LeavesOnce ==
    \A s \in Shipments :
        shipment[s].order \notin raced \/ s \in Serialised => left[s] <= 1
=============================================================================
