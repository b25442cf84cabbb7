---------------------------- MODULE GoodsProofs ----------------------------
(***************************************************************************)
(* What holds of orders and shipments whatever requests race, and what     *)
(* holds of an order, and of the credit of its distributor, unless two     *)
(* requests overlap on it.                                                 *)
(*                                                                         *)
(* The services check what they read before their transactions and then    *)
(* write by id, so nothing a request has read can be relied on in general. *)
(* The argument has four parts, each an invariant of its own:              *)
(*                                                                         *)
(*  WellFormed  rows stay within their bounds, an order has one ACTIVE     *)
(*              reservation at most, and it claims no dispatch that did    *)
(*              not leave: what left for an order only grows, so a claim   *)
(*              that was read in time is never too high;                   *)
(*  Accounted   what the stock row withholds splits into a share for each  *)
(*              order that its reservation covers, and what a request has  *)
(*              found of the reservation covers the share too, so whoever  *)
(*              closes it gives the share back, once at least;             *)
(*  OrderInv    an order that two requests never met on has one request at *)
(*              work at most, and what that one read of it is so still;    *)
(*  CreditInv   what the open orders are worth, with the order under       *)
(*              approval, is within the limit.                             *)
(*                                                                         *)
(* Then, each in a section that shares no state with the others: the       *)
(* revisions of a product, its kits, the transfers between warehouses, and *)
(* what goods cost.                                                        *)
(***************************************************************************)
EXTENDS Shipments, Products, StockTransfers, CostedBins, Sums

(* An order has one ACTIVE reservation at most, and never of nothing.      *)
HoldsWellFormed ==
    \A o \in Orders :
        /\ \A i, j \in ActiveHolds(o) : i = j
        /\ \A i \in ActiveHolds(o) : hold[o][i].quantity > 0

LinesBounded == \A o \in Orders : order[o].reserved + order[o].backordered <= MaxOrdered

ShipmentsFit ==
    \A s \in Shipments : /\ Exists(s) => shipment[s].quantity > 0
                         /\ ~Exists(s) => left[s] = 0

(* What a request has read is of its kind, whatever has happened since.    *)
Fits(r) ==
    /\ r.kind = "RESERVE" => r.reserved + r.quantity <= MaxOrdered
    /\ r.kind \in {"CANCEL", "DISPATCH"} => r.found \in 0..Len(hold[r.order])
    /\ r.kind = "CANCEL" /\ r.found = 0 => r.quantity = 0
    /\ r.kind \in {"CREATE", "PACK", "DISPATCH", "DELIVER"} => shipment[r.shipment].order = r.order
    /\ r.kind \in {"PACK", "DISPATCH", "DELIVER"} => Exists(r.shipment)
    /\ r.kind = "DISPATCH" => r.dispatched <= Shipped(r.order)
    /\ r.kind = "DISPATCH" /\ r.found # 0 => shipment[r.shipment].quantity <= r.seen

RequestsFit == \A p \in Requests : Busy(p) => Fits(request[p])

(* The stock row withholds for each order a share that its reservation     *)
(* accounts for, and so does whatever a request has read of it.            *)
Found(r) == r.kind \in {"CANCEL", "DISPATCH"} /\ r.found # 0 /\ r.found \in ActiveHolds(r.order)
Took(r)  == IF r.kind = "CANCEL" THEN r.quantity ELSE r.seen

Withholds(own) ==
    /\ row.reserved <= SumFunctionOnSet(own, Orders)
    /\ \A o \in Orders : own[o] <= HeldFor(o)
    /\ \A p \in Requests : Busy(p) /\ Found(request[p]) => own[request[p].order] <= Took(request[p])

Shares == [Orders -> 0..MaxQuantity]

Accounted == \E own \in Shares : Withholds(own)

WellFormed ==
    /\ TypeOK /\ hold \in [Orders -> Seq(Hold)]
    /\ HoldsWellFormed /\ LinesBounded /\ ShipmentsFit /\ RequestsFit
    /\ NeverClaimsMoreThanLeft

(* Two requests that are at work on one order have raced.                  *)
OneAtATime ==
    \A p, q \in Requests : p # q /\ Busy(p) /\ Busy(q) /\ request[p].order = request[q].order
        => request[p].order \in raced

AllLanded(o, except) == \A s \in Of(o) \ except : shipment[s].status = "DELIVERED"

(* What a request has read is so still.                                    *)
StillSo(r) ==
    LET o == r.order
        status == order[o].status IN
    /\ r.kind \in {"UPDATE", "SUBMIT"} => status = "DRAFT"
    /\ r.kind \in {"REJECT", "APPROVE"} => status = "PENDING_APPROVAL"
    /\ r.kind = "APPROVE" => r.quantity = order[o].ordered
    /\ r.kind \in {"RESERVE", "CREATE"} => status \in StockCommitted
    /\ r.kind = "RESERVE" => r.reserved = order[o].reserved /\ r.quantity = order[o].backordered
    /\ r.kind = "CANCEL" =>
           /\ status \in Cancellable
           /\ r.releases <=> status \in StockCommitted
           /\ IF r.found = 0 THEN r.searched => ActiveHolds(o) = {} ELSE r.found \in ActiveHolds(o)
    /\ r.kind = "PACK" => shipment[r.shipment].status = "PENDING"
    /\ r.kind = "DISPATCH" =>
           /\ shipment[r.shipment].status = "PACKED"
           /\ r.dispatched = order[o].dispatched
           /\ r.found # 0 => r.found \in ActiveHolds(o) /\ r.seen = hold[o][r.found].quantity
    /\ r.kind = "DELIVER" =>
           /\ shipment[r.shipment].status = "DISPATCHED"
           /\ r.searched => (r.landed <=> AllLanded(o, {r.shipment}))

ReadingsHold == \A p \in Requests : Busy(p) /\ request[p].order \notin raced => StillSo(request[p])

(* Header, line, reservation and shipments of one order agree.             *)
Agrees(o) ==
    LET r == order[o] IN
    /\ r.dispatched = Shipped(o)
    /\ r.status \in Dead \cup {"DRAFT", "PENDING_APPROVAL"} => ActiveHolds(o) = {}
    /\ r.status \in {"DRAFT", "PENDING_APPROVAL"} => Of(o) = {}
    /\ Approved(o) => /\ r.reserved + r.backordered = r.ordered
                      /\ HeldFor(o) = r.reserved - r.dispatched
                      /\ r.granted = r.ordered
    /\ r.status = "DISPATCHED" => r.dispatched >= r.ordered /\ ~AllLanded(o, {})
    /\ r.status = "DELIVERED" => r.dispatched >= r.ordered /\ AllLanded(o, {})
    /\ r.status = "PARTIALLY_DISPATCHED" => r.dispatched > 0 /\ r.dispatched < r.ordered
    /\ r.status \notin {"DISPATCHED", "DELIVERED", "PARTIALLY_DISPATCHED"} => r.dispatched = 0
    /\ \A s \in Shipments : shipment[s].order = o =>
           left[s] = IF shipment[s].status \in {"DISPATCHED", "DELIVERED"} THEN 1 ELSE 0

OrderInv ==
    /\ OneAtATime /\ ReadingsHold
    /\ \A o \in Orders \ raced : Agrees(o)
    /\ \A s \in Serialised : left[s] <= 1

(* What the open orders of these rows are worth that no one was forgiven,  *)
(* but for x.                                                              *)
TrustedIn(book, x) ==
    [o \in Orders |-> IF o # x /\ book[o].status \in Open /\ ~book[o].overridden
                      THEN book[o].ordered ELSE 0]
Trust(book, x) == SumFunctionOnSet(TrustedIn(book, x), Orders)

(* It is within the limit, and stays there when a request that approves    *)
(* commits: two that do are at work on one order, and so have raced.       *)
CreditInv ==
    raced = {} /\ ~crossed =>
        /\ Trust(order, NoRequest) <= CreditLimit
        /\ \A p \in Requests : Handling(p, "APPROVE") /\ ~request[p].override =>
               Trust(order, request[p].order) + request[p].quantity <= CreditLimit
        /\ \A p, q \in Requests : Handling(p, "APPROVE") /\ Handling(q, "APPROVE")
               => request[p].order = request[q].order

AnyRequest == OrderRequest \cup ShipmentRequest

(* The fields a request of each kind has.                                  *)
LEMMA RequestOfKind ==
    ASSUME NEW r \in AnyRequest
    PROVE  /\ r.order \in Orders
           /\ r.kind = "UPDATE" => r.quantity \in 1..MaxOrdered
           /\ r.kind = "APPROVE" => /\ r.line \in 0..MaxEdits /\ r.quantity \in 1..MaxOrdered
                                    /\ r.override \in BOOLEAN
           /\ r.kind = "RESERVE" => /\ r.line \in 0..MaxEdits /\ r.reserved \in 0..MaxOrdered
                                    /\ r.quantity \in 1..MaxOrdered
           /\ r.kind = "CANCEL" =>
                r \in [kind : {"CANCEL"}, order : Orders, found : 0..MaxHolds,
                       quantity : 0..MaxOrdered, releases : BOOLEAN, searched : BOOLEAN]
           /\ r.kind \in {"CREATE", "PACK", "DISPATCH", "DELIVER"} => r.shipment \in Shipments
           /\ r.kind = "CREATE" => r.line \in 0..MaxEdits /\ r.quantity \in 1..MaxOrdered
           /\ r.kind = "DISPATCH" =>
                r \in [kind : {"DISPATCH"}, order : Orders, shipment : Shipments,
                       dispatched : Nat, found : 0..MaxHolds, seen : 0..MaxOrdered]
           /\ r.kind = "DELIVER" =>
                r \in [kind : {"DELIVER"}, order : Orders, shipment : Shipments,
                       landed : BOOLEAN, searched : BOOLEAN]
<1>1. r \in OrderRequest \/ r \in ShipmentRequest
  BY DEF AnyRequest
<1>2. CASE r \in OrderRequest
  BY <1>2 DEF OrderRequest
<1>3. CASE r \in ShipmentRequest
  BY <1>3 DEF ShipmentRequest
<1> QED
  BY <1>1, <1>2, <1>3

(* What left of each shipment of one order, and its sum.                   *)
Goods(sh, lf, o) ==
    [s \in Shipments |-> IF sh[s].order = o THEN lf[s] * sh[s].quantity ELSE 0]

LeftFor(sh, lf, o) == SumFunctionOnSet(Goods(sh, lf, o), Shipments)

(* The product of two counts is a count.                                   *)
LEMMA ProductIsNat == ASSUME NEW a \in Nat, NEW b \in Nat PROVE a * b \in Nat
  OBVIOUS

(* What a shipment adds to what left for an order is a count.              *)
LEMMA GoodsAreNat ==
    ASSUME NEW sh \in [Shipments -> Shipment], NEW lf \in [Shipments -> Nat], NEW o
    PROVE  \A s \in Shipments : Goods(sh, lf, o)[s] \in Nat
<1> SUFFICES ASSUME NEW s \in Shipments PROVE Goods(sh, lf, o)[s] \in Nat
  OBVIOUS
<1>1. lf[s] \in Nat /\ sh[s].quantity \in Nat
  BY OrdersAssumption, MaxQuantityAssumption DEF Shipment
<1>2. lf[s] * sh[s].quantity \in Nat
  BY <1>1, ProductIsNat
<1> QED
  BY <1>2 DEF Goods

(* What left for an order, summed over its shipments, is the sum over all  *)
(* shipments of what each adds to it.                                      *)
LEMMA ShippedIsTotal ==
    ASSUME NEW sh \in [Shipments -> Shipment], NEW lf \in [Shipments -> Nat], NEW o,
           \A s \in Shipments : sh[s].status = "NONE" => lf[s] = 0
    PROVE  LET of == {s \in Shipments : sh[s].status # "NONE" /\ sh[s].order = o} IN
           SumFunction([s \in of |-> lf[s] * sh[s].quantity]) = LeftFor(sh, lf, o)
<1> DEFINE of == {s \in Shipments : sh[s].status # "NONE" /\ sh[s].order = o}
           f == [s \in of |-> lf[s] * sh[s].quantity]
           g == Goods(sh, lf, o)
<1>1. of \in SUBSET Shipments /\ IsFiniteSet(Shipments) /\ DOMAIN f = of
  BY ShipmentsAssumption
<1>2. ASSUME NEW s \in Shipments PROVE g[s] = IF s \in of THEN f[s] ELSE 0
  <2>1. CASE s \in of
    BY <2>1 DEF Goods
  <2>2. CASE s \notin of /\ sh[s].order = o
    <3>1. lf[s] = 0 /\ sh[s].quantity \in Int
      BY <2>2, OrdersAssumption DEF Shipment
    <3>2. g[s] = lf[s] * sh[s].quantity
      BY <2>2 DEF Goods
    <3>3. 0 * sh[s].quantity = 0
      BY <3>1
    <3> QED
      BY <2>2, <3>1, <3>2, <3>3
  <2>3. CASE sh[s].order # o
    BY <2>3 DEF Goods
  <2> QED
    BY <2>1, <2>2, <2>3
<1>3. ASSUME NEW s \in of PROVE f[s] \in Int
  <2>1. g[s] = f[s] /\ s \in Shipments
    BY <1>2, <1>1
  <2> QED
    BY <2>1, GoodsAreNat
<1> HIDE DEF of, f, g
<1>4. SumFunctionOnSet(f, of) = SumFunctionOnSet(g, Shipments)
  BY <1>1, <1>2, <1>3, SumOfSupport
<1>5. SumFunction(f) = SumFunctionOnSet(f, DOMAIN f)
  BY DEF SumFunction, SumFunctionOnSet, FoldFunction
<1> QED
  BY <1>1, <1>4, <1>5 DEF of, f, g, LeftFor

(* That sum is a count.                                                    *)
LEMMA TotalIsNat ==
    ASSUME NEW sh \in [Shipments -> Shipment], NEW lf \in [Shipments -> Nat], NEW o
    PROVE  LeftFor(sh, lf, o) \in Nat
<1> DEFINE g == Goods(sh, lf, o)
           z == [s \in Shipments |-> 0]
<1>1. \A s \in Shipments : g[s] \in Nat
  BY GoodsAreNat
<1>2. \A s \in Shipments : z[s] \in Int /\ z[s] = 0 /\ g[s] \in Int /\ z[s] <= g[s]
  BY <1>1
<1> HIDE DEF g, z
<1>3. SumFunctionOnSet(z, Shipments) <= SumFunctionOnSet(g, Shipments)
  BY <1>2, ShipmentsAssumption, SumIsMonotone
<1>4. SumFunctionOnSet(z, Shipments) = 0 /\ SumFunctionOnSet(g, Shipments) \in Int
  BY <1>2, ShipmentsAssumption, SumOfZeros, SumIsInt
<1> QED
  BY <1>3, <1>4 DEF g, LeftFor

(* Nothing left, or what left is as it was: the sums stay.                 *)
LEMMA TotalStays ==
    ASSUME NEW sh \in [Shipments -> Shipment], NEW lf \in [Shipments -> Nat],
           NEW sh2 \in [Shipments -> Shipment], NEW lf2 \in [Shipments -> Nat], NEW o,
           \A s \in Shipments :
               sh[s].order = o \/ sh2[s].order = o =>
                   /\ lf2[s] = lf[s] /\ sh2[s].order = sh[s].order
                   /\ lf[s] # 0 => sh2[s].quantity = sh[s].quantity
    PROVE  LeftFor(sh2, lf2, o) = LeftFor(sh, lf, o)
<1> DEFINE f == Goods(sh, lf, o)
           g == Goods(sh2, lf2, o)
<1>1. ASSUME NEW s \in Shipments PROVE f[s] = g[s]
  <2>1. CASE sh[s].order = o \/ sh2[s].order = o
    <3>1. /\ sh[s].order = o /\ sh2[s].order = o /\ lf2[s] = lf[s]
          /\ lf[s] # 0 => sh2[s].quantity = sh[s].quantity
      BY <2>1
    <3>2. f[s] = lf[s] * sh[s].quantity /\ g[s] = lf[s] * sh2[s].quantity
      BY <3>1 DEF Goods
    <3>3. 0 * sh[s].quantity = 0 /\ 0 * sh2[s].quantity = 0
      <4>1. sh[s].quantity \in Int /\ sh2[s].quantity \in Int
        BY OrdersAssumption DEF Shipment
      <4> QED
        BY <4>1
    <3> QED
      BY <3>1, <3>2, <3>3
  <2>2. CASE sh[s].order # o /\ sh2[s].order # o
    BY <2>2 DEF Goods
  <2> QED
    BY <2>1, <2>2
<1> HIDE DEF f, g
<1> QED
  BY <1>1, ShipmentsAssumption, SumCongruent DEF f, g, LeftFor

(* A product whose factor grows by one.                                    *)
LEMMA OneMore == ASSUME NEW a \in Nat, NEW b \in Nat PROVE (a + 1) * b = a * b + b
  OBVIOUS

(* A sum over the shipments of which one term changes.                     *)
LEMMA OneTotalMoves ==
    ASSUME NEW f, NEW g, NEW s \in Shipments,
           \A t \in Shipments : f[t] \in Int /\ g[t] \in Int,
           \A t \in Shipments \ {s} : g[t] = f[t]
    PROVE  SumFunctionOnSet(g, Shipments) = SumFunctionOnSet(f, Shipments) - f[s] + g[s]
  BY ShipmentsAssumption, SumUpdate

(* One shipment leaves once more.                                          *)
GoesOutOnceMore(s, sh, lf, sh2, lf2) ==
    /\ s \in Shipments
    /\ sh \in [Shipments -> Shipment] /\ lf \in [Shipments -> Nat]
    /\ sh2 \in [Shipments -> Shipment] /\ lf2 \in [Shipments -> Nat]
    /\ lf2[s] = lf[s] + 1 /\ \A t \in Shipments \ {s} : lf2[t] = lf[t]
    /\ \A t \in Shipments : sh2[t].order = sh[t].order /\ sh2[t].quantity = sh[t].quantity

LEMMA TotalGrows ==
    ASSUME NEW s, NEW sh, NEW lf, NEW sh2, NEW lf2, GoesOutOnceMore(s, sh, lf, sh2, lf2), NEW o
    PROVE  LeftFor(sh2, lf2, o) = LeftFor(sh, lf, o) + (IF sh[s].order = o THEN sh[s].quantity ELSE 0)
<1> USE DEF GoesOutOnceMore
<1> DEFINE f == Goods(sh, lf, o)
           g == Goods(sh2, lf2, o)
           more == IF sh[s].order = o THEN sh[s].quantity ELSE 0
<1>1. \A t \in Shipments : f[t] \in Int /\ g[t] \in Int
  <2>1. \A t \in Shipments : f[t] \in Nat
    BY GoodsAreNat
  <2>2. \A t \in Shipments : g[t] \in Nat
    BY GoodsAreNat
  <2> QED
    BY <2>1, <2>2
<1>2. \A t \in Shipments \ {s} : g[t] = f[t]
  BY DEF Goods
<1>0. more \in Int
  BY OrdersAssumption DEF Shipment
<1>3. g[s] = f[s] + more
  <2>1. lf[s] \in Nat /\ sh[s].quantity \in Nat /\ lf2[s] = lf[s] + 1
    BY OrdersAssumption, MaxQuantityAssumption DEF Shipment
  <2>2. (lf[s] + 1) * sh[s].quantity = lf[s] * sh[s].quantity + sh[s].quantity
    BY <2>1, OneMore
  <2>3. CASE sh[s].order = o
    BY <2>1, <2>2, <2>3 DEF Goods
  <2>4. CASE sh[s].order # o
    BY <2>4 DEF Goods
  <2> QED
    BY <2>3, <2>4
<1> HIDE DEF f, g, more
<1>4. SumFunctionOnSet(g, Shipments) = SumFunctionOnSet(f, Shipments) - f[s] + g[s]
  BY <1>1, <1>2, OneTotalMoves
<1>5. SumFunctionOnSet(f, Shipments) \in Int
  BY <1>1, ShipmentsAssumption, SumIsInt
<1>6. SumFunctionOnSet(g, Shipments) = SumFunctionOnSet(f, Shipments) + more
  BY <1>0, <1>1, <1>3, <1>4, <1>5
<1> QED
  BY <1>6 DEF f, g, more, LeftFor

(* An order has one ACTIVE reservation at most: that is what it holds.     *)
LEMMA HeldIs ==
    ASSUME NEW h \in Seq(Hold),
           \A i, j \in {k \in DOMAIN h : h[k].status = "ACTIVE"} : i = j
    PROVE  LET active == {k \in DOMAIN h : h[k].status = "ACTIVE"}
               held == SumFunction([i \in active |-> h[i].quantity]) IN
           /\ active = {} => held = 0
           /\ \A i \in active : held = h[i].quantity
           /\ held \in Nat
<1> DEFINE active == {k \in DOMAIN h : h[k].status = "ACTIVE"}
           f == [i \in active |-> h[i].quantity]
<1>1. SumFunction(f) = SumFunctionOnSet(f, active)
  <2>1. DOMAIN f = active
    OBVIOUS
  <2> QED
    BY <2>1 DEF SumFunction, SumFunctionOnSet, FoldFunction
<1>2. CASE active = {}
  <2>1. SumFunctionOnSet(f, {}) = 0
    BY SumOfNone
  <2> HIDE DEF f, active
  <2>2. SumFunction(f) = 0
    BY <1>1, <1>2, <2>1
  <2> QED
    BY <1>2, <2>2 DEF f, active
<1>3. CASE active # {}
  <2>1. PICK i \in active : active = {i}
    BY <1>3
  <2>0. i \in DOMAIN h /\ h[i] \in Hold
    BY <2>1
  <2>2. f[i] = h[i].quantity /\ f[i] \in Int /\ h[i].quantity \in Nat
    BY <2>0, OrdersAssumption, MaxQuantityAssumption DEF Hold
  <2> HIDE DEF f, active
  <2>3. {i} \ {i} = {} /\ IsFiniteSet({i})
    BY FS_Singleton
  <2>4. SumFunctionOnSet(f, {i}) = f[i] + SumFunctionOnSet(f, {})
    BY <2>2, <2>3, SumRemove
  <2>5. SumFunction(f) = h[i].quantity
    BY <1>1, <2>1, <2>2, <2>4, SumOfNone
  <2> QED
    BY <2>1, <2>2, <2>5, <1>3 DEF f, active
<1> QED
  BY <1>2, <1>3

(* Shipped is that sum.                                                    *)
LEMMA CountShipped ==
    ASSUME WellFormed
    PROVE  \A o \in Orders : Shipped(o) = LeftFor(shipment, left, o) /\ Shipped(o) \in Nat
<1> TAKE o \in Orders
<1>1. /\ shipment \in [Shipments -> Shipment] /\ left \in [Shipments -> Nat]
      /\ \A s \in Shipments : shipment[s].status = "NONE" => left[s] = 0
  BY DEF WellFormed, TypeOK, ShipmentsFit, Exists
<1>2. Shipped(o) = LeftFor(shipment, left, o)
  BY <1>1, ShippedIsTotal DEF Shipped, Of, Exists
<1> QED
  BY <1>1, <1>2, TotalIsNat

(* The same after a step, whatever the step is.                            *)
LEMMA CountShippedAfter ==
    ASSUME shipment' \in [Shipments -> Shipment], left' \in [Shipments -> Nat],
           \A s \in Shipments : shipment'[s].status = "NONE" => left'[s] = 0
    PROVE  \A o \in Orders : Shipped(o)' = LeftFor(shipment', left', o) /\ Shipped(o)' \in Nat
<1> TAKE o \in Orders
<1>1. Shipped(o)' = LeftFor(shipment', left', o)
  BY ShippedIsTotal DEF Shipped, Of, Exists
<1> QED
  BY <1>1, TotalIsNat

(* An order's ACTIVE reservations hold what its only one does.             *)
LEMMA CountHeld ==
    ASSUME WellFormed
    PROVE  \A o \in Orders : /\ HeldFor(o) \in Nat
                             /\ ActiveHolds(o) = {} => HeldFor(o) = 0
                             /\ \A i \in ActiveHolds(o) : HeldFor(o) = hold[o][i].quantity
<1> TAKE o \in Orders
<1>1. hold[o] \in Seq(Hold) /\ \A i, j \in ActiveHolds(o) : i = j
  BY DEF WellFormed, HoldsWellFormed
<1> QED
  BY <1>1, HeldIs DEF HeldFor, ActiveHolds

(* The same after a step.                                                  *)
LEMMA CountHeldAfter ==
    ASSUME hold' \in [Orders -> Seq(Hold)], HoldsWellFormed'
    PROVE  \A o \in Orders : /\ HeldFor(o)' \in Nat
                             /\ ActiveHolds(o)' = {} => HeldFor(o)' = 0
                             /\ \A i \in ActiveHolds(o)' : HeldFor(o)' = hold'[o][i].quantity
<1> TAKE o \in Orders
<1>1. hold'[o] \in Seq(Hold) /\ \A i, j \in ActiveHolds(o)' : i = j
  BY DEF HoldsWellFormed
<1> QED
  BY <1>1, HeldIs DEF HeldFor, ActiveHolds

(* The reservation the services find is the only ACTIVE one.               *)
LEMMA OnlyHoldIsMax ==
    ASSUME WellFormed, NEW o \in Orders, ActiveHolds(o) # {}
    PROVE  Max(ActiveHolds(o)) \in ActiveHolds(o) /\ Max(ActiveHolds(o)) \in 1..Len(hold[o])
<1>1. hold[o] \in Seq(Hold) /\ \A i, j \in ActiveHolds(o) : i = j
  BY DEF WellFormed, HoldsWellFormed
<1>2. \A i \in ActiveHolds(o) : i \in 1..Len(hold[o])
  BY <1>1 DEF ActiveHolds
<1>3. PICK i \in ActiveHolds(o) : \A j \in ActiveHolds(o) : i >= j
  BY <1>1, <1>2
<1>4. Max(ActiveHolds(o)) \in ActiveHolds(o)
  BY <1>3 DEF Max
<1> QED
  BY <1>2, <1>4

(* Nothing a request may have read of goes away, and what left only grows. *)
Grows ==
    /\ \A o \in Orders : Len(hold[o]) <= Len(hold'[o])
    /\ \A s \in Shipments :
           /\ shipment'[s].order = shipment[s].order
           /\ Exists(s) => Exists(s)' /\ shipment'[s].quantity = shipment[s].quantity
    /\ \A o \in Orders : Shipped(o) <= Shipped(o)' /\ Shipped(o)' \in Nat

(* So a request goes on fitting its kind.                                  *)
LEMMA FitsStays ==
    ASSUME WellFormed, Grows, hold' \in [Orders -> Seq(Hold)], NEW r \in AnyRequest, Fits(r)
    PROVE  Fits(r)'
<1>1. r.order \in Orders
  BY RequestOfKind
<1>2. r.kind \in {"CANCEL", "DISPATCH"} => r.found \in 0..Len(hold'[r.order])
  <2>1. Len(hold[r.order]) \in Nat /\ Len(hold'[r.order]) \in Nat
    BY <1>1 DEF WellFormed
  <2>2. Len(hold[r.order]) <= Len(hold'[r.order])
    BY <1>1 DEF Grows
  <2> QED
    BY <2>1, <2>2 DEF Fits
<1>3. r.kind \in {"CREATE", "PACK", "DISPATCH", "DELIVER"} => shipment'[r.shipment].order = r.order
  BY RequestOfKind DEF Fits, Grows
<1>4. r.kind \in {"PACK", "DISPATCH", "DELIVER"} =>
        Exists(r.shipment)' /\ shipment'[r.shipment].quantity = shipment[r.shipment].quantity
  BY RequestOfKind DEF Fits, Grows
<1>5. r.kind = "DISPATCH" => r.dispatched <= Shipped(r.order)'
  <2> HAVE r.kind = "DISPATCH"
  <2>1. r.dispatched \in Nat
    BY RequestOfKind
  <2>2. Shipped(r.order) \in Nat /\ Shipped(r.order)' \in Nat /\ Shipped(r.order) <= Shipped(r.order)'
    BY <1>1, CountShipped DEF Grows
  <2> QED
    BY <2>1, <2>2 DEF Fits
<1> QED
  BY <1>2, <1>3, <1>4, <1>5 DEF Fits

(* One request is replaced, all of them fit.                               *)
LEMMA RequestsAfter ==
    ASSUME WellFormed, Grows, hold' \in [Orders -> Seq(Hold)], NEW p \in Requests,
           NEW x \in AnyRequest \cup {NoRequest}, x # NoRequest => Fits(x)',
           request' = [request EXCEPT ![p] = x]
    PROVE  RequestsFit' /\ request' \in [Requests -> OrderRequest \cup ShipmentRequest \cup {NoRequest}]
<1>0. request \in [Requests -> AnyRequest \cup {NoRequest}]
  BY DEF WellFormed, TypeOK, AnyRequest
<1>1. request' \in [Requests -> AnyRequest \cup {NoRequest}]
  BY <1>0
<1>2. ASSUME NEW q \in Requests, NEW r \in AnyRequest, r = request'[q], r # NoRequest
      PROVE  Fits(r)'
  <2>1. CASE q = p
    <3>1. x = r
      BY <1>0, <1>2, <2>1
    <3> QED
      BY <1>2, <3>1
  <2>2. CASE q # p
    <3>1. request[q] = r
      BY <1>0, <1>2, <2>2
    <3>2. Fits(r)
      BY <1>2, <3>1 DEF WellFormed, RequestsFit, Busy
    <3> QED
      BY <3>2, FitsStays
  <2> QED
    BY <2>1, <2>2
<1>3. RequestsFit'
  BY <1>1, <1>2 DEF RequestsFit, Busy
<1> QED
  BY <1>1, <1>3 DEF AnyRequest

(* A step that moves a request on and changes no row.                      *)
LEMMA RequestMovesOn ==
    ASSUME WellFormed, NEW p \in Requests,
           NEW x \in AnyRequest \cup {NoRequest}, x # NoRequest => Fits(x),
           request' = [request EXCEPT ![p] = x],
           UNCHANGED <<row, order, hold, shipment, channel, left>>,
           raced' \in SUBSET Orders, crossed' \in BOOLEAN
    PROVE  WellFormed'
<1>1. /\ \A o \in Orders : Shipped(o)' = Shipped(o) /\ ActiveHolds(o)' = ActiveHolds(o)
      /\ \A s \in Shipments : Exists(s)' = Exists(s)
  BY DEF Shipped, Of, Exists, ActiveHolds
<1>2. Grows
  <2>1. \A o \in Orders : Len(hold[o]) \in Nat
    BY DEF WellFormed
  <2> QED
    BY <1>1, <2>1, CountShipped DEF Grows
<1>3. x # NoRequest => Fits(x)'
  BY <1>2, FitsStays DEF WellFormed
<1>4. RequestsFit' /\ request' \in [Requests -> OrderRequest \cup ShipmentRequest \cup {NoRequest}]
  BY <1>2, <1>3, RequestsAfter DEF WellFormed
<1>5. TypeOK'
  BY <1>4 DEF WellFormed, TypeOK
<1>6. HoldsWellFormed' /\ LinesBounded' /\ ShipmentsFit' /\ NeverClaimsMoreThanLeft'
  BY <1>1 DEF WellFormed, HoldsWellFormed, LinesBounded, ShipmentsFit, NeverClaimsMoreThanLeft, Exists
<1> QED
  BY <1>4, <1>5, <1>6 DEF WellFormed

(* The exposure is a number.                                               *)
LEMMA ExposureIsInt == ASSUME WellFormed, NEW x PROVE Exposure(x) \in Int
<1> DEFINE others == {o \in Orders \ {x} : order[o].status \in Open}
           f == [o \in others |-> order[o].ordered]
<1>1. IsFiniteSet(others) /\ DOMAIN f = others
  BY OrdersAssumption, FS_Subset
<1>2. \A o \in others : f[o] \in Int
  BY OrdersAssumption DEF WellFormed, TypeOK, Order
<1> HIDE DEF others, f
<1>3. SumFunctionOnSet(f, others) \in Int
  BY <1>1, <1>2, SumIsInt
<1>4. SumFunction(f) = SumFunctionOnSet(f, others)
  BY <1>1 DEF SumFunction, SumFunctionOnSet, FoldFunction
<1> QED
  BY <1>3, <1>4 DEF Exposure, others, f

(* A load changes no row.                                                  *)
LEMMA LoadKeepsWellFormed ==
    ASSUME WellFormed, NEW p \in Requests, NEW r \in AnyRequest, Fits(r), Load(p, r),
           UNCHANGED shipmentVars
    PROVE  WellFormed'
<1>1. /\ request' = [request EXCEPT ![p] = r]
      /\ UNCHANGED <<row, order, hold, shipment, channel, left>>
      /\ raced' = raced \/ raced' = raced \cup {r.order}
      /\ crossed' \in BOOLEAN
  BY DEF Load, shipmentVars, WellFormed, TypeOK
<1>2. raced' \in SUBSET Orders
  BY <1>1, RequestOfKind DEF WellFormed, TypeOK
<1> QED
  BY <1>1, <1>2, RequestMovesOn

(* What a request that has just been loaded has read.                      *)
JustRead(r) ==
    /\ Fits(r)
    /\ r.kind \in {"CANCEL", "DISPATCH"} => r.found = 0
    /\ r.kind = "APPROVE" /\ ~r.override => Exposure(r.order) + r.quantity <= CreditLimit
    /\ Agrees(r.order) => StillSo(r)

Reads(p) == \E r \in AnyRequest : Load(p, r) /\ JustRead(r)

(* Every load of the order service is such a reading ...                   *)
LEMMA OrderLoadReads ==
    ASSUME WellFormed, NEW p \in Requests, NEW o \in Orders, OrderLoad(p, o)
    PROVE  Reads(p)
<1>0. order[o] \in Order /\ order[o].reserved + order[o].backordered <= MaxOrdered
  BY DEF WellFormed, TypeOK, LinesBounded
<1>1. ASSUME NEW quantity \in 1..MaxOrdered, LoadUpdate(p, o, quantity) PROVE Reads(p)
  <2>1. PICK r : r = [kind |-> "UPDATE", order |-> o, quantity |-> quantity]
    OBVIOUS
  <2>2. r \in AnyRequest
    BY <2>1 DEF AnyRequest, OrderRequest
  <2>3. JustRead(r)
    BY <1>1, <2>1 DEF JustRead, Fits, StillSo, LoadUpdate
  <2> QED
    BY <1>1, <2>1, <2>2, <2>3 DEF LoadUpdate, Reads
<1>2. CASE LoadSubmit(p, o)
  <2>1. PICK r : r = [kind |-> "SUBMIT", order |-> o]
    OBVIOUS
  <2>2. r \in AnyRequest
    BY <2>1 DEF AnyRequest, OrderRequest
  <2>3. JustRead(r)
    BY <1>2, <2>1 DEF JustRead, Fits, StillSo, LoadSubmit
  <2> QED
    BY <1>2, <2>1, <2>2, <2>3 DEF LoadSubmit, Reads
<1>3. CASE LoadReject(p, o)
  <2>1. PICK r : r = [kind |-> "REJECT", order |-> o]
    OBVIOUS
  <2>2. r \in AnyRequest
    BY <2>1 DEF AnyRequest, OrderRequest
  <2>3. JustRead(r)
    BY <1>3, <2>1 DEF JustRead, Fits, StillSo, LoadReject
  <2> QED
    BY <1>3, <2>1, <2>2, <2>3 DEF LoadReject, Reads
<1>4. ASSUME NEW override \in BOOLEAN, LoadApprove(p, o, override) PROVE Reads(p)
  <2>0. PICK forgiven \in BOOLEAN : forgiven = (override /\ WouldExceed(o))
    BY DEF WouldExceed
  <2>1. PICK r : r = [kind |-> "APPROVE", order |-> o, line |-> order[o].line,
                      quantity |-> order[o].ordered, override |-> forgiven]
    OBVIOUS
  <2>2. r \in AnyRequest
    BY <2>1, <1>0 DEF AnyRequest, OrderRequest, Order
  <2>3. Fits(r) /\ StillSo(r)
    BY <1>4, <2>1 DEF Fits, StillSo, LoadApprove
  <2>4. ~forgiven => Exposure(o) + order[o].ordered <= CreditLimit
    <3>1. ~forgiven => ~WouldExceed(o)
      BY <1>4, <2>0 DEF LoadApprove
    <3>2. Exposure(o) \in Int
      BY ExposureIsInt
    <3>3. order[o].ordered \in Int /\ CreditLimit \in Int
      BY <1>0, OrdersAssumption DEF Order
    <3> QED
      BY <3>1, <3>2, <3>3 DEF WouldExceed
  <2>5. JustRead(r)
    BY <2>1, <2>3, <2>4 DEF JustRead
  <2> QED
    BY <1>4, <2>0, <2>1, <2>2, <2>5 DEF LoadApprove, Reads
<1>5. CASE LoadReserve(p, o)
  <2>1. PICK r : r = [kind |-> "RESERVE", order |-> o, line |-> order[o].line,
                      reserved |-> order[o].reserved, quantity |-> order[o].backordered]
    OBVIOUS
  <2>2. order[o].backordered \in 1..MaxOrdered
    BY <1>0, <1>5, OrdersAssumption, MaxQuantityAssumption DEF LoadReserve, Order
  <2>3. r \in AnyRequest
    BY <2>1, <2>2, <1>0 DEF AnyRequest, OrderRequest, Order
  <2>4. JustRead(r)
    BY <1>5, <2>1, <1>0 DEF JustRead, Fits, StillSo, LoadReserve
  <2> QED
    BY <1>5, <2>1, <2>3, <2>4 DEF LoadReserve, Reads
<1>6. CASE LoadCancel(p, o)
  <2>1. PICK r : r = [kind |-> "CANCEL", order |-> o, found |-> 0, quantity |-> 0,
                      releases |-> order[o].status \in StockCommitted,
                      searched |-> order[o].status \notin StockCommitted]
    OBVIOUS
  <2>2. r \in AnyRequest
    BY <2>1, OrdersAssumption, MaxQuantityAssumption DEF AnyRequest, OrderRequest
  <2>3. Len(hold[o]) \in Nat
    BY DEF WellFormed
  <2>4. Fits(r) /\ r.found = 0 /\ r.kind = "CANCEL" /\ r.order = o
    BY <2>1, <2>3 DEF Fits
  <2>5. Agrees(o) => StillSo(r)
    <3>1. order[o].status \in Cancellable
      BY <1>6 DEF LoadCancel
    <3>2. Agrees(o) /\ r.searched => ActiveHolds(o) = {}
      BY <2>1, <3>1 DEF Agrees, Cancellable, StockCommitted
    <3> QED
      BY <2>1, <2>4, <3>1, <3>2 DEF StillSo
  <2>6. JustRead(r)
    BY <2>4, <2>5 DEF JustRead
  <2> QED
    BY <1>6, <2>1, <2>2, <2>6 DEF LoadCancel, Reads
<1> QED
  BY <1>1, <1>2, <1>3, <1>4, <1>5, <1>6 DEF OrderLoad

(* ... and every load of the shipment service.                             *)
LEMMA ShipmentLoadReads ==
    ASSUME WellFormed, NEW p \in Requests, NEW s \in Shipments, ShipmentLoad(p, s)
    PROVE  Reads(p) /\ UNCHANGED shipmentVars
<1>0. PICK o \in Orders : o = shipment[s].order
  BY DEF WellFormed, TypeOK, Shipment
<1>9. order[o] \in Order /\ Len(hold[o]) \in Nat
  BY DEF WellFormed, TypeOK
<1>1. ASSUME NEW quantity \in 1..MaxOrdered, LoadCreate(p, s, quantity) PROVE Reads(p)
  <2>1. PICK r : r = [kind |-> "CREATE", order |-> o, shipment |-> s,
                      line |-> order[o].line, quantity |-> quantity]
    OBVIOUS
  <2>2. r \in AnyRequest
    BY <2>1, <1>9 DEF AnyRequest, ShipmentRequest, Order
  <2>3. JustRead(r)
    BY <1>0, <1>1, <2>1 DEF JustRead, Fits, StillSo, LoadCreate
  <2> QED
    BY <1>0, <1>1, <2>1, <2>2, <2>3 DEF LoadCreate, Reads
<1>2. CASE LoadPack(p, s)
  <2>1. PICK r : r = [kind |-> "PACK", order |-> o, shipment |-> s]
    OBVIOUS
  <2>2. r \in AnyRequest
    BY <2>1 DEF AnyRequest, ShipmentRequest
  <2>3. JustRead(r)
    BY <1>0, <1>2, <2>1 DEF JustRead, Fits, StillSo, LoadPack, Exists
  <2> QED
    BY <1>0, <1>2, <2>1, <2>2, <2>3 DEF LoadPack, Reads
<1>3. CASE LoadDispatch(p, s)
  <2>1. PICK r : r = [kind |-> "DISPATCH", order |-> o, shipment |-> s,
                      dispatched |-> order[o].dispatched, found |-> 0, seen |-> 0]
    OBVIOUS
  <2>2. r \in AnyRequest
    BY <2>1, <1>9, OrdersAssumption, MaxQuantityAssumption DEF AnyRequest, ShipmentRequest, Order
  <2>3. Fits(r)
    BY <1>0, <1>3, <1>9, <2>1 DEF Fits, LoadDispatch, Exists, WellFormed, NeverClaimsMoreThanLeft
  <2>4. JustRead(r)
    BY <1>0, <1>3, <2>1, <2>3 DEF JustRead, StillSo, LoadDispatch
  <2> QED
    BY <1>0, <1>3, <2>1, <2>2, <2>4 DEF LoadDispatch, Reads
<1>4. CASE LoadDeliver(p, s)
  <2>1. PICK r : r = [kind |-> "DELIVER", order |-> o, shipment |-> s,
                      landed |-> FALSE, searched |-> FALSE]
    OBVIOUS
  <2>2. r \in AnyRequest
    BY <2>1 DEF AnyRequest, ShipmentRequest
  <2>3. JustRead(r)
    BY <1>0, <1>4, <2>1 DEF JustRead, Fits, StillSo, LoadDeliver, Exists
  <2> QED
    BY <1>0, <1>4, <2>1, <2>2, <2>3 DEF LoadDeliver, Reads
<1>5. UNCHANGED shipmentVars
  BY DEF ShipmentLoad, LoadCreate, LoadPack, LoadDispatch, LoadDeliver
<1> QED
  BY <1>1, <1>2, <1>3, <1>4, <1>5 DEF ShipmentLoad

(* A reading keeps the rows well formed.                                   *)
LEMMA ReadingKeepsWellFormed ==
    ASSUME WellFormed, NEW p \in Requests, Reads(p), UNCHANGED shipmentVars
    PROVE  WellFormed'
  BY LoadKeepsWellFormed DEF Reads, JustRead

(* A busy request is of some kind and fits it.                             *)
LEMMA RequestsKnown ==
    ASSUME WellFormed, NEW p \in Requests, Busy(p)
    PROVE  request[p] \in AnyRequest /\ Fits(request[p])
  BY DEF WellFormed, TypeOK, RequestsFit, Busy, AnyRequest

(* A rollback leaves every row as it was.                                  *)
LEMMA FailKeepsWellFormed ==
    ASSUME WellFormed, NEW p \in Requests, Fail(p), UNCHANGED shipmentVars
    PROVE  WellFormed'
<1>1. /\ request' = [request EXCEPT ![p] = NoRequest]
      /\ UNCHANGED <<row, order, hold, raced, crossed, shipment, channel, left>>
  BY DEF Fail, RolledBack, Answered, shipmentVars
<1> QED
  BY <1>1, RequestMovesOn DEF WellFormed, TypeOK

(* A request reads on inside its transaction.                              *)
Finds(p) ==
    \E x \in AnyRequest :
        /\ Busy(p) /\ request' = [request EXCEPT ![p] = x]
        /\ x.order = request[p].order /\ x.kind # "APPROVE"
        /\ Fits(x)
        /\ Found(x) => HeldFor(x.order) <= Took(x)
        /\ StillSo(request[p]) => StillSo(x)
        /\ UNCHANGED <<row, order, hold, raced, crossed, shipment, channel, left>>

(* cancel() finds the reservation it will release ...                      *)
LEMMA FindHoldFinds ==
    ASSUME WellFormed, NEW p \in Requests, FindHold(p), UNCHANGED shipmentVars
    PROVE  Finds(p)
<1>1. PICK r : r = request[p]
  OBVIOUS
<1>2. r \in AnyRequest /\ r.kind = "CANCEL" /\ Fits(r) /\ Busy(p)
  BY <1>1, RequestsKnown DEF FindHold, Handling
<1>3. r.order \in Orders /\ hold[r.order] \in Seq(Hold) /\ Len(hold[r.order]) <= MaxHolds
  BY <1>2, RequestOfKind DEF WellFormed, TypeOK
<1>4. r \in [kind : {"CANCEL"}, order : Orders, found : 0..MaxHolds,
             quantity : 0..MaxOrdered, releases : BOOLEAN, searched : BOOLEAN]
  BY <1>2, RequestOfKind
<1>5. /\ UNCHANGED <<row, order, hold, raced, crossed, shipment, channel, left>>
      /\ ~r.searched
      /\ request' = [request EXCEPT ![p] =
               IF ActiveHolds(r.order) = {} THEN [r EXCEPT !.searched = TRUE]
               ELSE LET i == Max(ActiveHolds(r.order)) IN
                    [r EXCEPT !.searched = TRUE, !.found = i,
                              !.quantity = hold[r.order][i].quantity]]
  BY <1>1 DEF FindHold, shipmentVars
<1>6. CASE ActiveHolds(r.order) = {}
  <2>1. PICK x : x = [r EXCEPT !.searched = TRUE]
    OBVIOUS
  <2>2. /\ x \in [kind : {"CANCEL"}, order : Orders, found : 0..MaxHolds,
                  quantity : 0..MaxOrdered, releases : BOOLEAN, searched : BOOLEAN]
        /\ x.kind = "CANCEL" /\ x.order = r.order /\ x.found = r.found
        /\ x.quantity = r.quantity /\ x.releases = r.releases
    BY <1>4, <2>1
  <2>3. x \in AnyRequest /\ ~Found(x) /\ Fits(x)
    BY <1>2, <1>6, <2>2 DEF AnyRequest, OrderRequest, Found, Fits
  <2>4. StillSo(r) => StillSo(x)
    BY <1>2, <1>6, <2>2 DEF StillSo
  <2>5. request' = [request EXCEPT ![p] = x]
    BY <1>5, <1>6, <2>1
  <2> QED
    BY <1>1, <1>2, <1>5, <2>2, <2>3, <2>4, <2>5 DEF Finds
<1>7. CASE ActiveHolds(r.order) # {}
  <2>1. PICK i : i = Max(ActiveHolds(r.order))
    OBVIOUS
  <2>2. /\ i \in ActiveHolds(r.order) /\ i \in 1..Len(hold[r.order]) /\ i \in 0..Len(hold[r.order])
        /\ i \in 0..MaxHolds /\ i # 0 /\ hold[r.order][i] \in Hold
    <3>1. i \in ActiveHolds(r.order) /\ i \in 1..Len(hold[r.order])
          /\ Len(hold[r.order]) \in Nat /\ MaxHolds \in Nat
      BY <1>3, <1>7, <2>1, OnlyHoldIsMax, OrdersAssumption
    <3> QED
      BY <1>3, <3>1
  <2>3. PICK q : q = hold[r.order][i].quantity
    OBVIOUS
  <2>4. q \in 0..MaxOrdered /\ HeldFor(r.order) = q
    BY <1>3, <2>2, <2>3, CountHeld DEF Hold
  <2>5. PICK x : x = [r EXCEPT !.searched = TRUE, !.found = i, !.quantity = q]
    OBVIOUS
  <2>6. /\ x \in [kind : {"CANCEL"}, order : Orders, found : 0..MaxHolds,
                  quantity : 0..MaxOrdered, releases : BOOLEAN, searched : BOOLEAN]
        /\ x.kind = "CANCEL" /\ x.order = r.order /\ x.found = i /\ x.quantity = q
        /\ x.releases = r.releases
    BY <1>4, <2>2, <2>4, <2>5
  <2>7. x \in AnyRequest /\ Fits(x)
    BY <2>2, <2>6 DEF AnyRequest, OrderRequest, Fits
  <2>8. HeldFor(x.order) <= Took(x)
    BY <2>4, <2>6, OrdersAssumption DEF Took
  <2>9. StillSo(r) => StillSo(x)
    BY <1>2, <2>2, <2>6 DEF StillSo
  <2>10. request' = [request EXCEPT ![p] = x]
    BY <1>5, <1>7, <2>1, <2>3, <2>5
  <2> QED
    BY <1>1, <1>2, <1>5, <2>6, <2>7, <2>8, <2>9, <2>10 DEF Finds
<1> QED
  BY <1>6, <1>7

(* ... dispatch() the one it will draw ...                                 *)
LEMMA FindForDispatchFinds ==
    ASSUME WellFormed, NEW p \in Requests, FindForDispatch(p)
    PROVE  Finds(p)
<1>1. PICK r : r = request[p]
  OBVIOUS
<1>2. r \in AnyRequest /\ Fits(r) /\ r.kind = "DISPATCH" /\ Busy(p)
  BY <1>1, RequestsKnown DEF FindForDispatch, Handling
<1>3. r.order \in Orders /\ hold[r.order] \in Seq(Hold) /\ Len(hold[r.order]) <= MaxHolds
  BY <1>2, RequestOfKind DEF WellFormed, TypeOK
<1>4. r \in [kind : {"DISPATCH"}, order : Orders, shipment : Shipments,
             dispatched : Nat, found : 0..MaxHolds, seen : 0..MaxOrdered]
  BY <1>2, RequestOfKind
<1>5. PICK i : i = Max(ActiveHolds(r.order))
  OBVIOUS
<1>6. PICK q : q = hold[r.order][i].quantity
  OBVIOUS
<1>7. /\ UNCHANGED <<row, order, hold, raced, crossed, shipment, channel, left>>
      /\ ActiveHolds(r.order) # {}
      /\ shipment[r.shipment].quantity <= q
      /\ request' = [request EXCEPT ![p].found = i, ![p].seen = q]
  BY <1>1, <1>5, <1>6 DEF FindForDispatch
<1>8. /\ i \in ActiveHolds(r.order) /\ i \in 1..Len(hold[r.order]) /\ i \in 0..Len(hold[r.order])
      /\ i \in 0..MaxHolds /\ i # 0 /\ hold[r.order][i] \in Hold
  <2>1. i \in ActiveHolds(r.order) /\ i \in 1..Len(hold[r.order])
        /\ Len(hold[r.order]) \in Nat /\ MaxHolds \in Nat
    BY <1>3, <1>5, <1>7, OnlyHoldIsMax, OrdersAssumption
  <2> QED
    BY <1>3, <2>1
<1>9. q \in 0..MaxOrdered /\ HeldFor(r.order) = q
  BY <1>3, <1>6, <1>8, CountHeld DEF Hold
<1>10. PICK x : x = [[r EXCEPT !.found = i] EXCEPT !.seen = q]
  OBVIOUS
<1>11. /\ x \in [kind : {"DISPATCH"}, order : Orders, shipment : Shipments,
                 dispatched : Nat, found : 0..MaxHolds, seen : 0..MaxOrdered]
       /\ x.kind = "DISPATCH" /\ x.order = r.order /\ x.found = i /\ x.seen = q
       /\ x.shipment = r.shipment /\ x.dispatched = r.dispatched
  BY <1>4, <1>8, <1>9, <1>10
<1>12. x \in AnyRequest
  BY <1>11 DEF AnyRequest, ShipmentRequest
<1>13. Fits(x)
  BY <1>2, <1>7, <1>8, <1>11 DEF Fits
<1>14. HeldFor(x.order) <= Took(x)
  BY <1>9, <1>11, OrdersAssumption DEF Took
<1>15. StillSo(r) => StillSo(x)
  BY <1>2, <1>6, <1>8, <1>11 DEF StillSo
<1>16. request' = [request EXCEPT ![p] = x]
  BY <1>1, <1>7, <1>10 DEF WellFormed, TypeOK
<1> QED
  BY <1>1, <1>2, <1>7, <1>11, <1>12, <1>13, <1>14, <1>15, <1>16 DEF Finds

(* ... and deliver() whether its siblings have landed.                     *)
LEMMA CountSiblingsFinds ==
    ASSUME WellFormed, NEW p \in Requests, CountSiblings(p)
    PROVE  Finds(p)
<1>1. PICK r : r = request[p]
  OBVIOUS
<1>2. r \in AnyRequest /\ Fits(r) /\ r.kind = "DELIVER" /\ Busy(p)
  BY <1>1, RequestsKnown DEF CountSiblings, Handling
<1>3. r \in [kind : {"DELIVER"}, order : Orders, shipment : Shipments,
             landed : BOOLEAN, searched : BOOLEAN]
  BY <1>2, RequestOfKind
<1>4. PICK b \in BOOLEAN : b = \A s \in Of(r.order) \ {r.shipment} : shipment[s].status = "DELIVERED"
  OBVIOUS
<1>5. /\ UNCHANGED <<row, order, hold, raced, crossed, shipment, channel, left>>
      /\ request' = [request EXCEPT ![p].searched = TRUE, ![p].landed = b]
  BY <1>1, <1>4 DEF CountSiblings
<1>6. PICK x : x = [[r EXCEPT !.searched = TRUE] EXCEPT !.landed = b]
  OBVIOUS
<1>7. /\ x \in [kind : {"DELIVER"}, order : Orders, shipment : Shipments,
                landed : BOOLEAN, searched : BOOLEAN]
      /\ x.kind = "DELIVER" /\ x.shipment = r.shipment /\ x.order = r.order /\ x.landed = b
  BY <1>3, <1>6
<1>8. x \in AnyRequest /\ Fits(x) /\ ~Found(x)
  BY <1>2, <1>7 DEF AnyRequest, ShipmentRequest, Fits, Found
<1>9. StillSo(r) => StillSo(x)
  BY <1>2, <1>4, <1>7 DEF StillSo, AllLanded
<1>10. request' = [request EXCEPT ![p] = x]
  BY <1>1, <1>5, <1>6 DEF WellFormed, TypeOK
<1> QED
  BY <1>1, <1>2, <1>5, <1>7, <1>8, <1>9, <1>10 DEF Finds

(* What is found inside a transaction changes no row.                      *)
LEMMA FindingKeepsWellFormed ==
    ASSUME WellFormed, NEW p \in Requests, Finds(p)
    PROVE  WellFormed'
<1>1. PICK x \in AnyRequest :
          /\ request' = [request EXCEPT ![p] = x] /\ Fits(x)
          /\ UNCHANGED <<row, order, hold, raced, crossed, shipment, channel, left>>
  BY DEF Finds
<1> QED
  BY <1>1, RequestMovesOn DEF WellFormed, TypeOK

(* A goods receipt only raises what is on hand.                            *)
LEMMA ReceiveKeepsWellFormed ==
    ASSUME WellFormed, NEW quantity \in 1..MaxQuantity, Receive(quantity), UNCHANGED shipmentVars
    PROVE  WellFormed'
<1>1. /\ UNCHANGED <<order, hold, request, raced, crossed, shipment, channel, left>>
      /\ MayMove(row, "RECEIPT", quantity)
      /\ row' = [row EXCEPT !.onHand = @ + quantity]
  BY DEF Receive, shipmentVars
<1>2. row' \in Row
  <2>1. row \in Row /\ SignedQuantity("RECEIPT", quantity) = quantity
    BY MaxQuantityAssumption DEF WellFormed, TypeOK, SignedQuantity, SignForMovement, InboundMovements
  <2> QED
    BY <1>1, <2>1, MaxQuantityAssumption DEF Row, MayMove
<1>3. TypeOK'
  BY <1>1, <1>2 DEF WellFormed, TypeOK
<1>6. /\ \A o \in Orders : Shipped(o)' = Shipped(o) /\ ActiveHolds(o)' = ActiveHolds(o)
      /\ \A s \in Shipments : Exists(s)' = Exists(s)
  BY <1>1 DEF Shipped, Of, Exists, ActiveHolds
<1>4. ShipmentsFit' /\ HoldsWellFormed' /\ LinesBounded' /\ NeverClaimsMoreThanLeft'
  BY <1>1, <1>6 DEF WellFormed, ShipmentsFit, HoldsWellFormed, LinesBounded,
              NeverClaimsMoreThanLeft
<1>5. RequestsFit'
  BY <1>1 DEF WellFormed, RequestsFit, Busy, Fits, Exists, Shipped, Of
<1> QED
  BY <1>1, <1>3, <1>4, <1>5 DEF WellFormed

(* The reservations after a step, whichever it changed.                    *)
HoldsStand ==
    /\ hold' \in [Orders -> Seq(Hold)]
    /\ \A o \in Orders : Len(hold[o]) <= Len(hold'[o]) /\ Len(hold'[o]) <= MaxHolds
    /\ HoldsWellFormed'

(* Reservations that are not written stand.                                *)
LEMMA HoldsUnchangedStand == ASSUME WellFormed, hold' = hold PROVE HoldsStand
<1>1. \A o \in Orders : Len(hold[o]) \in Nat
  BY DEF WellFormed
<1> QED
  BY <1>1 DEF WellFormed, TypeOK, HoldsStand, HoldsWellFormed, ActiveHolds

(* Inserting a reservation, as approve() and reserveOutstanding() do.      *)
LEMMA HoldAdded ==
    ASSUME WellFormed, NEW o \in Orders, NEW q \in 0..MaxOrdered, MayHold(o, q), hold' = Held(o, q)
    PROVE  /\ HoldsStand
           /\ q = 0 => hold' = hold
           /\ q > 0 => /\ ActiveHolds(o) = {}
                       /\ ActiveHolds(o)' = {Len(hold[o]) + 1}
                       /\ hold'[o][Len(hold[o]) + 1].quantity = q
           /\ \A k \in Orders \ {o} : hold'[k] = hold[k]
<1>1. CASE q = 0
  BY <1>1, HoldsUnchangedStand DEF Held
<1>2. CASE q > 0
  <2>1. PICK h : h = [status |-> "ACTIVE", quantity |-> q]
    OBVIOUS
  <2>2. h \in Hold /\ hold[o] \in Seq(Hold)
    BY <2>1 DEF Hold, WellFormed
  <2>3. hold' = [hold EXCEPT ![o] = Append(hold[o], h)] /\ ActiveHolds(o) = {} /\ Len(hold[o]) < MaxHolds
    BY <1>2, <2>1 DEF Held, MayHold
  <2>4. PICK n \in Nat : n = Len(hold[o])
    BY <2>2
  <2>5. /\ hold'[o] = Append(hold[o], h) /\ hold'[o] \in Seq(Hold) /\ Len(hold'[o]) = n + 1
        /\ \A k \in Orders \ {o} : hold'[k] = hold[k]
        /\ hold' \in [Orders -> Seq(Hold)]
    BY <2>2, <2>3, <2>4 DEF WellFormed
  <2>6. hold'[o][n + 1] = h /\ \A i \in 1..n : hold'[o][i] = hold[o][i]
    BY <2>2, <2>4, <2>5
  <2>7. ActiveHolds(o)' = {n + 1}
    <3>1. DOMAIN hold'[o] = 1..(n + 1) /\ DOMAIN hold[o] = 1..n
      BY <2>2, <2>4, <2>5
    <3>2. \A i \in 1..n : hold[o][i].status # "ACTIVE"
      BY <2>3, <3>1 DEF ActiveHolds
    <3>3. \A i \in 1..(n + 1) : hold'[o][i].status = "ACTIVE" <=> i = n + 1
      BY <2>1, <2>6, <3>2
    <3> QED
      BY <3>1, <3>3 DEF ActiveHolds
  <2>8. \A k \in Orders \ {o} : ActiveHolds(k)' = ActiveHolds(k)
    BY <2>5 DEF ActiveHolds
  <2>9. HoldsWellFormed'
    <3> SUFFICES ASSUME NEW k \in Orders
                 PROVE  /\ \A i, j \in ActiveHolds(k)' : i = j
                        /\ \A i \in ActiveHolds(k)' : hold'[k][i].quantity > 0
      BY DEF HoldsWellFormed
    <3>1. CASE k = o
      BY <3>1, <2>1, <2>6, <2>7, <1>2
    <3>2. CASE k # o
      BY <3>2, <2>5, <2>8 DEF WellFormed, HoldsWellFormed
    <3> QED
      BY <3>1, <3>2
  <2>10. HoldsStand
    <3> SUFFICES ASSUME NEW k \in Orders
                 PROVE  Len(hold[k]) <= Len(hold'[k]) /\ Len(hold'[k]) <= MaxHolds
      BY <2>5, <2>9 DEF HoldsStand
    <3>1. CASE k = o
      BY <3>1, <2>3, <2>4, <2>5, OrdersAssumption
    <3>2. CASE k # o
      <4>1. Len(hold[k]) \in Nat
        BY DEF WellFormed
      <4> QED
        BY <3>2, <4>1, <2>5 DEF WellFormed, TypeOK
    <3> QED
      BY <3>1, <3>2
  <2> QED
    BY <1>2, <2>1, <2>3, <2>4, <2>5, <2>6, <2>7, <2>10
<1> QED
  BY <1>1, <1>2

HoldIsSet(o, i, h) == hold' = [hold EXCEPT ![o] = [hold[o] EXCEPT ![i] = h]]

(* Overwriting one reservation, as cancel() and dispatch() do.             *)
LEMMA HoldWritten ==
    ASSUME WellFormed, NEW o \in Orders, NEW i \in DOMAIN hold[o], NEW h \in Hold,
           h.status = "ACTIVE" => i \in ActiveHolds(o) /\ h.quantity > 0,
           HoldIsSet(o, i, h)
    PROVE  /\ HoldsStand
           /\ hold'[o][i] = h
           /\ h.status = "ACTIVE" => ActiveHolds(o)' = ActiveHolds(o)
           /\ h.status # "ACTIVE" => ActiveHolds(o)' = ActiveHolds(o) \ {i}
           /\ \A j \in ActiveHolds(o) \ {i} : hold'[o][j] = hold[o][j]
           /\ \A k \in Orders \ {o} : hold'[k] = hold[k]
<1>1. hold[o] \in Seq(Hold) /\ DOMAIN hold[o] = 1..Len(hold[o]) /\ Len(hold[o]) \in Nat
  BY DEF WellFormed
<1>2. PICK g : g = [hold[o] EXCEPT ![i] = h]
  OBVIOUS
<1>3. /\ g \in Seq(Hold) /\ Len(g) = Len(hold[o]) /\ DOMAIN g = DOMAIN hold[o]
      /\ g[i] = h /\ \A j \in DOMAIN hold[o] : j # i => g[j] = hold[o][j]
  BY <1>1, <1>2
<1>4. hold'[o] = g /\ hold' \in [Orders -> Seq(Hold)] /\ \A k \in Orders \ {o} : hold'[k] = hold[k]
  BY <1>2, <1>3 DEF WellFormed, HoldIsSet
<1>5. /\ h.status = "ACTIVE" => ActiveHolds(o)' = ActiveHolds(o)
      /\ h.status # "ACTIVE" => ActiveHolds(o)' = ActiveHolds(o) \ {i}
  <2>1. ActiveHolds(o)' = {j \in DOMAIN hold[o] : g[j].status = "ACTIVE"}
    BY <1>3, <1>4 DEF ActiveHolds
  <2> QED
    BY <1>3, <2>1 DEF ActiveHolds
<1>6. \A k \in Orders \ {o} : ActiveHolds(k)' = ActiveHolds(k)
  BY <1>4 DEF ActiveHolds
<1>7. HoldsWellFormed'
  <2> SUFFICES ASSUME NEW k \in Orders
               PROVE  /\ \A a, b \in ActiveHolds(k)' : a = b
                      /\ \A a \in ActiveHolds(k)' : hold'[k][a].quantity > 0
    BY DEF HoldsWellFormed
  <2>1. CASE k = o
    <3>1. ActiveHolds(o)' \subseteq ActiveHolds(o) /\ ActiveHolds(o) \subseteq DOMAIN hold[o]
      BY <1>5 DEF ActiveHolds
    <3>2. /\ \A a, b \in ActiveHolds(o) : a = b
          /\ \A a \in ActiveHolds(o) : hold[o][a].quantity > 0
      BY DEF WellFormed, HoldsWellFormed
    <3>3. ASSUME NEW a \in ActiveHolds(o)' PROVE g[a].quantity > 0
      <4>1. CASE a = i
        <5>1. h.status = "ACTIVE"
          BY <1>5, <4>1, <3>3
        <5> QED
          BY <5>1, <4>1, <1>3
      <4>2. CASE a # i
        BY <4>2, <3>1, <3>2, <1>3
      <4> QED
        BY <4>1, <4>2
    <3> QED
      BY <2>1, <3>1, <3>2, <3>3, <1>4
  <2>2. CASE k # o
    BY <2>2, <1>4, <1>6 DEF WellFormed, HoldsWellFormed
  <2> QED
    BY <2>1, <2>2
<1>8. HoldsStand
  <2> SUFFICES ASSUME NEW k \in Orders
               PROVE  Len(hold[k]) <= Len(hold'[k]) /\ Len(hold'[k]) <= MaxHolds
    BY <1>4, <1>7 DEF HoldsStand
  <2>1. hold[k] \in Seq(Hold) /\ Len(hold[k]) <= MaxHolds
    BY DEF WellFormed, TypeOK
  <2>2. Len(hold[k]) \in Nat /\ Len(hold'[k]) = Len(hold[k])
    BY <1>3, <1>4, <2>1
  <2> QED
    BY <2>1, <2>2
<1> QED
  BY <1>3, <1>4, <1>5, <1>8 DEF ActiveHolds
(* A step that writes one order row, and the reservations, and answers.    *)
LEMMA OrderWritten ==
    ASSUME WellFormed, NEW p \in Requests, NEW o \in Orders, NEW y \in Order,
           y.reserved + y.backordered <= MaxOrdered, y.dispatched <= Shipped(o),
           order' = [order EXCEPT ![o] = y], row' \in Row, HoldsStand,
           Answered(p), UNCHANGED shipmentVars
    PROVE  WellFormed'
<1>1. UNCHANGED <<shipment, channel, left, raced, crossed>> /\ request' = [request EXCEPT ![p] = NoRequest]
  BY DEF Answered, shipmentVars
<1>2. /\ \A k \in Orders : Shipped(k)' = Shipped(k)
      /\ \A s \in Shipments : Exists(s)' = Exists(s)
  BY <1>1 DEF Shipped, Of, Exists
<1>3. Grows
  BY <1>1, <1>2, CountShipped DEF Grows, HoldsStand
<1>4. RequestsFit' /\ request' \in [Requests -> OrderRequest \cup ShipmentRequest \cup {NoRequest}]
  BY <1>1, <1>3, RequestsAfter DEF HoldsStand
<1>5. /\ order' \in [Orders -> Order] /\ order'[o] = y
      /\ \A k \in Orders \ {o} : order'[k] = order[k]
  BY DEF WellFormed, TypeOK
<1>6. TypeOK'
  BY <1>1, <1>4, <1>5 DEF WellFormed, TypeOK, HoldsStand
<1>7. LinesBounded' /\ NeverClaimsMoreThanLeft'
  BY <1>2, <1>5 DEF WellFormed, LinesBounded, NeverClaimsMoreThanLeft
<1>8. ShipmentsFit'
  BY <1>1, <1>2 DEF WellFormed, ShipmentsFit
<1> QED
  BY <1>4, <1>6, <1>7, <1>8 DEF WellFormed, HoldsStand

(* update() keeps the rows well formed.                                    *)
LEMMA UpdateKeepsWellFormed ==
    ASSUME WellFormed, NEW p \in Requests, CommitUpdate(p, Referenced), UNCHANGED shipmentVars
    PROVE  WellFormed'
<1>1. PICK r : r = request[p]
  OBVIOUS
<1>2. r \in AnyRequest /\ r.kind = "UPDATE"
  BY <1>1, RequestsKnown DEF CommitUpdate, Handling
<1>3. PICK o \in Orders : o = r.order
  BY <1>2, RequestOfKind
<1>4. PICK y : y = [order[o] EXCEPT !.ordered = r.quantity, !.line = @ + 1,
                                    !.reserved = 0, !.backordered = 0, !.dispatched = 0]
  OBVIOUS
<1>5. /\ order' = [order EXCEPT ![o] = y] /\ UNCHANGED <<row, hold>> /\ Answered(p)
      /\ order[o].line < MaxEdits
  <2>1. order' = [order EXCEPT ![o] = [order[o] EXCEPT !.ordered = r.quantity, !.line = @ + 1,
                      !.reserved = 0, !.backordered = 0, !.dispatched = 0]]
    BY <1>1, <1>3 DEF CommitUpdate
  <2> QED
    BY <1>1, <1>3, <1>4, <2>1 DEF CommitUpdate
<1>6. order[o] \in Order /\ r.quantity \in 1..MaxOrdered
  BY <1>2, RequestOfKind DEF WellFormed, TypeOK
<1>7. order[o].line + 1 \in 0..MaxEdits /\ 0 \in 0..MaxOrdered
  BY <1>5, <1>6, OrdersAssumption, MaxQuantityAssumption DEF Order
<1>8. y \in Order /\ y.reserved = 0 /\ y.backordered = 0 /\ y.dispatched = 0
  BY <1>4, <1>6, <1>7 DEF Order
<1>9. Shipped(o) \in Nat /\ row \in Row /\ HoldsStand
  BY <1>5, CountShipped, HoldsUnchangedStand DEF WellFormed, TypeOK
<1>10. y.reserved + y.backordered <= MaxOrdered /\ y.dispatched <= Shipped(o)
  BY <1>8, <1>9, OrdersAssumption, MaxQuantityAssumption
<1> QED
  BY <1>5, <1>8, <1>9, <1>10, OrderWritten

(* So do submit() and reject().                                            *)
LEMMA StatusKeepsWellFormed ==
    ASSUME WellFormed, NEW p \in Requests, NEW kind, NEW status \in OrderStatuses,
           CommitStatus(p, kind, status), UNCHANGED shipmentVars
    PROVE  WellFormed'
<1>1. PICK r : r = request[p]
  OBVIOUS
<1>2. r \in AnyRequest
  BY <1>1, RequestsKnown DEF CommitStatus, Handling
<1>3. PICK o \in Orders : o = r.order
  BY <1>2, RequestOfKind
<1>4. order[o] \in Order /\ order[o].reserved + order[o].backordered <= MaxOrdered
      /\ order[o].dispatched <= Shipped(o)
  BY DEF WellFormed, TypeOK, LinesBounded, NeverClaimsMoreThanLeft
<1>5. PICK y : y = [order[o] EXCEPT !.status = status]
  OBVIOUS
<1>6. /\ y \in Order /\ y.reserved = order[o].reserved /\ y.backordered = order[o].backordered
      /\ y.dispatched = order[o].dispatched
  BY <1>4, <1>5 DEF Order
<1>7. order' = [order EXCEPT ![o] = y] /\ UNCHANGED <<row, hold>> /\ Answered(p)
  BY <1>1, <1>3, <1>5 DEF CommitStatus
<1>8. row' \in Row /\ HoldsStand
  BY <1>7, HoldsUnchangedStand DEF WellFormed, TypeOK
<1> QED
  BY <1>4, <1>6, <1>7, <1>8, OrderWritten

(* reserveUpTo reserves no more than asked, and than is on hand.           *)
LEMMA ReservableBounds ==
    ASSUME WellFormed, NEW q \in 1..MaxOrdered
    PROVE  /\ Reservable(row, q) \in 0..q
           /\ [row EXCEPT !.reserved = @ + Reservable(row, q)] \in Row
<1>1. row \in Row
  BY DEF WellFormed, TypeOK
<1> QED
  BY <1>1, OrdersAssumption, MaxQuantityAssumption DEF Row, Reservable, Available

(* approve() keeps the rows well formed.                                   *)
LEMMA ApproveKeepsWellFormed ==
    ASSUME WellFormed, NEW p \in Requests, CommitApprove(p), UNCHANGED shipmentVars
    PROVE  WellFormed'
<1>1. PICK r : r = request[p]
  OBVIOUS
<1>2. r \in AnyRequest /\ r.kind = "APPROVE"
  BY <1>1, RequestsKnown DEF CommitApprove, Handling
<1>3. PICK o \in Orders : o = r.order
  BY <1>2, RequestOfKind
<1>4. r.quantity \in 1..MaxOrdered /\ r.override \in BOOLEAN
  BY <1>2, RequestOfKind
<1>5. PICK got : got = Reservable(row, r.quantity)
  OBVIOUS
<1>6. got \in 0..MaxOrdered /\ r.quantity - got \in 0..MaxOrdered /\ row' \in Row
  <2>1. got \in 0..r.quantity /\ [row EXCEPT !.reserved = @ + got] \in Row
    BY <1>4, <1>5, ReservableBounds
  <2>2. row' = [row EXCEPT !.reserved = @ + got]
    BY <1>1, <1>5 DEF CommitApprove
  <2>3. MaxOrdered \in Nat
    BY OrdersAssumption, MaxQuantityAssumption
  <2> QED
    BY <1>4, <2>1, <2>2, <2>3
<1>7. PICK y : y = [order[o] EXCEPT !.status = "APPROVED", !.reserved = got,
                        !.backordered = r.quantity - got,
                        !.granted = r.quantity, !.overridden = r.override]
  OBVIOUS
<1>8. /\ order' = [order EXCEPT ![o] = y] /\ Answered(p)
      /\ MayHold(o, got) /\ hold' = Held(o, got)
  BY <1>1, <1>3, <1>5, <1>7 DEF CommitApprove, MayApprove
<1>9. order[o] \in Order /\ order[o].dispatched <= Shipped(o)
  BY DEF WellFormed, TypeOK, NeverClaimsMoreThanLeft
<1>10. /\ y \in Order /\ y.reserved = got /\ y.backordered = r.quantity - got
       /\ y.dispatched = order[o].dispatched
  <2>1. r.quantity \in 0..MaxOrdered /\ "APPROVED" \in OrderStatuses
    BY <1>4 DEF OrderStatuses
  <2> QED
    BY <1>4, <1>6, <1>7, <1>9, <2>1 DEF Order
<1>11. y.reserved + y.backordered <= MaxOrdered
  BY <1>4, <1>6, <1>10, OrdersAssumption
<1>12. HoldsStand
  BY <1>6, <1>8, HoldAdded
<1> QED
  BY <1>6, <1>8, <1>9, <1>10, <1>11, <1>12, OrderWritten

(* So does reserveOutstanding().                                           *)
LEMMA ReserveKeepsWellFormed ==
    ASSUME WellFormed, NEW p \in Requests, CommitReserve(p), UNCHANGED shipmentVars
    PROVE  WellFormed'
<1>1. PICK r : r = request[p]
  OBVIOUS
<1>2. r \in AnyRequest /\ r.kind = "RESERVE" /\ Fits(r)
  BY <1>1, RequestsKnown DEF CommitReserve, Handling
<1>3. PICK o \in Orders : o = r.order
  BY <1>2, RequestOfKind
<1>4. r.quantity \in 1..MaxOrdered /\ r.reserved \in 0..MaxOrdered /\ r.reserved + r.quantity <= MaxOrdered
  BY <1>2, RequestOfKind DEF Fits
<1>5. PICK got : got = Reservable(row, r.quantity)
  OBVIOUS
<1>6. /\ got \in 0..MaxOrdered /\ r.reserved + got \in 0..MaxOrdered
      /\ r.quantity - got \in 0..MaxOrdered /\ row' \in Row
  <2>1. got \in 0..r.quantity /\ [row EXCEPT !.reserved = @ + got] \in Row
    BY <1>4, <1>5, ReservableBounds
  <2>2. row' = [row EXCEPT !.reserved = @ + got]
    BY <1>1, <1>5 DEF CommitReserve
  <2>3. MaxOrdered \in Nat
    BY OrdersAssumption, MaxQuantityAssumption
  <2> QED
    BY <1>4, <2>1, <2>2, <2>3
<1>7. PICK y : y = IF got = 0 THEN order[o]
                   ELSE [[order[o] EXCEPT !.reserved = r.reserved + got]
                             EXCEPT !.backordered = r.quantity - got]
  OBVIOUS
<1>8. Answered(p) /\ MayHold(o, got) /\ hold' = Held(o, got)
  BY <1>1, <1>3, <1>5 DEF CommitReserve, MayReserve
<1>9. order[o] \in Order /\ order[o].dispatched <= Shipped(o)
      /\ order[o].reserved + order[o].backordered <= MaxOrdered
  BY DEF WellFormed, TypeOK, NeverClaimsMoreThanLeft, LinesBounded
<1>10. order' = [order EXCEPT ![o] = y]
  <2>1. order' = IF got = 0 THEN order
                 ELSE [order EXCEPT ![o].reserved = r.reserved + got,
                                    ![o].backordered = r.quantity - got]
    BY <1>1, <1>3, <1>5 DEF CommitReserve
  <2> QED
    BY <1>7, <2>1 DEF WellFormed, TypeOK
<1>11. /\ y \in Order /\ y.dispatched = order[o].dispatched
       /\ y.reserved + y.backordered <= MaxOrdered
  <2>1. CASE got = 0
    BY <1>7, <1>9, <2>1
  <2>2. CASE got # 0
    <3>1. /\ y \in Order /\ y.dispatched = order[o].dispatched
          /\ y.reserved = r.reserved + got /\ y.backordered = r.quantity - got
      BY <1>6, <1>7, <1>9, <2>2 DEF Order
    <3> QED
      BY <1>4, <1>6, <3>1, OrdersAssumption
  <2> QED
    BY <2>1, <2>2
<1>12. HoldsStand
  BY <1>6, <1>8, HoldAdded
<1> QED
  BY <1>6, <1>8, <1>9, <1>10, <1>11, <1>12, OrderWritten

(* What a cancellation that found a reservation writes there.              *)
LEMMA HoldIsReleased ==
    ASSUME WellFormed, NEW r \in AnyRequest, r.kind = "CANCEL", Fits(r), r.found # 0,
           hold' = HoldReleased(r)
    PROVE  /\ r.order \in Orders /\ r.found \in 1..Len(hold[r.order])
           /\ HoldsStand
           /\ ActiveHolds(r.order)' = ActiveHolds(r.order) \ {r.found}
           /\ \A j \in ActiveHolds(r.order) \ {r.found} : hold'[r.order][j] = hold[r.order][j]
           /\ \A k \in Orders \ {r.order} : hold'[k] = hold[k]
<1>1. PICK o \in Orders : o = r.order
  BY RequestOfKind
<1>2. PICK i : i = r.found
  OBVIOUS
<1>3. hold[o] \in Seq(Hold) /\ i \in 1..Len(hold[o]) /\ i \in DOMAIN hold[o]
  BY <1>1, <1>2 DEF WellFormed, Fits
<1>4. PICK h : h = [hold[o][i] EXCEPT !.status = "RELEASED"]
  OBVIOUS
<1>5. hold[o][i] \in Hold
  BY <1>3
<1>6. h \in Hold /\ h.status = "RELEASED"
  BY <1>4, <1>5 DEF Hold
<1>7. HoldIsSet(o, i, h)
  BY <1>1, <1>2, <1>3, <1>4 DEF HoldReleased, HoldIsSet
<1>8. HoldsStand /\ ActiveHolds(o)' = ActiveHolds(o) \ {i}
      /\ (\A j \in ActiveHolds(o) \ {i} : hold'[o][j] = hold[o][j])
      /\ (\A k \in Orders \ {o} : hold'[k] = hold[k])
  <2>1. h.status # "ACTIVE" /\ (h.status = "ACTIVE" => i \in ActiveHolds(o) /\ h.quantity > 0)
    BY <1>6
  <2> QED
    BY <1>3, <1>6, <1>7, <2>1, HoldWritten
<1> QED
  BY <1>1, <1>2, <1>3, <1>8

(* So does cancel().                                                       *)
LEMMA CancelKeepsWellFormed ==
    ASSUME WellFormed, NEW p \in Requests, CommitCancel(p), UNCHANGED shipmentVars
    PROVE  WellFormed'
<1>1. PICK r : r = request[p]
  OBVIOUS
<1>2. r \in AnyRequest /\ r.kind = "CANCEL" /\ Fits(r)
  BY <1>1, RequestsKnown DEF CommitCancel, Handling
<1>3. PICK o \in Orders : o = r.order
  BY <1>2, RequestOfKind
<1>4. r.quantity \in 0..MaxOrdered /\ r.releases \in BOOLEAN
  BY <1>2, RequestOfKind
<1>5. row' \in Row
  <2>1. row \in Row /\ MayAdjustReserved(row, -r.quantity) /\ row' = [row EXCEPT !.reserved = @ - r.quantity]
    BY <1>1 DEF CommitCancel, MayCancel, StockGivenBack, WellFormed, TypeOK
  <2> QED
    BY <1>4, <2>1, OrdersAssumption, MaxQuantityAssumption DEF Row, MayAdjustReserved
<1>6. HoldsStand
  <2>1. hold' = HoldReleased(r)
    BY <1>1 DEF CommitCancel
  <2>2. CASE r.found = 0
    BY <2>1, <2>2, HoldsUnchangedStand DEF HoldReleased
  <2>3. CASE r.found # 0
    BY <1>2, <2>1, <2>3, HoldIsReleased
  <2> QED
    BY <2>2, <2>3
<1>7. PICK y : y = IF r.releases
                   THEN [[[order[o] EXCEPT !.status = "CANCELLED"] EXCEPT !.reserved = 0]
                             EXCEPT !.backordered = 0]
                   ELSE [order[o] EXCEPT !.status = "CANCELLED"]
  OBVIOUS
<1>8. order' = [order EXCEPT ![o] = y]
  <2>1. order' = IF r.releases
                 THEN [order EXCEPT ![o].status = "CANCELLED",
                                    ![o].reserved = 0, ![o].backordered = 0]
                 ELSE [order EXCEPT ![o].status = "CANCELLED"]
    BY <1>1, <1>3 DEF CommitCancel
  <2> QED
    BY <1>7, <2>1 DEF WellFormed, TypeOK
<1>9. order[o] \in Order /\ order[o].dispatched <= Shipped(o)
      /\ order[o].reserved + order[o].backordered <= MaxOrdered
  BY DEF WellFormed, TypeOK, NeverClaimsMoreThanLeft, LinesBounded
<1>10. /\ y \in Order /\ y.dispatched = order[o].dispatched
       /\ y.reserved + y.backordered <= MaxOrdered
  <2>1. "CANCELLED" \in OrderStatuses /\ 0 \in 0..MaxOrdered /\ 0 + 0 <= MaxOrdered
    BY OrdersAssumption, MaxQuantityAssumption DEF OrderStatuses
  <2>2. CASE r.releases
    <3>1. /\ y \in Order /\ y.dispatched = order[o].dispatched
          /\ y.reserved = 0 /\ y.backordered = 0
      BY <1>7, <1>9, <2>1, <2>2 DEF Order
    <3> QED
      BY <2>1, <3>1
  <2>3. CASE ~r.releases
    <3>1. /\ y \in Order /\ y.dispatched = order[o].dispatched
          /\ y.reserved = order[o].reserved /\ y.backordered = order[o].backordered
      BY <1>7, <1>9, <2>1, <2>3 DEF Order
    <3> QED
      BY <1>9, <3>1
  <2> QED
    BY <2>2, <2>3
<1>11. Answered(p)
  BY DEF CommitCancel
<1> QED
  BY <1>5, <1>6, <1>8, <1>9, <1>10, <1>11, OrderWritten

-----------------------------------------------------------------------------
(* A step that writes one shipment row, and what goes with it.             *)
ShipmentWritten(s, z) ==
    /\ shipment' = [shipment EXCEPT ![s] = z]
    /\ z.order = shipment[s].order
    /\ z.status # "NONE" /\ z.quantity > 0
    /\ Exists(s) => z.quantity = shipment[s].quantity

(* A commit that writes one shipment, and other rows within their bounds,  *)
(* keeps the rows well formed.                                             *)
LEMMA ShipmentWrittenStands ==
    ASSUME WellFormed, NEW p \in Requests, NEW s \in Shipments, NEW z \in Shipment,
           ShipmentWritten(s, z), HoldsStand, Answered(p), row' \in Row, channel' \in Nat,
           left' \in [Shipments -> Nat], \A t \in Shipments \ {s} : left'[t] = left[t],
           \A o \in Orders : Shipped(o) <= Shipped(o)',
           order' \in [Orders -> Order],
           \A o \in Orders : order'[o].reserved + order'[o].backordered <= MaxOrdered
                             /\ order'[o].dispatched <= Shipped(o)'
    PROVE  WellFormed'
<1>1. /\ shipment' \in [Shipments -> Shipment] /\ shipment'[s] = z
      /\ \A t \in Shipments \ {s} : shipment'[t] = shipment[t]
  BY DEF ShipmentWritten, WellFormed, TypeOK
<1>2. ShipmentsFit'
  BY <1>1 DEF ShipmentWritten, WellFormed, ShipmentsFit, Exists
<1>3. \A o \in Orders : Shipped(o)' \in Nat
  BY <1>1, <1>2, CountShippedAfter DEF ShipmentsFit, Exists
<1>4. Grows
  BY <1>1, <1>3 DEF ShipmentWritten, Grows, HoldsStand, Exists
<1>5. UNCHANGED <<raced, crossed>> /\ request' = [request EXCEPT ![p] = NoRequest]
  BY DEF Answered
<1>6. RequestsFit' /\ request' \in [Requests -> OrderRequest \cup ShipmentRequest \cup {NoRequest}]
  BY <1>4, <1>5, RequestsAfter DEF HoldsStand
<1>7. TypeOK'
  BY <1>1, <1>5, <1>6 DEF WellFormed, TypeOK, HoldsStand
<1>8. LinesBounded' /\ NeverClaimsMoreThanLeft'
  BY DEF LinesBounded, NeverClaimsMoreThanLeft
<1> QED
  BY <1>2, <1>6, <1>7, <1>8 DEF WellFormed, HoldsStand

(* Nothing leaves by it.                                                   *)
LEMMA NothingLeaves ==
    ASSUME WellFormed, NEW s \in Shipments, NEW z \in Shipment,
           ShipmentWritten(s, z), left' = left
    PROVE  \A o \in Orders : Shipped(o)' = Shipped(o) /\ Shipped(o) \in Nat
<1>1. /\ shipment' \in [Shipments -> Shipment] /\ shipment'[s] = z
      /\ \A t \in Shipments \ {s} : shipment'[t] = shipment[t]
      /\ shipment \in [Shipments -> Shipment] /\ left \in [Shipments -> Nat]
  BY DEF ShipmentWritten, WellFormed, TypeOK
<1>2. \A t \in Shipments : shipment'[t].status = "NONE" => left'[t] = 0
  BY <1>1 DEF ShipmentWritten, WellFormed, ShipmentsFit, Exists
<1>3. ASSUME NEW t \in Shipments
      PROVE  /\ left'[t] = left[t] /\ shipment'[t].order = shipment[t].order
             /\ left[t] # 0 => shipment'[t].quantity = shipment[t].quantity
  BY <1>1 DEF ShipmentWritten, WellFormed, ShipmentsFit
<1>4. ASSUME NEW o \in Orders PROVE LeftFor(shipment', left', o) = LeftFor(shipment, left, o)
  <2>1. left' \in [Shipments -> Nat]
    BY <1>1
  <2> QED
    BY <1>1, <1>3, <2>1, TotalStays
<1>5. left' \in [Shipments -> Nat]
  BY <1>1
<1> QED
  BY <1>1, <1>2, <1>4, <1>5, CountShipped, CountShippedAfter

(* The creation of a shipment keeps the rows well formed.                  *)
LEMMA CreateKeepsWellFormed ==
    ASSUME WellFormed, NEW p \in Requests, CommitCreate(p)
    PROVE  WellFormed'
<1>1. PICK r : r = request[p]
  OBVIOUS
<1>2. r \in AnyRequest /\ r.kind = "CREATE"
  BY <1>1, RequestsKnown DEF CommitCreate, Handling
<1>3. r.shipment \in Shipments /\ r.quantity \in 1..MaxOrdered
  BY <1>2, RequestOfKind
<1>4. PICK z : z = [[shipment[r.shipment] EXCEPT !.status = "PENDING"] EXCEPT !.quantity = r.quantity]
  OBVIOUS
<1>5. shipment[r.shipment] \in Shipment /\ r.quantity \in 0..MaxOrdered
  BY <1>3 DEF WellFormed, TypeOK
<1>6. /\ z \in Shipment /\ z.status = "PENDING" /\ z.quantity = r.quantity
      /\ z.order = shipment[r.shipment].order
  BY <1>4, <1>5 DEF Shipment, ShipmentStatuses
<1>7. /\ shipment' = [shipment EXCEPT ![r.shipment] = z]
      /\ ~Exists(r.shipment) /\ Answered(p)
      /\ UNCHANGED <<row, order, hold, channel, left>>
  BY <1>1, <1>4 DEF CommitCreate, WellFormed, TypeOK
<1>8. ShipmentWritten(r.shipment, z)
  BY <1>3, <1>6, <1>7 DEF ShipmentWritten
<1>9. \A o \in Orders : Shipped(o)' = Shipped(o) /\ Shipped(o) \in Nat
  BY <1>3, <1>6, <1>7, <1>8, NothingLeaves
<1>10. HoldsStand
  BY <1>7, HoldsUnchangedStand
<1>11. \A o \in Orders : order'[o].reserved + order'[o].backordered <= MaxOrdered
                         /\ order'[o].dispatched <= Shipped(o)' /\ Shipped(o) <= Shipped(o)'
  BY <1>7, <1>9 DEF WellFormed, LinesBounded, NeverClaimsMoreThanLeft
<1>12. row' \in Row /\ channel' \in Nat /\ left' \in [Shipments -> Nat] /\ order' \in [Orders -> Order]
  BY <1>7 DEF WellFormed, TypeOK
<1> QED
  BY <1>3, <1>6, <1>7, <1>8, <1>10, <1>11, <1>12, ShipmentWrittenStands

(* So does pack().                                                         *)
LEMMA PackKeepsWellFormed ==
    ASSUME WellFormed, NEW p \in Requests, CommitPack(p)
    PROVE  WellFormed'
<1>1. PICK r : r = request[p]
  OBVIOUS
<1>2. r \in AnyRequest /\ r.kind = "PACK" /\ Fits(r)
  BY <1>1, RequestsKnown DEF CommitPack, Handling
<1>3. r.shipment \in Shipments /\ Exists(r.shipment) /\ shipment[r.shipment].quantity > 0
  BY <1>2, RequestOfKind DEF Fits, WellFormed, ShipmentsFit
<1>4. PICK z : z = [shipment[r.shipment] EXCEPT !.status = "PACKED"]
  OBVIOUS
<1>5. shipment[r.shipment] \in Shipment
  BY <1>3 DEF WellFormed, TypeOK
<1>6. /\ z \in Shipment /\ z.status = "PACKED" /\ z.quantity = shipment[r.shipment].quantity
      /\ z.order = shipment[r.shipment].order
  BY <1>4, <1>5 DEF Shipment, ShipmentStatuses
<1>7. /\ shipment' = [shipment EXCEPT ![r.shipment] = z] /\ Answered(p)
      /\ UNCHANGED <<row, order, hold, channel, left>>
  BY <1>1, <1>4 DEF CommitPack, WellFormed, TypeOK
<1>8. ShipmentWritten(r.shipment, z)
  BY <1>3, <1>6, <1>7 DEF ShipmentWritten
<1>9. \A o \in Orders : Shipped(o)' = Shipped(o) /\ Shipped(o) \in Nat
  BY <1>3, <1>6, <1>7, <1>8, NothingLeaves
<1>10. HoldsStand
  BY <1>7, HoldsUnchangedStand
<1>11. \A o \in Orders : order'[o].reserved + order'[o].backordered <= MaxOrdered
                         /\ order'[o].dispatched <= Shipped(o)' /\ Shipped(o) <= Shipped(o)'
  BY <1>7, <1>9 DEF WellFormed, LinesBounded, NeverClaimsMoreThanLeft
<1>12. row' \in Row /\ channel' \in Nat /\ left' \in [Shipments -> Nat] /\ order' \in [Orders -> Order]
  BY <1>7 DEF WellFormed, TypeOK
<1> QED
  BY <1>3, <1>6, <1>7, <1>8, <1>10, <1>11, <1>12, ShipmentWrittenStands

(* So does deliver().                                                      *)
LEMMA DeliverKeepsWellFormed ==
    ASSUME WellFormed, NEW p \in Requests, CommitDeliver(p)
    PROVE  WellFormed'
<1>1. PICK r : r = request[p]
  OBVIOUS
<1>2. r \in AnyRequest /\ r.kind = "DELIVER" /\ Fits(r)
  BY <1>1, RequestsKnown DEF CommitDeliver, Handling
<1>3. r.shipment \in Shipments /\ Exists(r.shipment) /\ shipment[r.shipment].quantity > 0
  BY <1>2, RequestOfKind DEF Fits, WellFormed, ShipmentsFit
<1>4. PICK z : z = [shipment[r.shipment] EXCEPT !.status = "DELIVERED"]
  OBVIOUS
<1>5. shipment[r.shipment] \in Shipment
  BY <1>3 DEF WellFormed, TypeOK
<1>6. /\ z \in Shipment /\ z.status = "DELIVERED" /\ z.quantity = shipment[r.shipment].quantity
      /\ z.order = shipment[r.shipment].order
  BY <1>4, <1>5 DEF Shipment, ShipmentStatuses
<1>7. PICK o \in Orders : o = r.order
  BY <1>2, RequestOfKind
<1>8. /\ shipment' = [shipment EXCEPT ![r.shipment] = z] /\ Answered(p)
      /\ UNCHANGED <<row, hold, channel, left>>
      /\ order' = order \/ order' = [order EXCEPT ![o].status = "DELIVERED"]
  BY <1>1, <1>4, <1>7 DEF CommitDeliver, WellFormed, TypeOK
<1>9. ShipmentWritten(r.shipment, z)
  BY <1>3, <1>6, <1>8 DEF ShipmentWritten
<1>10. \A k \in Orders : Shipped(k)' = Shipped(k) /\ Shipped(k) \in Nat
  BY <1>3, <1>6, <1>8, <1>9, NothingLeaves
<1>11. HoldsStand
  BY <1>8, HoldsUnchangedStand
<1>12. /\ order' \in [Orders -> Order]
       /\ \A k \in Orders : /\ order'[k].reserved = order[k].reserved
                            /\ order'[k].backordered = order[k].backordered
                            /\ order'[k].dispatched = order[k].dispatched
  <2>1. order \in [Orders -> Order]
    BY DEF WellFormed, TypeOK
  <2>2. CASE order' = order
    BY <2>1, <2>2
  <2>3. CASE order' = [order EXCEPT ![o].status = "DELIVERED"]
    <3>1. PICK y : y = [order[o] EXCEPT !.status = "DELIVERED"]
      OBVIOUS
    <3>2. /\ y \in Order /\ y.reserved = order[o].reserved
          /\ y.backordered = order[o].backordered /\ y.dispatched = order[o].dispatched
      BY <2>1, <3>1 DEF Order, OrderStatuses
    <3>3. order' = [order EXCEPT ![o] = y]
      BY <2>3, <3>1
    <3> QED
      BY <2>1, <3>2, <3>3
  <2> QED
    BY <1>8, <2>2, <2>3
<1>13. \A k \in Orders : order'[k].reserved + order'[k].backordered <= MaxOrdered
                         /\ order'[k].dispatched <= Shipped(k)' /\ Shipped(k) <= Shipped(k)'
  <2>1. LinesBounded /\ NeverClaimsMoreThanLeft
    BY DEF WellFormed
  <2>2. \A k \in Orders : /\ order[k].reserved + order[k].backordered <= MaxOrdered
                          /\ order[k].dispatched <= Shipped(k)
    BY <2>1 DEF LinesBounded, NeverClaimsMoreThanLeft
  <2> QED
    BY <1>10, <1>12, <2>2
<1>14. row' \in Row /\ channel' \in Nat /\ left' \in [Shipments -> Nat]
  BY <1>8 DEF WellFormed, TypeOK
<1> QED
  BY <1>3, <1>6, <1>8, <1>9, <1>11, <1>12, <1>13, <1>14, ShipmentWrittenStands
Draws(r, q) == hold' = [hold EXCEPT ![r.order][r.found] = DrawnHold(r, q)]

(* What a dispatch writes to the reservation it found.                     *)
LEMMA HoldIsDrawn ==
    ASSUME WellFormed, NEW r \in AnyRequest, r.kind = "DISPATCH", Fits(r), r.found # 0,
           NEW q, q = shipment[r.shipment].quantity,
           Draws(r, q)
    PROVE  /\ r.order \in Orders /\ r.found \in 1..Len(hold[r.order])
           /\ q \in 1..MaxOrdered /\ q <= r.seen
           /\ HoldsStand
           /\ hold'[r.order][r.found].quantity = r.seen - q
           /\ r.found \in ActiveHolds(r.order) /\ r.seen # q => ActiveHolds(r.order)' = ActiveHolds(r.order)
           /\ r.found \notin ActiveHolds(r.order) \/ r.seen = q =>
                  ActiveHolds(r.order)' = ActiveHolds(r.order) \ {r.found}
           /\ \A j \in ActiveHolds(r.order) \ {r.found} : hold'[r.order][j] = hold[r.order][j]
           /\ \A k \in Orders \ {r.order} : hold'[k] = hold[k]
<1>1. PICK o \in Orders : o = r.order
  BY RequestOfKind
<1>2. PICK i : i = r.found
  OBVIOUS
<1>3. hold[o] \in Seq(Hold) /\ i \in 1..Len(hold[o]) /\ i \in DOMAIN hold[o]
  BY <1>1, <1>2 DEF WellFormed, Fits
<1>4. PICK h : h = [[hold[o][i] EXCEPT !.quantity = r.seen - q]
                        EXCEPT !.status = IF r.seen = q THEN "CONSUMED" ELSE @]
  OBVIOUS
<1>5. hold[o][i] \in Hold
  BY <1>3
<1>6. r.shipment \in Shipments /\ r.seen \in 0..MaxOrdered
  BY RequestOfKind
<1>7. q \in 0..MaxOrdered /\ q > 0 /\ q <= r.seen
  BY <1>6 DEF WellFormed, TypeOK, Shipment, Fits, ShipmentsFit
<1>8. q \in 1..MaxOrdered /\ r.seen - q \in 0..MaxOrdered
  BY <1>6, <1>7, OrdersAssumption, MaxQuantityAssumption
<1>9. /\ h \in Hold /\ h.quantity = r.seen - q
      /\ h.status = IF r.seen = q THEN "CONSUMED" ELSE hold[o][i].status
  BY <1>4, <1>5, <1>8 DEF Hold
<1>10. HoldIsSet(o, i, h)
  <2>1. DrawnHold(r, q) = h
    BY <1>1, <1>2, <1>4, <1>5 DEF DrawnHold, Hold
  <2> QED
    BY <1>1, <1>2, <1>3, <2>1 DEF HoldIsSet, WellFormed, Draws
<1>11. h.status = "ACTIVE" => i \in ActiveHolds(o) /\ h.quantity > 0
  BY <1>3, <1>6, <1>7, <1>9 DEF ActiveHolds
<1>12. /\ HoldsStand /\ hold'[o][i] = h
       /\ h.status = "ACTIVE" => ActiveHolds(o)' = ActiveHolds(o)
       /\ h.status # "ACTIVE" => ActiveHolds(o)' = ActiveHolds(o) \ {i}
       /\ \A j \in ActiveHolds(o) \ {i} : hold'[o][j] = hold[o][j]
       /\ \A k \in Orders \ {o} : hold'[k] = hold[k]
  BY <1>3, <1>9, <1>10, <1>11, HoldWritten
<1>13. h.status = "ACTIVE" <=> i \in ActiveHolds(o) /\ r.seen # q
  BY <1>3, <1>9 DEF ActiveHolds
<1>14. i \in ActiveHolds(o) /\ r.seen # q => ActiveHolds(o)' = ActiveHolds(o)
  BY <1>12, <1>13
<1>15. i \notin ActiveHolds(o) \/ r.seen = q => ActiveHolds(o)' = ActiveHolds(o) \ {i}
  BY <1>12, <1>13
<1> QED
  BY <1>1, <1>2, <1>3, <1>7, <1>8, <1>9, <1>12, <1>14, <1>15

(* Everything a dispatch commits, and how much left by it.                 *)
Dispatches(p, r, o, s, q, z, y) ==
    /\ r = request[p] /\ r.kind = "DISPATCH" /\ Fits(r) /\ r.found # 0
    /\ o = r.order /\ s = r.shipment /\ q = shipment[s].quantity
    /\ shipment[s].order = o /\ Exists(s)
    /\ z = [shipment[s] EXCEPT !.status = "DISPATCHED"] /\ z.status = "DISPATCHED"
    /\ y = [[order[o] EXCEPT !.dispatched = r.dispatched + q]
                EXCEPT !.status = FulfilmentStatus(order[o].ordered, r.dispatched + q)]
    /\ order' = [order EXCEPT ![o] = y]
    /\ shipment' = [shipment EXCEPT ![s] = z] /\ ShipmentWritten(s, z)
    /\ left' \in [Shipments -> Nat] /\ left'[s] = left[s] + 1
    /\ \A t \in Shipments \ {s} : left'[t] = left[t]
    /\ r.dispatched \in Nat /\ r.dispatched <= Shipped(o)
    /\ \A k \in Orders : /\ Shipped(k)' = Shipped(k) + (IF k = o THEN q ELSE 0)
                         /\ Shipped(k) \in Nat
    /\ row' \in Row /\ row'.reserved = row.reserved - q /\ row.reserved >= q
    /\ HoldsStand
    /\ Draws(r, q) /\ SerialsNew(s) /\ Answered(p) /\ Busy(p)

(* A dispatch writes that.                                                 *)
LEMMA DispatchWrites ==
    ASSUME WellFormed, NEW p \in Requests, CommitDispatch(p)
    PROVE  \E r \in AnyRequest, o \in Orders, s \in Shipments, q \in 1..MaxOrdered,
              z \in Shipment, y \in Order : Dispatches(p, r, o, s, q, z, y)
<1>1. PICK r : r = request[p]
  OBVIOUS
<1>2. r \in AnyRequest /\ r.kind = "DISPATCH" /\ Fits(r) /\ r.found # 0
  BY <1>1, RequestsKnown DEF CommitDispatch, Handling
<1>3. PICK o \in Orders : o = r.order
  BY <1>2, RequestOfKind
<1>4. PICK s \in Shipments : s = r.shipment
  BY <1>2, RequestOfKind
<1>5. PICK q : q = shipment[s].quantity
  OBVIOUS
<1>6. /\ Draws(r, q)
      /\ shipment' = [shipment EXCEPT ![s].status = "DISPATCHED"]
      /\ left' = [left EXCEPT ![s] = @ + 1]
      /\ order' = [order EXCEPT
               ![o].dispatched = r.dispatched + q,
               ![o].status = FulfilmentStatus(order[o].ordered, r.dispatched + q)]
      /\ row' = [HoldReleasedBy(q) EXCEPT !.onHand = @ - q]
      /\ MayDispatch(r, q)
  BY <1>1, <1>3, <1>4, <1>5 DEF CommitDispatch, LineDispatched, Draws
<1>7. q \in 1..MaxOrdered /\ q <= r.seen /\ HoldsStand
  BY <1>2, <1>4, <1>5, <1>6, HoldIsDrawn
<1>8. r.dispatched \in Nat /\ r.dispatched <= Shipped(o) /\ Exists(s) /\ shipment[s].order = o
  BY <1>2, <1>3, <1>4, RequestOfKind DEF Fits
<1>9. PICK z : z = [shipment[s] EXCEPT !.status = "DISPATCHED"]
  OBVIOUS
<1>10. shipment[s] \in Shipment
  BY DEF WellFormed, TypeOK
<1>11. /\ z \in Shipment /\ z.status = "DISPATCHED" /\ z.quantity = q
       /\ z.order = shipment[s].order
  BY <1>5, <1>9, <1>10 DEF Shipment, ShipmentStatuses
<1>12. shipment' = [shipment EXCEPT ![s] = z]
  BY <1>6, <1>9 DEF WellFormed, TypeOK
<1>13. ShipmentWritten(s, z)
  BY <1>5, <1>7, <1>11, <1>12 DEF ShipmentWritten
<1>14. left' \in [Shipments -> Nat] /\ left'[s] = left[s] + 1 /\ \A t \in Shipments \ {s} : left'[t] = left[t]
  BY <1>6 DEF WellFormed, TypeOK
<1>15. \A k \in Orders : Shipped(k)' = Shipped(k) + (IF k = o THEN q ELSE 0) /\ Shipped(k) \in Nat
  <2>1. /\ shipment \in [Shipments -> Shipment] /\ left \in [Shipments -> Nat]
        /\ shipment' \in [Shipments -> Shipment] /\ shipment'[s] = z
        /\ \A t \in Shipments \ {s} : shipment'[t] = shipment[t]
    BY <1>11, <1>12 DEF WellFormed, TypeOK
  <2>2. \A t \in Shipments : shipment'[t].status = "NONE" => left'[t] = 0
    BY <1>11, <1>14, <2>1 DEF WellFormed, ShipmentsFit, Exists
  <2>3. \A t \in Shipments : shipment'[t].order = shipment[t].order
                             /\ shipment'[t].quantity = shipment[t].quantity
    BY <1>5, <1>11, <2>1
  <2>4. ASSUME NEW k \in Orders
        PROVE  LeftFor(shipment', left', k) = LeftFor(shipment, left, k)
                   + (IF shipment[s].order = k THEN shipment[s].quantity ELSE 0)
    <3>1. GoesOutOnceMore(s, shipment, left, shipment', left')
      BY <1>14, <2>1, <2>3 DEF GoesOutOnceMore
    <3> QED
      BY <3>1, TotalGrows
  <2>5. \A k \in Orders : Shipped(k)' = LeftFor(shipment', left', k)
    BY <1>14, <2>1, <2>2, CountShippedAfter
  <2>6. \A k \in Orders : Shipped(k) = LeftFor(shipment, left, k) /\ Shipped(k) \in Nat
    BY CountShipped
  <2> QED
    BY <1>5, <1>8, <2>4, <2>5, <2>6
<1>16. row' \in Row /\ row'.reserved = row.reserved - q /\ row.reserved >= q
  <2>1. row \in Row /\ q \in Nat /\ q # 0
    BY <1>7, OrdersAssumption, MaxQuantityAssumption DEF WellFormed, TypeOK
  <2>2. MayAdjustReserved(row, -q) /\ MayMove(HoldReleasedBy(q), "ISSUE", q)
    BY <1>6 DEF MayDispatch
  <2>3. row.reserved - q \in 0..MaxQuantity /\ row.reserved >= q
    BY <2>1, <2>2, MaxQuantityAssumption DEF Row, MayAdjustReserved
  <2>4. HoldReleasedBy(q) \in Row /\ HoldReleasedBy(q).reserved = row.reserved - q
    BY <2>1, <2>3 DEF HoldReleasedBy, Row
  <2>5. SignedQuantity("ISSUE", q) = -q
    BY <2>1 DEF SignedQuantity, SignForMovement, InboundMovements, OutboundMovements
  <2>6. HoldReleasedBy(q).onHand - q \in 0..MaxQuantity
    BY <2>1, <2>2, <2>4, <2>5, MaxQuantityAssumption DEF MayMove, Row
  <2> QED
    BY <1>6, <2>3, <2>4, <2>6 DEF Row
<1>17. PICK y : y = [[order[o] EXCEPT !.dispatched = r.dispatched + q]
                         EXCEPT !.status = FulfilmentStatus(order[o].ordered, r.dispatched + q)]
  OBVIOUS
<1>18. y \in Order
  <2>1. FulfilmentStatus(order[o].ordered, r.dispatched + q) \in OrderStatuses
    BY DEF FulfilmentStatus, OrderStatuses
  <2>2. r.dispatched + q \in Nat
    BY <1>7, <1>8, OrdersAssumption, MaxQuantityAssumption
  <2>3. order[o] \in Order
    BY DEF WellFormed, TypeOK
  <2>4. [order[o] EXCEPT !.dispatched = r.dispatched + q] \in Order
    BY <2>2, <2>3 DEF Order
  <2> QED
    BY <1>17, <2>1, <2>4 DEF Order
<1>19. order' = [order EXCEPT ![o] = y]
  BY <1>6, <1>17 DEF WellFormed, TypeOK
<1>20. /\ r = request[p] /\ r.kind = "DISPATCH" /\ Fits(r) /\ r.found # 0
       /\ o = r.order /\ s = r.shipment /\ q = shipment[s].quantity
       /\ shipment[s].order = o /\ Exists(s)
  BY <1>1, <1>2, <1>3, <1>4, <1>5, <1>8
<1>22. Draws(r, q) /\ SerialsNew(s) /\ Answered(p) /\ Busy(p)
  BY <1>1, <1>4, <1>6 DEF CommitDispatch, Handling, MayDispatch
<1>21. Dispatches(p, r, o, s, q, z, y)
  BY <1>22, <1>7, <1>8, <1>9, <1>11, <1>12, <1>13, <1>14, <1>15, <1>16, <1>17, <1>19, <1>20 DEF Dispatches
<1> QED
  BY <1>2, <1>7, <1>11, <1>18, <1>21

(* dispatch() keeps the rows well formed.                                  *)
LEMMA DispatchKeepsWellFormed ==
    ASSUME WellFormed, NEW p \in Requests, CommitDispatch(p)
    PROVE  WellFormed'
<1>0. PICK r \in AnyRequest, o \in Orders, s \in Shipments, q \in 1..MaxOrdered,
           z \in Shipment, y \in Order : Dispatches(p, r, o, s, q, z, y)
  BY DispatchWrites
<1>1. /\ y = [[order[o] EXCEPT !.dispatched = r.dispatched + q]
                  EXCEPT !.status = FulfilmentStatus(order[o].ordered, r.dispatched + q)]
      /\ order' = [order EXCEPT ![o] = y]
      /\ ShipmentWritten(s, z)
      /\ left' \in [Shipments -> Nat]
      /\ \A t \in Shipments \ {s} : left'[t] = left[t]
      /\ r.dispatched \in Nat /\ r.dispatched <= Shipped(o)
      /\ \A k \in Orders : /\ Shipped(k)' = Shipped(k) + (IF k = o THEN q ELSE 0)
                           /\ Shipped(k) \in Nat
      /\ row' \in Row /\ HoldsStand
  BY <1>0 DEF Dispatches
<1>2. Answered(p) /\ channel' \in Nat
  <2>1. Answered(p) /\ channel' = channel + shipment[request[p].shipment].quantity
    BY DEF CommitDispatch
  <2>2. request[p].shipment \in Shipments
    BY RequestsKnown, RequestOfKind DEF CommitDispatch, Handling
  <2>3. shipment[request[p].shipment].quantity \in Nat /\ channel \in Nat
    BY <2>2, OrdersAssumption, MaxQuantityAssumption DEF WellFormed, TypeOK, Shipment
  <2> QED
    BY <2>1, <2>3
<1>3. q \in Nat
  BY OrdersAssumption, MaxQuantityAssumption
<1>4. \A k \in Orders : Shipped(k) <= Shipped(k)'
  BY <1>1, <1>3
<1>5. /\ order' \in [Orders -> Order] /\ order'[o] = y
      /\ \A k \in Orders \ {o} : order'[k] = order[k]
  BY <1>1 DEF WellFormed, TypeOK
<1>6. order[o] \in Order
  BY DEF WellFormed, TypeOK
<1>7. /\ y.reserved = order[o].reserved /\ y.backordered = order[o].backordered
      /\ y.dispatched = r.dispatched + q
  BY <1>1, <1>6 DEF Order
<1>8. ASSUME NEW k \in Orders
      PROVE  order'[k].reserved + order'[k].backordered <= MaxOrdered
             /\ order'[k].dispatched <= Shipped(k)'
  <2>1. /\ order[k].reserved + order[k].backordered <= MaxOrdered
        /\ order[k].dispatched <= Shipped(k) /\ Shipped(k) \in Nat /\ order[k].dispatched \in Nat
    BY <1>1 DEF WellFormed, LinesBounded, NeverClaimsMoreThanLeft, TypeOK, Order
  <2>2. Shipped(k) <= Shipped(k)' /\ Shipped(k)' = Shipped(k) + (IF k = o THEN q ELSE 0)
    BY <1>1, <1>4
  <2>3. CASE k = o
    BY <1>1, <1>3, <1>5, <1>7, <2>1, <2>2, <2>3
  <2>4. CASE k # o
    BY <1>5, <2>1, <2>2, <2>4
  <2> QED
    BY <2>3, <2>4
<1> QED
  BY <1>1, <1>2, <1>4, <1>5, <1>8, ShipmentWrittenStands

(* The rows are well formed at first ...                                   *)
LEMMA InitIsWellFormed == Init => WellFormed
<1> SUFFICES ASSUME Init PROVE WellFormed
  OBVIOUS
<1>1. /\ row \in [onHand : 0..MaxQuantity, reserved : {0}]
      /\ order \in [Orders -> {NewOrder(q) : q \in 1..MaxOrdered}]
      /\ hold = [o \in Orders |-> <<>>]
      /\ request = [p \in Requests |-> NoRequest]
      /\ raced = {} /\ crossed = FALSE /\ channel = 0
      /\ shipment \in [Shipments -> [status : {"NONE"}, order : Orders, quantity : {0}]]
      /\ left = [s \in Shipments |-> 0]
  BY DEF Init, OrdersInit
<1>2. row \in Row
  BY <1>1, MaxQuantityAssumption DEF Row
<1>3. \A o \in Orders : order[o] \in Order /\ order[o].reserved = 0 /\ order[o].backordered = 0
                        /\ order[o].dispatched = 0
  <2> TAKE o \in Orders
  <2>1. PICK q \in 1..MaxOrdered : order[o] = NewOrder(q)
    BY <1>1
  <2>2. 0 \in 0..MaxOrdered /\ 0 \in 0..MaxEdits /\ 0 \in Nat
    BY OrdersAssumption, MaxQuantityAssumption
  <2> QED
    BY <2>1, <2>2 DEF NewOrder, Order, OrderStatuses
<1>4. shipment \in [Shipments -> Shipment] /\ left \in [Shipments -> Nat]
  BY <1>1, OrdersAssumption, MaxQuantityAssumption DEF Shipment, ShipmentStatuses
<1>5. \A o \in Orders : hold[o] = <<>> /\ hold[o] \in Seq(Hold) /\ Len(hold[o]) = 0
  BY <1>1
<1>6. \A o \in Orders : ActiveHolds(o) = {}
  BY <1>5 DEF ActiveHolds
<1>7. TypeOK
  <2>1. order \in [Orders -> Order]
    BY <1>1, <1>3
  <2>2. \A o \in Orders : hold[o] \in Seq(Hold) /\ Len(hold[o]) <= MaxHolds
    BY <1>5, OrdersAssumption
  <2>3. /\ request \in [Requests -> OrderRequest \cup ShipmentRequest \cup {NoRequest}]
        /\ raced \in SUBSET Orders /\ crossed \in BOOLEAN /\ channel \in Nat
    BY <1>1
  <2> QED
    BY <1>2, <1>4, <2>1, <2>2, <2>3 DEF TypeOK
<1>8. hold \in [Orders -> Seq(Hold)] /\ HoldsWellFormed
  BY <1>1, <1>5, <1>6 DEF HoldsWellFormed
<1>9. LinesBounded
  BY <1>3, OrdersAssumption, MaxQuantityAssumption DEF LinesBounded
<1>10. ShipmentsFit
  BY <1>1 DEF ShipmentsFit, Exists
<1>11. RequestsFit
  BY <1>1 DEF RequestsFit, Busy
<1>12. NeverClaimsMoreThanLeft
  <2>1. \A s \in Shipments : shipment[s].status = "NONE" => left[s] = 0
    BY <1>1
  <2>2. ASSUME NEW o \in Orders PROVE Shipped(o) \in Nat
    <3>1. Shipped(o) = LeftFor(shipment, left, o)
      BY <1>4, <2>1, ShippedIsTotal DEF Shipped, Of, Exists
    <3> QED
      BY <1>4, <3>1, TotalIsNat
  <2> QED
    BY <1>3, <2>2 DEF NeverClaimsMoreThanLeft
<1> QED
  BY <1>7, <1>8, <1>9, <1>10, <1>11, <1>12 DEF WellFormed

(* ... and after every step.                                               *)
LEMMA StepKeepsWellFormed == WellFormed /\ [Next]_vars => WellFormed'
<1> SUFFICES ASSUME WellFormed, [Next]_vars PROVE WellFormed'
  OBVIOUS
<1>1. ASSUME NEW p \in Requests, OrderStep(p) PROVE WellFormed'
  <2>1. UNCHANGED shipmentVars
    BY <1>1 DEF OrderStep
  <2>2. ASSUME NEW o \in Orders, OrderLoad(p, o) PROVE WellFormed'
    BY <2>1, <2>2, OrderLoadReads, ReadingKeepsWellFormed
  <2>3. CASE OrderCommit(p, Referenced)
    <3>1. CASE CommitUpdate(p, Referenced)
      BY <2>1, <3>1, UpdateKeepsWellFormed
    <3>2. CASE CommitStatus(p, "SUBMIT", "PENDING_APPROVAL")
      BY <2>1, <3>2, StatusKeepsWellFormed DEF OrderStatuses
    <3>3. CASE CommitStatus(p, "REJECT", "REJECTED")
      BY <2>1, <3>3, StatusKeepsWellFormed DEF OrderStatuses
    <3>4. CASE CommitApprove(p)
      BY <2>1, <3>4, ApproveKeepsWellFormed
    <3>5. CASE CommitReserve(p)
      BY <2>1, <3>5, ReserveKeepsWellFormed
    <3>6. CASE FindHold(p)
      BY <2>1, <3>6, FindHoldFinds, FindingKeepsWellFormed
    <3>7. CASE CommitCancel(p)
      BY <2>1, <3>7, CancelKeepsWellFormed
    <3> QED
      BY <2>3, <3>1, <3>2, <3>3, <3>4, <3>5, <3>6, <3>7 DEF OrderCommit
  <2>4. CASE Fail(p)
    BY <2>1, <2>4, FailKeepsWellFormed
  <2> QED
    BY <1>1, <2>2, <2>3, <2>4 DEF OrderStep
<1>2. ASSUME NEW p \in Requests, ShipmentStep(p) PROVE WellFormed'
  BY <1>2, ShipmentLoadReads, ReadingKeepsWellFormed, CreateKeepsWellFormed, PackKeepsWellFormed,
     FindForDispatchFinds, CountSiblingsFinds, FindingKeepsWellFormed, DispatchKeepsWellFormed,
     DeliverKeepsWellFormed DEF ShipmentStep, ShipmentCommit
<1>3. CASE GoodsReceipt
  BY <1>3, ReceiveKeepsWellFormed DEF GoodsReceipt
<1>4. CASE UNCHANGED vars
  <2>1. /\ \A o \in Orders : Shipped(o)' = Shipped(o) /\ ActiveHolds(o)' = ActiveHolds(o)
        /\ \A s \in Shipments : Exists(s)' = Exists(s)
    BY <1>4 DEF Shipped, Of, Exists, ActiveHolds, vars
  <2>2. TypeOK' /\ RequestsFit'
    BY <1>4 DEF vars, WellFormed, TypeOK, RequestsFit, Busy, Fits, Shipped, Of, Exists
  <2>3. HoldsWellFormed' /\ LinesBounded' /\ ShipmentsFit' /\ NeverClaimsMoreThanLeft'
    BY <1>4, <2>1 DEF vars, WellFormed, HoldsWellFormed, LinesBounded, ShipmentsFit,
       NeverClaimsMoreThanLeft
  <2> QED
    BY <1>4, <2>2, <2>3 DEF vars, WellFormed
<1> QED
  BY <1>1, <1>2, <1>3, <1>4 DEF Next

(* A sum over the orders of which one term changes.                        *)
LEMMA OneValueMoves ==
    ASSUME NEW f, NEW g, NEW o \in Orders,
           \A k \in Orders : f[k] \in Int /\ g[k] \in Int,
           \A k \in Orders \ {o} : g[k] = f[k]
    PROVE  SumFunctionOnSet(g, Orders) = SumFunctionOnSet(f, Orders) - f[o] + g[o]
  BY OrdersAssumption, SumUpdate

(* The sum of the shares when one share changes.                           *)
LEMMA SharesMove ==
    ASSUME NEW f \in Shares, NEW g \in Shares, NEW o \in Orders,
           \A k \in Orders \ {o} : g[k] = f[k]
    PROVE  /\ SumFunctionOnSet(g, Orders) = SumFunctionOnSet(f, Orders) - f[o] + g[o]
           /\ SumFunctionOnSet(f, Orders) \in Int
<1>1. \A k \in Orders : f[k] \in Int /\ g[k] \in Int
  BY MaxQuantityAssumption DEF Shares
<1>2. IsFiniteSet(Orders)
  BY OrdersAssumption
<1>3. SumFunctionOnSet(f, Orders) \in Int
  BY <1>1, <1>2, SumIsInt
<1> QED
  BY <1>1, <1>3, OneValueMoves

(* The share of one order becomes n.                                       *)
LEMMA OneShareMoves ==
    ASSUME WellFormed, NEW own \in Shares, Withholds(own), row' \in Row,
           NEW o \in Orders, NEW n \in 0..MaxQuantity,
           row'.reserved <= row.reserved - own[o] + n, n <= HeldFor(o)',
           \A k \in Orders \ {o} : hold'[k] = hold[k],
           NEW p \in Requests, Answered(p),
           \A r \in AnyRequest, q \in Requests :
               q # p /\ Busy(q) /\ r = request[q] /\ r.order = o /\ Found(r)' => n <= Took(r)
    PROVE  \E own2 \in Shares : Withholds(own2)'
<1> DEFINE g == [own EXCEPT ![o] = n]
<1>1. g \in Shares /\ g[o] = n /\ \A k \in Orders \ {o} : g[k] = own[k]
  BY DEF Shares
<1> HIDE DEF g
<1>2. /\ row.reserved \in Int /\ row'.reserved \in Int
      /\ \A k \in Orders : own[k] \in Int
  BY MaxQuantityAssumption DEF WellFormed, TypeOK, Row, Shares
<1>3. row'.reserved <= SumFunctionOnSet(g, Orders)
  <2>1. /\ SumFunctionOnSet(g, Orders) = SumFunctionOnSet(own, Orders) - own[o] + n
        /\ SumFunctionOnSet(own, Orders) \in Int
    BY <1>1, SharesMove
  <2> QED
    BY <1>2, <2>1, MaxQuantityAssumption DEF Withholds
<1>4. ASSUME NEW k \in Orders PROVE g[k] <= HeldFor(k)'
  <2>1. CASE k = o
    BY <1>1, <2>1
  <2>2. CASE k # o
    <3>1. HeldFor(k)' = HeldFor(k)
      BY <2>2 DEF HeldFor, ActiveHolds
    <3> QED
      BY <1>1, <2>2, <3>1 DEF Withholds
  <2> QED
    BY <2>1, <2>2
<1>5. ASSUME NEW q \in Requests, NEW r \in AnyRequest, r = request'[q], r # NoRequest, Found(r)'
      PROVE  g[r.order] <= Took(r)
  <2>0. request' = [request EXCEPT ![p] = NoRequest] /\ request \in [Requests -> AnyRequest \cup {NoRequest}]
    BY DEF Answered, WellFormed, TypeOK, AnyRequest
  <2>1. q # p /\ request[q] = r /\ Busy(q)
    BY <1>5, <2>0 DEF Busy
  <2>2. r.order \in Orders
    BY RequestOfKind
  <2>3. CASE r.order = o
    BY <1>1, <1>5, <2>1, <2>3
  <2>4. CASE r.order # o
    <3>1. Found(r)
      BY <1>5, <2>2, <2>4 DEF Found, ActiveHolds
    <3> QED
      BY <1>1, <2>1, <2>2, <2>4, <3>1 DEF Withholds
  <2> QED
    BY <2>3, <2>4
<1>6. \A q \in Requests : Busy(q)' => request'[q] \in AnyRequest
  BY DEF Answered, WellFormed, TypeOK, AnyRequest, Busy
<1>7. Withholds(g)'
  BY <1>3, <1>4, <1>5, <1>6 DEF Withholds, Busy, Took, Found
<1> QED
  BY <1>1, <1>7

(* Neither a reservation nor what is withheld changes.                     *)
LEMMA SharesStay ==
    ASSUME WellFormed, NEW own \in Shares, Withholds(own),
           hold' = hold, row'.reserved = row.reserved,
           NEW p \in Requests, NEW x \in AnyRequest \cup {NoRequest},
           request' = [request EXCEPT ![p] = x] \/ request' = request,
           x \in AnyRequest /\ Found(x) => HeldFor(x.order) <= Took(x)
    PROVE  Withholds(own)'
<1>0. request \in [Requests -> AnyRequest \cup {NoRequest}]
  BY DEF WellFormed, TypeOK, AnyRequest
<1>1. \A o \in Orders : HeldFor(o)' = HeldFor(o) /\ ActiveHolds(o)' = ActiveHolds(o)
  BY DEF HeldFor, ActiveHolds
<1>2. ASSUME NEW q \in Requests, NEW r \in AnyRequest, r = request'[q], r # NoRequest, Found(r)
      PROVE  own[r.order] <= Took(r)
  <2>0. r.order \in Orders
    BY RequestOfKind
  <2>1. r = request[q] \/ r = x
    BY <1>0, <1>2
  <2>2. CASE r = request[q]
    BY <1>2, <2>2 DEF Withholds, Busy
  <2>3. CASE r = x
    <3>1. own[r.order] <= HeldFor(r.order) /\ HeldFor(r.order) <= Took(r)
      BY <1>2, <2>0, <2>3 DEF Withholds
    <3>2. own[r.order] \in Int /\ HeldFor(r.order) \in Int
      BY <2>0, CountHeld, MaxQuantityAssumption DEF Shares
    <3>3. Took(r) \in Int
      <4>1. r.kind \in {"CANCEL", "DISPATCH"}
        BY <1>2 DEF Found
      <4>2. r.kind = "CANCEL" => r.quantity \in 0..MaxOrdered
        BY RequestOfKind
      <4>3. r.kind = "DISPATCH" => r.seen \in 0..MaxOrdered
        BY RequestOfKind
      <4> QED
        BY <4>1, <4>2, <4>3, OrdersAssumption DEF Took
    <3> QED
      BY <3>1, <3>2, <3>3
  <2> QED
    BY <2>1, <2>2, <2>3
<1>3. \A q \in Requests : Busy(q)' => request'[q] \in AnyRequest
  BY <1>0 DEF Busy
<1>4. \A q \in Requests : Busy(q)' /\ Found(request[q])' => own[request'[q].order] <= Took(request[q])'
  <2> SUFFICES ASSUME NEW q \in Requests, Busy(q)', Found(request[q])'
               PROVE  own[request'[q].order] <= Took(request[q])'
    OBVIOUS
  <2>1. PICK r : r = request'[q]
    OBVIOUS
  <2>2. r \in AnyRequest /\ r # NoRequest
    BY <1>3, <2>1 DEF Busy
  <2>3. Found(r)
    BY <2>1 DEF Found, ActiveHolds
  <2>4. own[r.order] <= Took(r)
    BY <1>2, <2>1, <2>2, <2>3
  <2> QED
    BY <2>1, <2>4 DEF Took
<1> QED
  BY <1>1, <1>4 DEF Withholds

(* A step that touches neither, unless it reads a reservation.             *)
LEMMA StaysAccounted ==
    ASSUME WellFormed, Accounted, hold' = hold, row'.reserved = row.reserved,
           NEW p \in Requests, NEW x \in AnyRequest \cup {NoRequest},
           request' = [request EXCEPT ![p] = x] \/ request' = request,
           x \in AnyRequest /\ Found(x) => HeldFor(x.order) <= Took(x)
    PROVE  Accounted'
<1>1. PICK own \in Shares : Withholds(own)
  BY DEF Accounted
<1>2. Withholds(own)'
  BY <1>1, SharesStay
<1> QED
  BY <1>1, <1>2 DEF Accounted

(* A request that has only been loaded, or that reads no reservation, has  *)
(* found none.                                                             *)
LEMMA FoundOnlyWhatWasThere ==
    ASSUME WellFormed, Accounted, hold' = hold, row'.reserved = row.reserved,
           \A q \in Requests : Busy(q)' =>
               \/ request'[q] = request[q]
               \/ request'[q].kind \in {"CANCEL", "DISPATCH"} => request'[q].found = 0
    PROVE  Accounted'
<1>1. PICK own \in Shares : Withholds(own)
  BY DEF Accounted
<1>2. \A o \in Orders : HeldFor(o)' = HeldFor(o) /\ ActiveHolds(o)' = ActiveHolds(o)
  BY DEF HeldFor, ActiveHolds
<1>3. \A q \in Requests : Busy(q)' /\ Found(request[q])' => request'[q] = request[q]
  BY DEF Found
<1>4. Withholds(own)'
  BY <1>1, <1>2, <1>3 DEF Withholds, Found, Took, ActiveHolds, Busy
<1> QED
  BY <1>1, <1>4 DEF Accounted

(* A reading has found no reservation yet.                                 *)
LEMMA ReadingStaysAccounted ==
    ASSUME WellFormed, Accounted, NEW p \in Requests, Reads(p)
    PROVE  Accounted'
<1>1. PICK r : Load(p, r) /\ JustRead(r)
  BY DEF Reads
<1>2. request' = [request EXCEPT ![p] = r] /\ hold' = hold /\ row' = row
  BY <1>1 DEF Load
<1>3. \A q \in Requests : request'[q] = request[q] \/ request'[q] = r
  BY <1>2 DEF WellFormed, TypeOK
<1> QED
  BY <1>1, <1>2, <1>3, FoundOnlyWhatWasThere DEF JustRead

(* A commit that touches neither stock row nor reservations.               *)
LEMMA AnswerStaysAccounted ==
    ASSUME WellFormed, Accounted, NEW p \in Requests, Answered(p), hold' = hold,
           row'.reserved = row.reserved
    PROVE  Accounted'
<1>1. request' = [request EXCEPT ![p] = NoRequest]
  BY DEF Answered
<1>2. \A q \in Requests : Busy(q)' => request'[q] = request[q]
  BY <1>1 DEF Busy, WellFormed, TypeOK
<1> QED
  BY <1>2, FoundOnlyWhatWasThere

(* A step of no request.                                                   *)
LEMMA NothingReadStaysAccounted ==
    ASSUME WellFormed, Accounted, hold' = hold, row'.reserved = row.reserved, request' = request
    PROVE  Accounted'
  BY FoundOnlyWhatWasThere
(* More is withheld, for a reservation made in the same step.              *)
LEMMA HoldingStaysAccounted ==
    ASSUME WellFormed, Accounted, NEW p \in Requests, Answered(p),
           NEW o \in Orders, NEW q \in 0..MaxOrdered, MayHold(o, q), hold' = Held(o, q),
           row' \in Row, row'.reserved = row.reserved + q
    PROVE  Accounted'
<1>1. CASE q = 0
  BY <1>1, AnswerStaysAccounted DEF Held, WellFormed, TypeOK, Row
<1>2. CASE q > 0
  <2>1. PICK own \in Shares : Withholds(own)
    BY DEF Accounted
  <2>2. /\ HoldsStand /\ ActiveHolds(o) = {} /\ ActiveHolds(o)' = {Len(hold[o]) + 1}
        /\ hold'[o][Len(hold[o]) + 1].quantity = q
        /\ \A k \in Orders \ {o} : hold'[k] = hold[k]
    BY <1>2, HoldAdded
  <2>3. own[o] = 0
    <3>1. own[o] \in Nat /\ own[o] <= HeldFor(o) /\ HeldFor(o) = 0
      BY <2>1, <2>2, CountHeld, MaxQuantityAssumption DEF Withholds, Shares
    <3> QED
      BY <3>1
  <2>4. HeldFor(o)' = q
    BY <2>2, CountHeldAfter DEF HoldsStand
  <2>5. ASSUME NEW r \in AnyRequest, NEW t \in Requests, t # p, Busy(t), r = request[t],
               r.order = o, Found(r)'
        PROVE  q <= Took(r)
    <3>1. r.found \in 0..Len(hold[o]) /\ Len(hold[o]) \in Nat
      BY <2>5, RequestsKnown DEF Found, Fits, WellFormed
    <3>2. r.found = Len(hold[o]) + 1
      BY <2>2, <2>5 DEF Found
    <3> QED
      BY <3>1, <3>2
  <2>6. q \in 0..MaxQuantity /\ row.reserved \in Int
    BY OrdersAssumption, MaxQuantityAssumption DEF WellFormed, TypeOK, Row
  <2>7. row'.reserved <= row.reserved - own[o] + q /\ q <= HeldFor(o)'
    BY <2>3, <2>4, <2>6
  <2> QED
    BY <2>1, <2>2, <2>5, <2>6, <2>7, OneShareMoves DEF Accounted
<1> QED
  BY <1>1, <1>2

(* approve() withholds what its new reservation holds.                     *)
LEMMA ApproveStaysAccounted ==
    ASSUME WellFormed, Accounted, NEW p \in Requests, CommitApprove(p)
    PROVE  Accounted'
<1>1. PICK r : r = request[p]
  OBVIOUS
<1>2. r \in AnyRequest /\ r.kind = "APPROVE"
  BY <1>1, RequestsKnown DEF CommitApprove, Handling
<1>3. r.order \in Orders /\ r.quantity \in 1..MaxOrdered
  BY <1>2, RequestOfKind
<1>4. PICK got : got = Reservable(row, r.quantity)
  OBVIOUS
<1>5. got \in 0..MaxOrdered /\ [row EXCEPT !.reserved = @ + got] \in Row
  BY <1>3, <1>4, ReservableBounds, OrdersAssumption, MaxQuantityAssumption
<1>6. /\ row' = [row EXCEPT !.reserved = @ + got] /\ Answered(p)
      /\ MayHold(r.order, got) /\ hold' = Held(r.order, got)
  BY <1>1, <1>4 DEF CommitApprove, MayApprove
<1>7. row' \in Row /\ row'.reserved = row.reserved + got
  BY <1>5, <1>6 DEF WellFormed, TypeOK, Row
<1> QED
  BY <1>3, <1>5, <1>6, <1>7, HoldingStaysAccounted

(* So does reserveOutstanding().                                           *)
LEMMA ReserveStaysAccounted ==
    ASSUME WellFormed, Accounted, NEW p \in Requests, CommitReserve(p)
    PROVE  Accounted'
<1>1. PICK r : r = request[p]
  OBVIOUS
<1>2. r \in AnyRequest /\ r.kind = "RESERVE"
  BY <1>1, RequestsKnown DEF CommitReserve, Handling
<1>3. r.order \in Orders /\ r.quantity \in 1..MaxOrdered
  BY <1>2, RequestOfKind
<1>4. PICK got : got = Reservable(row, r.quantity)
  OBVIOUS
<1>5. got \in 0..MaxOrdered /\ [row EXCEPT !.reserved = @ + got] \in Row
  BY <1>3, <1>4, ReservableBounds, OrdersAssumption, MaxQuantityAssumption
<1>6. /\ row' = [row EXCEPT !.reserved = @ + got] /\ Answered(p)
      /\ MayHold(r.order, got) /\ hold' = Held(r.order, got)
  BY <1>1, <1>4 DEF CommitReserve, MayReserve
<1>7. row' \in Row /\ row'.reserved = row.reserved + got
  BY <1>5, <1>6 DEF WellFormed, TypeOK, Row
<1> QED
  BY <1>3, <1>5, <1>6, <1>7, HoldingStaysAccounted

(* What is found is all that is held.                                      *)
LEMMA FindingStaysAccounted ==
    ASSUME WellFormed, Accounted, NEW p \in Requests, Finds(p)
    PROVE  Accounted'
<1>1. PICK x \in AnyRequest :
          /\ request' = [request EXCEPT ![p] = x]
          /\ Found(x) => HeldFor(x.order) <= Took(x)
          /\ hold' = hold /\ row' = row
  BY DEF Finds
<1> QED
  BY <1>1, StaysAccounted

(* cancel() gives back at least the share, and holds nothing any more.     *)
LEMMA CancelStaysAccounted ==
    ASSUME WellFormed, Accounted, NEW p \in Requests, CommitCancel(p), UNCHANGED shipmentVars
    PROVE  Accounted'
<1>1. PICK r : r = request[p]
  OBVIOUS
<1>2. r \in AnyRequest /\ r.kind = "CANCEL" /\ Fits(r) /\ Busy(p)
  BY <1>1, RequestsKnown DEF CommitCancel, Handling
<1>3. PICK o \in Orders : o = r.order
  BY <1>2, RequestOfKind
<1>4. r.quantity \in Nat
  BY <1>2, RequestOfKind, OrdersAssumption, MaxQuantityAssumption
<1>5. /\ hold' = HoldReleased(r) /\ Answered(p)
      /\ row' = [row EXCEPT !.reserved = @ - r.quantity]
  BY <1>1 DEF CommitCancel, StockGivenBack
<1>6. row' \in Row
  <2>1. WellFormed'
    BY CancelKeepsWellFormed
  <2> QED
    BY <2>1 DEF WellFormed, TypeOK
<1>7. row'.reserved = row.reserved - r.quantity /\ row.reserved \in Nat
  BY <1>5, MaxQuantityAssumption DEF WellFormed, TypeOK, Row
<1>8. CASE r.found = 0
  <2>1. hold' = hold /\ r.quantity = 0
    BY <1>2, <1>5, <1>8 DEF HoldReleased, Fits
  <2>2. row'.reserved = row.reserved
    BY <1>7, <2>1
  <2> QED
    BY <1>5, <2>1, <2>2, AnswerStaysAccounted
<1>9. CASE r.found # 0
  <2>1. PICK own \in Shares : Withholds(own)
    BY DEF Accounted
  <2>2. /\ HoldsStand /\ ActiveHolds(o)' = ActiveHolds(o) \ {r.found}
        /\ \A j \in ActiveHolds(o) \ {r.found} : hold'[o][j] = hold[o][j]
        /\ \A k \in Orders \ {o} : hold'[k] = hold[k]
    BY <1>2, <1>3, <1>5, <1>9, HoldIsReleased
  <2>3. own[o] \in 0..MaxQuantity /\ own[o] <= HeldFor(o)
    BY <2>1 DEF Shares, Withholds
  <2>4. CASE r.found \in ActiveHolds(o)
    <3>1. own[o] <= r.quantity
      BY <1>1, <1>2, <1>3, <1>9, <2>1, <2>4 DEF Withholds, Found, Took
    <3>2. ActiveHolds(o)' = {}
      BY <2>2, <2>4 DEF WellFormed, HoldsWellFormed
    <3>3. HeldFor(o)' = 0
      BY <2>2, <3>2, CountHeldAfter DEF HoldsStand
    <3>4. 0 \in 0..MaxQuantity /\ row'.reserved <= row.reserved - own[o] + 0
      BY <1>4, <1>7, <2>3, <3>1, MaxQuantityAssumption
    <3>5. \A x \in AnyRequest : x.order = o => ~Found(x)'
      BY <3>2 DEF Found
    <3> QED
      BY <1>5, <1>6, <2>1, <2>2, <3>3, <3>4, <3>5, OneShareMoves DEF Accounted
  <2>5. CASE r.found \notin ActiveHolds(o)
    <3>1. ActiveHolds(o)' = ActiveHolds(o)
      BY <2>2, <2>5
    <3>2. HeldFor(o)' = HeldFor(o)
      <4>1. \A j \in ActiveHolds(o) : hold'[o][j] = hold[o][j]
        BY <2>2, <2>5
      <4>2. CASE ActiveHolds(o) = {}
        BY <2>2, <3>1, <4>2, CountHeld, CountHeldAfter DEF HoldsStand
      <4>3. CASE ActiveHolds(o) # {}
        BY <2>2, <3>1, <4>1, <4>3, CountHeld, CountHeldAfter DEF HoldsStand
      <4> QED
        BY <4>2, <4>3
    <3>3. row'.reserved <= row.reserved - own[o] + own[o]
      BY <1>4, <1>7, <2>3, MaxQuantityAssumption
    <3>4. ASSUME NEW x \in AnyRequest, NEW q \in Requests, Busy(q), x = request[q],
                 x.order = o, Found(x)'
          PROVE  own[o] <= Took(x)
      <4>1. Found(x)
        BY <3>1, <3>4 DEF Found
      <4> QED
        BY <2>1, <3>4, <4>1 DEF Withholds
    <3> QED
      BY <1>5, <1>6, <2>1, <2>2, <2>3, <3>2, <3>3, <3>4, OneShareMoves DEF Accounted
  <2> QED
    BY <2>4, <2>5
<1> QED
  BY <1>8, <1>9

(* dispatch() gives back what it draws, and leaves no less held.           *)
LEMMA DispatchStaysAccounted ==
    ASSUME WellFormed, Accounted, NEW p \in Requests, CommitDispatch(p)
    PROVE  Accounted'
<1>0. PICK r \in AnyRequest, o \in Orders, s \in Shipments, q \in 1..MaxOrdered,
           z \in Shipment, y \in Order : Dispatches(p, r, o, s, q, z, y)
  BY DispatchWrites
<1>1. /\ r = request[p] /\ r.kind = "DISPATCH" /\ Fits(r) /\ r.found # 0
      /\ o = r.order /\ s = r.shipment /\ q = shipment[s].quantity
      /\ row' \in Row /\ row'.reserved = row.reserved - q
  BY <1>0 DEF Dispatches
<1>2. Answered(p) /\ Busy(p) /\ Draws(r, q)
  BY <1>1 DEF CommitDispatch, Handling, Draws
<1>3. /\ q <= r.seen /\ HoldsStand
      /\ hold'[o][r.found].quantity = r.seen - q
      /\ r.found \in ActiveHolds(o) /\ r.seen # q => ActiveHolds(o)' = ActiveHolds(o)
      /\ r.found \notin ActiveHolds(o) \/ r.seen = q => ActiveHolds(o)' = ActiveHolds(o) \ {r.found}
      /\ \A j \in ActiveHolds(o) \ {r.found} : hold'[o][j] = hold[o][j]
      /\ \A k \in Orders \ {o} : hold'[k] = hold[k]
  BY <1>1, <1>2, HoldIsDrawn
<1>4. q \in Nat /\ r.seen \in Nat /\ row.reserved \in Nat
  <2>1. q \in Nat
    BY OrdersAssumption
  <2>2. r.seen \in Nat
    BY <1>1, RequestOfKind, MaxQuantityAssumption
  <2>3. row.reserved \in Nat
    BY DEF WellFormed, TypeOK, Row
  <2> QED
    BY <2>1, <2>2, <2>3
<1>5. PICK own \in Shares : Withholds(own)
  BY DEF Accounted
<1>6. own[o] \in 0..MaxQuantity /\ own[o] <= HeldFor(o)
  BY <1>5 DEF Shares, Withholds
<1>7. CASE r.found \in ActiveHolds(o)
  <2>1. own[o] <= r.seen
    BY <1>1, <1>2, <1>5, <1>7 DEF Withholds, Found, Took
  <2>2. PICK n : n = IF own[o] > q THEN own[o] - q ELSE 0
    OBVIOUS
  <2>3. n \in 0..MaxQuantity /\ row'.reserved <= row.reserved - own[o] + n /\ n <= own[o]
        /\ n <= r.seen - q
    <3>1. row'.reserved = row.reserved - q
      BY <1>1
    <3>2. q <= r.seen
      BY <1>3
    <3>3. own[o] \in Nat /\ own[o] <= MaxQuantity /\ MaxQuantity \in Nat
      BY <1>6, MaxQuantityAssumption
    <3> QED
      BY <1>4, <2>1, <2>2, <3>1, <3>2, <3>3
  <2>4. n <= HeldFor(o)'
    <3>1. CASE r.seen = q
      <4>1. HeldFor(o)' \in Nat /\ n = 0
        BY <1>3, <1>4, <2>3, <3>1, CountHeldAfter DEF HoldsStand
      <4> QED
        BY <4>1
    <3>2. CASE r.seen # q
      <4>1. r.found \in ActiveHolds(o)'
        BY <1>3, <1>7, <3>2
      <4>2. HeldFor(o)' = r.seen - q
        BY <1>3, <4>1, CountHeldAfter DEF HoldsStand
      <4> QED
        BY <2>3, <4>2
    <3> QED
      BY <3>1, <3>2
  <2>5. ActiveHolds(o)' \subseteq ActiveHolds(o)
    BY <1>3, <1>7
  <2>6. ASSUME NEW x \in AnyRequest, NEW t \in Requests, Busy(t), x = request[t],
               x.order = o, Found(x)'
        PROVE  n <= Took(x)
    <3>1. Found(x)
      BY <2>5, <2>6 DEF Found
    <3>2. own[o] <= Took(x)
      BY <1>5, <2>6, <3>1 DEF Withholds
    <3>3. Took(x) \in Nat
      <4>1. x.kind \in {"CANCEL", "DISPATCH"}
        BY <3>1 DEF Found
      <4>2. x.kind = "CANCEL" => x.quantity \in 0..MaxOrdered
        BY RequestOfKind
      <4>3. x.kind = "DISPATCH" => x.seen \in 0..MaxOrdered
        BY RequestOfKind
      <4> QED
        BY <4>1, <4>2, <4>3, OrdersAssumption, MaxQuantityAssumption DEF Took
    <3> QED
      BY <1>6, <2>3, <3>2, <3>3
  <2>7. row' \in Row /\ Answered(p) /\ \A k \in Orders \ {o} : hold'[k] = hold[k]
    BY <1>1, <1>2, <1>3
  <2> QED
    BY <1>5, <2>3, <2>4, <2>6, <2>7, OneShareMoves DEF Accounted
<1>8. CASE r.found \notin ActiveHolds(o)
  <2>1. ActiveHolds(o)' = ActiveHolds(o)
    BY <1>3, <1>8
  <2>2. HeldFor(o)' = HeldFor(o)
    <3>1. \A j \in ActiveHolds(o) : hold'[o][j] = hold[o][j]
      BY <1>3, <1>8
    <3>2. CASE ActiveHolds(o) = {}
      BY <1>3, <2>1, <3>2, CountHeld, CountHeldAfter DEF HoldsStand
    <3>3. CASE ActiveHolds(o) # {}
      BY <1>3, <2>1, <3>1, <3>3, CountHeld, CountHeldAfter DEF HoldsStand
    <3> QED
      BY <3>2, <3>3
  <2>3. row'.reserved <= row.reserved - own[o] + own[o]
    BY <1>1, <1>4, <1>6, MaxQuantityAssumption
  <2>4. ASSUME NEW x \in AnyRequest, NEW t \in Requests, Busy(t), x = request[t],
               x.order = o, Found(x)'
        PROVE  own[o] <= Took(x)
    <3>1. Found(x)
      BY <2>1, <2>4 DEF Found
    <3> QED
      BY <1>5, <2>4, <3>1 DEF Withholds
  <2> QED
    <3>1. row' \in Row /\ Answered(p) /\ \A k \in Orders \ {o} : hold'[k] = hold[k]
      BY <1>1, <1>2, <1>3
    <3> QED
      BY <1>5, <1>6, <2>2, <2>3, <2>4, <3>1, OneShareMoves DEF Accounted
<1> QED
  BY <1>7, <1>8

(* Nothing is withheld at first ...                                        *)
LEMMA InitIsAccounted == Init => Accounted
<1> SUFFICES ASSUME Init PROVE Accounted
  OBVIOUS
<1> DEFINE own == [o \in Orders |-> 0]
<1>0. WellFormed
  BY InitIsWellFormed
<1>1. own \in Shares /\ \A o \in Orders : own[o] = 0
  BY MaxQuantityAssumption DEF Shares
<1> HIDE DEF own
<1>2. SumFunctionOnSet(own, Orders) = 0
  BY <1>1, SumOfZeros, OrdersAssumption
<1>3. row.reserved = 0
  BY DEF Init, OrdersInit
<1>4. \A o \in Orders : own[o] <= HeldFor(o)
  BY <1>0, <1>1, CountHeld
<1>5. \A p \in Requests : ~Busy(p)
  BY DEF Init, OrdersInit, Busy
<1> QED
  BY <1>1, <1>2, <1>3, <1>4, <1>5 DEF Accounted, Withholds

(* ... and after every step what is withheld is accounted for.             *)
LEMMA StepStaysAccounted == WellFormed /\ Accounted /\ [Next]_vars => Accounted'
<1> SUFFICES ASSUME WellFormed, Accounted, [Next]_vars PROVE Accounted'
  OBVIOUS
<1>1. ASSUME NEW p \in Requests, OrderStep(p) PROVE Accounted'
  <2>1. UNCHANGED shipmentVars
    BY <1>1 DEF OrderStep
  <2>2. ASSUME NEW o \in Orders, OrderLoad(p, o) PROVE Accounted'
    BY <2>2, OrderLoadReads, ReadingStaysAccounted
  <2>3. CASE OrderCommit(p, Referenced)
    <3>1. CASE CommitUpdate(p, Referenced)
      BY <3>1, AnswerStaysAccounted DEF CommitUpdate
    <3>2. CASE CommitStatus(p, "SUBMIT", "PENDING_APPROVAL")
      BY <3>2, AnswerStaysAccounted DEF CommitStatus
    <3>3. CASE CommitStatus(p, "REJECT", "REJECTED")
      BY <3>3, AnswerStaysAccounted DEF CommitStatus
    <3>4. CASE CommitApprove(p)
      BY <3>4, ApproveStaysAccounted
    <3>5. CASE CommitReserve(p)
      BY <3>5, ReserveStaysAccounted
    <3>6. CASE FindHold(p)
      BY <2>1, <3>6, FindHoldFinds, FindingStaysAccounted
    <3>7. CASE CommitCancel(p)
      BY <2>1, <3>7, CancelStaysAccounted
    <3> QED
      BY <2>3, <3>1, <3>2, <3>3, <3>4, <3>5, <3>6, <3>7 DEF OrderCommit
  <2>4. CASE Fail(p)
    BY <2>4, AnswerStaysAccounted DEF Fail, RolledBack
  <2> QED
    BY <1>1, <2>2, <2>3, <2>4 DEF OrderStep
<1>2. ASSUME NEW p \in Requests, ShipmentStep(p) PROVE Accounted'
  <2>1. ASSUME NEW s \in Shipments, ShipmentLoad(p, s) PROVE Accounted'
    BY <2>1, ShipmentLoadReads, ReadingStaysAccounted
  <2>2. CASE CommitCreate(p)
    BY <2>2, AnswerStaysAccounted DEF CommitCreate
  <2>3. CASE CommitPack(p)
    BY <2>3, AnswerStaysAccounted DEF CommitPack
  <2>4. CASE FindForDispatch(p)
    BY <2>4, FindForDispatchFinds, FindingStaysAccounted
  <2>5. CASE CommitDispatch(p)
    BY <2>5, DispatchStaysAccounted
  <2>6. CASE CountSiblings(p)
    BY <2>6, CountSiblingsFinds, FindingStaysAccounted
  <2>7. CASE CommitDeliver(p)
    BY <2>7, AnswerStaysAccounted DEF CommitDeliver
  <2> QED
    BY <1>2, <2>1, <2>2, <2>3, <2>4, <2>5, <2>6, <2>7 DEF ShipmentStep, ShipmentCommit
<1>3. CASE GoodsReceipt
  <2>1. request' = request /\ hold' = hold /\ row'.reserved = row.reserved
    BY <1>3 DEF GoodsReceipt, Receive, WellFormed, TypeOK, Row
  <2> QED
    BY <2>1, NothingReadStaysAccounted
<1>4. CASE UNCHANGED vars
  BY <1>4, NothingReadStaysAccounted DEF vars
<1> QED
  BY <1>1, <1>2, <1>3, <1>4 DEF Next

(* The invariant behind the two figures that only err to one side.         *)
LEMMA SaleInvariant == Spec => [](WellFormed /\ Accounted)
<1>1. WellFormed /\ Accounted /\ [Next]_vars => WellFormed' /\ Accounted'
  BY StepKeepsWellFormed, StepStaysAccounted
<1>2. Init => WellFormed /\ Accounted
  BY InitIsWellFormed, InitIsAccounted
<1> QED
  BY <1>1, <1>2, PTL DEF Spec

(* Whatever requests race, no stock is withheld that no reservation        *)
(* accounts for, and no order claims a dispatch that did not leave.        *)
THEOREM NothingIsLostToRaces == Spec => []RacesOnlyUnderstate
<1>1. WellFormed /\ Accounted => RacesOnlyUnderstate
  <2> SUFFICES ASSUME WellFormed, Accounted PROVE RacesOnlyUnderstate
    OBVIOUS
  <2>1. PICK own \in Shares : Withholds(own)
    BY DEF Accounted
  <2> DEFINE held == [o \in Orders |-> HeldFor(o)]
  <2>2. \A o \in Orders : own[o] \in Int /\ held[o] \in Int /\ own[o] <= held[o]
    BY <2>1, CountHeld, MaxQuantityAssumption DEF Shares, Withholds
  <2>3. SumFunction(held) = SumFunctionOnSet(held, Orders)
    <3>1. DOMAIN held = Orders
      OBVIOUS
    <3> HIDE DEF held
    <3> QED
      BY <3>1 DEF SumFunction, SumFunctionOnSet, FoldFunction
  <2> HIDE DEF held
  <2>4. SumFunctionOnSet(own, Orders) <= SumFunctionOnSet(held, Orders)
    BY <2>2, SumIsMonotone, OrdersAssumption
  <2>5. SumFunctionOnSet(own, Orders) \in Int /\ SumFunctionOnSet(held, Orders) \in Int
    BY <2>2, SumIsInt, OrdersAssumption
  <2>6. row.reserved \in Int /\ row.reserved <= SumFunctionOnSet(own, Orders)
    BY <2>1, MaxQuantityAssumption DEF Withholds, WellFormed, TypeOK, Row
  <2>7. row.reserved <= SumFunction(held)
    BY <2>3, <2>4, <2>5, <2>6
  <2> QED
    BY <2>7 DEF held, RacesOnlyUnderstate, NothingWithheldForNobody, WellFormed
<1> QED
  BY <1>1, SaleInvariant, PTL

-----------------------------------------------------------------------------
(* A step that does not touch an order, its reservations or its shipments. *)
Untouched(o) ==
    /\ order'[o] = order[o] /\ hold'[o] = hold[o]
    /\ \A s \in Shipments :
           /\ shipment'[s].order = shipment[s].order
           /\ shipment[s].order = o => shipment'[s] = shipment[s] /\ left'[s] = left[s]

(* What is counted of an untouched order stays the same ...                *)
LEMMA UntouchedCounts ==
    ASSUME WellFormed, WellFormed', NEW o \in Orders, Untouched(o)
    PROVE  /\ Shipped(o)' = Shipped(o) /\ HeldFor(o)' = HeldFor(o)
           /\ ActiveHolds(o)' = ActiveHolds(o) /\ Of(o)' = Of(o)
           /\ \A except : AllLanded(o, except)' <=> AllLanded(o, except)
<1>1. /\ shipment \in [Shipments -> Shipment] /\ left \in [Shipments -> Nat]
      /\ shipment' \in [Shipments -> Shipment] /\ left' \in [Shipments -> Nat]
      /\ \A t \in Shipments : shipment'[t].status = "NONE" => left'[t] = 0
  BY DEF WellFormed, TypeOK, ShipmentsFit, Exists
<1>2. LeftFor(shipment', left', o) = LeftFor(shipment, left, o)
  BY <1>1, TotalStays DEF Untouched
<1>3. Shipped(o)' = Shipped(o)
  BY <1>1, <1>2, CountShipped, CountShippedAfter
<1>4. Of(o)' = Of(o) /\ \A s \in Of(o) : shipment'[s] = shipment[s]
  BY DEF Of, Exists, Untouched
<1>5. \A except : AllLanded(o, except)' <=> AllLanded(o, except)
  BY <1>4 DEF AllLanded
<1> QED
  BY <1>3, <1>4, <1>5 DEF Untouched, HeldFor, ActiveHolds

(* ... so its rows agree as before ...                                     *)
LEMMA UntouchedAgrees ==
    ASSUME WellFormed, WellFormed', NEW o \in Orders, Untouched(o), Agrees(o)
    PROVE  Agrees(o)'
<1>1. /\ Shipped(o)' = Shipped(o) /\ HeldFor(o)' = HeldFor(o)
      /\ ActiveHolds(o)' = ActiveHolds(o) /\ Of(o)' = Of(o)
      /\ AllLanded(o, {})' <=> AllLanded(o, {})
  BY UntouchedCounts
<1>2. order'[o] = order[o] /\ Approved(o)' = Approved(o)
  BY DEF Untouched, Approved
<1>3. \A s \in Shipments : shipment'[s].order = o =>
           left'[s] = IF shipment'[s].status \in {"DISPATCHED", "DELIVERED"} THEN 1 ELSE 0
  BY DEF Untouched, Agrees
<1> QED
  BY <1>1, <1>2, <1>3 DEF Agrees

(* ... and what was read of it is so still.                                *)
LEMMA UntouchedStillSo ==
    ASSUME WellFormed, WellFormed', NEW o \in Orders, Untouched(o),
           NEW r \in AnyRequest, r.order = o, Fits(r), StillSo(r)
    PROVE  StillSo(r)'
<1>1. /\ ActiveHolds(o)' = ActiveHolds(o)
      /\ AllLanded(o, {r.shipment})' <=> AllLanded(o, {r.shipment})
  BY UntouchedCounts
<1>2. order'[o] = order[o] /\ hold'[o] = hold[o]
  BY DEF Untouched
<1>3. r.kind \in {"PACK", "DISPATCH", "DELIVER"} => shipment'[r.shipment] = shipment[r.shipment]
  BY RequestOfKind DEF Untouched, Fits
<1> QED
  BY <1>1, <1>2, <1>3 DEF StillSo

(* Requests only move on.                                                  *)
LEMMA MoveKeepsOrders ==
    ASSUME WellFormed, WellFormed', OrderInv, UNCHANGED <<order, hold, shipment, left>>,
           NEW p \in Requests, NEW x \in AnyRequest, request' = [request EXCEPT ![p] = x],
           raced \subseteq raced',
           x.order \notin raced' => StillSo(x),
           \A q \in Requests : q # p /\ Busy(q) /\ request[q].order = x.order => x.order \in raced',
           x \in AnyRequest => Fits(x)
    PROVE  OrderInv'
<1>1. \A o \in Orders : Untouched(o)
  BY DEF Untouched
<1>2. request'[p] = x /\ \A q \in Requests \ {p} : request'[q] = request[q]
  BY DEF WellFormed, TypeOK
<1>3. OneAtATime'
  <2> SUFFICES ASSUME NEW a \in Requests, NEW b \in Requests, a # b,
                      request'[a] # NoRequest, request'[b] # NoRequest,
                      request'[a].order = request'[b].order
               PROVE  request'[a].order \in raced'
    BY DEF OneAtATime, Busy
  <2>1. CASE a # p /\ b # p
    BY <1>2, <2>1 DEF OrderInv, OneAtATime, Busy
  <2>2. CASE a = p \/ b = p
    BY <1>2, <2>2 DEF Busy
  <2> QED
    BY <2>1, <2>2
<1>4. ASSUME NEW q \in Requests, NEW r \in AnyRequest, r = request'[q], r # NoRequest,
             r.order \notin raced'
      PROVE  StillSo(r)'
  <2>1. r.order \in Orders /\ Untouched(r.order)
    BY <1>1, RequestOfKind
  <2>2. Fits(r) /\ StillSo(r)
    <3>1. CASE q = p
      BY <1>2, <1>4, <3>1
    <3>2. CASE q # p
      <4>1. r = request[q] /\ Busy(q) /\ r.order \notin raced
        BY <1>2, <1>4, <3>2 DEF Busy
      <4> QED
        BY <4>1, RequestsKnown DEF OrderInv, ReadingsHold
    <3> QED
      BY <3>1, <3>2
  <2> QED
    BY <2>1, <2>2, UntouchedStillSo
<1>5. ReadingsHold'
  <2>1. \A q \in Requests : request'[q] # NoRequest => request'[q] \in AnyRequest
    BY <1>2 DEF WellFormed, TypeOK, AnyRequest
  <2> QED
    BY <1>4, <2>1 DEF ReadingsHold, Busy
<1>6. ASSUME NEW o \in Orders, o \notin raced' PROVE Agrees(o)'
  BY <1>1, <1>6, UntouchedAgrees DEF OrderInv
<1>7. \A s \in Serialised : left'[s] <= 1
  BY DEF OrderInv
<1> QED
  BY <1>3, <1>5, <1>6, <1>7 DEF OrderInv

(* A request that works on order o answers.                                *)
LEMMA AnswerKeepsOrders ==
    ASSUME WellFormed, WellFormed', OrderInv, NEW p \in Requests, Answered(p), Busy(p),
           NEW o \in Orders, o = request[p].order,
           \A k \in Orders \ {o} : Untouched(k),
           o \notin raced => Agrees(o)',
           \A s \in Serialised : left'[s] <= 1
    PROVE  OrderInv'
<1>1. request' = [request EXCEPT ![p] = NoRequest] /\ raced' = raced
  BY DEF Answered
<1>2. \A q \in Requests : request'[q] # NoRequest => q # p /\ request'[q] = request[q] /\ Busy(q)
  BY <1>1 DEF WellFormed, TypeOK, Busy
<1>3. OneAtATime'
  BY <1>1, <1>2 DEF OrderInv, OneAtATime, Busy
<1>4. ASSUME NEW q \in Requests, NEW r \in AnyRequest, r = request'[q], r # NoRequest,
             r.order \notin raced
      PROVE  StillSo(r)'
  <2>1. q # p /\ r = request[q] /\ Busy(q) /\ r.order \in Orders
    BY <1>2, <1>4, RequestOfKind
  <2>2. r.order # o
    BY <1>4, <2>1 DEF OrderInv, OneAtATime
  <2>3. Fits(r) /\ StillSo(r)
    BY <1>4, <2>1, RequestsKnown DEF OrderInv, ReadingsHold
  <2> QED
    BY <2>1, <2>2, <2>3, UntouchedStillSo
<1>5. ReadingsHold'
  <2>1. \A q \in Requests : request'[q] # NoRequest => request'[q] \in AnyRequest
    BY <1>2 DEF WellFormed, TypeOK, AnyRequest, Busy
  <2> QED
    BY <1>1, <1>4, <2>1 DEF ReadingsHold, Busy
<1>6. ASSUME NEW k \in Orders, k \notin raced PROVE Agrees(k)'
  <2>1. CASE k = o
    BY <1>6, <2>1
  <2>2. CASE k # o
    BY <1>6, <2>2, UntouchedAgrees DEF OrderInv
  <2> QED
    BY <2>1, <2>2
<1> QED
  BY <1>1, <1>3, <1>5, <1>6 DEF OrderInv

(* A step of no request.                                                   *)
LEMMA QuietKeepsOrders ==
    ASSUME WellFormed, WellFormed', OrderInv, UNCHANGED <<order, hold, request, raced, shipment, left>>
    PROVE  OrderInv'
<1>1. \A o \in Orders : Untouched(o)
  BY DEF Untouched
<1>2. OneAtATime'
  BY DEF OrderInv, OneAtATime, Busy
<1>3. ASSUME NEW q \in Requests, NEW r \in AnyRequest, r = request'[q], r # NoRequest,
             r.order \notin raced
      PROVE  StillSo(r)'
  <2>1. r.order \in Orders /\ Untouched(r.order) /\ r = request[q] /\ Busy(q)
    BY <1>1, <1>3, RequestOfKind DEF Busy
  <2>2. Fits(r) /\ StillSo(r)
    BY <1>3, <2>1, RequestsKnown DEF OrderInv, ReadingsHold
  <2> QED
    BY <2>1, <2>2, UntouchedStillSo
<1>4. ReadingsHold'
  <2>1. \A q \in Requests : request'[q] # NoRequest => request'[q] \in AnyRequest
    BY DEF WellFormed, TypeOK, AnyRequest
  <2> QED
    BY <1>3, <2>1 DEF ReadingsHold, Busy
<1>5. ASSUME NEW o \in Orders, o \notin raced' PROVE Agrees(o)'
  BY <1>1, <1>5, UntouchedAgrees DEF OrderInv
<1> QED
  BY <1>2, <1>4, <1>5 DEF OrderInv

(* A load marks the order as raced on, or has it to itself.                *)
LEMMA ReadingKeepsOrders ==
    ASSUME WellFormed, WellFormed', OrderInv, NEW p \in Requests, Reads(p), UNCHANGED shipmentVars
    PROVE  OrderInv'
<1>1. PICK r \in AnyRequest : Load(p, r) /\ JustRead(r)
  BY DEF Reads
<1>2. /\ request' = [request EXCEPT ![p] = r] /\ UNCHANGED <<order, hold, shipment, left>>
      /\ raced' = IF InFlight(r.order) THEN raced \cup {r.order} ELSE raced
  BY <1>1 DEF Load, shipmentVars
<1>3. \A q \in Requests : q # p /\ Busy(q) /\ request[q].order = r.order => r.order \in raced'
  BY <1>2 DEF InFlight
<1>4. Fits(r) /\ (r.order \notin raced' => StillSo(r)) /\ raced \subseteq raced'
  BY <1>1, <1>2, RequestOfKind DEF JustRead, OrderInv
<1> QED
  BY <1>2, <1>3, <1>4, MoveKeepsOrders

(* What is found inside a transaction is so as long as nothing else works  *)
(* on the order.                                                           *)
LEMMA FindingKeepsOrders ==
    ASSUME WellFormed, WellFormed', OrderInv, NEW p \in Requests, Finds(p)
    PROVE  OrderInv'
<1>1. PICK x \in AnyRequest :
          /\ Busy(p) /\ request' = [request EXCEPT ![p] = x] /\ Fits(x)
          /\ x.order = request[p].order
          /\ StillSo(request[p]) => StillSo(x)
          /\ UNCHANGED <<order, hold, raced, shipment, left>>
  BY DEF Finds
<1>2. x.order \notin raced => StillSo(x)
  BY <1>1 DEF OrderInv, ReadingsHold
<1>3. \A q \in Requests : q # p /\ Busy(q) /\ request[q].order = x.order => x.order \in raced'
  BY <1>1 DEF OrderInv, OneAtATime
<1> QED
  BY <1>1, <1>2, <1>3, MoveKeepsOrders

(* What a commit that leaves the shipments alone leaves alone.             *)
LEMMA ShipmentsStand ==
    ASSUME WellFormed, WellFormed', UNCHANGED shipmentVars, NEW o \in Orders
    PROVE  /\ Shipped(o)' = Shipped(o) /\ Shipped(o) \in Nat /\ Of(o)' = Of(o)
           /\ AllLanded(o, {})' <=> AllLanded(o, {})
           /\ shipment' = shipment /\ left' = left
<1>1. shipment' = shipment /\ left' = left
  BY DEF shipmentVars
<1>2. Shipped(o)' = Shipped(o) /\ Of(o)' = Of(o)
  BY <1>1 DEF Shipped, Of, Exists
<1>3. AllLanded(o, {})' <=> AllLanded(o, {})
  BY <1>1, <1>2 DEF AllLanded
<1> QED
  BY <1>1, <1>2, <1>3, CountShipped

(* A commit of the order service touches one order.                        *)
LEMMA OtherOrdersUntouched ==
    ASSUME UNCHANGED shipmentVars, NEW o,
           \A k \in Orders \ {o} : order'[k] = order[k] /\ hold'[k] = hold[k]
    PROVE  \A k \in Orders \ {o} : Untouched(k)
  BY DEF Untouched, shipmentVars

(* update() finds a DRAFT, which holds and has shipped nothing.            *)
LEMMA UpdateKeepsOrders ==
    ASSUME WellFormed, WellFormed', OrderInv, NEW p \in Requests,
           CommitUpdate(p, Referenced), UNCHANGED shipmentVars
    PROVE  OrderInv'
<1>1. PICK r : r = request[p]
  OBVIOUS
<1>2. r \in AnyRequest /\ r.kind = "UPDATE" /\ Busy(p)
  BY <1>1, RequestsKnown DEF CommitUpdate, Handling
<1>3. PICK o \in Orders : o = r.order
  BY <1>2, RequestOfKind
<1>4. /\ order' = [order EXCEPT ![o] = [order[o] EXCEPT !.ordered = r.quantity, !.line = @ + 1,
                       !.reserved = 0, !.backordered = 0, !.dispatched = 0]]
      /\ hold' = hold /\ Answered(p)
  BY <1>1, <1>3 DEF CommitUpdate
<1>5. order[o] \in Order
  BY DEF WellFormed, TypeOK
<1>6. /\ order'[o].status = order[o].status /\ order'[o].dispatched = 0
      /\ \A k \in Orders \ {o} : order'[k] = order[k]
  BY <1>4, <1>5 DEF WellFormed, TypeOK, Order
<1>7. \A k \in Orders \ {o} : Untouched(k)
  BY <1>4, <1>6, OtherOrdersUntouched
<1>8. ASSUME o \notin raced PROVE Agrees(o)'
  <2>1. order[o].status = "DRAFT" /\ Agrees(o)
    BY <1>1, <1>2, <1>3, <1>8 DEF OrderInv, ReadingsHold, StillSo
  <2>2. Of(o) = {} /\ ActiveHolds(o) = {} /\ Shipped(o) = 0
    BY <2>1 DEF Agrees
  <2>3. ActiveHolds(o)' = {}
    BY <1>4, <2>2 DEF ActiveHolds
  <2>4. \A s \in Shipments : shipment'[s].order = o =>
            left'[s] = IF shipment'[s].status \in {"DISPATCHED", "DELIVERED"} THEN 1 ELSE 0
    BY <2>1, ShipmentsStand DEF Agrees
  <2> QED
    BY <1>6, <2>1, <2>2, <2>3, <2>4, ShipmentsStand DEF Agrees, Approved, Open, StockCommitted, Dead
<1> QED
  BY <1>1, <1>2, <1>3, <1>4, <1>7, <1>8, AnswerKeepsOrders, ShipmentsStand DEF OrderInv

(* submit() and reject() find an order that holds and has shipped nothing. *)
LEMMA StatusKeepsOrders ==
    ASSUME WellFormed, WellFormed', OrderInv, NEW p \in Requests, UNCHANGED shipmentVars,
           NEW kind, NEW status, CommitStatus(p, kind, status),
           \/ kind = "SUBMIT" /\ status = "PENDING_APPROVAL"
           \/ kind = "REJECT" /\ status = "REJECTED"
    PROVE  OrderInv'
<1>1. PICK r : r = request[p]
  OBVIOUS
<1>2. r \in AnyRequest /\ r.kind = kind /\ Busy(p)
  BY <1>1, RequestsKnown DEF CommitStatus, Handling
<1>3. PICK o \in Orders : o = r.order
  BY <1>2, RequestOfKind
<1>4. order' = [order EXCEPT ![o].status = status] /\ hold' = hold /\ Answered(p)
  BY <1>1, <1>3 DEF CommitStatus
<1>5. order[o] \in Order
  BY DEF WellFormed, TypeOK
<1>6. /\ order'[o].status = status /\ order'[o].dispatched = order[o].dispatched
      /\ \A k \in Orders \ {o} : order'[k] = order[k]
  BY <1>4, <1>5 DEF WellFormed, TypeOK, Order
<1>7. \A k \in Orders \ {o} : Untouched(k)
  BY <1>4, <1>6, OtherOrdersUntouched
<1>8. ASSUME o \notin raced PROVE Agrees(o)'
  <2>1. order[o].status \in {"DRAFT", "PENDING_APPROVAL"} /\ Agrees(o)
    BY <1>1, <1>2, <1>3, <1>8 DEF OrderInv, ReadingsHold, StillSo
  <2>2. Of(o) = {} /\ ActiveHolds(o) = {} /\ order[o].dispatched = Shipped(o)
        /\ order[o].dispatched = 0
    BY <2>1 DEF Agrees
  <2>3. ActiveHolds(o)' = {}
    BY <1>4, <2>2 DEF ActiveHolds
  <2>4. \A s \in Shipments : shipment'[s].order = o =>
            left'[s] = IF shipment'[s].status \in {"DISPATCHED", "DELIVERED"} THEN 1 ELSE 0
    BY <2>1, ShipmentsStand DEF Agrees
  <2> QED
    BY <1>6, <2>2, <2>3, <2>4, ShipmentsStand DEF Agrees, Approved, Open, StockCommitted, Dead
<1> QED
  BY <1>1, <1>2, <1>3, <1>4, <1>7, <1>8, AnswerKeepsOrders, ShipmentsStand DEF OrderInv

(* approve() grants what was read: the line is still the same.             *)
LEMMA ApproveKeepsOrders ==
    ASSUME WellFormed, WellFormed', OrderInv, NEW p \in Requests,
           CommitApprove(p), UNCHANGED shipmentVars
    PROVE  OrderInv'
<1>1. PICK r : r = request[p]
  OBVIOUS
<1>2. r \in AnyRequest /\ r.kind = "APPROVE" /\ Busy(p)
  BY <1>1, RequestsKnown DEF CommitApprove, Handling
<1>3. PICK o \in Orders : o = r.order
  BY <1>2, RequestOfKind
<1>4. r.quantity \in 1..MaxOrdered
  BY <1>2, RequestOfKind
<1>5. PICK got : got = Reservable(row, r.quantity)
  OBVIOUS
<1>6. got \in 0..r.quantity /\ got \in 0..MaxOrdered /\ r.quantity \in Int
  <2>1. got \in 0..r.quantity
    BY <1>4, <1>5, ReservableBounds
  <2>2. MaxOrdered \in Nat
    BY OrdersAssumption, MaxQuantityAssumption
  <2> QED
    BY <1>4, <2>1, <2>2
<1>7. /\ order' = [order EXCEPT ![o] = [order[o] EXCEPT
               !.status = "APPROVED", !.reserved = got,
               !.backordered = r.quantity - got,
               !.granted = r.quantity, !.overridden = r.override]]
      /\ MayHold(o, got) /\ hold' = Held(o, got) /\ Answered(p)
  BY <1>1, <1>3, <1>5 DEF CommitApprove, MayApprove
<1>8. order[o] \in Order
  BY DEF WellFormed, TypeOK
<1>9. /\ order'[o].status = "APPROVED" /\ order'[o].dispatched = order[o].dispatched
      /\ order'[o].reserved = got /\ order'[o].backordered = r.quantity - got
      /\ order'[o].ordered = order[o].ordered /\ order'[o].granted = r.quantity
      /\ \A k \in Orders \ {o} : order'[k] = order[k]
  BY <1>7, <1>8 DEF WellFormed, TypeOK, Order
<1>10. /\ HoldsStand
       /\ got = 0 => hold' = hold
       /\ got > 0 => ActiveHolds(o)' = {Len(hold[o]) + 1}
                     /\ hold'[o][Len(hold[o]) + 1].quantity = got
       /\ \A k \in Orders \ {o} : hold'[k] = hold[k]
  BY <1>6, <1>7, HoldAdded
<1>11. \A k \in Orders \ {o} : Untouched(k)
  BY <1>9, <1>10, OtherOrdersUntouched
<1>12. ASSUME o \notin raced PROVE Agrees(o)'
  <2>1. order[o].status = "PENDING_APPROVAL" /\ Agrees(o) /\ r.quantity = order[o].ordered
    BY <1>1, <1>2, <1>3, <1>12 DEF OrderInv, ReadingsHold, StillSo
  <2>2. ActiveHolds(o) = {} /\ order[o].dispatched = Shipped(o) /\ order[o].dispatched = 0
    BY <2>1 DEF Agrees
  <2>3. HeldFor(o)' = got
    <3>1. CASE got = 0
      <4>1. ActiveHolds(o)' = {}
        BY <1>10, <2>2, <3>1 DEF ActiveHolds
      <4> QED
        BY <1>10, <3>1, <4>1, CountHeldAfter DEF HoldsStand
    <3>2. CASE got # 0
      BY <1>6, <1>10, <3>2, CountHeldAfter DEF HoldsStand
    <3> QED
      BY <3>1, <3>2
  <2>4. \A s \in Shipments : shipment'[s].order = o =>
            left'[s] = IF shipment'[s].status \in {"DISPATCHED", "DELIVERED"} THEN 1 ELSE 0
    BY <2>1, ShipmentsStand DEF Agrees
  <2>5. got + (r.quantity - got) = r.quantity /\ got = got - 0
    BY <1>6
  <2> QED
    BY <1>9, <2>1, <2>2, <2>3, <2>4, <2>5, ShipmentsStand DEF Agrees, Approved, Open, StockCommitted, Dead
<1> QED
  BY <1>1, <1>2, <1>3, <1>7, <1>11, <1>12, AnswerKeepsOrders, ShipmentsStand DEF OrderInv

(* reserveOutstanding() moves quantity from backordered to reserved.       *)
LEMMA ReserveKeepsOrders ==
    ASSUME WellFormed, WellFormed', OrderInv, NEW p \in Requests,
           CommitReserve(p), UNCHANGED shipmentVars
    PROVE  OrderInv'
<1>1. PICK r : r = request[p]
  OBVIOUS
<1>2. r \in AnyRequest /\ r.kind = "RESERVE" /\ Busy(p)
  BY <1>1, RequestsKnown DEF CommitReserve, Handling
<1>3. PICK o \in Orders : o = r.order
  BY <1>2, RequestOfKind
<1>4. r.quantity \in 1..MaxOrdered
  BY <1>2, RequestOfKind
<1>5. PICK got : got = Reservable(row, r.quantity)
  OBVIOUS
<1>6. got \in 0..r.quantity /\ got \in 0..MaxOrdered /\ r.quantity \in Int
  <2>1. got \in 0..r.quantity
    BY <1>4, <1>5, ReservableBounds
  <2>2. MaxOrdered \in Nat
    BY OrdersAssumption, MaxQuantityAssumption
  <2> QED
    BY <1>4, <2>1, <2>2
<1>7. /\ order' = IF got = 0 THEN order
                  ELSE [order EXCEPT ![o].reserved = r.reserved + got,
                                     ![o].backordered = r.quantity - got]
      /\ MayHold(o, got) /\ hold' = Held(o, got) /\ Answered(p)
  BY <1>1, <1>3, <1>5 DEF CommitReserve, MayReserve
<1>8. order[o] \in Order
  BY DEF WellFormed, TypeOK
<1>9. \A k \in Orders \ {o} : order'[k] = order[k]
  BY <1>7 DEF WellFormed, TypeOK
<1>10. /\ HoldsStand
       /\ got = 0 => hold' = hold
       /\ got > 0 => /\ ActiveHolds(o) = {} /\ ActiveHolds(o)' = {Len(hold[o]) + 1}
                     /\ hold'[o][Len(hold[o]) + 1].quantity = got
       /\ \A k \in Orders \ {o} : hold'[k] = hold[k]
  BY <1>6, <1>7, HoldAdded
<1>11. \A k \in Orders \ {o} : Untouched(k)
  BY <1>9, <1>10, OtherOrdersUntouched
<1>12. ASSUME o \notin raced PROVE Agrees(o)'
  <2>1. /\ order[o].status \in StockCommitted /\ Agrees(o)
        /\ r.reserved = order[o].reserved /\ r.quantity = order[o].backordered
    BY <1>1, <1>2, <1>3, <1>12 DEF OrderInv, ReadingsHold, StillSo
  <2>2. CASE got = 0
    <3>1. Untouched(o)
      BY <1>7, <1>10, <2>2 DEF Untouched, shipmentVars
    <3> QED
      BY <2>1, <3>1, UntouchedAgrees
  <2>3. CASE got # 0
    <3>1. got > 0
      BY <1>6, <2>3
    <3>2. /\ order'[o].status = order[o].status /\ order'[o].dispatched = order[o].dispatched
          /\ order'[o].reserved = order[o].reserved + got
          /\ order'[o].backordered = order[o].backordered - got
          /\ order'[o].ordered = order[o].ordered /\ order'[o].granted = order[o].granted
      BY <1>7, <1>8, <2>1, <2>3 DEF WellFormed, TypeOK, Order
    <3>3. HeldFor(o) = 0 /\ HeldFor(o)' = got
      BY <1>10, <3>1, CountHeld, CountHeldAfter DEF HoldsStand
    <3>4. /\ order[o].reserved \in Int /\ order[o].backordered \in Int /\ order[o].dispatched \in Int
          /\ order[o].ordered \in Int
      BY <1>8, OrdersAssumption DEF Order
    <3>5. /\ order[o].reserved + order[o].backordered = order[o].ordered
          /\ 0 = order[o].reserved - order[o].dispatched
          /\ order[o].granted = order[o].ordered /\ order[o].dispatched = Shipped(o)
          /\ order[o].status = "PARTIALLY_DISPATCHED"
                => order[o].dispatched > 0 /\ order[o].dispatched < order[o].ordered
          /\ order[o].status # "PARTIALLY_DISPATCHED" => order[o].dispatched = 0
      BY <2>1, <3>3 DEF Agrees, Approved, Open, StockCommitted
    <3>6. /\ order'[o].reserved + order'[o].backordered = order'[o].ordered
          /\ HeldFor(o)' = order'[o].reserved - order'[o].dispatched
      BY <1>6, <3>2, <3>3, <3>4, <3>5
    <3>7. \A s \in Shipments : shipment'[s].order = o =>
              left'[s] = IF shipment'[s].status \in {"DISPATCHED", "DELIVERED"} THEN 1 ELSE 0
      BY <2>1, ShipmentsStand DEF Agrees
    <3> QED
      BY <2>1, <3>2, <3>5, <3>6, <3>7, ShipmentsStand DEF Agrees, Approved, Open, StockCommitted, Dead
  <2> QED
    BY <2>2, <2>3
<1> QED
  BY <1>1, <1>2, <1>3, <1>7, <1>11, <1>12, AnswerKeepsOrders, ShipmentsStand DEF OrderInv

(* cancel() releases the order's only reservation.                         *)
LEMMA CancelKeepsOrders ==
    ASSUME WellFormed, WellFormed', OrderInv, NEW p \in Requests,
           CommitCancel(p), UNCHANGED shipmentVars
    PROVE  OrderInv'
<1>1. PICK r : r = request[p]
  OBVIOUS
<1>2. r \in AnyRequest /\ r.kind = "CANCEL" /\ Busy(p) /\ Fits(r) /\ r.searched
  BY <1>1, RequestsKnown DEF CommitCancel, Handling
<1>3. PICK o \in Orders : o = r.order
  BY <1>2, RequestOfKind
<1>4. /\ order' = IF r.releases
                  THEN [order EXCEPT ![o].status = "CANCELLED",
                                     ![o].reserved = 0, ![o].backordered = 0]
                  ELSE [order EXCEPT ![o].status = "CANCELLED"]
      /\ hold' = HoldReleased(r) /\ Answered(p)
  BY <1>1, <1>3 DEF CommitCancel
<1>5. order[o] \in Order
  BY DEF WellFormed, TypeOK
<1>6. /\ order'[o].status = "CANCELLED" /\ order'[o].dispatched = order[o].dispatched
      /\ \A k \in Orders \ {o} : order'[k] = order[k]
  BY <1>4, <1>5 DEF WellFormed, TypeOK, Order
<1>7. \A k \in Orders \ {o} : hold'[k] = hold[k]
  BY <1>2, <1>3, <1>4, HoldIsReleased DEF HoldReleased
<1>8. \A k \in Orders \ {o} : Untouched(k)
  BY <1>6, <1>7, OtherOrdersUntouched
<1>9. ASSUME o \notin raced PROVE Agrees(o)'
  <2>1. /\ order[o].status \in Cancellable /\ Agrees(o)
        /\ IF r.found = 0 THEN ActiveHolds(o) = {} ELSE r.found \in ActiveHolds(o)
    BY <1>1, <1>2, <1>3, <1>9 DEF OrderInv, ReadingsHold, StillSo
  <2>2. order[o].dispatched = Shipped(o) /\ order[o].dispatched = 0
    BY <2>1 DEF Agrees, Cancellable
  <2>3. ActiveHolds(o)' = {}
    <3>1. CASE r.found = 0
      <4>1. hold' = hold
        BY <1>4, <3>1 DEF HoldReleased
      <4> QED
        BY <2>1, <3>1, <4>1 DEF ActiveHolds
    <3>2. CASE r.found # 0
      <4>1. ActiveHolds(o)' = ActiveHolds(o) \ {r.found}
        BY <1>2, <1>3, <1>4, <3>2, HoldIsReleased
      <4> QED
        BY <2>1, <3>2, <4>1 DEF WellFormed, HoldsWellFormed
    <3> QED
      BY <3>1, <3>2
  <2>4. \A s \in Shipments : shipment'[s].order = o =>
            left'[s] = IF shipment'[s].status \in {"DISPATCHED", "DELIVERED"} THEN 1 ELSE 0
    BY <2>1, ShipmentsStand DEF Agrees
  <2> QED
    BY <1>6, <2>2, <2>3, <2>4, ShipmentsStand DEF Agrees, Approved, Open, StockCommitted, Dead
<1> QED
  BY <1>1, <1>2, <1>3, <1>4, <1>8, <1>9, AnswerKeepsOrders, ShipmentsStand DEF OrderInv

(* A commit that writes one shipment of one order.                         *)
LEMMA OneShipmentWritten ==
    ASSUME WellFormed, NEW s \in Shipments, NEW z \in Shipment, ShipmentWritten(s, z),
           NEW o \in Orders, o = shipment[s].order,
           \A k \in Orders \ {o} : order'[k] = order[k] /\ hold'[k] = hold[k],
           \A t \in Shipments \ {s} : left'[t] = left[t]
    PROVE  /\ \A k \in Orders \ {o} : Untouched(k)
           /\ shipment'[s] = z /\ \A t \in Shipments \ {s} : shipment'[t] = shipment[t]
           /\ Of(o)' = Of(o) \cup {s}
           /\ AllLanded(o, {})' <=> (z.status = "DELIVERED" /\ AllLanded(o, {s}))
<1>1. /\ shipment'[s] = z /\ z.order = o /\ z.status # "NONE"
      /\ \A t \in Shipments \ {s} : shipment'[t] = shipment[t]
  BY DEF ShipmentWritten, WellFormed, TypeOK
<1>2. \A k \in Orders \ {o} : Untouched(k)
  BY <1>1 DEF Untouched
<1>3. Of(o)' = Of(o) \cup {s}
  BY <1>1 DEF Of, Exists
<1>4. AllLanded(o, {})' <=> (z.status = "DELIVERED" /\ AllLanded(o, {s}))
  <2>1. AllLanded(o, {})' <=> \A t \in Of(o) \cup {s} : shipment'[t].status = "DELIVERED"
    BY <1>3 DEF AllLanded
  <2>2. \A t \in Of(o) : t \in Shipments
    BY DEF Of
  <2> QED
    BY <1>1, <2>1, <2>2 DEF AllLanded
<1> QED
  BY <1>1, <1>2, <1>3, <1>4

(* A new shipment has not left.                                            *)
LEMMA CreateKeepsOrders ==
    ASSUME WellFormed, WellFormed', OrderInv, NEW p \in Requests, CommitCreate(p)
    PROVE  OrderInv'
<1>1. PICK r : r = request[p]
  OBVIOUS
<1>2. r \in AnyRequest /\ r.kind = "CREATE" /\ Busy(p) /\ Fits(r)
  BY <1>1, RequestsKnown DEF CommitCreate, Handling
<1>3. r.quantity \in 1..MaxOrdered
  BY <1>2, RequestOfKind
<1>4. PICK s \in Shipments : s = r.shipment
  BY <1>2, RequestOfKind
<1>5. PICK o \in Orders : o = r.order /\ o = shipment[s].order
  BY <1>2, <1>4, RequestOfKind DEF Fits
<1>6. PICK z : z = [[shipment[s] EXCEPT !.status = "PENDING"] EXCEPT !.quantity = r.quantity]
  OBVIOUS
<1>7. shipment[s] \in Shipment /\ r.quantity \in 0..MaxOrdered
  BY <1>3 DEF WellFormed, TypeOK
<1>8. z \in Shipment /\ z.status = "PENDING" /\ z.quantity = r.quantity /\ z.order = o
  BY <1>5, <1>6, <1>7 DEF Shipment, ShipmentStatuses
<1>9. /\ shipment' = [shipment EXCEPT ![s] = z]
      /\ ~Exists(s) /\ Answered(p) /\ UNCHANGED <<row, order, hold, channel, left>>
  BY <1>1, <1>4, <1>6 DEF CommitCreate, WellFormed, TypeOK
<1>10. ShipmentWritten(s, z)
  BY <1>3, <1>5, <1>8, <1>9 DEF ShipmentWritten
<1>11. /\ \A k \in Orders \ {o} : Untouched(k)
       /\ shipment'[s] = z /\ \A t \in Shipments \ {s} : shipment'[t] = shipment[t]
       /\ Of(o)' = Of(o) \cup {s}
  BY <1>5, <1>8, <1>9, <1>10, OneShipmentWritten
<1>12. ASSUME o \notin raced PROVE Agrees(o)'
  <2>1. order[o].status \in StockCommitted /\ Agrees(o)
    BY <1>1, <1>2, <1>5, <1>12 DEF OrderInv, ReadingsHold, StillSo
  <2>2. Shipped(o)' = Shipped(o)
    BY <1>8, <1>9, <1>10, NothingLeaves
  <2>3. left[s] = 0
    BY <1>9 DEF WellFormed, ShipmentsFit
  <2>4. \A t \in Shipments : shipment'[t].order = o =>
            left'[t] = IF shipment'[t].status \in {"DISPATCHED", "DELIVERED"} THEN 1 ELSE 0
    BY <1>8, <1>9, <1>11, <2>1, <2>3 DEF Agrees
  <2>5. ActiveHolds(o)' = ActiveHolds(o) /\ HeldFor(o)' = HeldFor(o) /\ order' = order
    BY <1>9 DEF ActiveHolds, HeldFor
  <2> QED
    BY <2>1, <2>2, <2>4, <2>5 DEF Agrees, Approved, StockCommitted, Dead
<1> QED
  BY <1>1, <1>2, <1>5, <1>9, <1>11, <1>12, AnswerKeepsOrders DEF OrderInv

(* pack() finds a PENDING shipment, which has not left.                    *)
LEMMA PackKeepsOrders ==
    ASSUME WellFormed, WellFormed', OrderInv, NEW p \in Requests, CommitPack(p)
    PROVE  OrderInv'
<1>1. PICK r : r = request[p]
  OBVIOUS
<1>2. r \in AnyRequest /\ r.kind = "PACK" /\ Busy(p) /\ Fits(r)
  BY <1>1, RequestsKnown DEF CommitPack, Handling
<1>3. PICK s \in Shipments : s = r.shipment /\ Exists(s)
  BY <1>2, RequestOfKind DEF Fits
<1>4. PICK o \in Orders : o = r.order /\ o = shipment[s].order
  BY <1>2, <1>3, RequestOfKind DEF Fits
<1>5. PICK z : z = [shipment[s] EXCEPT !.status = "PACKED"]
  OBVIOUS
<1>6. shipment[s] \in Shipment /\ shipment[s].quantity > 0
  BY <1>3 DEF WellFormed, TypeOK, ShipmentsFit
<1>7. z \in Shipment /\ z.status = "PACKED" /\ z.quantity = shipment[s].quantity /\ z.order = o
  BY <1>4, <1>5, <1>6 DEF Shipment, ShipmentStatuses
<1>8. /\ shipment' = [shipment EXCEPT ![s] = z]
      /\ Answered(p) /\ UNCHANGED <<row, order, hold, channel, left>>
  BY <1>1, <1>3, <1>5 DEF CommitPack, WellFormed, TypeOK
<1>9. ShipmentWritten(s, z)
  BY <1>4, <1>6, <1>7, <1>8 DEF ShipmentWritten
<1>10. /\ \A k \in Orders \ {o} : Untouched(k)
       /\ shipment'[s] = z /\ \A t \in Shipments \ {s} : shipment'[t] = shipment[t]
       /\ Of(o)' = Of(o) \cup {s}
       /\ AllLanded(o, {})' <=> (z.status = "DELIVERED" /\ AllLanded(o, {s}))
  BY <1>4, <1>7, <1>8, <1>9, OneShipmentWritten
<1>11. ASSUME o \notin raced PROVE Agrees(o)'
  <2>1. shipment[s].status = "PENDING" /\ Agrees(o)
    BY <1>1, <1>2, <1>3, <1>4, <1>11 DEF OrderInv, ReadingsHold, StillSo
  <2>2. s \in Of(o) /\ ~AllLanded(o, {})
    BY <1>3, <1>4, <2>1 DEF Of, AllLanded
  <2>3. ~AllLanded(o, {})' /\ Of(o)' = Of(o)
    BY <1>7, <1>10, <2>2
  <2>4. Shipped(o)' = Shipped(o)
    BY <1>7, <1>8, <1>9, NothingLeaves
  <2>5. \A t \in Shipments : shipment'[t].order = o =>
            left'[t] = IF shipment'[t].status \in {"DISPATCHED", "DELIVERED"} THEN 1 ELSE 0
    BY <1>4, <1>7, <1>8, <1>10, <2>1 DEF Agrees
  <2>6. ActiveHolds(o)' = ActiveHolds(o) /\ HeldFor(o)' = HeldFor(o) /\ order' = order
    BY <1>8 DEF ActiveHolds, HeldFor
  <2>7. Approved(o)' = Approved(o)
    BY <2>6 DEF Approved
  <2> QED
    BY <2>1, <2>2, <2>3, <2>4, <2>5, <2>6, <2>7 DEF Agrees
<1> QED
  BY <1>1, <1>2, <1>4, <1>8, <1>10, <1>11, AnswerKeepsOrders DEF OrderInv

(* deliver() marks the order when the last of its shipments lands.         *)
LEMMA DeliverKeepsOrders ==
    ASSUME WellFormed, WellFormed', OrderInv, NEW p \in Requests, CommitDeliver(p)
    PROVE  OrderInv'
<1>1. PICK r : r = request[p]
  OBVIOUS
<1>2. r \in AnyRequest /\ r.kind = "DELIVER" /\ Busy(p) /\ Fits(r) /\ r.searched
  BY <1>1, RequestsKnown DEF CommitDeliver, Handling
<1>3. PICK s \in Shipments : s = r.shipment /\ Exists(s)
  BY <1>2, RequestOfKind DEF Fits
<1>4. PICK o \in Orders : o = r.order /\ o = shipment[s].order
  BY <1>2, <1>3, RequestOfKind DEF Fits
<1>5. PICK z : z = [shipment[s] EXCEPT !.status = "DELIVERED"]
  OBVIOUS
<1>6. shipment[s] \in Shipment /\ shipment[s].quantity > 0
  BY <1>3 DEF WellFormed, TypeOK, ShipmentsFit
<1>7. z \in Shipment /\ z.status = "DELIVERED" /\ z.quantity = shipment[s].quantity /\ z.order = o
  BY <1>4, <1>5, <1>6 DEF Shipment, ShipmentStatuses
<1>8. /\ shipment' = [shipment EXCEPT ![s] = z]
      /\ Answered(p) /\ UNCHANGED <<row, hold, channel, left>>
      /\ order' = IF r.landed /\ order[o].status = "DISPATCHED"
                  THEN [order EXCEPT ![o].status = "DELIVERED"] ELSE order
  BY <1>1, <1>3, <1>4, <1>5 DEF CommitDeliver, WellFormed, TypeOK
<1>9. ShipmentWritten(s, z)
  BY <1>4, <1>6, <1>7, <1>8 DEF ShipmentWritten
<1>10. order[o] \in Order /\ \A k \in Orders \ {o} : order'[k] = order[k]
  BY <1>8 DEF WellFormed, TypeOK
<1>11. /\ \A k \in Orders \ {o} : Untouched(k)
       /\ shipment'[s] = z /\ \A t \in Shipments \ {s} : shipment'[t] = shipment[t]
       /\ Of(o)' = Of(o) \cup {s}
       /\ AllLanded(o, {})' <=> (z.status = "DELIVERED" /\ AllLanded(o, {s}))
  BY <1>4, <1>7, <1>8, <1>9, <1>10, OneShipmentWritten
<1>12. ASSUME o \notin raced PROVE Agrees(o)'
  <2>1. shipment[s].status = "DISPATCHED" /\ Agrees(o) /\ (r.landed <=> AllLanded(o, {s}))
    BY <1>1, <1>2, <1>3, <1>4, <1>12 DEF OrderInv, ReadingsHold, StillSo
  <2>2. s \in Of(o) /\ ~AllLanded(o, {})
    BY <1>3, <1>4, <2>1 DEF Of, AllLanded
  <2>3. (AllLanded(o, {})' <=> r.landed) /\ Of(o)' = Of(o)
    BY <1>7, <1>11, <2>1, <2>2
  <2>4. Shipped(o)' = Shipped(o)
    BY <1>7, <1>8, <1>9, NothingLeaves
  <2>5. \A t \in Shipments : shipment'[t].order = o =>
            left'[t] = IF shipment'[t].status \in {"DISPATCHED", "DELIVERED"} THEN 1 ELSE 0
    BY <1>4, <1>7, <1>8, <1>11, <2>1 DEF Agrees
  <2>6. ActiveHolds(o)' = ActiveHolds(o) /\ HeldFor(o)' = HeldFor(o)
    BY <1>8 DEF ActiveHolds, HeldFor
  <2>7. order[o].status # "DELIVERED"
    BY <2>1, <2>2 DEF Agrees
  <2>8. CASE r.landed /\ order[o].status = "DISPATCHED"
    <3>1. /\ order'[o].status = "DELIVERED" /\ order'[o].dispatched = order[o].dispatched
          /\ order'[o].ordered = order[o].ordered /\ order'[o].reserved = order[o].reserved
          /\ order'[o].backordered = order[o].backordered /\ order'[o].granted = order[o].granted
      BY <1>8, <1>10, <2>8 DEF WellFormed, TypeOK, Order
    <3>2. Approved(o) /\ Approved(o)'
      BY <2>8, <3>1 DEF Approved, Open
    <3> QED
      BY <2>1, <2>3, <2>4, <2>5, <2>6, <2>8, <3>1, <3>2 DEF Agrees, Dead
  <2>9. CASE ~(r.landed /\ order[o].status = "DISPATCHED")
    <3>1. order'[o] = order[o] /\ Approved(o)' = Approved(o)
      BY <1>8, <2>9 DEF Approved
    <3> QED
      BY <2>1, <2>3, <2>4, <2>5, <2>6, <2>7, <2>9, <3>1 DEF Agrees
  <2> QED
    BY <2>8, <2>9
<1> QED
  BY <1>1, <1>2, <1>4, <1>8, <1>11, <1>12, AnswerKeepsOrders DEF OrderInv

(* dispatch() moves quantity from held to dispatched, once.                *)
LEMMA DispatchKeepsOrders ==
    ASSUME WellFormed, WellFormed', OrderInv, NEW p \in Requests, CommitDispatch(p)
    PROVE  OrderInv'
<1>1. PICK r \in AnyRequest, o \in Orders, s \in Shipments, q \in 1..MaxOrdered,
           z \in Shipment, y \in Order : Dispatches(p, r, o, s, q, z, y)
  BY DispatchWrites
<1>2. /\ r = request[p] /\ r.kind = "DISPATCH" /\ Fits(r) /\ r.found # 0
      /\ o = r.order /\ s = r.shipment /\ q = shipment[s].quantity
      /\ shipment[s].order = o /\ Exists(s) /\ z.status = "DISPATCHED"
      /\ y = [[order[o] EXCEPT !.dispatched = r.dispatched + q]
                  EXCEPT !.status = FulfilmentStatus(order[o].ordered, r.dispatched + q)]
      /\ order' = [order EXCEPT ![o] = y] /\ ShipmentWritten(s, z)
      /\ left'[s] = left[s] + 1 /\ \A t \in Shipments \ {s} : left'[t] = left[t]
      /\ Draws(r, q) /\ SerialsNew(s) /\ Answered(p) /\ Busy(p)
  BY <1>1 DEF Dispatches
<1>3. Shipped(o)' = Shipped(o) + q
  BY <1>1 DEF Dispatches
<1>4. order[o] \in Order /\ left[s] \in Nat
  BY DEF WellFormed, TypeOK
<1>5. /\ order'[o] = y /\ \A k \in Orders \ {o} : order'[k] = order[k]
      /\ y.dispatched = r.dispatched + q
      /\ y.status = FulfilmentStatus(order[o].ordered, r.dispatched + q)
      /\ y.ordered = order[o].ordered /\ y.reserved = order[o].reserved
      /\ y.backordered = order[o].backordered /\ y.granted = order[o].granted
  BY <1>2, <1>4 DEF WellFormed, TypeOK, Order
<1>6. /\ q <= r.seen
      /\ hold'[o][r.found].quantity = r.seen - q
      /\ r.found \in ActiveHolds(o) /\ r.seen # q => ActiveHolds(o)' = ActiveHolds(o)
      /\ r.found \notin ActiveHolds(o) \/ r.seen = q => ActiveHolds(o)' = ActiveHolds(o) \ {r.found}
      /\ HoldsStand /\ \A k \in Orders \ {o} : hold'[k] = hold[k]
  <2>1. r.kind = "DISPATCH" /\ Fits(r) /\ r.found # 0 /\ q = shipment[r.shipment].quantity /\ Draws(r, q)
    BY <1>2
  <2>2. o = r.order
    BY <1>2
  <2> QED
    BY <2>1, <2>2, HoldIsDrawn
<1>7. /\ \A k \in Orders \ {o} : Untouched(k)
      /\ shipment'[s] = z /\ \A t \in Shipments \ {s} : shipment'[t] = shipment[t]
      /\ Of(o)' = Of(o) \cup {s}
      /\ AllLanded(o, {})' <=> (z.status = "DELIVERED" /\ AllLanded(o, {s}))
  <2>1. ShipmentWritten(s, z) /\ o = shipment[s].order /\ \A t \in Shipments \ {s} : left'[t] = left[t]
    BY <1>2
  <2>2. \A k \in Orders \ {o} : order'[k] = order[k] /\ hold'[k] = hold[k]
    BY <1>5, <1>6
  <2> QED
    BY <2>1, <2>2, OneShipmentWritten
<1>8. ASSUME o \notin raced PROVE Agrees(o)'
  <2>1. /\ shipment[s].status = "PACKED" /\ r.dispatched = order[o].dispatched
        /\ r.found \in ActiveHolds(o) /\ r.seen = hold[o][r.found].quantity /\ Agrees(o)
    BY <1>2, <1>8 DEF OrderInv, ReadingsHold, StillSo
  <2>2. Approved(o)
    <3>1. order[o].status \notin Dead \cup {"DRAFT", "PENDING_APPROVAL"}
      BY <2>1 DEF Agrees
    <3> QED
      BY <1>4, <3>1 DEF Approved, Order, OrderStatuses, Open, StockCommitted, Dead
  <2>3. /\ order[o].dispatched = Shipped(o) /\ order[o].granted = order[o].ordered
        /\ order[o].reserved + order[o].backordered = order[o].ordered
        /\ HeldFor(o) = order[o].reserved - order[o].dispatched /\ HeldFor(o) = r.seen
    BY <2>1, <2>2, CountHeld DEF Agrees
  <2>4. /\ order[o].reserved \in Int /\ order[o].dispatched \in Nat /\ order[o].ordered \in Int
        /\ q \in Int /\ q > 0 /\ r.seen \in Int
    BY <1>4, <2>3, OrdersAssumption, MaxQuantityAssumption DEF Order
  <2>5. HeldFor(o)' = r.seen - q
    <3>1. CASE r.seen = q
      <4>1. ActiveHolds(o)' = {}
        BY <1>6, <2>1, <3>1 DEF WellFormed, HoldsWellFormed
      <4> QED
        BY <1>6, <2>4, <3>1, <4>1, CountHeldAfter DEF HoldsStand
    <3>2. CASE r.seen # q
      <4>1. r.found \in ActiveHolds(o)'
        BY <1>6, <2>1, <3>2
      <4> QED
        BY <1>6, <4>1, CountHeldAfter DEF HoldsStand
    <3> QED
      BY <3>1, <3>2
  <2>6. /\ order'[o].dispatched = Shipped(o)' /\ order'[o].dispatched > 0
        /\ HeldFor(o)' = order'[o].reserved - order'[o].dispatched
    BY <1>3, <1>5, <2>1, <2>3, <2>4, <2>5
  <2>7. /\ order'[o].status = IF order'[o].dispatched >= order'[o].ordered THEN "DISPATCHED"
                              ELSE "PARTIALLY_DISPATCHED"
        /\ order'[o].dispatched \in Int /\ order'[o].ordered \in Int
    BY <1>5, <2>1, <2>4, <2>6 DEF FulfilmentStatus
  <2>8. ~AllLanded(o, {})'
    BY <1>2, <1>7
  <2>9. left[s] = 0
    BY <1>2, <2>1 DEF Agrees
  <2>10. \A t \in Shipments : shipment'[t].order = o =>
             left'[t] = IF shipment'[t].status \in {"DISPATCHED", "DELIVERED"} THEN 1 ELSE 0
    <3>1. \A t \in Shipments : shipment[t].order = o =>
              left[t] = IF shipment[t].status \in {"DISPATCHED", "DELIVERED"} THEN 1 ELSE 0
      BY <2>1 DEF Agrees
    <3>2. \A t \in Shipments : t # s => left'[t] = left[t] /\ shipment'[t] = shipment[t]
      BY <1>2, <1>7
    <3>3. shipment'[s].status = "DISPATCHED" /\ left'[s] = 1
      <4>1. shipment'[s] = z
        BY <1>7
      <4>2. z.status = "DISPATCHED" /\ left'[s] = left[s] + 1
        BY <1>2
      <4> QED
        BY <2>9, <4>1, <4>2
    <3> QED
      BY <3>1, <3>2, <3>3
  <2>11. /\ order'[o].reserved + order'[o].backordered = order'[o].ordered
         /\ order'[o].granted = order'[o].ordered
    BY <1>5, <2>3
  <2> QED
    BY <2>6, <2>7, <2>8, <2>10, <2>11 DEF Agrees, Dead
<1>9. \A t \in Serialised : left'[t] <= 1
  <2>1. \A t \in Serialised : t \in Shipments
    BY ShipmentsAssumption
  <2> QED
    <3>1. SerialsNew(s) /\ left'[s] = left[s] + 1 /\ \A t \in Shipments \ {s} : left'[t] = left[t]
      BY <1>2
    <3>2. \A t \in Serialised : left[t] <= 1
      BY DEF OrderInv
    <3> QED
      BY <2>1, <3>1, <3>2 DEF SerialsNew
<1> QED
  BY <1>2, <1>7, <1>8, <1>9, AnswerKeepsOrders

(* A rollback touches nothing.                                             *)
LEMMA FailKeepsOrders ==
    ASSUME WellFormed, WellFormed', OrderInv, NEW p \in Requests, Fail(p), UNCHANGED shipmentVars
    PROVE  OrderInv'
<1>1. /\ Busy(p) /\ Answered(p) /\ order' = order /\ hold' = hold
      /\ shipment' = shipment /\ left' = left
  BY DEF Fail, RolledBack, shipmentVars
<1>2. PICK o : o = request[p].order
  OBVIOUS
<1>3. o \in Orders
  BY <1>1, <1>2, RequestsKnown, RequestOfKind
<1>4. \A k \in Orders : Untouched(k)
  BY <1>1 DEF Untouched
<1>5. o \notin raced => Agrees(o)'
  BY <1>3, <1>4, UntouchedAgrees DEF OrderInv
<1>6. \A s \in Serialised : left'[s] <= 1
  BY <1>1 DEF OrderInv
<1> QED
  BY <1>1, <1>2, <1>3, <1>4, <1>5, <1>6, AnswerKeepsOrders

(* The orders agree at first ...                                           *)
LEMMA InitOrdersAgree == Init => OrderInv
<1> SUFFICES ASSUME Init PROVE OrderInv
  OBVIOUS
<1>1. /\ order \in [Orders -> {NewOrder(q) : q \in 1..MaxOrdered}]
      /\ hold = [o \in Orders |-> <<>>]
      /\ request = [p \in Requests |-> NoRequest] /\ raced = {}
      /\ shipment \in [Shipments -> [status : {"NONE"}, order : Orders, quantity : {0}]]
      /\ left = [s \in Shipments |-> 0]
  BY DEF Init, OrdersInit
<1>2. OneAtATime /\ ReadingsHold
  BY <1>1 DEF OneAtATime, ReadingsHold, Busy
<1>3. \A s \in Serialised : left[s] <= 1
  BY <1>1, ShipmentsAssumption
<1>4. ASSUME NEW o \in Orders PROVE Agrees(o)
  <2>1. order[o].status = "DRAFT" /\ order[o].dispatched = 0
    <3>1. PICK q \in 1..MaxOrdered : order[o] = NewOrder(q)
      BY <1>1
    <3> QED
      BY <3>1 DEF NewOrder
  <2>2. Of(o) = {} /\ ActiveHolds(o) = {}
    BY <1>1 DEF Of, Exists, ActiveHolds
  <2>3. Shipped(o) = 0
    <3> DEFINE f == [s \in Of(o) |-> left[s] * shipment[s].quantity]
    <3>1. DOMAIN f = {}
      BY <2>2
    <3> HIDE DEF f
    <3>2. SumFunction(f) = SumFunctionOnSet(f, {})
      BY <3>1 DEF SumFunction, SumFunctionOnSet, FoldFunction
    <3>3. SumFunction(f) = 0
      BY <3>2, SumOfNone
    <3> QED
      BY <3>3 DEF Shipped, f
  <2>4. \A s \in Shipments : left[s] = 0 /\ shipment[s].status = "NONE"
    BY <1>1
  <2> QED
    BY <2>1, <2>2, <2>3, <2>4 DEF Agrees, Approved, Open, StockCommitted, Dead
<1> QED
  BY <1>2, <1>3, <1>4 DEF OrderInv

(* ... and after every step.                                               *)
LEMMA StepKeepsOrders == WellFormed /\ OrderInv /\ [Next]_vars => OrderInv'
<1> SUFFICES ASSUME WellFormed, OrderInv, [Next]_vars PROVE OrderInv'
  OBVIOUS
<1>0. WellFormed'
  BY StepKeepsWellFormed
<1>1. ASSUME NEW p \in Requests, OrderStep(p) PROVE OrderInv'
  <2>1. UNCHANGED shipmentVars
    BY <1>1 DEF OrderStep
  <2>2. ASSUME NEW o \in Orders, OrderLoad(p, o) PROVE OrderInv'
    BY <1>0, <2>1, <2>2, OrderLoadReads, ReadingKeepsOrders
  <2>3. CASE OrderCommit(p, Referenced)
    <3>1. CASE CommitUpdate(p, Referenced)
      BY <1>0, <2>1, <3>1, UpdateKeepsOrders
    <3>2. CASE CommitStatus(p, "SUBMIT", "PENDING_APPROVAL")
      BY <1>0, <2>1, <3>2, StatusKeepsOrders
    <3>3. CASE CommitStatus(p, "REJECT", "REJECTED")
      BY <1>0, <2>1, <3>3, StatusKeepsOrders
    <3>4. CASE CommitApprove(p)
      BY <1>0, <2>1, <3>4, ApproveKeepsOrders
    <3>5. CASE CommitReserve(p)
      BY <1>0, <2>1, <3>5, ReserveKeepsOrders
    <3>6. CASE FindHold(p)
      BY <1>0, <2>1, <3>6, FindHoldFinds, FindingKeepsOrders
    <3>7. CASE CommitCancel(p)
      BY <1>0, <2>1, <3>7, CancelKeepsOrders
    <3> QED
      BY <2>3, <3>1, <3>2, <3>3, <3>4, <3>5, <3>6, <3>7 DEF OrderCommit
  <2>4. CASE Fail(p)
    BY <1>0, <2>1, <2>4, FailKeepsOrders
  <2> QED
    BY <1>1, <2>2, <2>3, <2>4 DEF OrderStep
<1>2. ASSUME NEW p \in Requests, ShipmentStep(p) PROVE OrderInv'
  BY <1>0, <1>2, ShipmentLoadReads, ReadingKeepsOrders, CreateKeepsOrders, PackKeepsOrders,
     FindForDispatchFinds, CountSiblingsFinds, FindingKeepsOrders, DispatchKeepsOrders,
     DeliverKeepsOrders DEF ShipmentStep, ShipmentCommit
<1>3. CASE GoodsReceipt
  BY <1>0, <1>3, QuietKeepsOrders DEF GoodsReceipt, Receive, shipmentVars
<1>4. CASE UNCHANGED vars
  BY <1>0, <1>4, QuietKeepsOrders DEF vars
<1> QED
  BY <1>1, <1>2, <1>3, <1>4 DEF Next

(* The invariant behind the agreement of an order's rows.                  *)
LEMMA OrdersInvariant == Spec => [](WellFormed /\ OrderInv)
<1>1. WellFormed /\ OrderInv /\ [Next]_vars => WellFormed' /\ OrderInv'
  BY StepKeepsWellFormed, StepKeepsOrders
<1>2. Init => WellFormed /\ OrderInv
  BY InitIsWellFormed, InitOrdersAgree
<1> QED
  BY <1>1, <1>2, PTL DEF Spec

(* Unless two requests were at once at work on an order, its header, its   *)
(* line, its reservation, its shipments and its approval agree.            *)
THEOREM OrdersAgree == Spec => []OrdersConsistent
<1>1. WellFormed /\ OrderInv => OrdersConsistent
  <2> SUFFICES ASSUME WellFormed, OrderInv PROVE OrdersConsistent
    OBVIOUS
  <2>1. \A o \in Orders \ raced : Agrees(o)
    BY DEF OrderInv
  <2>2. DeadOrdersHoldNothing
    BY <2>1 DEF DeadOrdersHoldNothing, Agrees
  <2>3. LineAddsUp /\ ApprovalCoversTheFigures
    BY <2>1 DEF LineAddsUp, ApprovalCoversTheFigures, Agrees
  <2>4. HeaderFollowsLine
    <3> SUFFICES ASSUME NEW o \in Orders \ raced
                 PROVE  LET done == order[o].dispatched >= order[o].ordered
                            some == order[o].dispatched > 0
                            landed == \A s \in Of(o) : shipment[s].status = "DELIVERED" IN
                        CASE order[o].status = "DISPATCHED" -> done /\ ~landed
                          [] order[o].status = "DELIVERED" -> done /\ landed
                          [] order[o].status = "PARTIALLY_DISPATCHED" -> some /\ ~done
                          [] OTHER -> ~some
      BY DEF HeaderFollowsLine
    <3>1. /\ order[o].dispatched \in Int /\ order[o].ordered \in Int
          /\ AllLanded(o, {}) <=> \A s \in Of(o) : shipment[s].status = "DELIVERED"
      BY DEF WellFormed, TypeOK, Order, AllLanded
    <3>2. Agrees(o)
      BY <2>1
    <3> QED
      BY <3>1, <3>2 DEF Agrees
  <2> QED
    BY <2>2, <2>3, <2>4 DEF OrdersConsistent, WellFormed
<1> QED
  BY <1>1, OrdersInvariant, PTL

(* A shipment leaves at most once unless its order was raced on, and       *)
(* whatever races if its goods carry serial numbers.                       *)
THEOREM GoodsLeaveOnce == Spec => []LeavesOnce
<1>1. WellFormed /\ OrderInv => LeavesOnce
  BY DEF LeavesOnce, OrderInv, Agrees, WellFormed, TypeOK, Shipment
<1> QED
  BY <1>1, OrdersInvariant, PTL

-----------------------------------------------------------------------------

(* Trust is a number.                                                      *)
LEMMA TrustIsInt ==
    ASSUME NEW book \in [Orders -> Order], NEW x
    PROVE  Trust(book, x) \in Int /\ \A o \in Orders : TrustedIn(book, x)[o] \in Int
<1> DEFINE f == TrustedIn(book, x)
<1>1. \A o \in Orders : f[o] \in Int
  BY DEF TrustedIn, Order
<1> HIDE DEF f
<1>2. SumFunctionOnSet(f, Orders) \in Int
  BY <1>1, SumIsInt, OrdersAssumption
<1> QED
  BY <1>1, <1>2 DEF f, Trust

(* It grows with what each order is trusted with.                          *)
LEMMA TrustIsMonotone ==
    ASSUME NEW book \in [Orders -> Order], NEW x, NEW book2 \in [Orders -> Order], NEW x2,
           \A o \in Orders : TrustedIn(book2, x2)[o] <= TrustedIn(book, x)[o]
    PROVE  Trust(book2, x2) <= Trust(book, x)
<1> DEFINE f == TrustedIn(book2, x2)
           g == TrustedIn(book, x)
<1>1. \A o \in Orders : f[o] \in Int /\ g[o] \in Int /\ f[o] <= g[o]
  BY TrustIsInt
<1> HIDE DEF f, g
<1>2. SumFunctionOnSet(f, Orders) <= SumFunctionOnSet(g, Orders)
  BY <1>1, SumIsMonotone, OrdersAssumption
<1> QED
  BY <1>2 DEF f, g, Trust

(* What checkCredit() adds up counts every order that is trusted.          *)
LEMMA ExposureIsSum ==
    ASSUME WellFormed, NEW x
    PROVE  \E g : /\ \A o \in Orders : g[o] = IF o # x /\ order[o].status \in Open
                                              THEN order[o].ordered ELSE 0
                  /\ Exposure(x) = SumFunctionOnSet(g, Orders)
                  /\ \A o \in Orders : g[o] \in Int
<1> DEFINE others == {o \in Orders \ {x} : order[o].status \in Open}
           f == [o \in others |-> order[o].ordered]
           g == [o \in Orders |-> IF o \in others THEN order[o].ordered ELSE 0]
<1>1. DOMAIN f = others /\ others \in SUBSET Orders
  OBVIOUS
<1>2. /\ \A o \in others : f[o] \in Int
      /\ \A o \in Orders : g[o] = IF o \in others THEN f[o] ELSE 0
      /\ \A o \in Orders : g[o] \in Int
  BY OrdersAssumption DEF WellFormed, TypeOK, Order
<1>3. \A o \in Orders : g[o] = IF o # x /\ order[o].status \in Open THEN order[o].ordered ELSE 0
  OBVIOUS
<1>4. Exposure(x) = SumFunction(f)
  BY DEF Exposure
<1> HIDE DEF others, f, g
<1>5. SumFunctionOnSet(f, others) = SumFunctionOnSet(g, Orders)
  BY <1>1, <1>2, SumOfSupport, OrdersAssumption
<1>6. SumFunction(f) = SumFunctionOnSet(f, others)
  BY <1>1 DEF SumFunction, SumFunctionOnSet, FoldFunction
<1> QED
  BY <1>2, <1>3, <1>4, <1>5, <1>6

(* ... and is the trust itself if no breach was forgiven.                  *)
LEMMA ExposureCoversTrust ==
    ASSUME WellFormed, NEW x
    PROVE  /\ Trust(order, x) <= Exposure(x)
           /\ (\A o \in Orders : order[o].status \in Open => ~order[o].overridden)
                  => Exposure(x) = Trust(order, x)
<1>1. PICK g : /\ \A o \in Orders : g[o] = IF o # x /\ order[o].status \in Open
                                          THEN order[o].ordered ELSE 0
               /\ Exposure(x) = SumFunctionOnSet(g, Orders)
               /\ \A o \in Orders : g[o] \in Int
  BY ExposureIsSum
<1>2. order \in [Orders -> Order]
  BY DEF WellFormed, TypeOK
<1> DEFINE f == TrustedIn(order, x)
<1>3. \A o \in Orders : f[o] \in Int /\ f[o] <= g[o]
  <2> TAKE o \in Orders
  <2>1. order[o].ordered \in 1..MaxOrdered
    BY <1>2 DEF Order
  <2> QED
    BY <1>1, <1>2, <2>1, OrdersAssumption DEF TrustedIn
<1>4. (\A o \in Orders : order[o].status \in Open => ~order[o].overridden)
          => \A o \in Orders : f[o] = g[o]
  BY <1>1 DEF TrustedIn
<1> HIDE DEF f
<1>5. SumFunctionOnSet(f, Orders) <= SumFunctionOnSet(g, Orders)
  BY <1>1, <1>3, SumIsMonotone, OrdersAssumption
<1>6. (\A o \in Orders : f[o] = g[o]) => SumFunctionOnSet(f, Orders) = SumFunctionOnSet(g, Orders)
  BY SumCongruent, OrdersAssumption
<1> QED
  BY <1>1, <1>4, <1>5, <1>6 DEF f, Trust

(* A step that trusts no order with more than it was.                      *)
NothingTrusted ==
    \A o \in Orders : order'[o].status \in Open /\ ~order'[o].overridden =>
        /\ order[o].status \in Open /\ ~order[o].overridden
        /\ order'[o].ordered <= order[o].ordered

(* Then the trust does not grow ...                                        *)
LEMMA TrustOnlyShrinks ==
    ASSUME WellFormed, WellFormed', NothingTrusted, NEW x
    PROVE  /\ Trust(order', x) <= Trust(order, x)
           /\ Trust(order', x) \in Int /\ Trust(order, x) \in Int
<1>1. order \in [Orders -> Order] /\ order' \in [Orders -> Order]
  BY DEF WellFormed, TypeOK
<1>2. ASSUME NEW o \in Orders PROVE TrustedIn(order', x)[o] <= TrustedIn(order, x)[o]
  <2>1. order[o].ordered \in 1..MaxOrdered /\ order'[o].ordered \in 1..MaxOrdered
    BY <1>1 DEF Order
  <2> QED
    BY <2>1, OrdersAssumption DEF TrustedIn, NothingTrusted
<1> QED
  BY <1>1, <1>2, TrustIsMonotone, TrustIsInt

(* ... and the invariant stays, if no approval is under way that was not   *)
(* before.                                                                 *)
LEMMA CreditStays ==
    ASSUME WellFormed, WellFormed', CreditInv, raced' = raced, crossed' = crossed,
           raced = {} => NothingTrusted,
           \A q \in Requests : request'[q] # NoRequest /\ request'[q].kind = "APPROVE"
               => request'[q] = request[q]
    PROVE  CreditInv'
<1> SUFFICES ASSUME raced = {}, ~crossed
             PROVE  /\ Trust(order', NoRequest) <= CreditLimit
                    /\ \A p \in Requests : Handling(p, "APPROVE")' /\ ~request'[p].override =>
                           Trust(order', request'[p].order) + request'[p].quantity <= CreditLimit
                    /\ \A p, q \in Requests : Handling(p, "APPROVE")' /\ Handling(q, "APPROVE")'
                           => request'[p].order = request'[q].order
  BY DEF CreditInv, TrustedIn, Trust
<1>1. /\ Trust(order, NoRequest) <= CreditLimit
      /\ \A p \in Requests : Handling(p, "APPROVE") /\ ~request[p].override =>
             Trust(order, request[p].order) + request[p].quantity <= CreditLimit
      /\ \A p, q \in Requests : Handling(p, "APPROVE") /\ Handling(q, "APPROVE")
             => request[p].order = request[q].order
  BY DEF CreditInv
<1>2. \A p \in Requests : Handling(p, "APPROVE")' => request'[p] = request[p] /\ Handling(p, "APPROVE")
  BY DEF Handling, Busy
<1>3. Trust(order', NoRequest) <= CreditLimit
  BY <1>1, TrustOnlyShrinks, OrdersAssumption
<1>4. ASSUME NEW p \in Requests, Handling(p, "APPROVE")', ~request'[p].override
      PROVE  Trust(order', request'[p].order) + request'[p].quantity <= CreditLimit
  <2>1. PICK r : r = request[p]
    OBVIOUS
  <2>2. request'[p] = r /\ Handling(p, "APPROVE") /\ ~r.override /\ r.kind = "APPROVE"
    BY <1>2, <1>4, <2>1 DEF Handling
  <2>3. r.quantity \in 1..MaxOrdered
    BY <2>1, <2>2, RequestsKnown, RequestOfKind DEF Handling
  <2>4. Trust(order, r.order) + r.quantity <= CreditLimit
    BY <1>1, <2>1, <2>2
  <2>5. PICK x : x = r.order
    OBVIOUS
  <2>6. /\ Trust(order', x) <= Trust(order, x)
        /\ Trust(order', x) \in Int /\ Trust(order, x) \in Int
    BY TrustOnlyShrinks
  <2> QED
    BY <2>2, <2>3, <2>4, <2>5, <2>6, OrdersAssumption
<1> QED
  BY <1>1, <1>2, <1>3, <1>4

(* A load of approve() weighs the order against all others, unless another *)
(* approval is under way.                                                  *)
LEMMA ReadingKeepsCredit ==
    ASSUME WellFormed, WellFormed', CreditInv, NEW p \in Requests, Reads(p)
    PROVE  CreditInv'
<1>1. PICK r \in AnyRequest : Load(p, r) /\ JustRead(r)
  BY DEF Reads
<1>2. /\ ~Busy(p) /\ request' = [request EXCEPT ![p] = r] /\ order' = order
      /\ raced' = (IF InFlight(r.order) THEN raced \cup {r.order} ELSE raced)
      /\ crossed' = (crossed \/ (r.kind = "APPROVE" /\ Approving(r.order)))
  BY <1>1 DEF Load
<1>3. request'[p] = r /\ \A q \in Requests \ {p} : request'[q] = request[q]
  BY <1>2 DEF WellFormed, TypeOK
<1> SUFFICES ASSUME raced' = {}, ~crossed'
             PROVE  /\ Trust(order', NoRequest) <= CreditLimit
                    /\ \A q \in Requests : Handling(q, "APPROVE")' /\ ~request'[q].override =>
                           Trust(order', request'[q].order) + request'[q].quantity <= CreditLimit
                    /\ \A a, b \in Requests : Handling(a, "APPROVE")' /\ Handling(b, "APPROVE")'
                           => request'[a].order = request'[b].order
  BY DEF CreditInv, TrustedIn, Trust
<1>4. raced = {} /\ ~crossed
  BY <1>2
<1>5. /\ Trust(order, NoRequest) <= CreditLimit
      /\ \A q \in Requests : Handling(q, "APPROVE") /\ ~request[q].override =>
             Trust(order, request[q].order) + request[q].quantity <= CreditLimit
      /\ \A a, b \in Requests : Handling(a, "APPROVE") /\ Handling(b, "APPROVE")
             => request[a].order = request[b].order
  BY <1>4 DEF CreditInv
<1>6. ASSUME r.kind = "APPROVE", ~r.override
      PROVE  Trust(order, r.order) + r.quantity <= CreditLimit
  <2>1. Exposure(r.order) + r.quantity <= CreditLimit
    BY <1>1, <1>6 DEF JustRead
  <2>2. PICK x : x = r.order
    OBVIOUS
  <2>3. Trust(order, x) <= Exposure(x) /\ Exposure(x) \in Int /\ Trust(order, x) \in Int
    BY ExposureCoversTrust, ExposureIsInt, TrustIsInt DEF WellFormed, TypeOK
  <2>4. r.quantity \in 1..MaxOrdered
    BY <1>6, RequestOfKind
  <2> QED
    BY <2>1, <2>2, <2>3, <2>4, OrdersAssumption
<1>7. ASSUME NEW q \in Requests, Handling(q, "APPROVE")', ~request'[q].override
      PROVE  Trust(order', request'[q].order) + request'[q].quantity <= CreditLimit
  BY <1>2, <1>3, <1>5, <1>6, <1>7 DEF Handling, Busy
<1>8. ASSUME NEW q \in Requests, q # p, request'[q] # NoRequest, request'[q].kind = "APPROVE",
             r.kind = "APPROVE"
      PROVE  request'[q].order = r.order
  BY <1>2, <1>3, <1>8 DEF Approving, Busy
<1>9. ASSUME NEW a \in Requests, NEW b \in Requests, Handling(a, "APPROVE")', Handling(b, "APPROVE")'
      PROVE  request'[a].order = request'[b].order
  <2>1. CASE a # p /\ b # p
    BY <1>3, <1>5, <1>9, <2>1 DEF Handling, Busy
  <2>2. CASE a = p \/ b = p
    BY <1>3, <1>8, <1>9, <2>2 DEF Handling, Busy
  <2> QED
    BY <2>1, <2>2
<1> QED
  BY <1>2, <1>5, <1>7, <1>9

(* An order is approved: what it is trusted with now was weighed.          *)
LEMMA ApproveKeepsCredit ==
    ASSUME WellFormed, WellFormed', OrderInv, CreditInv, NEW p \in Requests, CommitApprove(p)
    PROVE  CreditInv'
<1>1. PICK r : r = request[p]
  OBVIOUS
<1>2. r \in AnyRequest /\ r.kind = "APPROVE" /\ Busy(p) /\ Handling(p, "APPROVE")
  BY <1>1, RequestsKnown DEF CommitApprove, Handling
<1>3. PICK o \in Orders : o = r.order
  BY <1>2, RequestOfKind
<1>4. r.quantity \in 1..MaxOrdered /\ r.override \in BOOLEAN
  BY <1>2, RequestOfKind
<1>5. PICK got : got = Reservable(row, r.quantity)
  OBVIOUS
<1>6. /\ order' = [order EXCEPT ![o] = [order[o] EXCEPT
              !.status = "APPROVED", !.reserved = got,
              !.backordered = r.quantity - got,
              !.granted = r.quantity, !.overridden = r.override]]
      /\ Answered(p)
  BY <1>1, <1>3, <1>5 DEF CommitApprove
<1>7. order \in [Orders -> Order] /\ order' \in [Orders -> Order] /\ order[o] \in Order
  BY DEF WellFormed, TypeOK
<1>8. /\ order'[o].status = "APPROVED" /\ order'[o].overridden = r.override
      /\ order'[o].ordered = order[o].ordered
      /\ \A k \in Orders \ {o} : order'[k] = order[k]
  BY <1>6, <1>7 DEF Order
<1>9. request' = [request EXCEPT ![p] = NoRequest] /\ raced' = raced /\ crossed' = crossed
  BY <1>6 DEF Answered
<1> SUFFICES ASSUME raced = {}, ~crossed
             PROVE  /\ Trust(order', NoRequest) <= CreditLimit
                    /\ \A q \in Requests : ~Handling(q, "APPROVE")'
  BY <1>9 DEF CreditInv, TrustedIn, Trust
<1>10. /\ Trust(order, NoRequest) <= CreditLimit
       /\ ~r.override => Trust(order, o) + r.quantity <= CreditLimit
       /\ \A q \in Requests : Handling(q, "APPROVE") => request[q].order = o
  BY <1>1, <1>2, <1>3 DEF CreditInv
<1>11. order[o].status = "PENDING_APPROVAL" /\ r.quantity = order[o].ordered
  BY <1>1, <1>2, <1>3 DEF OrderInv, ReadingsHold, StillSo
<1>12. ASSUME NEW q \in Requests, Handling(q, "APPROVE")' PROVE FALSE
  <2>1. q # p /\ request'[q] = request[q] /\ Busy(q) /\ Handling(q, "APPROVE")
    BY <1>9, <1>12 DEF WellFormed, TypeOK, Handling, Busy
  <2>2. request[q].order = request[p].order
    BY <1>1, <1>3, <1>10, <2>1
  <2> QED
    BY <1>2, <2>1, <2>2 DEF OrderInv, OneAtATime
<1>13. Trust(order', NoRequest) <= CreditLimit
  <2> DEFINE before == TrustedIn(order, o)
             after  == TrustedIn(order', NoRequest)
             with   == [k \in Orders |-> IF k = o THEN r.quantity ELSE before[k]]
             old    == TrustedIn(order, NoRequest)
  <2>1. \A k \in Orders : /\ before[k] \in Int /\ after[k] \in Int /\ with[k] \in Int
                          /\ old[k] \in Int
    BY <1>4, <1>7, TrustIsInt
  <2>2. CASE r.override
    <3>1. \A k \in Orders : after[k] <= old[k]
      <4> TAKE k \in Orders
      <4>1. CASE k = o
        <5>1. after[o] = 0
          BY <1>8, <2>2 DEF TrustedIn
        <5>2. old[o] = 0
          BY <1>11 DEF TrustedIn, Open, StockCommitted
        <5> QED
          BY <4>1, <5>1, <5>2
      <4>2. CASE k # o
        <5>1. after[k] = old[k]
          BY <1>8, <4>2 DEF TrustedIn
        <5> QED
          BY <2>1, <5>1
      <4> QED
        BY <4>1, <4>2
    <3>2. Trust(order', NoRequest) <= Trust(order, NoRequest)
      BY <1>7, <3>1, TrustIsMonotone
    <3> QED
      BY <1>7, <1>10, <3>2, TrustIsInt, OrdersAssumption
  <2>3. CASE ~r.override
    <3>1. \A k \in Orders : after[k] <= with[k]
      <4> TAKE k \in Orders
      <4>1. CASE k = o
        BY <1>4, <1>8, <1>11, <4>1, OrdersAssumption DEF TrustedIn, Open, StockCommitted
      <4>2. CASE k # o
        <5>1. order[k].ordered \in 1..MaxOrdered
          BY <1>7 DEF Order
        <5> QED
          BY <1>8, <4>2, <5>1, OrdersAssumption DEF TrustedIn
      <4> QED
        BY <4>1, <4>2
    <3>2. before[o] = 0 /\ with[o] = r.quantity /\ \A k \in Orders \ {o} : with[k] = before[k]
      BY DEF TrustedIn
    <3>3. Trust(order', NoRequest) = SumFunctionOnSet(after, Orders)
          /\ Trust(order, o) = SumFunctionOnSet(before, Orders)
      BY DEF Trust
    <3> HIDE DEF before, after, with, old
    <3>4. SumFunctionOnSet(after, Orders) <= SumFunctionOnSet(with, Orders)
      BY <2>1, <3>1, SumIsMonotone, OrdersAssumption
    <3>5. SumFunctionOnSet(with, Orders) = SumFunctionOnSet(before, Orders) - before[o] + with[o]
      <4>1. \A k \in Orders : before[k] \in Int /\ with[k] \in Int
        BY <2>1
      <4> QED
        BY <3>2, <4>1, SumUpdate, OrdersAssumption
    <3>6. SumFunctionOnSet(before, Orders) \in Int
      BY <2>1, SumIsInt, OrdersAssumption
    <3>7. SumFunctionOnSet(after, Orders) \in Int
      BY <2>1, SumIsInt, OrdersAssumption
    <3>8. SumFunctionOnSet(with, Orders) = SumFunctionOnSet(before, Orders) + r.quantity
      BY <1>4, <3>2, <3>5, <3>6
    <3>9. SumFunctionOnSet(before, Orders) + r.quantity <= CreditLimit
      BY <1>10, <2>3, <3>3
    <3> QED
      BY <1>4, <3>3, <3>4, <3>6, <3>7, <3>8, <3>9, OrdersAssumption
  <2> QED
    BY <1>4, <2>2, <2>3
<1> QED
  BY <1>12, <1>13

(* Every other commit trusts no order with more than it was.               *)
LEMMA AnswerKeepsCredit ==
    ASSUME WellFormed, WellFormed', CreditInv, NEW p \in Requests, Answered(p),
           raced = {} => NothingTrusted
    PROVE  CreditInv'
<1>1. request' = [request EXCEPT ![p] = NoRequest] /\ raced' = raced /\ crossed' = crossed
  BY DEF Answered
<1>2. \A q \in Requests : request'[q] # NoRequest => request'[q] = request[q]
  BY <1>1 DEF WellFormed, TypeOK
<1> QED
  BY <1>1, <1>2, CreditStays

(* What is found inside a transaction is no approval.                      *)
LEMMA FindingKeepsCredit ==
    ASSUME WellFormed, WellFormed', CreditInv, NEW p \in Requests, Finds(p)
    PROVE  CreditInv'
<1>1. PICK x \in AnyRequest :
          /\ request' = [request EXCEPT ![p] = x] /\ x.kind # "APPROVE"
          /\ UNCHANGED <<order, raced, crossed>>
  BY DEF Finds
<1>2. NothingTrusted
  BY <1>1 DEF NothingTrusted, WellFormed, TypeOK, Order
<1>3. \A q \in Requests : request'[q] # NoRequest /\ request'[q].kind = "APPROVE"
          => request'[q] = request[q]
  BY <1>1 DEF WellFormed, TypeOK
<1> QED
  BY <1>1, <1>2, <1>3, CreditStays

(* Unchanged orders are trusted with no more.                              *)
LEMMA SameFiguresTrustNothing ==
    ASSUME WellFormed, order' = order
    PROVE  NothingTrusted
  BY DEF NothingTrusted, WellFormed, TypeOK, Order

(* One order's status changes, and not to an open one.                     *)
LEMMA OneOrderTrustsNothing ==
    ASSUME WellFormed, NEW o \in Orders, \A k \in Orders \ {o} : order'[k] = order[k],
           order'[o].status \in Open /\ ~order'[o].overridden =>
               /\ order[o].status \in Open /\ ~order[o].overridden
               /\ order'[o].ordered = order[o].ordered
    PROVE  NothingTrusted
<1>1. ASSUME NEW k \in Orders, order'[k].status \in Open, ~order'[k].overridden
      PROVE  /\ order[k].status \in Open /\ ~order[k].overridden
             /\ order'[k].ordered <= order[k].ordered
  <2>1. order[k].ordered \in Int
    BY DEF WellFormed, TypeOK, Order
  <2>2. /\ order[k].status \in Open /\ ~order[k].overridden
        /\ order'[k].ordered = order[k].ordered
    BY <1>1
  <2> QED
    BY <2>1, <2>2
<1> QED
  BY <1>1 DEF NothingTrusted

(* update() changes the value of a DRAFT, which is not open.               *)
LEMMA UpdateKeepsCredit ==
    ASSUME WellFormed, WellFormed', OrderInv, CreditInv, NEW p \in Requests,
           CommitUpdate(p, Referenced)
    PROVE  CreditInv'
<1>1. PICK r : r = request[p]
  OBVIOUS
<1>2. r \in AnyRequest /\ r.kind = "UPDATE" /\ Busy(p)
  BY <1>1, RequestsKnown DEF CommitUpdate, Handling
<1>3. PICK o \in Orders : o = r.order
  BY <1>2, RequestOfKind
<1>4. /\ order' = [order EXCEPT ![o] = [order[o] EXCEPT !.ordered = r.quantity, !.line = @ + 1,
                       !.reserved = 0, !.backordered = 0, !.dispatched = 0]]
      /\ Answered(p)
  BY <1>1, <1>3 DEF CommitUpdate
<1>5. order[o] \in Order
  BY DEF WellFormed, TypeOK
<1>6. order'[o].status = order[o].status /\ \A k \in Orders \ {o} : order'[k] = order[k]
  BY <1>4, <1>5 DEF WellFormed, TypeOK, Order
<1>7. ASSUME raced = {} PROVE NothingTrusted
  <2>1. order[o].status = "DRAFT"
    BY <1>1, <1>2, <1>3, <1>7 DEF OrderInv, ReadingsHold, StillSo
  <2> QED
    BY <1>6, <2>1, OneOrderTrustsNothing DEF Open, StockCommitted
<1> QED
  BY <1>4, <1>7, AnswerKeepsCredit

(* submit() and reject() open no order.                                    *)
LEMMA StatusKeepsCredit ==
    ASSUME WellFormed, WellFormed', CreditInv, NEW p \in Requests,
           NEW kind, NEW status, CommitStatus(p, kind, status), status \notin Open
    PROVE  CreditInv'
<1>1. PICK o : o = request[p].order
  OBVIOUS
<1>2. o \in Orders
  BY <1>1, RequestsKnown, RequestOfKind DEF CommitStatus, Handling
<1>3. order' = [order EXCEPT ![o].status = status] /\ Answered(p)
  BY <1>1 DEF CommitStatus
<1>4. order'[o].status = status /\ \A k \in Orders \ {o} : order'[k] = order[k]
  BY <1>2, <1>3 DEF WellFormed, TypeOK, Order
<1>5. NothingTrusted
  BY <1>2, <1>4, OneOrderTrustsNothing
<1> QED
  BY <1>3, <1>5, AnswerKeepsCredit

(* reserveOutstanding() changes no value.                                  *)
LEMMA ReserveKeepsCredit ==
    ASSUME WellFormed, WellFormed', CreditInv, NEW p \in Requests, CommitReserve(p)
    PROVE  CreditInv'
<1>1. PICK r : r = request[p]
  OBVIOUS
<1>2. r \in AnyRequest
  BY <1>1, RequestsKnown DEF CommitReserve, Handling
<1>3. PICK o \in Orders : o = r.order
  BY <1>2, RequestOfKind
<1>4. PICK got : got = Reservable(row, r.quantity)
  OBVIOUS
<1>5. /\ order' = IF got = 0 THEN order
                  ELSE [order EXCEPT ![o].reserved = r.reserved + got,
                                     ![o].backordered = r.quantity - got]
      /\ Answered(p)
  BY <1>1, <1>3, <1>4 DEF CommitReserve
<1>6. order[o] \in Order
  BY DEF WellFormed, TypeOK
<1>7. /\ order'[o].status = order[o].status /\ order'[o].overridden = order[o].overridden
      /\ order'[o].ordered = order[o].ordered
      /\ \A k \in Orders \ {o} : order'[k] = order[k]
  BY <1>5, <1>6 DEF WellFormed, TypeOK, Order
<1>8. NothingTrusted
  BY <1>7, OneOrderTrustsNothing
<1> QED
  BY <1>5, <1>8, AnswerKeepsCredit

(* cancel() closes an order.                                               *)
LEMMA CancelKeepsCredit ==
    ASSUME WellFormed, WellFormed', CreditInv, NEW p \in Requests, CommitCancel(p)
    PROVE  CreditInv'
<1>1. PICK r : r = request[p]
  OBVIOUS
<1>2. r \in AnyRequest
  BY <1>1, RequestsKnown DEF CommitCancel, Handling
<1>3. PICK o \in Orders : o = r.order
  BY <1>2, RequestOfKind
<1>4. /\ order' = IF r.releases
                  THEN [order EXCEPT ![o].status = "CANCELLED",
                                     ![o].reserved = 0, ![o].backordered = 0]
                  ELSE [order EXCEPT ![o].status = "CANCELLED"]
      /\ Answered(p)
  BY <1>1, <1>3 DEF CommitCancel
<1>5. order[o] \in Order
  BY DEF WellFormed, TypeOK
<1>6. order'[o].status = "CANCELLED" /\ \A k \in Orders \ {o} : order'[k] = order[k]
  BY <1>4, <1>5 DEF WellFormed, TypeOK, Order
<1>7. NothingTrusted
  BY <1>6, OneOrderTrustsNothing DEF Open, StockCommitted
<1> QED
  BY <1>4, <1>7, AnswerKeepsCredit

(* deliver() closes an order or leaves it.                                 *)
LEMMA DeliverKeepsCredit ==
    ASSUME WellFormed, WellFormed', CreditInv, NEW p \in Requests, CommitDeliver(p)
    PROVE  CreditInv'
<1>1. PICK r : r = request[p]
  OBVIOUS
<1>2. r \in AnyRequest
  BY <1>1, RequestsKnown DEF CommitDeliver, Handling
<1>3. PICK o \in Orders : o = r.order
  BY <1>2, RequestOfKind
<1>4. /\ order' = order \/ order' = [order EXCEPT ![o].status = "DELIVERED"]
      /\ Answered(p)
  BY <1>1, <1>3 DEF CommitDeliver
<1>5. CASE order' = order
  BY <1>4, <1>5, SameFiguresTrustNothing, AnswerKeepsCredit
<1>6. CASE order' = [order EXCEPT ![o].status = "DELIVERED"]
  <2>1. order'[o].status = "DELIVERED" /\ \A k \in Orders \ {o} : order'[k] = order[k]
    BY <1>6 DEF WellFormed, TypeOK, Order
  <2>2. NothingTrusted
    BY <2>1, OneOrderTrustsNothing DEF Open, StockCommitted
  <2> QED
    BY <1>4, <2>2, AnswerKeepsCredit
<1> QED
  BY <1>4, <1>5, <1>6

(* What a dispatch leaves open was open: it drew an ACTIVE reservation.    *)
LEMMA DispatchKeepsCredit ==
    ASSUME WellFormed, WellFormed', OrderInv, CreditInv, NEW p \in Requests, CommitDispatch(p)
    PROVE  CreditInv'
<1>1. PICK r \in AnyRequest, o \in Orders, s \in Shipments, q \in 1..MaxOrdered,
           z \in Shipment, y \in Order : Dispatches(p, r, o, s, q, z, y)
  BY DispatchWrites
<1>2. /\ r = request[p] /\ r.kind = "DISPATCH" /\ r.found # 0
      /\ o = r.order /\ s = r.shipment /\ shipment[s].order = o /\ Exists(s)
      /\ y = [[order[o] EXCEPT !.dispatched = r.dispatched + q]
                  EXCEPT !.status = FulfilmentStatus(order[o].ordered, r.dispatched + q)]
      /\ order' = [order EXCEPT ![o] = y]
      /\ Answered(p) /\ Busy(p)
  BY <1>1 DEF Dispatches
<1>3. order[o] \in Order
  BY DEF WellFormed, TypeOK
<1>4. /\ order'[o] = y /\ \A k \in Orders \ {o} : order'[k] = order[k]
      /\ y.ordered = order[o].ordered /\ y.overridden = order[o].overridden
  BY <1>2, <1>3 DEF WellFormed, TypeOK, Order
<1>5. ASSUME raced = {} PROVE NothingTrusted
  <2>1. shipment[s].status = "PACKED" /\ r.found \in ActiveHolds(o) /\ Agrees(o)
    BY <1>2, <1>5 DEF OrderInv, ReadingsHold, StillSo
  <2>2. order[o].status \notin Dead \cup {"DRAFT", "PENDING_APPROVAL"}
    BY <2>1 DEF Agrees
  <2>3. s \in Of(o) /\ ~AllLanded(o, {})
    BY <1>2, <2>1 DEF Of, AllLanded
  <2>4. order[o].status # "DELIVERED"
    BY <2>1, <2>3 DEF Agrees
  <2>5. order[o].status \in Open
    BY <1>3, <2>2, <2>4 DEF Order, OrderStatuses, Open, StockCommitted, Dead
  <2> QED
    BY <1>4, <2>5, OneOrderTrustsNothing
<1> QED
  BY <1>2, <1>5, AnswerKeepsCredit

(* A step of no request.                                                   *)
LEMMA QuietKeepsCredit ==
    ASSUME WellFormed, WellFormed', CreditInv, UNCHANGED <<order, request, raced, crossed>>
    PROVE  CreditInv'
  BY SameFiguresTrustNothing, CreditStays

(* Every step keeps the credit invariant.                                  *)
LEMMA StepKeepsCredit == WellFormed /\ OrderInv /\ CreditInv /\ [Next]_vars => CreditInv'
<1> SUFFICES ASSUME WellFormed, OrderInv, CreditInv, [Next]_vars PROVE CreditInv'
  OBVIOUS
<1>0. WellFormed'
  BY StepKeepsWellFormed
<1>1. ASSUME NEW p \in Requests, OrderStep(p) PROVE CreditInv'
  <2>1. UNCHANGED shipmentVars
    BY <1>1 DEF OrderStep
  <2>2. ASSUME NEW o \in Orders, OrderLoad(p, o) PROVE CreditInv'
    BY <1>0, <2>2, OrderLoadReads, ReadingKeepsCredit
  <2>3. CASE OrderCommit(p, Referenced)
    <3>1. CASE CommitUpdate(p, Referenced)
      BY <1>0, <3>1, UpdateKeepsCredit
    <3>2. CASE CommitStatus(p, "SUBMIT", "PENDING_APPROVAL")
      BY <1>0, <3>2, StatusKeepsCredit DEF Open, StockCommitted
    <3>3. CASE CommitStatus(p, "REJECT", "REJECTED")
      BY <1>0, <3>3, StatusKeepsCredit DEF Open, StockCommitted
    <3>4. CASE CommitApprove(p)
      BY <1>0, <3>4, ApproveKeepsCredit
    <3>5. CASE CommitReserve(p)
      BY <1>0, <3>5, ReserveKeepsCredit
    <3>6. CASE FindHold(p)
      BY <1>0, <2>1, <3>6, FindHoldFinds, FindingKeepsCredit
    <3>7. CASE CommitCancel(p)
      BY <1>0, <3>7, CancelKeepsCredit
    <3> QED
      BY <2>3, <3>1, <3>2, <3>3, <3>4, <3>5, <3>6, <3>7 DEF OrderCommit
  <2>4. CASE Fail(p)
    BY <1>0, <2>4, SameFiguresTrustNothing, AnswerKeepsCredit DEF Fail, RolledBack
  <2> QED
    BY <1>1, <2>2, <2>3, <2>4 DEF OrderStep
<1>2. ASSUME NEW p \in Requests, ShipmentStep(p) PROVE CreditInv'
  <2>1. ASSUME NEW s \in Shipments, ShipmentLoad(p, s) PROVE CreditInv'
    BY <1>0, <2>1, ShipmentLoadReads, ReadingKeepsCredit
  <2>2. CASE CommitCreate(p) \/ CommitPack(p)
    BY <1>0, <2>2, SameFiguresTrustNothing, AnswerKeepsCredit DEF CommitCreate, CommitPack
  <2>3. CASE FindForDispatch(p) \/ CountSiblings(p)
    BY <1>0, <2>3, FindForDispatchFinds, CountSiblingsFinds, FindingKeepsCredit
  <2>4. CASE CommitDispatch(p)
    BY <1>0, <2>4, DispatchKeepsCredit
  <2>5. CASE CommitDeliver(p)
    BY <1>0, <2>5, DeliverKeepsCredit
  <2> QED
    BY <1>2, <2>1, <2>2, <2>3, <2>4, <2>5 DEF ShipmentStep, ShipmentCommit
<1>3. CASE GoodsReceipt
  BY <1>0, <1>3, QuietKeepsCredit DEF GoodsReceipt, Receive
<1>4. CASE UNCHANGED vars
  BY <1>0, <1>4, QuietKeepsCredit DEF vars
<1> QED
  BY <1>1, <1>2, <1>3, <1>4 DEF Next

(* No order is open at first.                                              *)
LEMMA InitIsWithinLimit == Init => CreditInv
<1> SUFFICES ASSUME Init PROVE CreditInv
  OBVIOUS
<1>1. \A p \in Requests : ~Handling(p, "APPROVE")
  BY DEF Init, OrdersInit, Handling, Busy
<1>2. Trust(order, NoRequest) = 0
  <2> DEFINE f == TrustedIn(order, NoRequest)
  <2>1. \A o \in Orders : f[o] = 0
    <3> TAKE o \in Orders
    <3>1. PICK q \in 1..MaxOrdered : order[o] = NewOrder(q)
      BY DEF Init, OrdersInit
    <3> QED
      BY <3>1 DEF TrustedIn, NewOrder, Open, StockCommitted
  <2> HIDE DEF f
  <2>2. SumFunctionOnSet(f, Orders) = 0
    BY <2>1, SumOfZeros, OrdersAssumption
  <2> QED
    BY <2>2 DEF f, Trust
<1> QED
  BY <1>1, <1>2, OrdersAssumption DEF CreditInv

(* The open orders of the distributor stay within the credit limit unless  *)
(* a breach was forgiven or two requests overlapped.                       *)
THEOREM CreditIsKept == Spec => []ExposureWithinLimit
<1>1. WellFormed /\ OrderInv /\ CreditInv /\ [Next]_vars => WellFormed' /\ OrderInv' /\ CreditInv'
  BY StepKeepsWellFormed, StepKeepsOrders, StepKeepsCredit
<1>2. Init => WellFormed /\ OrderInv /\ CreditInv
  BY InitIsWellFormed, InitOrdersAgree, InitIsWithinLimit
<1>3. WellFormed /\ CreditInv => ExposureWithinLimit
  <2> SUFFICES ASSUME WellFormed, CreditInv, ~crossed, raced = {},
                      ~\E o \in Orders : order[o].status \in Open /\ order[o].overridden
               PROVE  Exposure(NoRequest) <= CreditLimit
    BY DEF ExposureWithinLimit
  <2>1. Exposure(NoRequest) = Trust(order, NoRequest)
    BY ExposureCoversTrust
  <2> QED
    BY <2>1 DEF CreditInv
<1> QED
  BY <1>1, <1>2, <1>3, PTL DEF Spec

-----------------------------------------------------------------------------
(* The revisions of a product, which share no state with the sale.  A      *)
(* field was, at a revision, what the first later change of it found: so   *)
(* an edit that cuts a revision changes nothing of what is told of earlier *)
(* ones, provided that what it had loaded is still the data in force.      *)
(* CatalogueInv says when it is: an edit that loaded the revision now in   *)
(* force has its data, unless one put back what it had loaded meanwhile,   *)
(* and the unique number of a revision refuses an edit that loaded an      *)
(* earlier one.                                                            *)
ProductData == [type : Types, codes : SUBSET {"HSN", "SAC"}, terms : Terms, tags : Terms]
ProductRow  == [status : {"DRAFT", "ACTIVE", "DISCONTINUED", "ARCHIVED"}, gone : BOOLEAN,
                revision : Nat \ {0}, data : ProductData]

CatalogueTyped ==
    /\ product \in [Products -> ProductRow]
    /\ snapshot = [p \in Products |-> snapshot[p]]
    /\ worn = [p \in Products |-> worn[p]]

EditTask    == [act : {"EDIT"}, on : SUBSET Products, edit : Edits, before : ProductData,
                revision : Nat, overtaken : BOOLEAN]

(* What an edit has loaded.                                                *)
EditFits(t) ==
    /\ task[t] \in EditTask
    /\ \A p \in task[t].on :
           /\ task[t].on = {p}
           /\ task[t].revision \in 1..product[p].revision
           /\ p \notin restored /\ task[t].revision = product[p].revision =>
                  Significant(task[t].before) = Significant(product[p].data)
           /\ ~task[t].overtaken =>
                  /\ task[t].before = product[p].data
                  /\ Classified(Written(task[t].before, task[t].edit))

StatusFits(t) ==
    /\ task[t].on \subseteq Products
    /\ task[t].to \in {"ACTIVE", "DISCONTINUED", "ARCHIVED"}

TasksFit ==
    /\ task = [t \in Editors |-> task[t]]
    /\ \A t \in Editors : /\ ~Idle(t) => "act" \in DOMAIN task[t]
                          /\ Doing(t, "EDIT") => EditFits(t)
                          /\ Doing(t, "STATUS") => StatusFits(t)

(* Every before-image is a function of fields.                             *)
Explained(p) ==
    /\ DOMAIN snapshot[p] = 1..(product[p].revision - 1)
    /\ \A w \in worn[p] : w[1] \in 1..product[p].revision
    /\ p \notin restored => \A w \in worn[p] : w[2] = Told(p)[w[1]]
    /\ product[p].status # "DRAFT" => Cardinality(product[p].data.codes) = 1
    /\ p \notin mixed => Classified(product[p].data)

CatalogueInv == CatalogueTyped /\ TasksFit /\ \A p \in Products : Explained(p)

LEMMA LeastOf ==
    ASSUME NEW S \in SUBSET Int, IsFiniteSet(S), S # {}
    PROVE  /\ Min(S) \in S /\ \A y \in S : Min(S) <= y
           /\ \A x \in S : (\A y \in S : x <= y) => Min(S) = x
<1> DEFINE F == {T \in SUBSET S : T # {} => \E x \in T : \A y \in T : x <= y}
<1>1. {} \in F
  OBVIOUS
<1>2. ASSUME NEW T \in SUBSET S, NEW x \in S \ T, T \in F PROVE T \cup {x} \in F
  <2>1. CASE T = {}
    BY <2>1, <1>2
  <2>2. CASE T # {}
    <3>1. PICK z \in T : \A y \in T : z <= y
      BY <2>2, <1>2
    <3>2. \E v \in T \cup {x} : \A y \in T \cup {x} : v <= y
      <4>1. CASE z <= x
        BY <4>1, <3>1
      <4>2. CASE ~(z <= x)
        <5>1. \A y \in T \cup {x} : x <= y
          BY <4>2, <3>1, <1>2
        <5> QED
          BY <5>1
      <4> QED
        BY <4>1, <4>2
    <3> QED
      BY <3>2, <1>2
  <2> QED
    BY <2>1, <2>2
<1>3. S \in F
  <2> HIDE DEF F
  <2> QED
    BY <1>1, <1>2, SetInduction
<1>4. PICK x \in S : \A y \in S : x <= y
  BY <1>3
<1>5. Min(S) \in S /\ \A y \in S : Min(S) <= y
  BY <1>4 DEF Min
<1>6. ASSUME NEW v \in S, \A y \in S : v <= y PROVE Min(S) = v
  <2>1. Min(S) \in Int /\ v \in Int /\ Min(S) <= v /\ v <= Min(S)
    BY <1>5, <1>6
  <2> QED
    BY <2>1
<1> QED
  BY <1>5, <1>6

(* A step that leaves the data and the revisions of all products alone.    *)
LEMMA DataUntouched ==
    ASSUME CatalogueInv, UNCHANGED <<snapshot, worn, restored, mixed>>,
           product' \in [Products -> ProductRow],
           \A p \in Products :
               /\ product'[p].data = product[p].data /\ product'[p].revision = product[p].revision
               /\ \/ product'[p].status = product[p].status
                  \/ Cardinality(product[p].data.codes) = 1,
           task' = [t \in Editors |-> task'[t]],
           \A t \in Editors :
               \/ task'[t] = task[t]
               \/ task'[t] = NoTask
               \/ /\ "act" \in DOMAIN task'[t]
                  /\ Doing(t, "EDIT")' => EditFits(t)'
                  /\ Doing(t, "STATUS")' => StatusFits(t)'
    PROVE  CatalogueInv'
<1>1. CatalogueTyped'
  BY DEF CatalogueInv, CatalogueTyped
<1>2. ASSUME NEW t \in Editors
      PROVE  /\ ~Idle(t)' => "act" \in DOMAIN task'[t]
             /\ Doing(t, "EDIT")' => EditFits(t)'
             /\ Doing(t, "STATUS")' => StatusFits(t)'
  <2>1. CASE task'[t] = task[t]
    <3>1. /\ (Idle(t)' <=> Idle(t)) /\ (Doing(t, "EDIT")' <=> Doing(t, "EDIT"))
          /\ (Doing(t, "STATUS")' <=> Doing(t, "STATUS"))
      BY <2>1 DEF Idle, Doing
    <3>2. ~Idle(t)' => "act" \in DOMAIN task'[t]
      BY <2>1, <3>1 DEF CatalogueInv, TasksFit
    <3>3. ASSUME EditFits(t) PROVE EditFits(t)'
      BY <2>1, <3>3 DEF EditFits, EditTask
    <3>4. ASSUME StatusFits(t) PROVE StatusFits(t)'
      BY <2>1, <3>4 DEF StatusFits
    <3> QED
      BY <3>1, <3>2, <3>3, <3>4 DEF CatalogueInv, TasksFit
  <2>2. CASE task'[t] = NoTask
    BY <2>2 DEF Idle, Doing
  <2> QED
    BY <2>1, <2>2
<1>3. TasksFit'
  BY <1>2 DEF TasksFit
<1>4. ASSUME NEW p \in Products PROVE Explained(p)'
  <2>1. Told(p)' = Told(p)
    BY DEF Told, ChangesFrom
  <2>2. Explained(p)
    BY DEF CatalogueInv
  <2>3. product'[p].status # "DRAFT" => Cardinality(product'[p].data.codes) = 1
    BY <2>2 DEF Explained
  <2>4. p \notin mixed' => Classified(product'[p].data)
    BY <2>2 DEF Explained
  <2> QED
    BY <2>1, <2>2, <2>3, <2>4 DEF Explained
<1> QED
  BY <1>1, <1>3, <1>4 DEF CatalogueInv

LEMMA WrittenIsData ==
    ASSUME NEW data \in ProductData, NEW e \in Edits
    PROVE  Written(data, e) \in ProductData
<1>1. /\ e.type \in Types \cup {Unstated} /\ e.code \in {"HSN", "SAC", Unstated}
      /\ e.terms \in Terms \cup {Unstated} /\ e.tags \in Terms \cup {Unstated}
  BY DEF Edits
<1>2. data.codes \cup ({e.code} \ {Unstated}) \in SUBSET {"HSN", "SAC"}
  BY <1>1 DEF ProductData
<1> QED
  BY <1>1, <1>2 DEF Written, Stated, ProductData

(***************************************************************************)
(* An edit                                                                 *)
(***************************************************************************)
LEMMA EditKeeps ==
    ASSUME CatalogueInv, NEW t \in Editors, Doing(t, "EDIT"), NEW p \in Products, p \in task[t].on, Edit(t, p),
           Finish(t, Others("EDIT", {p}))
    PROVE  CatalogueInv'
<1> DEFINE data == Written(product[p].data, task[t].edit)
           cuts == Changed(t, data) \cap Triggers # {}
           k    == product[p].revision
           next == k + (IF cuts THEN 1 ELSE 0)
<1>1. EditFits(t) /\ Explained(p) /\ product[p] \in ProductRow /\ k \in Nat \ {0}
  BY DEF CatalogueInv, TasksFit, CatalogueTyped, ProductRow
<1>2. data \in ProductData
  BY <1>1, WrittenIsData DEF EditFits, EditTask, ProductRow
<1>3. /\ Storable(product[p].status, data)
      /\ cuts => NumberIsFree(t, p)
      /\ product' = [product EXCEPT ![p].data = data, ![p].revision = next]
      /\ snapshot' = IF cuts
                     THEN [snapshot EXCEPT ![p] =
                              [r \in DOMAIN snapshot[p] \cup {task[t].revision} |->
                                  IF r = task[t].revision THEN BeforeImage(t, data)
                                  ELSE snapshot[p][r]]]
                     ELSE snapshot
      /\ worn' = [worn EXCEPT ![p] = @ \cup {<<next, Significant(data)>>}]
      /\ restored' = restored \cup
             {q \in {p} : ~cuts /\ Significant(data) # Significant(product[p].data)}
      /\ mixed' = mixed \cup {q \in {p} : task[t].overtaken}
  BY DEF Edit, CatalogueInv, CatalogueTyped
<1> HIDE DEF data
<1>4. next \in Nat \ {0} /\ k <= next /\ (cuts => next = k + 1) /\ (~cuts => next = k)
  <2> HIDE DEF cuts
  <2> QED
    BY <1>1
<1>5. product'[p] = [[product[p] EXCEPT !.data = data] EXCEPT !.revision = next]
  BY <1>3 DEF CatalogueInv, CatalogueTyped
<1> HIDE DEF cuts, next
<1>6. /\ product'[p].data = data /\ product'[p].revision = next
      /\ product'[p].status = product[p].status /\ product'[p] \in ProductRow
  BY <1>1, <1>2, <1>4, <1>5 DEF ProductRow
<1>7. \A q \in Products : q # p => product'[q] = product[q]
  BY <1>3 DEF CatalogueInv, CatalogueTyped
<1>8. CatalogueTyped'
  <2>1. product' = [q \in Products |-> product'[q]]
    BY <1>3 DEF CatalogueInv, CatalogueTyped
  <2>2. \A q \in Products : product'[q] \in ProductRow
    BY <1>6, <1>7 DEF CatalogueInv, CatalogueTyped
  <2>3. product' \in [Products -> ProductRow]
    BY <2>1, <2>2
  <2> QED
    BY <1>3, <2>3 DEF CatalogueInv, CatalogueTyped
(* The number that is cut is the product's own.                            *)
<1>9. /\ task[t].revision \in 1..k /\ DOMAIN snapshot[p] = 1..(k - 1)
      /\ cuts => task[t].revision = k
  BY <1>1, <1>3 DEF EditFits, Explained, NumberIsFree
<1>10. /\ p \notin restored /\ task[t].revision = k
             => \A f \in Triggers : task[t].before[f] = product[p].data[f]
  BY <1>1 DEF EditFits, Significant
<1>11. ASSUME p \notin restored'
       PROVE  /\ p \notin restored
              /\ ~cuts => \A f \in Triggers : data[f] = product[p].data[f]
  BY <1>3, <1>11 DEF Significant
<1>12. TasksFit'
  <2>1. task' = [u \in Editors |-> IF u = t THEN NoTask
                                   ELSE IF u \in Others("EDIT", {p}) THEN [task[u] EXCEPT !.overtaken = TRUE]
                                   ELSE task[u]]
    BY DEF Finish
  <2>2. ASSUME NEW u \in Editors, ~Idle(u)'
        PROVE  /\ "act" \in DOMAIN task'[u]
               /\ Doing(u, "EDIT")' => EditFits(u)'
               /\ Doing(u, "STATUS")' => StatusFits(u)'
    <3>1. u # t
      BY <2>1, <2>2 DEF Idle
    <3>2. CASE u \in Others("EDIT", {p})
      <4>1. Doing(u, "EDIT") /\ EditFits(u) /\ p \in task[u].on
        BY <3>2 DEF Others, CatalogueInv, TasksFit
      <4>2. task[u] \in EditTask /\ task[u].on = {p}
        BY <4>1 DEF EditFits
      <4>3. task'[u] = [task[u] EXCEPT !.overtaken = TRUE]
        BY <2>1, <3>1, <3>2
      <4>4. /\ task'[u] \in EditTask /\ task'[u].on = {p} /\ task'[u].revision = task[u].revision
            /\ task'[u].before = task[u].before /\ task'[u].overtaken = TRUE /\ task'[u].act = "EDIT"
        BY <4>2, <4>3 DEF EditTask
      <4>5. task[u].revision \in 1..next
        BY <1>4, <1>1, <4>1 DEF EditFits
      <4>6. ASSUME p \notin restored', task[u].revision = next
            PROVE  Significant(task[u].before) = Significant(data)
        <5>1. ~cuts /\ next = k
          BY <1>1, <1>4, <4>1, <4>6 DEF EditFits
        <5>2. Significant(task[u].before) = Significant(product[p].data)
          BY <1>11, <4>1, <4>6, <5>1 DEF EditFits
        <5> QED
          BY <1>11, <4>6, <5>1, <5>2 DEF Significant
      <4>7. EditFits(u)'
        BY <1>6, <4>4, <4>5, <4>6 DEF EditFits
      <4>8. "act" \in DOMAIN task'[u]
        BY <4>4 DEF EditTask
      <4> QED
        BY <4>4, <4>7, <4>8 DEF Doing
    <3>3. CASE u \notin Others("EDIT", {p})
      <4>1. task'[u] = task[u]
        BY <2>1, <3>1, <3>3
      <4>2. ~Idle(u)
        BY <2>2, <4>1 DEF Idle
      <4>3. ASSUME Doing(u, "EDIT")' PROVE EditFits(u)'
        <5>1. Doing(u, "EDIT") /\ EditFits(u)
          BY <4>1, <4>3 DEF Doing, Idle, CatalogueInv, TasksFit
        <5>2. p \notin task[u].on
          BY <3>3, <5>1 DEF Others
        <5>3. \A q \in task[u].on : q \in Products /\ q # p /\ (q \in restored' <=> q \in restored)
          BY <1>3, <5>1, <5>2 DEF EditFits, EditTask
        <5> QED
          BY <1>7, <4>1, <5>1, <5>3 DEF EditFits, EditTask
      <4>4. ASSUME Doing(u, "STATUS")' PROVE StatusFits(u)'
        BY <4>1, <4>4 DEF Doing, Idle, CatalogueInv, TasksFit, StatusFits
      <4> QED
        BY <4>1, <4>2, <4>3, <4>4 DEF CatalogueInv, TasksFit
    <3> QED
      BY <3>2, <3>3
  <2>3. task' = [u \in Editors |-> task'[u]]
    BY <2>1
  <2> QED
    BY <2>2, <2>3 DEF TasksFit, Doing
<1>13. ASSUME NEW q \in Products, q # p PROVE Explained(q)'
  <2>1. /\ product'[q] = product[q] /\ snapshot'[q] = snapshot[q] /\ worn'[q] = worn[q]
        /\ (q \in restored' <=> q \in restored) /\ (q \in mixed' <=> q \in mixed)
    BY <1>3, <1>7, <1>13 DEF CatalogueInv, CatalogueTyped
  <2>2. Told(q)' = Told(q)
    BY <2>1 DEF Told, ChangesFrom
  <2>3. Explained(q)
    BY DEF CatalogueInv
  <2> QED
    BY <2>1, <2>2, <2>3 DEF Explained
<1>14. worn'[p] = worn[p] \cup {<<next, Significant(data)>>}
  BY <1>3 DEF CatalogueInv, CatalogueTyped
<1>15. cuts => snapshot'[p] = [r \in 1..k |-> IF r = k THEN BeforeImage(t, data) ELSE snapshot[p][r]]
  <2>1. (1..(k - 1)) \cup {k} = 1..k
    BY <1>1
  <2> QED
    BY <1>3, <1>9, <2>1 DEF CatalogueInv, CatalogueTyped
<1>16. ~cuts => snapshot'[p] = snapshot[p]
  BY <1>3
<1>17. DOMAIN snapshot'[p] = 1..(next - 1)
  BY <1>1, <1>4, <1>9, <1>15, <1>16
<1>18. \A w \in worn'[p] : w[1] \in 1..next
  BY <1>1, <1>4, <1>14 DEF Explained
(* The past is told as it was told before.                                 *)
<1>19. ASSUME p \notin restored', NEW r \in 1..k, NEW f \in Triggers
       PROVE  Told(p)'[r][f] = Told(p)[r][f]
  <2>1. /\ Told(p)[r][f] = IF ChangesFrom(p, r, f) = {} THEN product[p].data[f]
                           ELSE snapshot[p][Min(ChangesFrom(p, r, f))][f]
        /\ Told(p)'[r][f] = IF ChangesFrom(p, r, f)' = {} THEN data[f]
                            ELSE snapshot'[p][Min(ChangesFrom(p, r, f)')][f]
    BY <1>1, <1>4, <1>6, <1>19 DEF Told
  <2>2. ChangesFrom(p, r, f) \in SUBSET (1..(k - 1)) /\ IsFiniteSet(ChangesFrom(p, r, f))
    <3>1. ChangesFrom(p, r, f) \in SUBSET (1..(k - 1))
      BY <1>1 DEF ChangesFrom
    <3>2. IsFiniteSet(1..(k - 1))
      <4>1. 1 \in Int /\ k - 1 \in Int
        BY <1>1
      <4> HIDE DEF k
      <4> QED
        BY <4>1, FS_Interval
    <3> QED
      BY <3>1, <3>2, FS_Subset
  <2>3. CASE ~cuts
    <3>1. ChangesFrom(p, r, f)' = ChangesFrom(p, r, f)
      BY <1>4, <1>6, <1>16, <2>3 DEF ChangesFrom
    <3> QED
      BY <1>11, <1>16, <1>19, <2>1, <2>3, <3>1
  <2>4. CASE cuts
    <3>1. task[t].before[f] = product[p].data[f]
      BY <1>9, <1>10, <1>11, <1>19, <2>4
    <3>2. f \in Fields
      BY DEF Triggers
    <3>0. snapshot'[p][k] = BeforeImage(t, data)
      <4>1. k \in 1..k
        BY <1>1
      <4> QED
        BY <1>15, <2>4, <4>1
    <3>3. ChangesFrom(p, r, f)' = ChangesFrom(p, r, f) \cup {s \in {k} : data[f] # task[t].before[f]}
      <4>1. \A s \in r..(k - 1) : snapshot'[p][s] = snapshot[p][s]
        BY <1>1, <1>15, <2>4
      <4>2. (f \in DOMAIN snapshot'[p][k]) <=> data[f] # task[t].before[f]
        BY <3>0, <3>2 DEF BeforeImage, Changed
      <4>3. r..(next - 1) = (r..(k - 1)) \cup {k}
        BY <1>1, <1>4, <2>4
      <4> QED
        BY <1>6, <4>1, <4>2, <4>3 DEF ChangesFrom
    <3>4. CASE ChangesFrom(p, r, f) = {}
      <4>1. CASE data[f] = task[t].before[f]
        BY <2>1, <3>1, <3>3, <3>4, <4>1
      <4>2. CASE data[f] # task[t].before[f]
        <5>1. ChangesFrom(p, r, f)' = {k}
          BY <3>3, <3>4, <4>2
        <5>2. Min({k}) = k
          BY DEF Min
        <5>3. snapshot'[p][k][f] = task[t].before[f]
          BY <3>0, <3>2, <4>2 DEF BeforeImage, Changed
        <5> QED
          BY <2>1, <3>1, <3>4, <5>1, <5>2, <5>3
      <4> QED
        BY <4>1, <4>2
    <3>5. CASE ChangesFrom(p, r, f) # {}
      <4> DEFINE C == ChangesFrom(p, r, f)
                 D == C \cup {s \in {k} : data[f] # task[t].before[f]}
      <4>1. C \in SUBSET Int /\ IsFiniteSet(C) /\ C # {} /\ \A y \in C : y \in Int /\ y < k
        BY <1>1, <2>2, <3>5
      <4>2. Min(C) \in C /\ \A y \in C : Min(C) <= y
        <5> HIDE DEF C
        <5> QED
          BY <4>1, LeastOf
      <4>3. IsFiniteSet(D) /\ D \in SUBSET Int /\ D # {}
        <5> HIDE DEF C
        <5>1. D = C \/ D = C \cup {k}
          OBVIOUS
        <5>2. IsFiniteSet(C \cup {k})
          BY <4>1, FS_AddElement
        <5>3. C \cup {k} \in SUBSET Int
          <6>1. k \in Int
            BY <1>1
          <6> HIDE DEF k
          <6> QED
            BY <4>1, <6>1
        <5> QED
          BY <4>1, <5>1, <5>2, <5>3
      <4>4. Min(C) \in D /\ \A y \in D : Min(C) <= y
        <5> HIDE DEF C
        <5>1. Min(C) \in Int /\ Min(C) < k /\ k \in Int
          BY <1>1, <4>1, <4>2
        <5>2. Min(C) <= k
          <6> HIDE DEF k
          <6> QED
            BY <5>1
        <5>3. \A y \in D : y \in C \/ y = k
          OBVIOUS
        <5> QED
          BY <4>2, <5>2, <5>3
      <4>5. Min(D) = Min(C)
        <5> HIDE DEF C, D
        <5> QED
          BY <4>3, <4>4, LeastOf
      <4>6. snapshot'[p][Min(C)] = snapshot[p][Min(C)]
        BY <1>1, <1>15, <2>2, <2>4, <4>1, <4>2
      <4> QED
        BY <2>1, <3>3, <3>5, <4>5, <4>6
    <3> QED
      BY <3>4, <3>5
  <2> QED
    BY <2>3, <2>4
<1>20. ASSUME p \notin restored', NEW w \in worn'[p] PROVE w[2] = Told(p)'[w[1]]
  <2>1. CASE w = <<next, Significant(data)>>
    <3>1. PICK n \in Nat \ {0} : n = next
      BY <1>4
    <3>2. n \in 1..n /\ n..(n - 1) = {}
      OBVIOUS
    <3>3. \A f \in Triggers : ChangesFrom(p, n, f)' = {}
      BY <1>6, <3>1, <3>2 DEF ChangesFrom
    <3>4. Told(p)'[n] = [f \in Triggers |->
              IF ChangesFrom(p, n, f)' = {} THEN product'[p].data[f]
              ELSE snapshot'[p][Min(ChangesFrom(p, n, f)')][f]]
      BY <1>6, <3>1, <3>2 DEF Told
    <3>5. Told(p)'[n] = [f \in Triggers |-> data[f]]
      BY <1>6, <3>3, <3>4
    <3> QED
      BY <2>1, <3>1, <3>5 DEF Significant
  <2>2. CASE w \in worn[p]
    <3>1. w[1] \in 1..k /\ w[2] = Told(p)[w[1]]
      BY <1>1, <1>11, <1>20, <2>2 DEF Explained
    <3>2. w[1] \in 1..next
      BY <1>1, <1>4, <3>1
    <3>3. /\ Told(p)[w[1]] = [f \in Triggers |-> Told(p)[w[1]][f]]
          /\ Told(p)'[w[1]] = [f \in Triggers |-> Told(p)'[w[1]][f]]
      BY <1>6, <3>1, <3>2 DEF Told
    <3> QED
      BY <1>19, <1>20, <3>1, <3>3
  <2> QED
    BY <1>14, <1>20, <2>1, <2>2
<1>21. product'[p].status # "DRAFT" => Cardinality(product'[p].data.codes) = 1
  BY <1>3, <1>6 DEF Storable
<1>22. p \notin mixed' => Classified(product'[p].data)
  BY <1>1, <1>3, <1>6 DEF EditFits, data
<1>23. Explained(p)'
  BY <1>6, <1>17, <1>18, <1>20, <1>21, <1>22 DEF Explained
<1> QED
  BY <1>8, <1>12, <1>13, <1>23 DEF CatalogueInv

LEMMA ProductNextKeeps == CatalogueInv /\ [ProductNext]_productVars => CatalogueInv'
<1> SUFFICES ASSUME CatalogueInv, [ProductNext]_productVars PROVE CatalogueInv'
  OBVIOUS
<1> USE DEF CatalogueInv, CatalogueTyped, TasksFit
<1>1. ASSUME NEW t \in Editors, NEW p \in Products, NEW e \in Edits, LoadEdit(t, p, e) PROVE CatalogueInv'
  <2> DEFINE r == [act |-> "EDIT", on |-> {p}, edit |-> e, before |-> product[p].data,
                   revision |-> product[p].revision, overtaken |-> FALSE]
  <2>1. /\ task' = [task EXCEPT ![t] = r]
        /\ Classified(Written(product[p].data, e))
        /\ UNCHANGED <<product, snapshot, bom, worn, restored, mixed, unseen>>
    BY <1>1 DEF LoadEdit, Begin
  <2>2. product[p] \in ProductRow
    OBVIOUS
  <2>3. r \in EditTask /\ product[p].revision \in 1..product[p].revision
    BY <2>2 DEF EditTask, ProductRow
  <2>4. task'[t] = r
    BY <2>1
  <2>5. EditFits(t)'
    BY <2>1, <2>3, <2>4 DEF EditFits
  <2>6. "act" \in DOMAIN task'[t] /\ ~Doing(t, "STATUS")'
    BY <2>4 DEF Doing
  <2>7. \A u \in Editors : u # t => task'[u] = task[u]
    BY <2>1
  <2> HIDE DEF r
  <2> QED
    BY <2>1, <2>5, <2>6, <2>7, DataUntouched
<1>2. ASSUME NEW t \in Editors, NEW p \in Products, NEW to \in {"ACTIVE", "DISCONTINUED", "ARCHIVED"},
             LoadStatus(t, p, to)
      PROVE  CatalogueInv'
  <2> DEFINE r == [act |-> "STATUS", on |-> {p}, to |-> to, overtaken |-> FALSE]
  <2>1. /\ task' = [task EXCEPT ![t] = r]
        /\ UNCHANGED <<product, snapshot, bom, worn, restored, mixed, unseen>>
    BY <1>2 DEF LoadStatus, Begin
  <2>2. task'[t] = r
    BY <2>1
  <2>3. StatusFits(t)' /\ "act" \in DOMAIN task'[t] /\ ~Doing(t, "EDIT")'
    BY <2>2 DEF Doing, StatusFits
  <2>4. \A u \in Editors : u # t => task'[u] = task[u]
    BY <2>1
  <2> HIDE DEF r
  <2> QED
    BY <2>1, <2>3, <2>4, DataUntouched
<1>3. ASSUME NEW t \in Editors, CommitEdit(t) PROVE CatalogueInv'
  <2>1. PICK p \in task[t].on : Edit(t, p) /\ Finish(t, Others("EDIT", {p}))
    BY <1>3 DEF CommitEdit
  <2>2. Doing(t, "EDIT") /\ p \in Products
    BY <1>3 DEF CommitEdit, EditFits, EditTask
  <2> QED
    BY <2>1, <2>2, EditKeeps
<1>4. ASSUME NEW t \in Editors, ChangeStatus(t) PROVE CatalogueInv'
  <2>1. StatusFits(t)
    BY <1>4 DEF ChangeStatus
  <2>2. PICK p \in task[t].on : /\ Storable(task[t].to, product[p].data)
                                /\ product' = [product EXCEPT ![p].status = task[t].to]
    BY <1>4 DEF ChangeStatus
  <2>3. /\ p \in Products /\ task[t].to \in {"ACTIVE", "DISCONTINUED", "ARCHIVED"}
        /\ Cardinality(product[p].data.codes) = 1
    BY <2>1, <2>2 DEF StatusFits, Storable
  <2>4. product'[p] = [product[p] EXCEPT !.status = task[t].to] /\ product[p] \in ProductRow
    BY <2>2, <2>3
  <2>5. /\ product'[p] \in ProductRow /\ product'[p].data = product[p].data
        /\ product'[p].revision = product[p].revision
    BY <2>3, <2>4 DEF ProductRow
  <2>6. \A q \in Products : q # p => product'[q] = product[q] /\ product[q] \in ProductRow
    BY <2>2
  <2>7. product' \in [Products -> ProductRow]
    <3>1. product' = [q \in Products |-> product'[q]]
      BY <2>2
    <3> QED
      BY <2>5, <2>6, <3>1
  <2>8. task' = [u \in Editors |-> task'[u]] /\ \A u \in Editors : task'[u] = task[u] \/ task'[u] = NoTask
    BY <1>4 DEF ChangeStatus, Finish
  <2>9. UNCHANGED <<snapshot, worn, restored, mixed>>
    BY <1>4 DEF ChangeStatus
  <2>10. \A q \in Products :
            /\ product'[q].data = product[q].data /\ product'[q].revision = product[q].revision
            /\ product'[q].status = product[q].status \/ Cardinality(product[q].data.codes) = 1
    BY <2>3, <2>5, <2>6
  <2> QED
    BY <2>7, <2>8, <2>9, <2>10, DataUntouched
(* A step of the kits ends, or marks as overtaken, none but tasks of kits. *)
<1>5. ASSUME NEW t \in Editors, NEW over \in SUBSET Editors, Finish(t, over),
             \A u \in over : Doing(u, "ADD") \/ Doing(u, "REMOVE")
      PROVE  /\ task' = [u \in Editors |-> task'[u]]
             /\ \A u \in Editors :
                    \/ task'[u] = task[u]
                    \/ task'[u] = NoTask
                    \/ /\ "act" \in DOMAIN task'[u]
                       /\ Doing(u, "EDIT")' => EditFits(u)'
                       /\ Doing(u, "STATUS")' => StatusFits(u)'
  <2>1. ASSUME NEW u \in over, u # t
        PROVE  "act" \in DOMAIN task'[u] /\ ~Doing(u, "EDIT")' /\ ~Doing(u, "STATUS")'
    <3>1. task'[u] = [task[u] EXCEPT !.overtaken = TRUE] /\ ~Idle(u) /\ task[u].act \in {"ADD", "REMOVE"}
      BY <1>5, <2>1 DEF Finish, Doing
    <3>2. "act" \in DOMAIN task[u]
      BY <3>1
    <3>3. "act" \in DOMAIN task'[u] /\ task'[u].act = task[u].act
      BY <3>1, <3>2
    <3> QED
      BY <3>1, <3>3 DEF Doing
  <2> QED
    BY <1>5, <2>1 DEF Finish
<1>6. ASSUME NEW t \in Editors, KitStep(t) PROVE CatalogueInv'
  <2>1. ASSUME NEW r, NEW act \in {"ADD", "REMOVE"}, r.act = act, "act" \in DOMAIN r,
               Begin(t, r), UNCHANGED <<product, snapshot, worn, restored, mixed>>
        PROVE  CatalogueInv'
    <3>1. task' = [task EXCEPT ![t] = r]
      BY <2>1 DEF Begin
    <3>2. "act" \in DOMAIN task'[t] /\ ~Doing(t, "EDIT")' /\ ~Doing(t, "STATUS")'
      BY <2>1, <3>1 DEF Doing
    <3>3. \A u \in Editors : u # t => task'[u] = task[u]
      BY <3>1
    <3> QED
      BY <2>1, <3>1, <3>2, <3>3, DataUntouched
  <2>2. ASSUME NEW p \in Products, NEW c \in Products, NEW portion \in Portions,
               LoadComponent(t, p, c, portion)
        PROVE  CatalogueInv'
    BY <2>1, <2>2 DEF LoadComponent
  <2>3. ASSUME NEW p \in Products, LoadRemove(t, p) PROVE CatalogueInv'
    BY <2>1, <2>3 DEF LoadRemove
  <2>4. CASE CommitComponent(t)
    <3>1. Finish(t, Others("ADD", Products) \cup Others("REMOVE", {task[t].entry.component}))
      BY <2>4 DEF CommitComponent
    <3>2. UNCHANGED <<product, snapshot, worn, restored, mixed>>
      BY <2>4 DEF CommitComponent
    <3> DEFINE over == Others("ADD", Products) \cup Others("REMOVE", {task[t].entry.component})
    <3>3. over \in SUBSET Editors /\ \A u \in over : Doing(u, "ADD") \/ Doing(u, "REMOVE")
      BY DEF Others
    <3> HIDE DEF over
    <3> QED
      BY <1>5, <3>1, <3>2, <3>3, DataUntouched DEF over
  <2>5. CASE CommitRemove(t)
    <3>1. PICK p \in task[t].on : /\ product' = [product EXCEPT ![p].gone = TRUE]
                                  /\ Finish(t, Others("ADD", {p}))
      BY <2>5 DEF CommitRemove
    <3>2. UNCHANGED <<snapshot, worn, restored, mixed>>
      BY <2>5 DEF CommitRemove
    <3>3. Others("ADD", {p}) \in SUBSET Editors /\ \A u \in Others("ADD", {p}) : Doing(u, "ADD") \/ Doing(u, "REMOVE")
      BY DEF Others
    <3>4. product' = [q \in Products |-> product'[q]] /\ \A q \in Products :
              product'[q] = product[q] \/ product'[q] = [product[q] EXCEPT !.gone = TRUE]
      BY <3>1
    <3>5. \A q \in Products :
            /\ product'[q] \in ProductRow /\ product'[q].status = product[q].status
            /\ product'[q].data = product[q].data /\ product'[q].revision = product[q].revision
      <4> SUFFICES ASSUME NEW q \in Products
                   PROVE  /\ product'[q] \in ProductRow /\ product'[q].status = product[q].status
                          /\ product'[q].data = product[q].data /\ product'[q].revision = product[q].revision
        OBVIOUS
      <4>1. product[q] \in ProductRow
        OBVIOUS
      <4> QED
        BY <3>4, <4>1 DEF ProductRow
    <3>6. product' \in [Products -> ProductRow]
      BY <3>4, <3>5
    <3> QED
      BY <1>5, <3>1, <3>2, <3>3, <3>5, <3>6, DataUntouched
  <2> QED
    BY <1>6, <2>2, <2>3, <2>4, <2>5 DEF KitStep
<1>7. ASSUME NEW t \in Editors, Withdraw(t) PROVE CatalogueInv'
  <2>1. Finish(t, {}) /\ UNCHANGED <<product, snapshot, worn, restored, mixed>>
    BY <1>7 DEF Withdraw
  <2> QED
    BY <1>5, <2>1, DataUntouched
<1>8. ASSUME NEW e, RemoveComponent(e) PROVE CatalogueInv'
  BY <1>8, DataUntouched DEF RemoveComponent
<1>9. CASE UNCHANGED productVars
  BY <1>9, DataUntouched DEF productVars
<1> QED
  BY <1>1, <1>2, <1>3, <1>4, <1>6, <1>7, <1>8, <1>9 DEF ProductNext, ProductStep

LEMMA ProductsBegin == ProductInit => CatalogueInv
<1> SUFFICES ASSUME ProductInit PROVE CatalogueInv
  OBVIOUS
<1>1. ASSUME NEW p \in Products
      PROVE  \E type \in Types, terms \in Terms : product[p] = NewProduct(type, terms)
  BY DEF ProductInit
<1>2. ASSUME NEW p \in Products
      PROVE  /\ product[p] \in ProductRow /\ product[p].revision = 1 /\ product[p].status = "DRAFT"
             /\ product[p].data.codes = {}
  <2>1. PICK type \in Types, terms \in Terms : product[p] = NewProduct(type, terms)
    BY <1>1, <1>2
  <2>2. [type |-> type, codes |-> {}, terms |-> terms, tags |-> terms] \in ProductData
    BY DEF ProductData
  <2> QED
    BY <2>1, <2>2 DEF NewProduct, ProductRow
<1>3. CatalogueTyped
  <2>1. product = [p \in Products |-> product[p]]
    BY DEF ProductInit
  <2> QED
    BY <1>2, <2>1 DEF CatalogueTyped, ProductInit
<1>4. TasksFit
  BY DEF TasksFit, ProductInit, Doing, Idle
<1>5. ASSUME NEW p \in Products PROVE Explained(p)
  <2>1. DOMAIN snapshot[p] = {} /\ 1..(product[p].revision - 1) = {}
    BY <1>2 DEF ProductInit
  <2>2. worn[p] = {<<1, Significant(product[p].data)>>}
    BY DEF ProductInit
  <2>3. \A f \in Triggers : ChangesFrom(p, 1, f) = {}
    BY <1>2, <2>1 DEF ChangesFrom
  <2>4. Told(p)[1] = Significant(product[p].data)
    BY <1>2, <2>3 DEF Told, Significant
  <2> QED
    BY <1>2, <2>1, <2>2, <2>4 DEF Explained, Classified
<1> QED
  BY <1>3, <1>4, <1>5 DEF CatalogueInv

(* RevisionsExplain: what a product was while it had a revision is told    *)
(* from its row and the before-images of its later revisions, for any      *)
(* number of edits that overlap; and what is in force has its tax code.    *)
THEOREM RevisionsAreKept == ProductSpec => []RevisionsExplain
<1>1. CatalogueInv => RevisionsExplain
  BY DEF CatalogueInv, Explained, RevisionsExplain
<1> QED
  BY <1>1, ProductsBegin, ProductNextKeeps, PTL DEF ProductSpec

-----------------------------------------------------------------------------
(* The kits.  A product is below itself if a walk down the entries leads   *)
(* back to it, so a new entry closes a loop only if a walk down the old    *)
(* ones, at most MaxDepth long, leads from its component to its parent:    *)
(* the walk of the check, if nobody has added an entry since.  KitInv says *)
(* so of each task at work that none overtook.  And that explode(), which  *)
(* multiplies on the way down, answers what is needed, added up from       *)
(* below: what the lines of one level carry of a component further down is *)
(* what those of the next level are of it and carry of it.                 *)
Part == [parent : Products, component : Products, portion : Portions]

Under(entries, ps) == {e.component : e \in {f \in entries : f.parent \in ps}}

(* The walk down a kit is defined at every level, by products.             *)
LEMMA LevelsFollow ==
    ASSUME NEW entries \in SUBSET Part, NEW p \in Products
    PROVE  /\ LevelsBelow(entries, p) \in [0..MaxDepth + 1 -> SUBSET Products]
           /\ LevelsBelow(entries, p)[0] = {p}
           /\ \A n \in 1..MaxDepth + 1 :
                  LevelsBelow(entries, p)[n] = Under(entries, LevelsBelow(entries, p)[n - 1])
<1> DEFINE N == MaxDepth + 1
           V == SUBSET Products
           f == [i \in 1..N |-> [ps \in V |-> Under(entries, ps)]]
<1>1. N \in Nat
  BY ProductsAssumption
<1>2. ASSUME NEW ps PROVE Under(entries, ps) \in V
  BY DEF Under, Part
<1>3. {p} \in V
  OBVIOUS
<1> HIDE DEF N, V
<1>11. f \in [1..N -> [V -> V]] /\ \A i \in 1..N : \A v \in V : f[i][v] = Under(entries, v)
  BY <1>2
<1> HIDE DEF f
<1>12. \E g \in [0..N -> V] : Recurs(g, N, {p}, f)
  BY <1>1, <1>3, <1>11, RecursionExists
<1>4. PICK g \in [0..N -> V] : g[0] = {p} /\ \A i \in 1..N : g[i] = f[i][g[i - 1]]
  BY <1>12 DEF Recurs
<1>5. ASSUME NEW i \in 1..N PROVE g[i] = Under(entries, g[i - 1])
  <2>1. i - 1 \in 0..N
    BY <1>1
  <2> QED
    BY <1>4, <1>11, <2>1
<1>6. g = [n \in 0..N |-> IF n = 0 THEN {p} ELSE Under(entries, g[n - 1])]
  <2>1. \A n \in 0..N : n # 0 => n \in 1..N
    BY <1>1
  <2> QED
    BY <1>4, <1>5, <2>1
<1> DEFINE level == LevelsBelow(entries, p)
<1>7. level = [n \in 0..N |-> IF n = 0 THEN {p} ELSE Under(entries, level[n - 1])]
  BY <1>6 DEF LevelsBelow, Under, N
<1> HIDE DEF level
<1>8. level[0] = {p} /\ \A i \in 1..N : i - 1 \in 0..N /\ level[i] = Under(entries, level[i - 1])
  <2>1. 0 \in 0..N /\ \A i \in 1..N : i \in 0..N /\ i # 0 /\ i - 1 \in 0..N
    BY <1>1
  <2> QED
    BY <1>7, <2>1
<1>10. level \in [0..N -> V]
  <2>1. \A n \in 0..N : level[n] \in V
    BY <1>2, <1>3, <1>7
  <2> QED
    BY <1>7, <2>1
<1> QED
  BY <1>8, <1>10 DEF level, N, V

(* A walk of n steps down the entries.                                     *)
Walk(entries, w, n) ==
    /\ w \in [0..n -> Products]
    /\ \A i \in 0..n - 1 : \E e \in entries : e.parent = w[i] /\ e.component = w[i + 1]

(* What lies n levels below a product is where walks of n steps lead.      *)
LEMMA LevelIsWalked ==
    ASSUME NEW entries \in SUBSET Part, NEW p \in Products, NEW n \in 0..MaxDepth + 1,
           NEW q \in LevelsBelow(entries, p)[n]
    PROVE  \E w : Walk(entries, w, n) /\ w[0] = p /\ w[n] = q
<1> DEFINE N == MaxDepth + 1
           level == LevelsBelow(entries, p)
           F == {m \in 0..N : \A r \in level[m] : \E w : Walk(entries, w, m) /\ w[0] = p /\ w[m] = r}
<1>1. N \in Nat
  BY ProductsAssumption
<1>2. /\ level \in [0..N -> SUBSET Products] /\ level[0] = {p}
      /\ \A m \in 1..N : level[m] = Under(entries, level[m - 1])
  BY LevelsFollow
<1> HIDE DEF level, N
<1>3. 0 \in F
  <2> SUFFICES ASSUME NEW r \in level[0] PROVE \E w : Walk(entries, w, 0) /\ w[0] = p /\ w[0] = r
    BY <1>1
  <2> DEFINE w == [i \in 0..0 |-> p]
  <2>1. Walk(entries, w, 0) /\ w[0] = p /\ w[0] = r
    BY <1>2 DEF Walk
  <2> HIDE DEF w
  <2> QED
    BY <2>1
<1>4. ASSUME NEW m \in 0..N, m + 1 \in 0..N, m \in F PROVE m + 1 \in F
  <2> SUFFICES ASSUME NEW r \in level[m + 1]
               PROVE  \E w : Walk(entries, w, m + 1) /\ w[0] = p /\ w[m + 1] = r
    BY <1>4
  <2>1. m \in Nat /\ m + 1 \in 1..N /\ (m + 1) - 1 = m
    BY <1>1, <1>4
  <2>2. level[m + 1] = Under(entries, level[m])
    BY <1>2, <2>1
  <2>3. PICK e \in entries : e.parent \in level[m] /\ e.component = r
    BY <2>2 DEF Under
  <2>4. PICK w : Walk(entries, w, m) /\ w[0] = p /\ w[m] = e.parent
    BY <1>4, <2>3
  <2> DEFINE v == [i \in 0..m + 1 |-> IF i = m + 1 THEN r ELSE w[i]]
  <2>5. r \in Products
    BY <2>3 DEF Part
  <2>6. v \in [0..m + 1 -> Products]
    BY <2>1, <2>4, <2>5 DEF Walk
  <2>7. ASSUME NEW i \in 0..(m + 1) - 1
        PROVE  \E d \in entries : d.parent = v[i] /\ d.component = v[i + 1]
    <3>1. i \in 0..m /\ i + 1 \in 0..m + 1 /\ v[i] = w[i]
      BY <2>1
    <3>2. CASE i = m
      <4>1. v[i + 1] = r
        BY <3>1, <3>2
      <4> QED
        BY <2>3, <2>4, <3>1, <3>2, <4>1
    <3>3. CASE i # m
      <4>1. i \in 0..m - 1 /\ v[i + 1] = w[i + 1]
        BY <2>1, <3>1, <3>3
      <4> QED
        BY <2>4, <3>1, <4>1 DEF Walk
    <3> QED
      BY <3>2, <3>3
  <2>8. v[0] = p /\ v[m + 1] = r
    BY <2>1, <2>4
  <2>9. Walk(entries, v, m + 1)
    BY <2>6, <2>7 DEF Walk
  <2> HIDE DEF v
  <2> QED
    BY <2>8, <2>9
<1> HIDE DEF F
<1>5. \A m \in 0..N : m \in F
  BY <1>1, <1>3, <1>4, PrefixInduction
<1>6. n \in F
  BY <1>5 DEF N
<1> QED
  BY <1>6 DEF F, level

LEMMA WalkIsLevel ==
    ASSUME NEW entries \in SUBSET Part, NEW n \in 0..MaxDepth + 1, NEW w, Walk(entries, w, n)
    PROVE  w[n] \in LevelsBelow(entries, w[0])[n]
<1> DEFINE N == MaxDepth + 1
           p == w[0]
           level == LevelsBelow(entries, p)
           F == {m \in 0..n : w[m] \in level[m]}
<1>1. N \in Nat /\ n \in Nat /\ n <= N
  BY ProductsAssumption
<1>0. p \in Products
  BY <1>1 DEF Walk
<1> HIDE DEF p
<1>2. /\ level \in [0..N -> SUBSET Products] /\ level[0] = {p}
      /\ \A m \in 1..N : level[m] = Under(entries, level[m - 1])
  BY <1>0, LevelsFollow
<1> HIDE DEF level, N
<1>3. 0 \in F
  BY <1>1, <1>2 DEF p
<1>4. ASSUME NEW m \in 0..n, m + 1 \in 0..n, m \in F PROVE m + 1 \in F
  <2>1. m \in 0..n - 1 /\ m + 1 \in 1..N /\ (m + 1) - 1 = m
    BY <1>1, <1>4
  <2>2. PICK e \in entries : e.parent = w[m] /\ e.component = w[m + 1]
    BY <2>1 DEF Walk
  <2>3. level[m + 1] = Under(entries, level[m])
    BY <1>2, <2>1
  <2>4. w[m] \in level[m]
    BY <1>4
  <2>5. w[m + 1] \in Under(entries, level[m])
    BY <2>2, <2>4 DEF Under
  <2> QED
    BY <1>4, <2>3, <2>5
<1> HIDE DEF F
<1>5. \A m \in 0..n : m \in F
  BY <1>1, <1>3, <1>4, PrefixInduction
<1>6. n \in F
  BY <1>1, <1>5
<1> QED
  BY <1>6 DEF F, level, p

(* More entries lead further.                                              *)
LEMMA LevelsGrow ==
    ASSUME NEW more \in SUBSET Part, NEW entries \in SUBSET more, NEW p \in Products,
           NEW n \in 0..MaxDepth + 1
    PROVE  LevelsBelow(entries, p)[n] \subseteq LevelsBelow(more, p)[n]
<1> SUFFICES ASSUME NEW q \in LevelsBelow(entries, p)[n] PROVE q \in LevelsBelow(more, p)[n]
  OBVIOUS
<1>1. entries \in SUBSET Part
  OBVIOUS
<1>2. PICK w : Walk(entries, w, n) /\ w[0] = p /\ w[n] = q
  BY <1>1, LevelIsWalked
<1>3. Walk(more, w, n)
  BY <1>2 DEF Walk
<1> QED
  BY <1>2, <1>3, WalkIsLevel

Acyclic(entries) ==
    \A p \in Products : \A n \in 1..MaxDepth + 1 : p \notin LevelsBelow(entries, p)[n]

(* A loop through a new entry can be entered there and left at the first   *)
(* return to its parent: a walk down the old entries, which the check has  *)
(* made.                                                                   *)
LEMMA NewEntryClosesNoLoop ==
    ASSUME NEW seenBy \in SUBSET Part, NEW entries \in SUBSET seenBy, NEW e \in Part,
           e.parent # e.component, Acyclic(entries),
           \A n \in 1..MaxDepth : e.parent \notin LevelsBelow(seenBy, e.component)[n]
    PROVE  Acyclic(entries \cup {e})
<1> DEFINE p == e.parent
           c == e.component
           more == entries \cup {e}
<1>1. more \in SUBSET Part /\ entries \in SUBSET Part /\ p \in Products /\ c \in Products /\ p # c
  BY DEF Part
<1>2. SUFFICES ASSUME NEW x \in Products, NEW n \in 1..MaxDepth + 1, x \in LevelsBelow(more, x)[n]
               PROVE  FALSE
  BY DEF Acyclic
<1>3. MaxDepth \in Nat /\ n \in Nat /\ n >= 1 /\ n \in 0..MaxDepth + 1
  BY ProductsAssumption
<1>4. PICK w : Walk(more, w, n) /\ w[0] = x /\ w[n] = x
  BY <1>1, <1>2, <1>3, LevelIsWalked
<1>5. CASE \A i \in 0..n - 1 : ~(w[i] = p /\ w[i + 1] = c)
  <2>1. Walk(entries, w, n)
    <3>1. ASSUME NEW i \in 0..n - 1 PROVE \E d \in entries : d.parent = w[i] /\ d.component = w[i + 1]
      <4>1. PICK d \in more : d.parent = w[i] /\ d.component = w[i + 1]
        BY <1>4 DEF Walk
      <4>2. d # e
        BY <1>5, <4>1
      <4> QED
        BY <4>1, <4>2
    <3> QED
      BY <1>4, <3>1 DEF Walk
  <2>2. x \in LevelsBelow(entries, x)[n]
    BY <1>1, <1>3, <1>4, <2>1, WalkIsLevel
  <2> QED
    BY <2>2 DEF Acyclic
<1>6. ASSUME NEW i \in 0..n - 1, w[i] = p, w[i + 1] = c PROVE FALSE
  <2> DEFINE At(k) == IF i + 1 + k <= n THEN i + 1 + k ELSE i + 1 + k - n
             v == [k \in 0..n - 1 |-> w[At(k)]]
  <2>1. i \in Nat /\ i <= n - 1
    BY <1>3
  <2>2. ASSUME NEW k \in 0..n - 1 PROVE At(k) \in 0..n
    BY <1>3, <2>1
  <2>3. v \in [0..n - 1 -> Products]
    <3> HIDE DEF At
    <3> QED
      BY <1>4, <2>2 DEF Walk
  <2>4. v[0] = c /\ v[n - 1] = p
    <3>1. 0 \in 0..n - 1 /\ n - 1 \in 0..n - 1
      BY <1>3
    <3>2. At(0) = i + 1
      BY <1>3, <2>1
    <3>3. w[At(n - 1)] = w[i]
      <4>1. CASE i = 0
        <5>1. At(n - 1) = n
          BY <1>3, <4>1
        <5> QED
          BY <1>4, <4>1, <5>1
      <4>2. CASE i # 0
        <5>1. At(n - 1) = i
          BY <1>3, <2>1, <4>2
        <5> QED
          BY <5>1
      <4> QED
        BY <4>1, <4>2
    <3> HIDE DEF At
    <3> QED
      BY <1>6, <3>1, <3>2, <3>3
  <2>5. ASSUME NEW k \in 0..n - 1, k + 1 \in 0..n - 1
        PROVE  \E d \in more : d.parent = v[k] /\ d.component = v[k + 1]
    <3>1. v[k] = w[At(k)] /\ v[k + 1] = w[At(k + 1)]
      BY <2>5
    <3>2. k \in Nat /\ k <= n - 2
      BY <1>3, <2>5
    <3>3. \E j \in 0..n - 1 : w[At(k)] = w[j] /\ w[At(k + 1)] = w[j + 1]
      <4>1. CASE i + 1 + k < n
        <5>1. At(k) = i + 1 + k /\ At(k + 1) = (i + 1 + k) + 1 /\ i + 1 + k \in 0..n - 1
          BY <1>3, <2>1, <3>2, <4>1
        <5> QED
          BY <5>1
      <4>2. CASE i + 1 + k = n
        <5>1. At(k) = n /\ At(k + 1) = 0 + 1 /\ 0 \in 0..n - 1
          BY <1>3, <2>1, <3>2, <4>2
        <5> QED
          BY <1>4, <5>1
      <4>3. CASE i + 1 + k > n
        <5>1. /\ At(k) = i + 1 + k - n /\ At(k + 1) = (i + 1 + k - n) + 1
              /\ i + 1 + k - n \in 0..n - 1
          BY <1>3, <2>1, <3>2, <4>3
        <5> QED
          BY <5>1
      <4> QED
        BY <1>3, <2>1, <3>2, <4>1, <4>2, <4>3
    <3> HIDE DEF At, v
    <3> QED
      BY <1>4, <3>1, <3>3 DEF Walk
  <2> HIDE DEF v
  <2> DEFINE S == {k \in 0..n - 1 : v[k] = p}
  <2>6. S \in SUBSET Int /\ IsFiniteSet(S) /\ S # {}
    <3>1. n - 1 \in S
      BY <1>3, <2>4
    <3>2. IsFiniteSet(0..n - 1)
      BY <1>3, FS_Interval
    <3> QED
      BY <3>1, <3>2, FS_Subset
  <2>7. PICK j \in S : \A k \in S : j <= k
    <3> HIDE DEF S
    <3> QED
      BY <2>6, LeastOf
  <2>8. j \in 0..n - 1 /\ v[j] = p /\ \A k \in 0..n - 1 : k < j => v[k] # p
    BY <2>7
  <2>9. j \in 1..MaxDepth
    BY <1>1, <1>3, <2>4, <2>8
  <2> DEFINE u == [k \in 0..j |-> v[k]]
  <2>10. Walk(entries, u, j)
    <3>1. u \in [0..j -> Products]
      BY <2>3, <2>8
    <3>2. ASSUME NEW k \in 0..j - 1 PROVE \E d \in entries : d.parent = u[k] /\ d.component = u[k + 1]
      <4>1. k \in 0..n - 1 /\ k + 1 \in 0..n - 1 /\ k < j /\ k \in 0..j /\ k + 1 \in 0..j
        BY <1>3, <2>8
      <4>2. PICK d \in more : d.parent = v[k] /\ d.component = v[k + 1]
        BY <2>5, <4>1
      <4>3. d # e
        BY <2>8, <4>1, <4>2
      <4> QED
        BY <4>1, <4>2, <4>3
    <3> QED
      BY <3>1, <3>2 DEF Walk
  <2>11. u[0] = c /\ u[j] = p /\ j \in 0..MaxDepth + 1
    BY <1>3, <2>4, <2>8, <2>9
  <2> HIDE DEF u
  <2>12. p \in LevelsBelow(entries, c)[j]
    BY <1>1, <2>10, <2>11, WalkIsLevel
  <2>13. p \in LevelsBelow(seenBy, c)[j]
    BY <1>1, <2>11, <2>12, LevelsGrow
  <2> QED
    BY <2>9, <2>13
<1> QED
  BY <1>5, <1>6

LEMMA AcyclicShrinks ==
    ASSUME NEW more \in SUBSET Part, NEW entries \in SUBSET more, Acyclic(more)
    PROVE  Acyclic(entries)
<1> SUFFICES ASSUME NEW p \in Products, NEW n \in 1..MaxDepth + 1
             PROVE  p \notin LevelsBelow(entries, p)[n]
  BY DEF Acyclic
<1>1. n \in 0..MaxDepth + 1
  BY ProductsAssumption
<1> QED
  BY <1>1, LevelsGrow DEF Acyclic

(* Entries whose check none overtook.                                      *)
Seen == {e \in bom : Key(e) \notin unseen}

AddTask    == [act : {"ADD"}, on : SUBSET Products, overtaken : BOOLEAN, entry : Part]
RemoveTask == [act : {"REMOVE"}, on : SUBSET Products, overtaken : BOOLEAN]

(* What the walk has found holds as long as nobody adds an entry.          *)
AddFits(t) ==
    LET e == task[t].entry
    IN /\ task[t] \in AddTask
       /\ e.parent # e.component
       /\ task[t].on = {e.parent, e.component}
       /\ ~task[t].overtaken =>
              /\ ~product[e.component].gone
              /\ \A n \in 1..MaxDepth : e.parent \notin LevelsBelow(bom, e.component)[n]

RemoveFits(t) ==
    /\ task[t] \in RemoveTask
    /\ ~task[t].overtaken => \A p \in task[t].on : UsesOf(p) = {}

KitTaskFits(t) == (Doing(t, "ADD") => AddFits(t)) /\ (Doing(t, "REMOVE") => RemoveFits(t))

KitRows ==
    /\ bom \in SUBSET Part /\ IsFiniteSet(bom)
    /\ \A e, f \in bom : Key(e) = Key(f) => e = f
    /\ \A e \in Seen : ~product[e.component].gone
    /\ Acyclic(Seen)

KitInv == KitRows /\ \A t \in Editors : KitTaskFits(t)

(* A task goes on while entries are only taken away.                       *)
LEMMA KitTaskStays ==
    ASSUME KitInv, bom' \in SUBSET bom, NEW u \in Editors, task'[u] = task[u],
           Doing(u, "ADD") /\ ~task[u].overtaken => ~product'[task[u].entry.component].gone
    PROVE  KitTaskFits(u)'
<1>1. Doing(u, "ADD")' = Doing(u, "ADD") /\ Doing(u, "REMOVE")' = Doing(u, "REMOVE")
  BY DEF Doing, Idle
<1>2. bom \in SUBSET Part /\ KitTaskFits(u)
  BY DEF KitInv, KitRows
<1>3. ASSUME Doing(u, "ADD") PROVE AddFits(u)'
  <2> DEFINE e == task[u].entry
  <2>1. AddFits(u) /\ e \in Part
    BY <1>2, <1>3 DEF KitTaskFits, AddFits, AddTask
  <2>2. ASSUME NEW n \in 1..MaxDepth, ~task[u].overtaken
        PROVE  e.parent \notin LevelsBelow(bom', e.component)[n]
    <3>1. n \in 0..MaxDepth + 1 /\ e.component \in Products
      BY <2>1, ProductsAssumption DEF Part
    <3>2. LevelsBelow(bom', e.component)[n] \subseteq LevelsBelow(bom, e.component)[n]
      BY <1>2, <3>1, LevelsGrow
    <3> QED
      BY <2>1, <2>2, <3>2 DEF AddFits
  <2> QED
    BY <1>3, <2>1, <2>2 DEF AddFits
<1>4. ASSUME Doing(u, "REMOVE") PROVE RemoveFits(u)'
  BY <1>2, <1>4 DEF KitTaskFits, RemoveFits, UsesOf
<1> QED
  BY <1>1, <1>3, <1>4 DEF KitTaskFits

(* Nothing is asked of a task that was overtaken but its shape.            *)
LEMMA KitTaskOvertaken ==
    ASSUME NEW u \in Editors, KitTaskFits(u), ~Idle(u), "act" \in DOMAIN task[u],
           task'[u] = [task[u] EXCEPT !.overtaken = TRUE]
    PROVE  KitTaskFits(u)'
<1>0. task'[u].act = task[u].act
  OBVIOUS
<1>1. ASSUME Doing(u, "ADD")' PROVE AddFits(u)'
  <2>1. AddFits(u)
    BY <1>0, <1>1 DEF KitTaskFits, Doing
  <2> QED
    BY <2>1 DEF AddFits, AddTask
<1>2. ASSUME Doing(u, "REMOVE")' PROVE RemoveFits(u)'
  <2>1. RemoveFits(u)
    BY <1>0, <1>2 DEF KitTaskFits, Doing
  <2> QED
    BY <2>1 DEF RemoveFits, RemoveTask
<1> QED
  BY <1>1, <1>2 DEF KitTaskFits

(* What a request finds when it loads.                                     *)
LEMMA LoadingFits ==
    ASSUME CatalogueInv, KitInv, NEW t \in Editors, NEW r, Begin(t, r),
           UNCHANGED <<product, bom, unseen>>, KitTaskFits(t)'
    PROVE  KitInv'
<1>1. task' = [task EXCEPT ![t] = r] /\ task = [u \in Editors |-> task[u]]
  BY DEF Begin, CatalogueInv, TasksFit
<1>2. ASSUME NEW u \in Editors, u # t PROVE KitTaskFits(u)'
  <2>1. task'[u] = task[u]
    BY <1>1, <1>2
  <2>2. Doing(u, "ADD") /\ ~task[u].overtaken => ~product'[task[u].entry.component].gone
    BY DEF KitInv, KitTaskFits, AddFits
  <2> QED
    BY <2>1, <2>2, KitTaskStays
<1>3. KitRows'
  BY DEF KitInv, KitRows, Seen
<1> QED
  BY <1>2, <1>3 DEF KitInv

LEMMA LoadComponentKeeps ==
    ASSUME CatalogueInv, KitInv, NEW t \in Editors, NEW p \in Products, NEW c \in Products,
           NEW portion \in Portions, LoadComponent(t, p, c, portion)
    PROVE  KitInv'
<1> DEFINE e == [parent |-> p, component |-> c, portion |-> portion]
           r == [act |-> "ADD", on |-> {p, c}, overtaken |-> FALSE, entry |-> e]
<1>1. /\ Begin(t, r) /\ UNCHANGED <<product, bom, unseen>> /\ p # c /\ ~product[c].gone
      /\ \A n \in 1..MaxDepth : p \notin LevelsBelow(bom, c)[n]
  BY DEF LoadComponent, BuiltFrom
<1>2. task'[t] = r
  BY <1>1 DEF Begin, CatalogueInv, TasksFit
<1>3. e \in Part /\ r \in AddTask
  BY DEF Part, AddTask
<1>4. r.entry = e /\ r.on = {p, c} /\ r.act = "ADD" /\ e.parent = p /\ e.component = c
  OBVIOUS
<1> HIDE DEF r, e
<1>5. AddFits(t)'
  BY <1>1, <1>2, <1>3, <1>4 DEF AddFits
<1>6. KitTaskFits(t)'
  BY <1>2, <1>4, <1>5 DEF KitTaskFits, Doing
<1> QED
  BY <1>1, <1>6, LoadingFits

LEMMA LoadRemoveKeeps ==
    ASSUME CatalogueInv, KitInv, NEW t \in Editors, NEW p \in Products, LoadRemove(t, p)
    PROVE  KitInv'
<1> DEFINE r == [act |-> "REMOVE", on |-> {p}, overtaken |-> FALSE]
<1>1. Begin(t, r) /\ UNCHANGED <<product, bom, unseen>> /\ UsesOf(p) = {}
  BY DEF LoadRemove
<1>2. task'[t] = r
  BY <1>1 DEF Begin, CatalogueInv, TasksFit
<1>3. r \in RemoveTask /\ r.on = {p} /\ r.act = "REMOVE"
  BY DEF RemoveTask
<1> HIDE DEF r
<1>4. UsesOf(p)' = {}
  BY <1>1 DEF UsesOf
<1>5. RemoveFits(t)'
  BY <1>1, <1>2, <1>3 DEF RemoveFits, UsesOf
<1>6. KitTaskFits(t)'
  BY <1>2, <1>3, <1>5 DEF KitTaskFits, Doing
<1> QED
  BY <1>1, <1>6, LoadingFits

(* A task that ended, one that was overtaken, and one that goes on.        *)
LEMMA FinishKeepsTasks ==
    ASSUME CatalogueInv, KitInv, NEW t \in Editors, NEW over, Finish(t, over),
           \A u \in over : ~Idle(u),
           \A u \in Editors : u # t /\ u \notin over => KitTaskFits(u)'
    PROVE  \A u \in Editors : KitTaskFits(u)'
<1> SUFFICES ASSUME NEW u \in Editors PROVE KitTaskFits(u)'
  OBVIOUS
<1>1. CASE u = t
  <2>1. task'[u] = NoTask
    BY <1>1 DEF Finish
  <2> QED
    BY <2>1 DEF KitTaskFits, Doing, Idle
<1>2. CASE u # t /\ u \in over
  <2>1. task'[u] = [task[u] EXCEPT !.overtaken = TRUE]
    BY <1>2 DEF Finish
  <2>2. ~Idle(u) /\ "act" \in DOMAIN task[u] /\ KitTaskFits(u)
    BY <1>2 DEF KitInv, CatalogueInv, TasksFit
  <2> QED
    BY <2>1, <2>2, KitTaskOvertaken
<1> QED
  BY <1>1, <1>2

(* A step that leaves the kits alone, and products where they are.         *)
LEMMA KitsUntouched ==
    ASSUME CatalogueInv, KitInv, UNCHANGED <<bom, unseen>>,
           \A q \in Products : product'[q].gone = product[q].gone,
           NEW t \in Editors, NEW over, Finish(t, over), \A u \in over : ~Idle(u)
    PROVE  KitInv'
<1>1. ASSUME NEW u \in Editors, u # t, u \notin over PROVE KitTaskFits(u)'
  <2>1. task'[u] = task[u]
    BY <1>1 DEF Finish
  <2>2. Doing(u, "ADD") /\ ~task[u].overtaken => ~product'[task[u].entry.component].gone
    BY DEF KitInv, KitTaskFits, AddFits, AddTask, Part
  <2> QED
    BY <2>1, <2>2, KitTaskStays
<1>2. \A u \in Editors : KitTaskFits(u)'
  BY <1>1, FinishKeepsTasks
<1>3. KitRows'
  <2>1. Seen' = Seen /\ Seen \subseteq bom
    BY DEF Seen
  <2>2. \A e \in Seen : e.component \in Products
    BY <2>1 DEF KitInv, KitRows, Part
  <2> QED
    BY <2>1, <2>2 DEF KitInv, KitRows
<1> QED
  BY <1>2, <1>3 DEF KitInv

LEMMA CommitComponentKeeps ==
    ASSUME CatalogueInv, KitInv, NEW t \in Editors, CommitComponent(t)
    PROVE  KitInv'
<1> DEFINE e == task[t].entry
           over == Others("ADD", Products) \cup Others("REMOVE", {e.component})
<1>1. /\ AddFits(t) /\ \A f \in bom : Key(f) # Key(e)
      /\ bom' = bom \cup {e} /\ Finish(t, over) /\ product' = product
      /\ unseen' = unseen \cup {Key(d) : d \in {f \in {e} : task[t].overtaken}}
  BY DEF CommitComponent, KitInv, KitTaskFits
<1>2. e \in Part /\ e.component \in Products
  BY <1>1 DEF AddFits, AddTask, Part
<1>3. \A u \in over : ~Idle(u)
  BY DEF Others, Doing
<1>4. ASSUME NEW u \in Editors, u # t, u \notin over PROVE KitTaskFits(u)'
  <2>1. task'[u] = task[u]
    BY <1>1, <1>4 DEF Finish
  <2>2. Doing(u, "ADD")' = Doing(u, "ADD") /\ Doing(u, "REMOVE")' = Doing(u, "REMOVE")
    BY <2>1 DEF Doing, Idle
  <2>3. ~Doing(u, "ADD")
    <3>1. SUFFICES ASSUME Doing(u, "ADD") PROVE FALSE
      OBVIOUS
    <3>2. AddFits(u)
      BY <3>1 DEF KitInv, KitTaskFits
    <3>3. task[u].entry.parent \in task[u].on \cap Products
      BY <3>2 DEF AddFits, AddTask, Part
    <3> QED
      BY <1>4, <3>1, <3>3 DEF Others
  <2>4. ASSUME Doing(u, "REMOVE") PROVE RemoveFits(u)'
    <3>1. RemoveFits(u) /\ e.component \notin task[u].on
      BY <1>4, <2>4 DEF KitInv, KitTaskFits, Others
    <3>2. ASSUME NEW q \in task[u].on, UsesOf(q) = {} PROVE UsesOf(q)' = {}
      BY <1>1, <3>1, <3>2 DEF UsesOf
    <3> QED
      BY <2>1, <3>1, <3>2 DEF RemoveFits
  <2> QED
    BY <2>2, <2>3, <2>4 DEF KitTaskFits
<1>5. \A u \in Editors : KitTaskFits(u)'
  <2> HIDE DEF over
  <2> QED
    BY <1>1, <1>3, <1>4, FinishKeepsTasks
<1>6. bom \in SUBSET Part /\ IsFiniteSet(bom) /\ Seen \in SUBSET bom
  BY DEF KitInv, KitRows, Seen
<1>7. bom' \in SUBSET Part /\ IsFiniteSet(bom')
  BY <1>1, <1>2, <1>6, FS_AddElement
<1>8. \A f, g \in bom' : Key(f) = Key(g) => f = g
  BY <1>1 DEF KitInv, KitRows
<1>9. Seen' \subseteq Seen \cup {f \in {e} : ~task[t].overtaken}
  BY <1>1 DEF Seen, Key
<1>10. \A f \in Seen' : ~product'[f.component].gone
  BY <1>1, <1>9 DEF KitInv, KitRows, AddFits
<1>11. Acyclic(Seen')
  <2>1. Acyclic(Seen)
    BY DEF KitInv, KitRows
  <2>2. CASE task[t].overtaken
    <3>1. Seen' \in SUBSET Seen /\ Seen \in SUBSET Part
      BY <1>6, <1>9, <2>2
    <3> QED
      BY <2>1, <3>1, AcyclicShrinks
  <2>3. CASE ~task[t].overtaken
    <3>1. /\ e.parent # e.component
          /\ \A n \in 1..MaxDepth : e.parent \notin LevelsBelow(bom, e.component)[n]
      BY <1>1, <2>3 DEF AddFits
    <3> HIDE DEF e
    <3>2. Acyclic(Seen \cup {e})
      BY <1>2, <1>6, <2>1, <3>1, NewEntryClosesNoLoop
    <3>3. Seen' \in SUBSET (Seen \cup {e}) /\ Seen \cup {e} \in SUBSET Part
      BY <1>2, <1>6, <1>9
    <3> QED
      BY <3>2, <3>3, AcyclicShrinks
  <2> QED
    BY <2>2, <2>3
<1>12. KitRows'
  BY <1>7, <1>8, <1>10, <1>11 DEF KitRows
<1> QED
  BY <1>5, <1>12 DEF KitInv

LEMMA CommitRemoveKeeps ==
    ASSUME CatalogueInv, KitInv, NEW t \in Editors, CommitRemove(t)
    PROVE  KitInv'
<1>1. PICK p \in task[t].on : /\ product' = [product EXCEPT ![p].gone = TRUE]
                              /\ unseen' = unseen \cup {Key(e) : e \in {f \in UsesOf(p) : task[t].overtaken}}
                              /\ Finish(t, Others("ADD", {p}))
  BY DEF CommitRemove
<1>2. RemoveFits(t) /\ bom' = bom
  BY DEF CommitRemove, KitInv, KitTaskFits
<1>3. \A u \in Others("ADD", {p}) : ~Idle(u)
  BY DEF Others, Doing
<1>4. \A q \in Products : q # p => product'[q] = product[q]
  BY <1>1 DEF CatalogueInv, CatalogueTyped
<1>5. ASSUME NEW u \in Editors, u # t, u \notin Others("ADD", {p}) PROVE KitTaskFits(u)'
  <2>1. task'[u] = task[u]
    BY <1>1, <1>5 DEF Finish
  <2>2. ASSUME Doing(u, "ADD"), ~task[u].overtaken PROVE ~product'[task[u].entry.component].gone
    <3>1. AddFits(u) /\ p \notin task[u].on
      BY <1>5, <2>2 DEF KitInv, KitTaskFits, Others
    <3>2. task[u].entry.component # p /\ task[u].entry.component \in Products
      BY <3>1 DEF AddFits, AddTask, Part
    <3> QED
      BY <1>4, <2>2, <3>1, <3>2 DEF AddFits
  <2> QED
    BY <1>2, <2>1, <2>2, KitTaskStays
<1>6. \A u \in Editors : KitTaskFits(u)'
  BY <1>1, <1>3, <1>5, FinishKeepsTasks
<1>7. Seen' \in SUBSET Seen
  BY <1>1, <1>2 DEF Seen
<1>8. ASSUME NEW e \in Seen' PROVE ~product'[e.component].gone
  <2>1. e \in bom /\ e.component \in Products /\ Key(e) \notin unseen' /\ e \in Seen
    BY <1>2, <1>7 DEF Seen, KitInv, KitRows, Part
  <2>2. e.component # p
    BY <1>1, <1>2, <2>1 DEF RemoveFits, UsesOf
  <2> QED
    BY <1>4, <2>1, <2>2 DEF KitInv, KitRows
<1>9. Acyclic(Seen')
  <2>1. Seen \in SUBSET Part /\ Acyclic(Seen)
    BY DEF KitInv, KitRows, Seen
  <2> QED
    BY <1>7, <2>1, AcyclicShrinks
<1>10. KitRows'
  BY <1>2, <1>8, <1>9 DEF KitInv, KitRows
<1> QED
  BY <1>6, <1>10 DEF KitInv

LEMMA RemoveComponentKeeps ==
    ASSUME CatalogueInv, KitInv, NEW e \in bom, RemoveComponent(e)
    PROVE  KitInv'
<1>1. bom' = bom \ {e} /\ unseen' = unseen \ {Key(e)} /\ UNCHANGED <<product, task>>
  BY DEF RemoveComponent
<1>2. bom' \in SUBSET bom
  BY <1>1
<1>3. ASSUME NEW u \in Editors PROVE KitTaskFits(u)'
  <2>1. Doing(u, "ADD") /\ ~task[u].overtaken => ~product'[task[u].entry.component].gone
    BY <1>1 DEF KitInv, KitTaskFits, AddFits
  <2> QED
    BY <1>1, <1>2, <2>1, KitTaskStays
<1>4. Seen' \in SUBSET Seen
  <2> SUFFICES ASSUME NEW f \in Seen' PROVE f \in Seen
    OBVIOUS
  <2>1. f \in bom /\ f # e /\ Key(f) \notin unseen \ {Key(e)}
    BY <1>1 DEF Seen, Key
  <2>2. Key(f) # Key(e)
    BY <2>1 DEF KitInv, KitRows
  <2> QED
    BY <2>1, <2>2 DEF Seen
<1>5. Acyclic(Seen')
  <2>1. Seen \in SUBSET Part /\ Acyclic(Seen)
    BY DEF KitInv, KitRows, Seen
  <2> QED
    BY <1>4, <2>1, AcyclicShrinks
<1>6. bom' \in SUBSET Part /\ IsFiniteSet(bom')
  BY <1>2, FS_Subset DEF KitInv, KitRows
<1>7. \A f, g \in bom' : Key(f) = Key(g) => f = g
  BY <1>2 DEF KitInv, KitRows, Key
<1>8. \A f \in Seen' : ~product'[f.component].gone
  BY <1>1, <1>4 DEF KitInv, KitRows
<1> QED
  BY <1>3, <1>5, <1>6, <1>7, <1>8 DEF KitInv, KitRows

LEMMA KitNextKeeps == CatalogueInv /\ KitInv /\ [ProductNext]_productVars => KitInv'
<1> SUFFICES ASSUME CatalogueInv, KitInv, [ProductNext]_productVars PROVE KitInv'
  OBVIOUS
<1>1. ASSUME NEW t \in Editors, NEW p \in Products, NEW e \in Edits, LoadEdit(t, p, e) PROVE KitInv'
  <2> DEFINE r == [act |-> "EDIT", on |-> {p}, edit |-> e, before |-> product[p].data,
                   revision |-> product[p].revision, overtaken |-> FALSE]
  <2>1. Begin(t, r) /\ UNCHANGED <<product, bom, unseen>> /\ r.act = "EDIT"
    BY <1>1 DEF LoadEdit
  <2> HIDE DEF r
  <2>2. task'[t] = r
    BY <2>1 DEF Begin, CatalogueInv, TasksFit
  <2>3. KitTaskFits(t)'
    BY <2>1, <2>2 DEF KitTaskFits, Doing
  <2> QED
    BY <2>1, <2>3, LoadingFits
<1>2. ASSUME NEW t \in Editors, NEW p \in Products, NEW to, LoadStatus(t, p, to) PROVE KitInv'
  <2> DEFINE r == [act |-> "STATUS", on |-> {p}, to |-> to, overtaken |-> FALSE]
  <2>1. Begin(t, r) /\ UNCHANGED <<product, bom, unseen>> /\ r.act = "STATUS"
    BY <1>2 DEF LoadStatus
  <2> HIDE DEF r
  <2>2. task'[t] = r
    BY <2>1 DEF Begin, CatalogueInv, TasksFit
  <2>3. KitTaskFits(t)'
    BY <2>1, <2>2 DEF KitTaskFits, Doing
  <2> QED
    BY <2>1, <2>3, LoadingFits
<1>3. ASSUME NEW t \in Editors, CommitEdit(t) PROVE KitInv'
  <2>1. PICK p \in task[t].on : Edit(t, p) /\ Finish(t, Others("EDIT", {p}))
    BY <1>3 DEF CommitEdit
  <2>2. UNCHANGED <<bom, unseen>>
    BY <1>3 DEF CommitEdit
  <2>3. \A u \in Others("EDIT", {p}) : ~Idle(u)
    BY DEF Others, Doing
  <2>4. \E d, n : product' = [product EXCEPT ![p].data = d, ![p].revision = n]
    BY <2>1 DEF Edit
  <2>5. \A q \in Products : product'[q].gone = product[q].gone
    <3> SUFFICES ASSUME NEW q \in Products PROVE product'[q].gone = product[q].gone
      OBVIOUS
    <3>1. product[q] \in ProductRow
      BY DEF CatalogueInv, CatalogueTyped
    <3> QED
      BY <2>4, <3>1 DEF CatalogueInv, CatalogueTyped, ProductRow
  <2> QED
    BY <2>1, <2>2, <2>3, <2>5, KitsUntouched
<1>4. ASSUME NEW t \in Editors, ChangeStatus(t) PROVE KitInv'
  <2>1. Finish(t, {}) /\ UNCHANGED <<bom, unseen>> /\ \E p, s : product' = [product EXCEPT ![p].status = s]
    BY <1>4 DEF ChangeStatus
  <2>2. \A q \in Products : product'[q].gone = product[q].gone
    <3> SUFFICES ASSUME NEW q \in Products PROVE product'[q].gone = product[q].gone
      OBVIOUS
    <3>1. product[q] \in ProductRow
      BY DEF CatalogueInv, CatalogueTyped
    <3> QED
      BY <2>1, <3>1 DEF CatalogueInv, CatalogueTyped, ProductRow
  <2>3. \A u \in {} : ~Idle(u)
    OBVIOUS
  <2> QED
    BY <2>1, <2>2, <2>3, KitsUntouched
<1>5. ASSUME NEW t \in Editors, Withdraw(t) PROVE KitInv'
  <2>1. Finish(t, {}) /\ UNCHANGED <<bom, unseen, product>> /\ \A u \in {} : ~Idle(u)
    BY <1>5 DEF Withdraw
  <2> QED
    BY <2>1, KitsUntouched
<1>6. ASSUME NEW t \in Editors, KitStep(t) PROVE KitInv'
  BY <1>6, LoadComponentKeeps, LoadRemoveKeeps, CommitComponentKeeps, CommitRemoveKeeps DEF KitStep
<1>7. ASSUME NEW e \in bom, RemoveComponent(e) PROVE KitInv'
  BY <1>7, RemoveComponentKeeps
<1>8. CASE UNCHANGED productVars
  <2>1. \A u \in Editors : Doing(u, "ADD") /\ ~task[u].overtaken => ~product'[task[u].entry.component].gone
    BY <1>8 DEF productVars, KitInv, KitTaskFits, AddFits
  <2>2. bom' \in SUBSET bom /\ \A u \in Editors : task'[u] = task[u]
    BY <1>8 DEF productVars
  <2>3. \A u \in Editors : KitTaskFits(u)'
    BY <2>1, <2>2, KitTaskStays
  <2>4. KitRows'
    BY <1>8 DEF productVars, KitInv, KitRows, Seen
  <2> QED
    BY <2>3, <2>4 DEF KitInv
<1> QED
  BY <1>1, <1>2, <1>3, <1>4, <1>5, <1>6, <1>7, <1>8 DEF ProductNext, ProductStep

LEMMA KitsBegin == ProductInit => KitInv
<1> SUFFICES ASSUME ProductInit PROVE KitInv
  OBVIOUS
<1>1. bom = {} /\ IsFiniteSet(bom) /\ Seen = {}
  BY FS_EmptySet DEF ProductInit, Seen
<1>2. \A t \in Editors : KitTaskFits(t)
  BY DEF ProductInit, KitTaskFits, Doing, Idle
<1>3. Acyclic({})
  <2> SUFFICES ASSUME NEW p \in Products, NEW n \in 1..MaxDepth + 1 PROVE p \notin LevelsBelow({}, p)[n]
    BY DEF Acyclic
  <2>1. {} \in SUBSET Part
    OBVIOUS
  <2>2. LevelsBelow({}, p)[n] = Under({}, LevelsBelow({}, p)[n - 1])
    BY <2>1, LevelsFollow
  <2> QED
    BY <2>2 DEF Under
<1> QED
  BY <1>1, <1>2, <1>3 DEF KitInv, KitRows

(* A line of an explosion, and those that follow from it.                  *)
Line           == [path : Seq(Products), total : Int]
PartsBelow(l)  == PartsOf({Last(l.path)})
Extended(l, e) == [path |-> Append(l.path, e.component), total |-> l.total * e.portion]
Below(ls)      == UNION {{Extended(l, e) : e \in PartsBelow(l)} : l \in ls}

(* Finitely many lines, each the only one on its path.                     *)
Charts == {ls \in SUBSET Line : /\ IsFiniteSet(ls)
                                /\ \A l \in ls : l.path # << >>
                                /\ \A l, k \in ls : l.path = k.path => l = k}

LEMMA ExtendedIsLine ==
    ASSUME KitRows, NEW l \in Line, NEW e \in bom
    PROVE  /\ Extended(l, e) \in Line
           /\ Extended(l, e).path # << >>
           /\ Len(Extended(l, e).path) = Len(l.path) + 1
           /\ Last(Extended(l, e).path) = e.component
           /\ Extended(l, e).total = l.total * e.portion
           /\ e.portion \in Nat
<1>1. e \in Part /\ e.portion \in Nat /\ e.component \in Products
  BY ProductsAssumption DEF KitRows, Part
<1>2. l.path \in Seq(Products) /\ l.total \in Int
  BY DEF Line
<1> DEFINE s == Append(l.path, e.component)
<1>3. s \in Seq(Products) /\ Len(s) = Len(l.path) + 1 /\ s[Len(s)] = e.component /\ s # << >>
  <2> DEFINE r == l.path
             c == e.component
  <2>1. r \in Seq(Products) /\ c \in Products /\ Len(r) \in Nat
    BY <1>1, <1>2
  <2> HIDE DEF r, c
  <2>2. /\ Append(r, c) \in Seq(Products) /\ Len(Append(r, c)) = Len(r) + 1
        /\ Append(r, c)[Len(r) + 1] = c
    BY <2>1
  <2>3. Append(r, c) # << >>
    BY <2>1, <2>2
  <2> QED
    BY <2>2, <2>3 DEF r, c
<1>4. l.total * e.portion \in Int
  BY <1>1, <1>2
<1>5. Extended(l, e).path = s /\ Extended(l, e).total = l.total * e.portion
  BY DEF Extended
<1>6. Extended(l, e) \in Line
  <2> HIDE DEF s
  <2> DEFINE t == l.total * e.portion
  <2>1. Extended(l, e) = [path |-> s, total |-> t]
    BY DEF Extended, s
  <2>2. t \in Int
    BY <1>4
  <2> HIDE DEF t
  <2> QED
    BY <1>3, <2>1, <2>2 DEF Line
<1> QED
  BY <1>1, <1>3, <1>5, <1>6 DEF Last

LEMMA ExtendedOnce ==
    ASSUME KitRows, NEW ls \in Charts, NEW l \in ls, NEW k \in ls,
           NEW e \in PartsBelow(l), NEW d \in PartsBelow(k), Extended(l, e).path = Extended(k, d).path
    PROVE  l = k /\ e = d
<1>1. l.path \in Seq(Products) /\ k.path \in Seq(Products)
  BY DEF Charts, Line
<1>2. /\ e \in bom /\ d \in bom /\ e.component \in Products /\ d.component \in Products
      /\ e.parent = Last(l.path) /\ d.parent = Last(k.path)
  BY DEF PartsBelow, PartsOf, KitRows, Part
<1>3. Append(l.path, e.component) = Append(k.path, d.component)
  BY DEF Extended
<1> DEFINE s == l.path
           t == k.path
           x == e.component
           y == d.component
<1>4. /\ s \in Seq(Products) /\ t \in Seq(Products) /\ x \in Products /\ y \in Products
      /\ Append(s, x) = Append(t, y)
  BY <1>1, <1>2, <1>3
<1> HIDE DEF s, t, x, y
<1>5. Len(s) = Len(t) /\ Len(s) \in Nat
  BY <1>4
<1>6. x = y
  BY <1>4, <1>5
<1>7. s = t
  <2>1. \A i \in 1..Len(s) : s[i] = t[i]
    BY <1>4, <1>5
  <2> QED
    BY <1>4, <1>5, <2>1
<1>8. l = k
  BY <1>7 DEF s, t, Charts
<1>9. Key(e) = Key(d)
  BY <1>2, <1>6, <1>8 DEF Key, x, y
<1> QED
  BY <1>2, <1>8, <1>9 DEF KitRows

(* Each line below is one line above with one part of what it ends in.     *)
Pairs(ls) == {x \in ls \X bom : x[2] \in PartsBelow(x[1])}

LEMMA BelowIsImage ==
    ASSUME KitRows, NEW ls \in Charts, NEW h, h = [x \in Pairs(ls) |-> Extended(x[1], x[2])]
    PROVE  /\ IsFiniteSet(Pairs(ls))
           /\ Below(ls) = {h[x] : x \in Pairs(ls)}
           /\ \A x, y \in Pairs(ls) : h[x] = h[y] => x = y
<1>1. IsFiniteSet(Pairs(ls))
  <2>1. IsFiniteSet(ls) /\ IsFiniteSet(bom)
    BY DEF Charts, KitRows
  <2>2. IsFiniteSet(ls \X bom)
    BY <2>1, FS_Product
  <2> QED
    BY <2>2, FS_Subset DEF Pairs
<1>2. Below(ls) = {h[x] : x \in Pairs(ls)}
  <2>1. ASSUME NEW m \in Below(ls) PROVE m \in {h[x] : x \in Pairs(ls)}
    <3>1. PICK l \in ls : \E e \in PartsBelow(l) : m = Extended(l, e)
      BY <2>1 DEF Below
    <3>2. PICK e \in PartsBelow(l) : m = Extended(l, e)
      BY <3>1
    <3>3. <<l, e>> \in Pairs(ls)
      BY <3>2 DEF Pairs, PartsBelow, PartsOf
    <3> QED
      BY <3>2, <3>3
  <2>2. ASSUME NEW x \in Pairs(ls) PROVE h[x] \in Below(ls)
    <3>1. x[1] \in ls /\ x[2] \in PartsBelow(x[1]) /\ h[x] = Extended(x[1], x[2])
      BY DEF Pairs
    <3> QED
      BY <3>1 DEF Below
  <2> QED
    BY <2>1, <2>2
<1>3. ASSUME NEW x \in Pairs(ls), NEW y \in Pairs(ls), h[x] = h[y] PROVE x = y
  <2>1. /\ x \in ls \X bom /\ y \in ls \X bom /\ x[2] \in PartsBelow(x[1]) /\ y[2] \in PartsBelow(y[1])
        /\ Extended(x[1], x[2]) = Extended(y[1], y[2])
    BY <1>3 DEF Pairs
  <2>2. x[1] = y[1] /\ x[2] = y[2]
    BY <2>1, ExtendedOnce
  <2> QED
    BY <2>1, <2>2
<1> QED
  BY <1>1, <1>2, <1>3

LEMMA BelowIsChart ==
    ASSUME KitRows, NEW ls \in Charts
    PROVE  Below(ls) \in Charts
<1> DEFINE h == [x \in Pairs(ls) |-> Extended(x[1], x[2])]
<1>1. IsFiniteSet(Pairs(ls)) /\ Below(ls) = {h[x] : x \in Pairs(ls)}
  BY BelowIsImage
<1>2. IsFiniteSet(Below(ls))
  <2> HIDE DEF h
  <2> QED
    BY <1>1, ImageIsFinite
<1>3. ASSUME NEW m \in Below(ls)
      PROVE  \E l \in ls : \E e \in PartsBelow(l) : m = Extended(l, e) /\ m \in Line /\ m.path # << >>
  <2>1. PICK l \in ls : \E e \in PartsBelow(l) : m = Extended(l, e)
    BY <1>3 DEF Below
  <2>2. PICK e \in PartsBelow(l) : m = Extended(l, e)
    BY <2>1
  <2>3. l \in Line /\ e \in bom
    BY DEF Charts, PartsBelow, PartsOf
  <2> QED
    BY <2>2, <2>3, ExtendedIsLine
<1>4. ASSUME NEW m \in Below(ls), NEW n \in Below(ls), m.path = n.path PROVE m = n
  <2>1. PICK l \in ls : \E e \in PartsBelow(l) : m = Extended(l, e)
    BY <1>3
  <2>2. PICK e \in PartsBelow(l) : m = Extended(l, e)
    BY <2>1
  <2>3. PICK k \in ls : \E d \in PartsBelow(k) : n = Extended(k, d)
    BY <1>3
  <2>4. PICK d \in PartsBelow(k) : n = Extended(k, d)
    BY <2>3
  <2>5. l = k /\ e = d
    BY <1>4, <2>2, <2>4, ExtendedOnce
  <2> QED
    BY <2>2, <2>4, <2>5
<1> QED
  BY <1>2, <1>3, <1>4 DEF Charts

LEMMA PartsAreFinite ==
    ASSUME KitRows, NEW l
    PROVE  PartsBelow(l) \in SUBSET bom /\ IsFiniteSet(PartsBelow(l))
<1>1. PartsBelow(l) \in SUBSET bom
  BY DEF PartsBelow, PartsOf
<1> QED
  BY <1>1, FS_Subset DEF KitRows

(* A sum over the lines below, line by line above them.                    *)
LEMMA SumOverBelow ==
    ASSUME KitRows, NEW ls \in Charts, NEW g, \A m \in Below(ls) : g[m] \in Int, NEW w,
           \A l \in ls : w[l] = SumFunctionOnSet([e \in PartsBelow(l) |-> g[Extended(l, e)]], PartsBelow(l))
    PROVE  SumFunctionOnSet(g, Below(ls)) = SumFunctionOnSet(w, ls)
<1> DEFINE S == Pairs(ls)
           h == [x \in S |-> Extended(x[1], x[2])]
           f == [x \in S |-> g[Extended(x[1], x[2])]]
           kind == [x \in S |-> x[1]]
           part == [l \in ls |-> {x \in S : kind[x] = l}]
<1>1. IsFiniteSet(S) /\ Below(ls) = {h[x] : x \in S} /\ \A x, y \in S : h[x] = h[y] => x = y
  BY BelowIsImage
<1>2. \A x \in S : f[x] \in Int /\ g[h[x]] = f[x]
  <2> SUFFICES ASSUME NEW x \in S PROVE f[x] \in Int /\ g[h[x]] = f[x]
    OBVIOUS
  <2>1. h[x] \in Below(ls)
    BY <1>1
  <2>2. h[x] = Extended(x[1], x[2]) /\ f[x] = g[Extended(x[1], x[2])]
    OBVIOUS
  <2> HIDE DEF h, f
  <2> QED
    BY <2>1, <2>2
<1>3. SumFunctionOnSet(g, Below(ls)) = SumFunctionOnSet(f, S)
  <2> HIDE DEF h, f, S
  <2> QED
    BY <1>1, <1>2, SumOfImage
<1>4. ASSUME NEW l \in ls PROVE w[l] = SumFunctionOnSet(f, part[l])
  <2> DEFINE P == PartsBelow(l)
             i == [e \in P |-> <<l, e>>]
             v == [e \in P |-> g[Extended(l, e)]]
  <2>1. IsFiniteSet(P) /\ P \in SUBSET bom
    BY PartsAreFinite
  <2>2. \A e, d \in P : i[e] = i[d] => e = d
    OBVIOUS
  <2>3. \A e \in P : <<l, e>> \in S /\ <<l, e>>[1] = l /\ <<l, e>>[2] = e
    BY <2>1 DEF Pairs
  <2>4. part[l] = {i[e] : e \in P}
    <3>1. ASSUME NEW x \in part[l] PROVE x \in {i[e] : e \in P}
      <4>1. x \in S /\ x[1] = l
        BY <3>1
      <4>2. x \in ls \X bom /\ x[2] \in P
        BY <4>1 DEF Pairs
      <4>3. x = <<l, x[2]>>
        BY <4>1, <4>2
      <4> QED
        BY <4>2, <4>3
    <3>2. ASSUME NEW e \in P PROVE i[e] \in part[l]
      BY <2>3
    <3> QED
      BY <3>1, <3>2
  <2>5. \A e \in P : v[e] \in Int /\ f[i[e]] = v[e]
    <3> SUFFICES ASSUME NEW e \in P PROVE v[e] \in Int /\ f[i[e]] = v[e]
      OBVIOUS
    <3>1. i[e] \in S /\ i[e] = <<l, e>> /\ v[e] = g[Extended(l, e)]
      BY <2>3
    <3>2. f[i[e]] = g[Extended(l, e)] /\ f[i[e]] \in Int
      BY <1>2, <3>1, <2>3
    <3> QED
      BY <3>1, <3>2
  <2>6. SumFunctionOnSet(f, part[l]) = SumFunctionOnSet(v, P)
    <3> HIDE DEF i, v, P, f, part
    <3> QED
      BY <2>1, <2>2, <2>4, <2>5, SumOfImage
  <2> QED
    BY <2>6
<1>5. IsFiniteSet(ls) /\ \A x \in S : kind[x] \in ls
  BY DEF Charts, Pairs
<1>6. \A l \in ls : part[l] = {x \in S : kind[x] = l}
  OBVIOUS
<1>7. \A x \in S : f[x] \in Int
  BY <1>2
<1>8. SumFunctionOnSet(w, ls) = SumFunctionOnSet(f, S)
  <2> HIDE DEF f, kind, part, S
  <2> QED
    BY <1>1, <1>4, <1>5, <1>6, <1>7, SumOfKinds
<1> QED
  BY <1>3, <1>8

(* The recursion down a kit has a solution of charts.                      *)
Start(p) == {[path |-> <<p>>, total |-> 1]}

LEMMA ExplosionFollows ==
    ASSUME KitRows, NEW p \in Products
    PROVE  /\ Explosion(p) \in [0..MaxDepth -> Charts]
           /\ Explosion(p)[0] = Start(p)
           /\ \A n \in 1..MaxDepth : n - 1 \in 0..MaxDepth /\ Explosion(p)[n] = Below(Explosion(p)[n - 1])
<1> DEFINE N == MaxDepth
           f == [i \in 1..N |-> [ls \in Charts |-> Below(ls)]]
<1>1. N \in Nat
  BY ProductsAssumption
<1>2. \A ls \in Charts : Below(ls) \in Charts
  BY BelowIsChart
<1>3. Start(p) \in Charts
  <2>1. [path |-> <<p>>, total |-> 1] \in Line /\ <<p>> # << >>
    BY DEF Line
  <2>2. IsFiniteSet(Start(p))
    BY FS_Singleton DEF Start
  <2> QED
    BY <2>1, <2>2 DEF Start, Charts
<1> HIDE DEF N
<1>11. f \in [1..N -> [Charts -> Charts]] /\ \A i \in 1..N : \A v \in Charts : f[i][v] = Below(v)
  BY <1>2
<1> HIDE DEF f
<1>12. \E g \in [0..N -> Charts] : Recurs(g, N, Start(p), f)
  BY <1>1, <1>3, <1>11, RecursionExists
<1>4. PICK g \in [0..N -> Charts] : g[0] = Start(p) /\ \A i \in 1..N : g[i] = f[i][g[i - 1]]
  BY <1>12 DEF Recurs
<1>5. ASSUME NEW i \in 1..N PROVE g[i] = Below(g[i - 1])
  <2>1. i - 1 \in 0..N
    BY <1>1
  <2> QED
    BY <1>4, <1>11, <2>1
<1>6. g = [n \in 0..N |-> IF n = 0 THEN Start(p) ELSE Below(g[n - 1])]
  <2>1. \A n \in 0..N : n # 0 => n \in 1..N
    BY <1>1
  <2> QED
    BY <1>4, <1>5, <2>1
<1> DEFINE lines == Explosion(p)
<1>7. lines = [n \in 0..N |-> IF n = 0 THEN Start(p) ELSE Below(lines[n - 1])]
  BY <1>6 DEF Explosion, Start, Below, Extended, PartsBelow, N
<1> HIDE DEF lines
<1>8. lines[0] = Start(p) /\ \A i \in 1..N : i - 1 \in 0..N /\ lines[i] = Below(lines[i - 1])
  <2>1. 0 \in 0..N /\ \A i \in 1..N : i \in 0..N /\ i # 0 /\ i - 1 \in 0..N
    BY <1>1
  <2> QED
    BY <1>7, <2>1
<1>9. lines = g
  <2> DEFINE F == {n \in 0..N : lines[n] = g[n]}
  <2>1. 0 \in F
    BY <1>1, <1>4, <1>8
  <2>2. ASSUME NEW n \in 0..N, n + 1 \in 0..N, n \in F PROVE n + 1 \in F
    <3>1. n + 1 \in 1..N /\ (n + 1) - 1 = n
      BY <1>1, <2>2
    <3> QED
      BY <1>5, <1>8, <2>2, <3>1
  <2> HIDE DEF F
  <2>3. \A n \in 0..N : n \in F
    BY <1>1, <2>1, <2>2, PrefixInduction
  <2>4. \A n \in 0..N : lines[n] = g[n]
    BY <2>3 DEF F
  <2>5. lines = [n \in 0..N |-> lines[n]] /\ g = [n \in 0..N |-> g[n]]
    BY <1>7
  <2> QED
    BY <2>4, <2>5
<1> QED
  BY <1>8, <1>9 DEF lines, N

(* The recursion up a kit has a solution of numbers.                       *)
Share(c, below, e) == e.portion * (below[e.component] + (IF e.component = c THEN 1 ELSE 0))
NeedAbove(c, below) ==
    [q \in Products |-> SumFunctionOnSet([e \in PartsOf({q}) |-> Share(c, below, e)], PartsOf({q}))]

NeedTable(c) ==
    LET need[n \in 0..MaxDepth] ==
            [q \in Products |->
                IF n = 0 THEN 0
                ELSE SumFunctionOnSet([e \in PartsOf({q}) |-> Share(c, need[n - 1], e)], PartsOf({q}))]
    IN need

LEMMA NeedAboveIsTyped ==
    ASSUME KitRows, NEW c, NEW below \in [Products -> Int]
    PROVE  /\ NeedAbove(c, below) \in [Products -> Int]
           /\ \A e \in bom : Share(c, below, e) \in Int
<1>1. ASSUME NEW e \in bom PROVE Share(c, below, e) \in Int
  <2>0. e \in Part
    BY DEF KitRows
  <2>1. e.portion \in Int /\ e.component \in Products
    <3>1. e.portion \in Portions /\ e.component \in Products
      BY <2>0 DEF Part
    <3>2. Portions \subseteq Int
      BY ProductsAssumption
    <3> QED
      BY <3>1, <3>2
  <2> DEFINE a == e.portion
             b == below[e.component] + (IF e.component = c THEN 1 ELSE 0)
  <2>2. a \in Int /\ b \in Int
    BY <2>1
  <2>3. Share(c, below, e) = a * b
    BY DEF Share
  <2> HIDE DEF a, b
  <2> QED
    BY <2>2, <2>3
<1>2. ASSUME NEW q \in Products PROVE NeedAbove(c, below)[q] \in Int
  <2> DEFINE P == PartsOf({q})
             f == [e \in P |-> Share(c, below, e)]
  <2>1. IsFiniteSet(P) /\ \A e \in P : f[e] \in Int
    <3>1. P \in SUBSET bom
      BY DEF PartsOf
    <3> QED
      BY <1>1, <3>1, FS_Subset DEF KitRows
  <2>2. NeedAbove(c, below)[q] = SumFunctionOnSet(f, P)
    BY DEF NeedAbove
  <2> HIDE DEF f, P
  <2> QED
    BY <2>1, <2>2, SumIsInt
<1>3. NeedAbove(c, below) = [q \in Products |-> NeedAbove(c, below)[q]]
  BY DEF NeedAbove
<1> QED
  BY <1>1, <1>2, <1>3

LEMMA NeedsFollow ==
    ASSUME KitRows, NEW c
    PROVE  /\ NeedTable(c) \in [0..MaxDepth -> [Products -> Int]]
           /\ NeedTable(c)[0] = [q \in Products |-> 0]
           /\ \A n \in 1..MaxDepth : /\ n - 1 \in 0..MaxDepth
                                    /\ NeedTable(c)[n] = NeedAbove(c, NeedTable(c)[n - 1])
<1> DEFINE N == MaxDepth
           V == [Products -> Int]
           Z == [q \in Products |-> 0]
           f == [i \in 1..N |-> [v \in V |-> NeedAbove(c, v)]]
<1>1. N \in Nat
  BY ProductsAssumption
<1>2. \A v \in V : NeedAbove(c, v) \in V
  BY NeedAboveIsTyped
<1>3. Z \in V
  OBVIOUS
<1> HIDE DEF N, V, Z
<1>11. f \in [1..N -> [V -> V]] /\ \A i \in 1..N : \A v \in V : f[i][v] = NeedAbove(c, v)
  BY <1>2
<1> HIDE DEF f
<1>12. \E g \in [0..N -> V] : Recurs(g, N, Z, f)
  BY <1>1, <1>3, <1>11, RecursionExists
<1>4. PICK g \in [0..N -> V] : g[0] = Z /\ \A i \in 1..N : g[i] = f[i][g[i - 1]]
  BY <1>12 DEF Recurs
<1>5. ASSUME NEW i \in 1..N PROVE g[i] = NeedAbove(c, g[i - 1])
  <2>1. i - 1 \in 0..N
    BY <1>1
  <2> QED
    BY <1>4, <1>11, <2>1
<1> DEFINE Figures(n, below) == [q \in Products |->
                IF n = 0 THEN 0
                ELSE SumFunctionOnSet([e \in PartsOf({q}) |-> Share(c, below, e)], PartsOf({q}))]
<1>13. \A below : Figures(0, below) = Z
  BY DEF Z
<1>14. \A n : n # 0 => \A below : Figures(n, below) = NeedAbove(c, below)
  BY DEF NeedAbove
<1> DEFINE need == NeedTable(c)
<1> HIDE DEF Figures
<1>6. g = [n \in 0..N |-> Figures(n, g[n - 1])]
  <2>1. \A n \in 0..N : n # 0 => n \in 1..N
    BY <1>1
  <2>2. \A n \in 0..N : g[n] = Figures(n, g[n - 1])
    <3> SUFFICES ASSUME NEW n \in 0..N PROVE g[n] = Figures(n, g[n - 1])
      OBVIOUS
    <3>1. CASE n = 0
      BY <1>4, <1>13, <3>1
    <3>2. CASE n # 0
      <4>1. g[n] = NeedAbove(c, g[n - 1])
        BY <1>5, <2>1, <3>2
      <4>2. Figures(n, g[n - 1]) = NeedAbove(c, g[n - 1])
        BY <1>14, <3>2
      <4> QED
        BY <4>1, <4>2
    <3> QED
      BY <3>1, <3>2
  <2>3. g = [n \in 0..N |-> g[n]]
    OBVIOUS
  <2> QED
    BY <2>2, <2>3
<1>7. need = [n \in 0..N |-> Figures(n, need[n - 1])]
  BY <1>6 DEF NeedTable, Figures, N
<1> HIDE DEF need
<1>8. need[0] = Z /\ \A i \in 1..N : i - 1 \in 0..N /\ need[i] = NeedAbove(c, need[i - 1])
  <2>1. 0 \in 0..N /\ \A i \in 1..N : i \in 0..N /\ i # 0 /\ i - 1 \in 0..N
    BY <1>1
  <2> QED
    BY <1>7, <1>13, <1>14, <2>1
<1>9. need = g
  <2> DEFINE F == {n \in 0..N : need[n] = g[n]}
  <2>1. 0 \in F
    BY <1>1, <1>4, <1>8
  <2>2. ASSUME NEW n \in 0..N, n + 1 \in 0..N, n \in F PROVE n + 1 \in F
    <3>1. n + 1 \in 1..N /\ (n + 1) - 1 = n
      BY <1>1, <2>2
    <3> QED
      BY <1>5, <1>8, <2>2, <3>1
  <2> HIDE DEF F
  <2>3. \A n \in 0..N : n \in F
    BY <1>1, <2>1, <2>2, PrefixInduction
  <2>4. \A n \in 0..N : need[n] = g[n]
    BY <2>3 DEF F
  <2>5. need = [n \in 0..N |-> need[n]] /\ g = [n \in 0..N |-> g[n]]
    BY <1>7
  <2> QED
    BY <2>4, <2>5
<1> QED
  BY <1>8, <1>9 DEF need, N, V, Z

LEMMA NeededIsTold == ASSUME NEW p, NEW c PROVE Needed(p, c) = NeedTable(c)[MaxDepth][p]
BY DEF Needed, NeedTable, Share

(* At each level, what the lines carry of a component further down is what *)
(* the lines one level below are of it, and carry of it.                   *)
Weight(ls, below) == [l \in ls |-> l.total * below[Last(l.path)]]
Carried(ls, c)    == [l \in ls |-> IF Last(l.path) = c THEN l.total ELSE 0]

LEMMA LastIsProduct ==
    ASSUME NEW ls \in Charts, NEW l \in ls
    PROVE  l.path \in Seq(Products) /\ Len(l.path) \in Nat /\ Last(l.path) \in Products /\ l.total \in Int
<1>1. l.path \in Seq(Products) /\ l.path # << >> /\ l.total \in Int
  BY DEF Charts, Line
<1> DEFINE s == l.path
<1>2. s \in Seq(Products) /\ s # << >>
  BY <1>1
<1> HIDE DEF s
<1>3. Len(s) \in Nat /\ Len(s) # 0
  BY <1>2
<1>4. s[Len(s)] \in Products
  BY <1>2, <1>3
<1> QED
  BY <1>1, <1>3, <1>4 DEF s, Last

LEMMA WeightsAreTyped ==
    ASSUME NEW ls \in Charts, NEW below \in [Products -> Int], NEW c, NEW l \in ls
    PROVE  Weight(ls, below)[l] \in Int /\ Carried(ls, c)[l] \in Int
<1>1. l.total \in Int /\ Last(l.path) \in Products
  BY LastIsProduct
<1> DEFINE a == l.total
           b == below[Last(l.path)]
<1>2. a \in Int /\ b \in Int
  BY <1>1
<1>3. Weight(ls, below)[l] = a * b
  BY DEF Weight
<1>4. a * b \in Int
  <2> HIDE DEF a, b
  <2> QED
    BY <1>2
<1>5. Carried(ls, c)[l] = IF Last(l.path) = c THEN l.total ELSE 0
  BY DEF Carried
<1> QED
  BY <1>1, <1>3, <1>4, <1>5

LEMMA LevelStep ==
    ASSUME KitRows, NEW ls \in Charts, NEW below \in [Products -> Int], NEW c
    PROVE  SumFunctionOnSet(Weight(ls, NeedAbove(c, below)), ls)
               = SumFunctionOnSet(Weight(Below(ls), below), Below(ls))
                 + SumFunctionOnSet(Carried(Below(ls), c), Below(ls))
<1> DEFINE B == Below(ls)
           u == Weight(B, below)
           v == Carried(B, c)
           g == [m \in B |-> u[m] + v[m]]
           w == [l \in ls |-> SumFunctionOnSet([e \in PartsBelow(l) |-> g[Extended(l, e)]], PartsBelow(l))]
<1>1. B \in Charts /\ IsFiniteSet(B)
  BY BelowIsChart DEF Charts
<1>2. \A m \in B : u[m] \in Int /\ v[m] \in Int
  <2> HIDE DEF B
  <2> QED
    BY <1>1, WeightsAreTyped
<1>3. \A m \in B : g[m] \in Int /\ g[m] = u[m] + v[m]
  <2> HIDE DEF u, v, B
  <2> QED
    BY <1>2
<1>4. SumFunctionOnSet(g, B) = SumFunctionOnSet(u, B) + SumFunctionOnSet(v, B)
  <2> HIDE DEF u, v, B, g
  <2> QED
    BY <1>1, <1>2, <1>3, SumOfSums
<1>5. SumFunctionOnSet(g, B) = SumFunctionOnSet(w, ls)
  <2>1. \A l \in ls : w[l] = SumFunctionOnSet([e \in PartsBelow(l) |-> g[Extended(l, e)]], PartsBelow(l))
    OBVIOUS
  <2>2. \A m \in Below(ls) : g[m] \in Int
    BY <1>3
  <2> HIDE DEF g, w
  <2>3. SumFunctionOnSet(g, Below(ls)) = SumFunctionOnSet(w, ls)
    BY <2>1, <2>2, SumOverBelow
  <2> QED
    BY <2>3
<1>6. ASSUME NEW l \in ls PROVE w[l] = Weight(ls, NeedAbove(c, below))[l]
  <2> DEFINE P == PartsBelow(l)
             a == l.total
             f == [e \in P |-> Share(c, below, e)]
             d == [e \in P |-> g[Extended(l, e)]]
  <2>1. IsFiniteSet(P) /\ P \in SUBSET bom
    BY PartsAreFinite
  <2>2. a \in Int /\ Last(l.path) \in Products /\ l \in Line
    BY LastIsProduct DEF Charts
  <2>3. ASSUME NEW e \in P PROVE f[e] \in Int /\ d[e] = a * f[e]
    <3> DEFINE m == Extended(l, e)
               b == e.portion
               n == below[e.component]
    <3>1. e \in bom
      BY <2>1
    <3>2. m \in B
      BY DEF Below
    <3>3. Last(m.path) = e.component /\ m.total = a * b /\ b \in Nat
      BY <2>2, <3>1, ExtendedIsLine
    <3>4. e.component \in Products
      BY <3>1 DEF KitRows, Part
    <3>5. n \in Int
      BY <3>4
    <3>6. u[m] = m.total * below[Last(m.path)] /\ v[m] = IF Last(m.path) = c THEN m.total ELSE 0
      BY <3>2 DEF Weight, Carried
    <3>7. d[e] = u[m] + v[m]
      BY <3>2, <1>3
    <3>8. f[e] = b * (n + (IF e.component = c THEN 1 ELSE 0)) /\ f[e] \in Int
      BY <3>1, NeedAboveIsTyped DEF Share
    <3>9. d[e] = (a * b) * n + (IF e.component = c THEN a * b ELSE 0)
      <4> HIDE DEF m, u, v, d, a, b, n
      <4>1. m.total = a * b
        BY <3>3
      <4>2. below[Last(m.path)] = n
        BY <3>3 DEF n
      <4> QED
        BY <3>3, <3>6, <3>7, <4>1, <4>2
    <3>10. (a * b) * n + (IF e.component = c THEN a * b ELSE 0)
               = a * (b * (n + (IF e.component = c THEN 1 ELSE 0)))
      <4> HIDE DEF a, b, n
      <4>1. (a * b) * n + a * b = a * (b * (n + 1))
        BY <2>2, <3>3, <3>5
      <4>2. (a * b) * n + 0 = a * (b * (n + 0))
        BY <2>2, <3>3, <3>5
      <4> QED
        BY <4>1, <4>2
    <3> HIDE DEF a, b, n, d, f
    <3> QED
      BY <3>8, <3>9, <3>10
  <2>4. SumFunctionOnSet(d, P) = a * SumFunctionOnSet(f, P)
    <3>1. \A e \in P : f[e] \in Int /\ d[e] = a * f[e]
      BY <2>3
    <3> HIDE DEF P, a, f, d
    <3> QED
      BY <2>1, <2>2, <3>1, SumScales
  <2>5. NeedAbove(c, below)[Last(l.path)] = SumFunctionOnSet(f, P)
    BY <2>2 DEF NeedAbove, PartsBelow
  <2>6. Weight(ls, NeedAbove(c, below))[l] = a * NeedAbove(c, below)[Last(l.path)]
    BY DEF Weight
  <2>7. w[l] = SumFunctionOnSet(d, P)
    OBVIOUS
  <2> HIDE DEF w, d, f, P
  <2> QED
    BY <2>4, <2>5, <2>6, <2>7
<1>7. SumFunctionOnSet(w, ls) = SumFunctionOnSet(Weight(ls, NeedAbove(c, below)), ls)
  <2>1. IsFiniteSet(ls)
    BY DEF Charts
  <2> DEFINE x == Weight(ls, NeedAbove(c, below))
  <2>2. \A l \in ls : w[l] = x[l]
    BY <1>6
  <2> HIDE DEF w, x
  <2>3. SumFunctionOnSet(w, ls) = SumFunctionOnSet(x, ls)
    BY <2>1, <2>2, SumCongruent
  <2> QED
    BY <2>3 DEF x
<1> HIDE DEF u, v, w, g
<1>8. SumFunctionOnSet(Weight(ls, NeedAbove(c, below)), ls) = SumFunctionOnSet(u, B) + SumFunctionOnSet(v, B)
  BY <1>4, <1>5, <1>7
<1> QED
  BY <1>8 DEF u, v

LEMMA LinesHaveTheirLength ==
    ASSUME KitRows, NEW p \in Products, NEW n \in 0..MaxDepth, NEW l \in Explosion(p)[n]
    PROVE  Len(l.path) = n + 1
<1> DEFINE lines == Explosion(p)
           F == {k \in 0..MaxDepth : \A m \in lines[k] : Len(m.path) = k + 1}
<1>1. /\ MaxDepth \in Nat /\ lines \in [0..MaxDepth -> Charts] /\ lines[0] = Start(p)
      /\ \A k \in 1..MaxDepth : lines[k] = Below(lines[k - 1])
  BY ExplosionFollows, ProductsAssumption
<1> HIDE DEF lines
<1>2. 0 \in F
  <2>1. \A m \in lines[0] : m.path = <<p>>
    BY <1>1 DEF Start
  <2>2. Len(<<p>>) = 1
    OBVIOUS
  <2>3. \A m \in lines[0] : Len(m.path) = 0 + 1
    BY <2>1, <2>2
  <2>4. 0 \in 0..MaxDepth
    BY <1>1
  <2> QED
    BY <2>3, <2>4
<1>3. ASSUME NEW k \in 0..MaxDepth, k + 1 \in 0..MaxDepth, k \in F PROVE k + 1 \in F
  <2> SUFFICES ASSUME NEW m \in lines[k + 1] PROVE Len(m.path) = (k + 1) + 1
    BY <1>3
  <2>1. k + 1 \in 1..MaxDepth /\ (k + 1) - 1 = k /\ k \in Nat
    BY <1>1, <1>3
  <2>2. m \in Below(lines[k])
    BY <1>1, <2>1
  <2>3. PICK j \in lines[k] : \E e \in PartsBelow(j) : m = Extended(j, e)
    BY <2>2 DEF Below
  <2>4. PICK e \in PartsBelow(j) : m = Extended(j, e)
    BY <2>3
  <2>5. j \in Line /\ e \in bom
    BY <1>1 DEF Charts, PartsBelow, PartsOf
  <2>6. Len(m.path) = Len(j.path) + 1
    BY <2>4, <2>5, ExtendedIsLine
  <2>7. Len(j.path) = k + 1
    BY <1>3
  <2> QED
    BY <2>6, <2>7
<1> HIDE DEF F
<1>4. \A k \in 0..MaxDepth : k \in F
  BY <1>1, <1>2, <1>3, PrefixInduction
<1>5. n \in F
  BY <1>4
<1> QED
  BY <1>5 DEF F, lines

(* What the lines tell of a component, level by level, is what is needed.  *)
LEMMA TotalIsNeeded ==
    ASSUME KitRows, NEW p \in Products, NEW c \in Products
    PROVE  Total(Explosion(p), c) = Needed(p, c)
<1> DEFINE M == MaxDepth
           lines == Explosion(p)
           need == NeedTable(c)
           W(k) == SumFunctionOnSet(Weight(lines[k], need[M - k]), lines[k])
           U(k) == UNION {lines[n] : n \in 1..k}
           tf == Carried(U(M), c)
           F == {k \in 0..M : IsFiniteSet(U(k)) /\ SumFunctionOnSet(tf, U(k)) = W(0) - W(k)}
<1>1. M \in Nat
  BY ProductsAssumption
<1>2. /\ lines \in [0..M -> Charts] /\ lines[0] = Start(p)
      /\ \A n \in 1..M : lines[n] = Below(lines[n - 1])
      /\ \A n \in 0..M : \A l \in lines[n] : Len(l.path) = n + 1
  BY ExplosionFollows, LinesHaveTheirLength
<1>3. /\ need \in [0..M -> [Products -> Int]] /\ need[0] = [q \in Products |-> 0]
      /\ \A n \in 1..M : need[n] = NeedAbove(c, need[n - 1])
  BY NeedsFollow
<1>4. Needed(p, c) = need[M][p]
  BY NeededIsTold
<1> HIDE DEF M, lines, need
<1>5. ASSUME NEW k \in 0..M PROVE lines[k] \in Charts /\ IsFiniteSet(lines[k]) /\ W(k) \in Int
  <2>1. M - k \in 0..M
    BY <1>1
  <2> DEFINE ls == lines[k]
             below == need[M - k]
  <2>2. ls \in Charts /\ below \in [Products -> Int]
    BY <1>2, <1>3, <2>1
  <2> HIDE DEF ls, below
  <2>3. IsFiniteSet(ls) /\ \A l \in ls : Weight(ls, below)[l] \in Int
    BY <2>2, WeightsAreTyped DEF Charts
  <2>4. SumFunctionOnSet(Weight(ls, below), ls) \in Int
    BY <2>3, SumIsInt
  <2> QED
    BY <2>2, <2>3, <2>4 DEF ls, below
<1>6. ASSUME NEW k \in 0..M, k + 1 \in 0..M
      PROVE  W(k) = W(k + 1) + SumFunctionOnSet(Carried(lines[k + 1], c), lines[k + 1])
  <2>1. /\ k + 1 \in 1..M /\ (k + 1) - 1 = k /\ M - k \in 1..M
        /\ (M - k) - 1 = M - (k + 1) /\ M - (k + 1) \in 0..M
    BY <1>1, <1>6
  <2> DEFINE ls == lines[k]
             below == need[M - (k + 1)]
  <2>2. ls \in Charts /\ below \in [Products -> Int]
    BY <1>2, <1>3, <2>1
  <2>3. lines[k + 1] = Below(ls) /\ need[M - k] = NeedAbove(c, below)
    BY <1>2, <1>3, <2>1
  <2> HIDE DEF ls, below
  <2>4. SumFunctionOnSet(Weight(ls, NeedAbove(c, below)), ls)
            = SumFunctionOnSet(Weight(Below(ls), below), Below(ls))
              + SumFunctionOnSet(Carried(Below(ls), c), Below(ls))
    BY <2>2, LevelStep
  <2> QED
    BY <2>3, <2>4 DEF ls, below
<1>7. ASSUME NEW l \in U(M)
      PROVE  l.total \in Int /\ tf[l] \in Int /\ tf[l] = IF Last(l.path) = c THEN l.total ELSE 0
  <2>1. PICK n \in 1..M : l \in lines[n]
    OBVIOUS
  <2>2. n \in 0..M
    BY <1>1
  <2>3. l.total \in Int
    BY <1>5, <2>1, <2>2, LastIsProduct
  <2>4. tf[l] = IF Last(l.path) = c THEN l.total ELSE 0
    BY DEF Carried
  <2> QED
    BY <2>3, <2>4
<1> HIDE DEF tf
<1>8. 0 \in F
  <2>1. U(0) = {}
    OBVIOUS
  <2>2. SumFunctionOnSet(tf, U(0)) = 0 /\ IsFiniteSet(U(0))
    BY <2>1, SumOfNone, FS_EmptySet
  <2>3. 0 \in 0..M
    BY <1>1
  <2>4. W(0) \in Int
    BY <1>5, <2>3
  <2> HIDE DEF U, W
  <2> QED
    BY <2>2, <2>3, <2>4
<1>9. ASSUME NEW k \in 0..M, k + 1 \in 0..M, k \in F PROVE k + 1 \in F
  <2> DEFINE A == U(k)
             B == lines[k + 1]
             g == Carried(B, c)
  <2>1. U(k + 1) = A \cup B /\ A \in SUBSET U(M) /\ B \in SUBSET U(M)
    <3>1. 1..k + 1 = 1..k \cup {k + 1} /\ k + 1 \in 1..M /\ 1..k \subseteq 1..M
      BY <1>1, <1>9
    <3> QED
      BY <3>1
  <2>2. IsFiniteSet(A) /\ IsFiniteSet(B)
    BY <1>5, <1>9
  <2>3. A \cap B = {}
    <3> SUFFICES ASSUME NEW l \in A, l \in B PROVE FALSE
      OBVIOUS
    <3>1. PICK n \in 1..k : l \in lines[n]
      OBVIOUS
    <3>2. n \in 0..M /\ n # k + 1 /\ n \in Nat /\ k \in Nat
      BY <1>1, <1>9
    <3>3. Len(l.path) = n + 1 /\ Len(l.path) = (k + 1) + 1
      BY <1>2, <1>9, <3>1, <3>2
    <3> QED
      BY <3>2, <3>3
  <2>4. \A l \in A \cup B : tf[l] \in Int
    BY <1>7, <2>1
  <2>5. \A l \in B : tf[l] = g[l]
    <3> SUFFICES ASSUME NEW l \in B PROVE tf[l] = g[l]
      OBVIOUS
    <3>1. g[l] = IF Last(l.path) = c THEN l.total ELSE 0
      BY DEF Carried
    <3>2. l \in U(M)
      BY <2>1
    <3> QED
      BY <1>7, <3>1, <3>2
  <2>6. W(k) = W(k + 1) + SumFunctionOnSet(g, B) /\ W(0) \in Int /\ W(k) \in Int /\ W(k + 1) \in Int
    <3>1. 0 \in 0..M
      BY <1>1
    <3> QED
      BY <1>5, <1>6, <1>9, <3>1
  <2>7. SumFunctionOnSet(tf, A) = W(0) - W(k)
    BY <1>9
  <2> HIDE DEF A, B, g, W, U
  <2>8. SumFunctionOnSet(tf, A \cup B) = SumFunctionOnSet(tf, A) + SumFunctionOnSet(tf, B)
    BY <2>2, <2>3, <2>4, SumOfUnion
  <2>9. SumFunctionOnSet(tf, B) = SumFunctionOnSet(g, B) /\ SumFunctionOnSet(tf, B) \in Int
    BY <2>2, <2>4, <2>5, SumCongruent, SumIsInt
  <2>10. SumFunctionOnSet(tf, U(k + 1)) = W(0) - W(k + 1)
    <3>1. SumFunctionOnSet(tf, U(k + 1)) = SumFunctionOnSet(tf, A) + SumFunctionOnSet(g, B)
      BY <2>1, <2>8, <2>9
    <3> DEFINE x == SumFunctionOnSet(tf, U(k + 1))
               y == SumFunctionOnSet(g, B)
    <3>2. x = (W(0) - W(k)) + y /\ y \in Int /\ W(k) = W(k + 1) + y
      BY <2>6, <2>7, <2>9, <3>1
    <3> HIDE DEF x, y
    <3>3. x = W(0) - W(k + 1)
      BY <2>6, <3>2
    <3> QED
      BY <3>3 DEF x
  <2>11. IsFiniteSet(U(k + 1))
    BY <2>1, <2>2, FS_Union
  <2> QED
    BY <1>9, <2>10, <2>11
<1> HIDE DEF F
<1>10. \A k \in 0..M : k \in F
  BY <1>1, <1>8, <1>9, PrefixInduction
<1>11. IsFiniteSet(U(M)) /\ SumFunctionOnSet(tf, U(M)) = W(0) - W(M)
  <2>1. M \in F
    BY <1>1, <1>10
  <2> QED
    BY <2>1 DEF F
<1>12. W(M) = 0
  <2> DEFINE ls == lines[M]
             w == Weight(ls, need[0])
  <2>1. ls \in Charts /\ IsFiniteSet(ls)
    BY <1>1, <1>5
  <2>2. ASSUME NEW l \in ls PROVE w[l] = 0
    <3>1. l.total \in Int /\ Last(l.path) \in Products
      BY <2>1, LastIsProduct
    <3>2. w[l] = l.total * 0
      BY <1>3, <3>1 DEF Weight
    <3> QED
      BY <3>1, <3>2
  <2>3. M - M = 0
    BY <1>1
  <2>4. SumFunctionOnSet(w, ls) = 0
    <3> HIDE DEF w, ls
    <3> QED
      BY <2>1, <2>2, SumOfZeros
  <2> QED
    BY <2>3, <2>4
<1>13. W(0) = need[M][p]
  <2> DEFINE x == [path |-> <<p>>, total |-> 1]
             w == Weight(lines[0], need[M])
  <2>1. lines[0] = {x} /\ M - 0 = M /\ need[M] \in [Products -> Int] /\ need[M][p] \in Int
    BY <1>1, <1>2, <1>3 DEF Start
  <2>2. x.path = <<p>> /\ x.total = 1 /\ Last(x.path) = p
    BY DEF Last
  <2>3. w[x] = 1 * need[M][p]
    BY <2>1, <2>2 DEF Weight
  <2>4. w[x] = need[M][p] /\ w[x] \in Int
    BY <2>1, <2>3
  <2> HIDE DEF x, w
  <2>5. SumFunctionOnSet(w, {} \cup {x}) = w[x] + SumFunctionOnSet(w, {})
    BY <2>4, SumAdd, FS_EmptySet
  <2>6. SumFunctionOnSet(w, {x}) = need[M][p]
    <3>1. {} \cup {x} = {x}
      OBVIOUS
    <3> QED
      BY <2>1, <2>4, <2>5, <3>1, SumOfNone
  <2> QED
    BY <2>1, <2>6 DEF w
<1>14. Total(lines, c) = SumFunctionOnSet(tf, U(M))
  <2> DEFINE found == {l \in U(M) : Last(l.path) = c}
             f == [l \in found |-> l.total]
  <2>1. found \in SUBSET U(M) /\ (\A l \in found : f[l] \in Int)
    BY <1>7
  <2>2. \A l \in U(M) : tf[l] = IF l \in found THEN f[l] ELSE 0
    BY <1>7
  <2>3. Total(lines, c) = SumFunctionOnSet(f, found)
    BY DEF Total, M
  <2> HIDE DEF found, f, U
  <2>4. SumFunctionOnSet(f, found) = SumFunctionOnSet(tf, U(M))
    BY <1>11, <2>1, <2>2, SumOfSupport
  <2> QED
    BY <2>3, <2>4
<1>15. need[M][p] \in Int
  BY <1>1, <1>3
<1> HIDE DEF W, U
<1>16. Total(lines, c) = need[M][p]
  BY <1>11, <1>12, <1>13, <1>14, <1>15
<1> QED
  BY <1>4, <1>16 DEF lines

LEMMA KitsAreSound == KitInv => KitsHold
<1> SUFFICES ASSUME KitInv PROVE KitsHold
  OBVIOUS
<1>1. KitRows /\ bom \in SUBSET Part /\ \A e \in bom : e.parent \in Products
  BY DEF KitInv, KitRows, Part
<1>2. \A p \in Products : \A n \in 1..MaxDepth + 1 : p \notin LevelsBelow(Seen, p)[n]
  BY <1>1 DEF KitRows, Acyclic
<1>3. Cardinality({Key(e) : e \in bom}) = Cardinality(bom)
  <2> DEFINE keys == {Key(e) : e \in bom}
             h == [e \in bom |-> Key(e)]
  <2>1. h \in Bijection(bom, keys)
    <3>1. /\ h \in [bom -> keys] /\ \A e, f \in bom : h[e] = h[f] => e = f
          /\ \A k \in keys : \E e \in bom : h[e] = k
      BY <1>1 DEF KitRows
    <3> HIDE DEF h, keys
    <3> QED
      BY <3>1 DEF Bijection, Injection, Surjection, IsInjective
  <2>2. IsFiniteSet(bom)
    BY <1>1 DEF KitRows
  <2> HIDE DEF h, keys
  <2>3. Cardinality(keys) = Cardinality(bom)
    <3>1. ExistsBijection(bom, keys)
      BY <2>1 DEF ExistsBijection
    <3> QED
      BY <2>2, <3>1, FS_Bijection
  <2> QED
    BY <2>3 DEF keys
<1>4. \A e \in Seen : ~product[e.component].gone
  BY <1>1 DEF KitRows
<1>5. \A p, c \in Products : Total(Explosion(p), c) = Needed(p, c)
  BY <1>1, TotalIsNeeded
<1> QED
  BY <1>1, <1>2, <1>3, <1>4, <1>5 DEF KitsHold, Seen

(* KitsHold: a cycle, or a product that is gone, gets into a kit by an     *)
(* overlap alone; a product is a component of another once; and what       *)
(* explode() answers is what the kit needs of it, for any entries.         *)
THEOREM KitsStaySound == ProductSpec => []KitsHold
<1>1. CatalogueInv /\ KitInv /\ [ProductNext]_productVars => CatalogueInv' /\ KitInv'
  BY ProductNextKeeps, KitNextKeeps
<1>2. ProductInit => CatalogueInv /\ KitInv
  BY ProductsBegin, KitsBegin
<1> QED
  BY <1>1, <1>2, KitsAreSound, PTL DEF ProductSpec

-----------------------------------------------------------------------------
(* The transfers, which share no state with the others.  A posting changes *)
(* one bin of each variant by what the line carries, so a commit moves     *)
(* goods from one bin to another, or between the bins and the road: the    *)
(* books and the road together are what was supplied, whatever requests    *)
(* met on the transfer.  That its record is true needs them apart:         *)
(* ErrandFits says that a request that was met by no other has read the    *)
(* status the transfer still has, so that a transfer leaves and arrives    *)
(* once, and HistoryFits what has moved by then.                           *)
TransfersTyped ==
    /\ TransferTypeOK
    /\ dispatched \in [Transfers -> [Variants -> Nat]]
    /\ arrived \in [Transfers -> [Variants -> Nat]]

Bound(p, t) == errand[p] # NoErrand /\ errand[p].transfer = t

(* What a request has loaded of a transfer.                                *)
ErrandFits(p, t) ==
    /\ transfer[t].status # "NONE"
    /\ errand[p].phase = "DISPATCH" => errand[p].quantity = transfer[t].quantity
    /\ t \notin overtaken =>
           /\ transfer[t].status = IF errand[p].phase = "DISPATCH" THEN "DRAFT" ELSE "IN_TRANSIT"
           /\ \A q \in Handlers : Bound(q, t) => q = p

ErrandsFit == \A p \in Handlers, t \in Transfers : Bound(p, t) => ErrandFits(p, t)

(* What has moved of a transfer, by its status.                            *)
HistoryFits(t) ==
    /\ transfer[t].status = "NONE" => dispatched[t] = Nothing /\ arrived[t] = Nothing
    /\ t \notin overtaken =>
           /\ transfer[t].status = "DRAFT" => dispatched[t] = Nothing
           /\ transfer[t].status \in {"DRAFT", "IN_TRANSIT"} => arrived[t] = Nothing
           /\ transfer[t].status \in {"IN_TRANSIT", "RECEIVED"} =>
                  dispatched[t] = transfer[t].quantity
           /\ transfer[t].status = "RECEIVED" =>
                  \A v \in Variants :
                      /\ arrived[t][v] <= transfer[t].quantity[v]
                      /\ v \in Lines(t) => arrived[t][v] = transfer[t].quantityReceived[v]

TransferInv ==
    TransfersTyped /\ ErrandsFit /\ (\A t \in Transfers : HistoryFits(t)) /\ GoodsAreConserved

(***************************************************************************)
(* What a posting does to the goods in all bins of a variant               *)
(***************************************************************************)
InBins(book, v) == SumFunctionOnSet([b \in Bins |-> book[b].onHand], {b \in Bins : b[2] = v})

LEMMA BinsAreFinite ==
    /\ IsFiniteSet(Bins) /\ \A v : IsFiniteSet({b \in Bins : b[2] = v})
    /\ \A w \in Warehouses, v \in Variants : <<w, v>> \in Bins
    /\ \A b \in Bins : b = <<b[1], b[2]>> /\ b[1] \in Warehouses /\ b[2] \in Variants
<1>1. IsFiniteSet(Bins)
  BY TransfersAssumption, FS_Product DEF Bins
<1>2. \A v : {b \in Bins : b[2] = v} \in SUBSET Bins
  OBVIOUS
<1>3. /\ \A w \in Warehouses, v \in Variants : <<w, v>> \in Bins
      /\ \A b \in Bins : b = <<b[1], b[2]>> /\ b[1] \in Warehouses /\ b[2] \in Variants
  BY DEF Bins
<1> QED
  BY <1>1, <1>2, <1>3, FS_Subset

(* One bin of a variant changes.                                           *)
LEMMA OneBinChanges ==
    ASSUME NEW book \in [Bins -> Row], NEW after \in [Bins -> Row], NEW c \in Bins,
           \A b \in Bins : b[2] = c[2] /\ b # c => after[b] = book[b]
    PROVE  /\ InBins(after, c[2]) = InBins(book, c[2]) + (after[c].onHand - book[c].onHand)
           /\ InBins(book, c[2]) \in Int
<1> DEFINE v == c[2]
           S == {b \in Bins : b[2] = v}
           f == [b \in Bins |-> book[b].onHand]
           g == [b \in Bins |-> after[b].onHand]
<1>1. IsFiniteSet(S) /\ c \in S
  BY BinsAreFinite
<1>2. \A b \in S : f[b] \in Int /\ g[b] \in Int
  BY MaxQuantityAssumption DEF Row
<1>3. \A b \in S \ {c} : g[b] = f[b]
  OBVIOUS
<1>4. f[c] = book[c].onHand /\ g[c] = after[c].onHand
  OBVIOUS
<1>5. InBins(after, v) = SumFunctionOnSet(g, S) /\ InBins(book, v) = SumFunctionOnSet(f, S)
  BY DEF InBins
<1> HIDE DEF f, g, S
<1>6. SumFunctionOnSet(g, S) = SumFunctionOnSet(f, S) - f[c] + g[c]
  BY <1>1, <1>2, <1>3, SumUpdate
<1>7. SumFunctionOnSet(f, S) \in Int
  BY <1>1, <1>2, SumIsInt
<1>8. f[c] \in Int /\ g[c] \in Int
  BY <1>1, <1>2
<1> QED
  BY <1>4, <1>5, <1>6, <1>7, <1>8

(* No bin of a variant changes.                                            *)
LEMMA NoBinChanges ==
    ASSUME NEW book, NEW after, NEW v,
           \A b \in Bins : b[2] = v => after[b] = book[b]
    PROVE  InBins(after, v) = InBins(book, v)
<1> DEFINE S == {b \in Bins : b[2] = v}
           f == [b \in Bins |-> book[b].onHand]
           g == [b \in Bins |-> after[b].onHand]
<1>1. IsFiniteSet(S)
  BY BinsAreFinite
<1>2. \A b \in S : f[b] = g[b]
  OBVIOUS
<1>3. InBins(after, v) = SumFunctionOnSet(g, S) /\ InBins(book, v) = SumFunctionOnSet(f, S)
  BY DEF InBins
<1> HIDE DEF f, g, S
<1> QED
  BY <1>1, <1>2, <1>3, SumCongruent

LEMMA PostedRow ==
    ASSUME NEW from \in Row, NEW type \in {"TRANSFER_OUT", "TRANSFER_IN", "RECEIPT"}, NEW n \in Nat,
           MayMove(from, type, n)
    PROVE  /\ [from EXCEPT !.onHand = @ + SignedQuantity(type, n)] \in Row
           /\ SignedQuantity(type, n) = IF type = "TRANSFER_OUT" THEN -n ELSE n
<1>1. SignedQuantity(type, n) = IF type = "TRANSFER_OUT" THEN -n ELSE n
  BY DEF SignedQuantity, SignForMovement, InboundMovements, OutboundMovements
<1>2. from.onHand + SignedQuantity(type, n) \in 0..MaxQuantity
  BY <1>1, MaxQuantityAssumption DEF MayMove, Row
<1> QED
  BY <1>1, <1>2 DEF Row

(* Goods are posted at one warehouse.                                      *)
LEMMA PostedAtOne ==
    ASSUME NEW book \in [Bins -> Row], NEW w \in Warehouses, NEW r \in Errand,
           NEW type \in {"TRANSFER_OUT", "TRANSFER_IN"}, MayPost(book, {w}, type, r),
           Lines(r.transfer) \in SUBSET Variants
    PROVE  /\ Posted(book, {w}, type, r) \in [Bins -> Row]
           /\ \A v \in Variants :
                  /\ InBins(book, v) \in Int
                  /\ InBins(Posted(book, {w}, type, r), v) =
                         IF v \notin Lines(r.transfer) THEN InBins(book, v)
                         ELSE IF type = "TRANSFER_OUT" THEN InBins(book, v) - r.quantity[v]
                         ELSE InBins(book, v) + r.quantity[v]
<1> DEFINE after == Posted(book, {w}, type, r)
<1>1. /\ r.quantity \in [Variants -> Nat]
      /\ \A b \in Bins : (b \in Places({w}, r)) <=> (b[1] = w /\ b[2] \in Lines(r.transfer))
  <2>1. r.quantity \in [Variants -> Nat]
    BY MaxQuantityAssumption DEF Errand, Quantity
  <2> QED
    BY <2>1, BinsAreFinite DEF Places
<1>2. ASSUME NEW b \in Bins, b \in Places({w}, r)
      PROVE  /\ after[b] \in Row
             /\ after[b].onHand - book[b].onHand = IF type = "TRANSFER_OUT" THEN -r.quantity[b[2]] ELSE r.quantity[b[2]]
  <2>1. r.quantity[b[2]] \in Nat /\ MayMove(book[b], type, r.quantity[b[2]])
    BY <1>1, <1>2, BinsAreFinite DEF MayPost
  <2>2. after[b] = [book[b] EXCEPT !.onHand = @ + SignedQuantity(type, r.quantity[b[2]])]
    BY <1>2 DEF Posted
  <2>3. book[b] \in Row /\ book[b].onHand \in Int
    BY MaxQuantityAssumption DEF Row
  <2>4. after[b].onHand = book[b].onHand + SignedQuantity(type, r.quantity[b[2]])
    BY <2>2, <2>3 DEF Row
  <2> QED
    BY <2>1, <2>2, <2>3, <2>4, PostedRow
<1>3. \A b \in Bins : b \notin Places({w}, r) => after[b] = book[b]
  BY DEF Posted
<1>4. after \in [Bins -> Row]
  BY <1>2, <1>3 DEF Posted
<1> HIDE DEF after
<1>5. ASSUME NEW v \in Variants
      PROVE  /\ InBins(book, v) \in Int
             /\ InBins(after, v) = IF v \notin Lines(r.transfer) THEN InBins(book, v)
                                 ELSE IF type = "TRANSFER_OUT" THEN InBins(book, v) - r.quantity[v]
                                 ELSE InBins(book, v) + r.quantity[v]
  <2>1. PICK c \in Bins : c[1] = w /\ c[2] = v
    BY BinsAreFinite
  <2>2. \A b \in Bins : b[2] = v /\ b # c => after[b] = book[b]
    <3>1. ASSUME NEW b \in Bins, b[2] = v, b # c PROVE b[1] # w
      BY <2>1, <3>1, BinsAreFinite
    <3> QED
      BY <1>1, <1>3, <3>1
  <2>3. InBins(after, v) = InBins(book, v) + (after[c].onHand - book[c].onHand) /\ InBins(book, v) \in Int
    BY <1>4, <2>1, <2>2, OneBinChanges
  <2>4. CASE v \in Lines(r.transfer)
    <3>1. after[c].onHand - book[c].onHand = IF type = "TRANSFER_OUT" THEN -r.quantity[v] ELSE r.quantity[v]
      BY <1>1, <1>2, <2>1, <2>4
    <3>2. r.quantity[v] \in Nat
      BY <1>1
    <3> QED
      BY <2>3, <2>4, <3>1, <3>2
  <2>5. CASE v \notin Lines(r.transfer)
    <3>1. \A b \in Bins : b[2] = v => after[b] = book[b]
      BY <1>1, <1>3, <2>5
    <3> QED
      BY <2>3, <2>5, <3>1, NoBinChanges
  <2> QED
    BY <2>4, <2>5
<1> QED
  BY <1>4, <1>5 DEF after

LEMMA PostedNowhere ==
    ASSUME NEW book \in [Bins -> Row], NEW type, NEW r
    PROVE  Posted(book, {}, type, r) = book
BY DEF Posted, Places

(* What is carried is on the books before and after, except by a direct    *)
(* transfer.                                                               *)
LEMMA CarryKeeps ==
    ASSUME TransfersTyped, NEW r \in Errand, Carry(r)
    PROVE  /\ rows' \in [Bins -> Row]
           /\ \A v \in Variants :
                  /\ OnTheBooks(v) \in Int
                  /\ OnTheBooks(v)' =
                         IF v \notin Lines(r.transfer) \/ ByWay(r.transfer) # {} THEN OnTheBooks(v)
                         ELSE IF r.phase = "DISPATCH" THEN OnTheBooks(v) - r.quantity[v]
                         ELSE OnTheBooks(v) + r.quantity[v]
<1> DEFINE t == r.transfer
<1>1. /\ t \in Transfers /\ transfer[t] \in Transfer /\ r.phase \in {"DISPATCH", "RECEIVE"}
      /\ rows \in [Bins -> Row] /\ r.quantity \in [Variants -> Nat]
  BY MaxQuantityAssumption DEF Errand, TransfersTyped, TransferTypeOK, Quantity
<1>2. /\ transfer[t].source \in Warehouses /\ transfer[t].destination \in Warehouses
      /\ ByWay(t) = {} \/ \E w \in Warehouses : ByWay(t) = {w}
      /\ Lines(t) \in SUBSET Variants
  BY <1>1 DEF Transfer, ByWay, Lines
<1>3. /\ \A v \in Variants : OnTheBooks(v) = InBins(rows, v)
      /\ \A v \in Variants : OnTheBooks(v)' = InBins(rows', v)
  BY DEF OnTheBooks, InBins
<1>4. /\ MayPost(rows, LeaveFrom(r), "TRANSFER_OUT", r)
      /\ MayPost(InHand(r), ArriveAt(r), "TRANSFER_IN", r)
      /\ rows' = Posted(InHand(r), ArriveAt(r), "TRANSFER_IN", r)
      /\ InHand(r) = Posted(rows, LeaveFrom(r), "TRANSFER_OUT", r)
  BY DEF Carry, InHand
<1>7. ASSUME NEW book \in [Bins -> Row], NEW w \in Warehouses,
             NEW type \in {"TRANSFER_OUT", "TRANSFER_IN"}, MayPost(book, {w}, type, r)
      PROVE  /\ Posted(book, {w}, type, r) \in [Bins -> Row]
             /\ \A v \in Variants :
                    /\ InBins(book, v) \in Int
                    /\ InBins(Posted(book, {w}, type, r), v) =
                           IF v \notin Lines(t) THEN InBins(book, v)
                           ELSE IF type = "TRANSFER_OUT" THEN InBins(book, v) - r.quantity[v]
                           ELSE InBins(book, v) + r.quantity[v]
  <2>1. Lines(r.transfer) \in SUBSET Variants
    BY <1>2
  <2>2. /\ Posted(book, {w}, type, r) \in [Bins -> Row]
        /\ \A v \in Variants :
               /\ InBins(book, v) \in Int
               /\ InBins(Posted(book, {w}, type, r), v) =
                      IF v \notin Lines(r.transfer) THEN InBins(book, v)
                      ELSE IF type = "TRANSFER_OUT" THEN InBins(book, v) - r.quantity[v]
                      ELSE InBins(book, v) + r.quantity[v]
    BY <1>7, <2>1, PostedAtOne, ZenonT(30)
  <2> QED
    BY <2>2
<1> HIDE DEF t
<1>8. ASSUME NEW book \in [Bins -> Row], NEW w \in Warehouses, MayPost(book, {w}, "TRANSFER_OUT", r)
      PROVE  /\ Posted(book, {w}, "TRANSFER_OUT", r) \in [Bins -> Row]
             /\ \A v \in Variants :
                    /\ InBins(book, v) \in Int
                    /\ InBins(Posted(book, {w}, "TRANSFER_OUT", r), v) =
                           IF v \notin Lines(t) THEN InBins(book, v) ELSE InBins(book, v) - r.quantity[v]
  BY <1>7, <1>8
<1>9. ASSUME NEW book \in [Bins -> Row], NEW w \in Warehouses, MayPost(book, {w}, "TRANSFER_IN", r)
      PROVE  /\ Posted(book, {w}, "TRANSFER_IN", r) \in [Bins -> Row]
             /\ \A v \in Variants :
                    /\ InBins(book, v) \in Int
                    /\ InBins(Posted(book, {w}, "TRANSFER_IN", r), v) =
                           IF v \notin Lines(t) THEN InBins(book, v) ELSE InBins(book, v) + r.quantity[v]
  BY <1>7, <1>9
<1>5. CASE r.phase = "DISPATCH"
  <2>1. LeaveFrom(r) = {transfer[t].source} /\ ArriveAt(r) = ByWay(t)
    BY <1>5 DEF LeaveFrom, ArriveAt, t
  <2>2. /\ InHand(r) \in [Bins -> Row]
        /\ \A v \in Variants :
               /\ InBins(rows, v) \in Int
               /\ InBins(InHand(r), v) = IF v \notin Lines(t) THEN InBins(rows, v)
                                       ELSE InBins(rows, v) - r.quantity[v]
    BY <1>1, <1>2, <1>4, <1>8, <2>1
  <2>3. CASE ByWay(t) = {}
    <3>1. rows' = InHand(r)
      BY <1>4, <2>1, <2>2, <2>3, PostedNowhere
    <3> QED
      BY <1>3, <1>5, <2>2, <2>3, <3>1 DEF t
  <2>4. CASE ByWay(t) # {}
    <3>1. PICK w \in Warehouses : ByWay(t) = {w}
      BY <1>2, <2>4
    <3>2. /\ rows' \in [Bins -> Row]
          /\ \A v \in Variants :
                 InBins(rows', v) = IF v \notin Lines(t) THEN InBins(InHand(r), v)
                                  ELSE InBins(InHand(r), v) + r.quantity[v]
      <4>1. rows' = Posted(InHand(r), {w}, "TRANSFER_IN", r) /\ MayPost(InHand(r), {w}, "TRANSFER_IN", r)
        BY <1>4, <2>1, <3>1
      <4>2. InHand(r) \in [Bins -> Row]
        BY <2>2
      <4> QED
        BY <1>9, <4>1, <4>2
    <3>3. ASSUME NEW v \in Variants PROVE InBins(rows', v) = InBins(rows, v)
      <4>1. InBins(rows, v) \in Int /\ r.quantity[v] \in Int
        BY <1>1, <2>2
      <4> QED
        BY <2>2, <3>2, <4>1
    <3> QED
      BY <1>3, <2>2, <2>4, <3>2, <3>3 DEF t
  <2> QED
    BY <2>3, <2>4
<1>6. CASE r.phase = "RECEIVE"
  <2>1. LeaveFrom(r) = ByWay(t) /\ ArriveAt(r) = {transfer[t].destination}
    BY <1>6 DEF LeaveFrom, ArriveAt, t
  <2>2. ASSUME InHand(r) \in [Bins -> Row]
        PROVE  /\ rows' \in [Bins -> Row]
               /\ \A v \in Variants :
                      /\ InBins(InHand(r), v) \in Int
                      /\ InBins(rows', v) = IF v \notin Lines(t) THEN InBins(InHand(r), v)
                                          ELSE InBins(InHand(r), v) + r.quantity[v]
    <3>1. /\ rows' = Posted(InHand(r), {transfer[t].destination}, "TRANSFER_IN", r)
          /\ MayPost(InHand(r), {transfer[t].destination}, "TRANSFER_IN", r)
      BY <1>4, <2>1
    <3>2. PICK w \in Warehouses : w = transfer[t].destination
      BY <1>2
    <3> QED
      BY <1>9, <2>2, <3>1, <3>2
  <2>3. CASE ByWay(t) = {}
    <3>1. InHand(r) = rows
      BY <1>1, <1>4, <2>1, <2>3, PostedNowhere
    <3>2. r.phase # "DISPATCH"
      BY <1>6
    <3> QED
      BY <1>1, <1>3, <2>2, <2>3, <3>1, <3>2 DEF t
  <2>4. CASE ByWay(t) # {}
    <3>1. PICK w \in Warehouses : ByWay(t) = {w}
      BY <1>2, <2>4
    <3>2. /\ InHand(r) \in [Bins -> Row]
          /\ \A v \in Variants :
                 /\ InBins(rows, v) \in Int
                 /\ InBins(InHand(r), v) = IF v \notin Lines(t) THEN InBins(rows, v)
                                         ELSE InBins(rows, v) - r.quantity[v]
      BY <1>1, <1>2, <1>4, <1>8, <2>1, <3>1
    <3>3. ASSUME NEW v \in Variants PROVE InBins(rows', v) = InBins(rows, v)
      <4>1. InBins(rows, v) \in Int /\ r.quantity[v] \in Int
        BY <1>1, <3>2
      <4> QED
        BY <2>2, <3>2, <4>1
    <3> QED
      BY <1>3, <2>2, <2>4, <3>2, <3>3 DEF t
  <2> QED
    BY <2>3, <2>4
<1> QED
  BY <1>1, <1>5, <1>6

(***************************************************************************)
(* What is on the road                                                     *)
(***************************************************************************)
Road(v) == [t \in Transfers |-> IF ByWay(t) # {} THEN 0 ELSE dispatched[t][v] - arrived[t][v]]

LEMMA OffTheBooksIsRoad ==
    ASSUME NEW v
    PROVE  /\ OffTheBooks(v) = SumFunctionOnSet(Road(v), Transfers)
           /\ OffTheBooks(v)' = SumFunctionOnSet(Road(v)', Transfers)
<1>1. DOMAIN Road(v) = Transfers /\ DOMAIN Road(v)' = Transfers
  BY DEF Road
<1> QED
  BY <1>1 DEF OffTheBooks, SumFunction, Road

(* One transfer moves goods.                                               *)
LEMMA OneOnTheRoad ==
    ASSUME NEW f, NEW g, NEW t \in Transfers, NEW n \in Int,
           \A u \in Transfers : f[u] \in Int, g[t] = f[t] + n,
           \A u \in Transfers \ {t} : g[u] = f[u]
    PROVE  /\ SumFunctionOnSet(g, Transfers) = SumFunctionOnSet(f, Transfers) + n
           /\ SumFunctionOnSet(f, Transfers) \in Int
<1>1. IsFiniteSet(Transfers)
  BY TransfersAssumption
<1>2. \A u \in Transfers : f[u] \in Int /\ g[u] \in Int
  OBVIOUS
<1>3. SumFunctionOnSet(g, Transfers) = SumFunctionOnSet(f, Transfers) - f[t] + g[t]
  BY <1>1, <1>2, SumUpdate
<1>4. SumFunctionOnSet(f, Transfers) \in Int
  BY <1>1, <1>2, SumIsInt
<1> QED
  BY <1>2, <1>3, <1>4

LEMMA RoadIsTyped ==
    ASSUME TransfersTyped, NEW v \in Variants
    PROVE  \A t \in Transfers : Road(v)[t] \in Int
BY DEF TransfersTyped, Road

(* A commit adds as much to the road as it takes off the books.            *)
LEMMA CarriedIsConserved ==
    ASSUME TransfersTyped, GoodsAreConserved, NEW r \in Errand, Carry(r),
           \A t \in Transfers : ByWay(t)' = ByWay(t),
           supplied' = supplied,
           IF r.phase = "DISPATCH" THEN dispatched' = Booked(dispatched, r) /\ arrived' = arrived
                                   ELSE arrived' = Booked(arrived, r) /\ dispatched' = dispatched
    PROVE  GoodsAreConserved'
<1> SUFFICES ASSUME NEW v \in Variants
             PROVE  OnTheBooks(v)' + OffTheBooks(v)' = supplied'[v]
  BY DEF GoodsAreConserved
<1> DEFINE t == r.transfer
           n == IF v \notin Lines(t) \/ ByWay(t) # {} THEN 0
                ELSE IF r.phase = "DISPATCH" THEN r.quantity[v] ELSE -r.quantity[v]
           f == Road(v)
           g == Road(v)'
<1>1. /\ t \in Transfers /\ r.phase \in {"DISPATCH", "RECEIVE"} /\ r.quantity[v] \in Nat
      /\ dispatched \in [Transfers -> [Variants -> Nat]] /\ arrived \in [Transfers -> [Variants -> Nat]]
  BY MaxQuantityAssumption DEF Errand, TransfersTyped, Quantity
<1>2. \A u \in Transfers : f[u] \in Int
  BY RoadIsTyped
<1>3. ASSUME NEW u \in Transfers \ {t} PROVE g[u] = f[u]
  <2>1. ASSUME NEW h PROVE u \in DOMAIN h => Booked(h, r)[u] = h[u]
    BY DEF Booked
  <2>2. dispatched'[u] = dispatched[u] /\ arrived'[u] = arrived[u]
    BY <1>1, <2>1
  <2> QED
    BY <2>2 DEF Road
<1>4. g[t] = f[t] + n
  <2>1. /\ f[t] = IF ByWay(t) # {} THEN 0 ELSE dispatched[t][v] - arrived[t][v]
        /\ g[t] = IF ByWay(t) # {} THEN 0 ELSE dispatched'[t][v] - arrived'[t][v]
    BY <1>1 DEF Road
  <2>2. ASSUME NEW h \in [Transfers -> [Variants -> Nat]]
        PROVE  Booked(h, r)[t][v] = IF v \in Lines(t) THEN h[t][v] + r.quantity[v] ELSE h[t][v]
    BY <1>1 DEF Booked
  <2>3. dispatched[t][v] \in Nat /\ arrived[t][v] \in Nat
    BY <1>1
  <2>4. CASE r.phase = "DISPATCH"
    <3>1. dispatched'[t][v] = IF v \in Lines(t) THEN dispatched[t][v] + r.quantity[v] ELSE dispatched[t][v]
      BY <1>1, <2>2, <2>4
    <3> HIDE DEF t
    <3> QED
      BY <1>1, <2>1, <2>3, <2>4, <3>1
  <2>5. CASE r.phase # "DISPATCH"
    <3>1. arrived'[t][v] = IF v \in Lines(t) THEN arrived[t][v] + r.quantity[v] ELSE arrived[t][v]
      BY <1>1, <2>2, <2>5
    <3> HIDE DEF t
    <3> QED
      BY <1>1, <2>1, <2>3, <2>5, <3>1
  <2> QED
    BY <2>4, <2>5
<1>5. n \in Int
  BY <1>1
<1>6. /\ OnTheBooks(v) \in Int
      /\ OnTheBooks(v)' = OnTheBooks(v) - n
  <2>1. /\ OnTheBooks(v) \in Int
        /\ OnTheBooks(v)' = IF v \notin Lines(t) \/ ByWay(t) # {} THEN OnTheBooks(v)
                            ELSE IF r.phase = "DISPATCH" THEN OnTheBooks(v) - r.quantity[v]
                            ELSE OnTheBooks(v) + r.quantity[v]
    BY CarryKeeps
  <2> HIDE DEF t
  <2> QED
    BY <1>1, <2>1
<1>7. OffTheBooks(v) = SumFunctionOnSet(f, Transfers) /\ OffTheBooks(v)' = SumFunctionOnSet(g, Transfers)
  BY OffTheBooksIsRoad
<1> HIDE DEF f, g, n, t
<1>8. SumFunctionOnSet(g, Transfers) = SumFunctionOnSet(f, Transfers) + n /\ SumFunctionOnSet(f, Transfers) \in Int
  BY <1>1, <1>2, <1>3, <1>4, <1>5, OneOnTheRoad
<1>9. OnTheBooks(v) + OffTheBooks(v) = supplied[v] /\ supplied'[v] = supplied[v]
  BY DEF GoodsAreConserved
<1> QED
  BY <1>5, <1>6, <1>7, <1>8, <1>9

(* A step that moves nothing.                                              *)
LEMMA NothingMoves ==
    ASSUME GoodsAreConserved, UNCHANGED <<rows, supplied, dispatched, arrived>>,
           \A t \in Transfers : \/ ByWay(t)' = ByWay(t)
                                \/ dispatched[t] = Nothing /\ arrived[t] = Nothing
    PROVE  GoodsAreConserved'
<1> SUFFICES ASSUME NEW v \in Variants
             PROVE  OnTheBooks(v)' + OffTheBooks(v)' = supplied'[v]
  BY DEF GoodsAreConserved
<1>1. OnTheBooks(v)' = OnTheBooks(v)
  BY DEF OnTheBooks
<1>2. ASSUME NEW t \in Transfers PROVE Road(v)'[t] = Road(v)[t]
  BY DEF Road, Nothing
<1>3. Road(v)' = Road(v)
  BY <1>2 DEF Road
<1>4. OffTheBooks(v)' = OffTheBooks(v)
  BY <1>3, OffTheBooksIsRoad
<1> QED
  BY <1>1, <1>4 DEF GoodsAreConserved

(***************************************************************************)
(* The steps                                                               *)
(***************************************************************************)
LEMMA SupplyKeeps ==
    ASSUME TransferInv, NEW b \in Bins, Supply(b)
    PROVE  TransferInv'
<1>1. rows \in [Bins -> Row] /\ b[2] \in Variants /\ supplied \in [Variants -> Nat]
  BY BinsAreFinite DEF TransferInv, TransfersTyped, TransferTypeOK
<1>2. /\ MayMove(rows[b], "RECEIPT", 1)
      /\ rows' = [rows EXCEPT ![b].onHand = @ + 1]
      /\ supplied' = [supplied EXCEPT ![b[2]] = @ + 1]
      /\ UNCHANGED <<transfer, errand, dispatched, arrived, stated, overtaken>>
  BY DEF Supply
<1>3. rows[b] \in Row /\ rows[b].onHand \in Int
  BY <1>1, MaxQuantityAssumption DEF Row
<1>4. SignedQuantity("RECEIPT", 1) = 1 /\ [rows[b] EXCEPT !.onHand = @ + SignedQuantity("RECEIPT", 1)] \in Row
  BY <1>2, <1>3, PostedRow
<1>5. /\ rows' \in [Bins -> Row] /\ rows'[b].onHand = rows[b].onHand + 1
      /\ \A c \in Bins : c # b => rows'[c] = rows[c]
  <2>1. rows'[b] = [rows[b] EXCEPT !.onHand = @ + 1]
    BY <1>1, <1>2
  <2>2. rows'[b] \in Row /\ rows'[b].onHand = rows[b].onHand + 1
    BY <1>3, <1>4, <2>1 DEF Row
  <2>3. rows' = [c \in Bins |-> IF c = b THEN rows'[b] ELSE rows[c]]
    BY <1>1, <1>2
  <2> QED
    BY <1>1, <2>2, <2>3
<1>6. TransfersTyped'
  BY <1>1, <1>2, <1>5 DEF TransferInv, TransfersTyped, TransferTypeOK
<1>7. GoodsAreConserved'
  <2> SUFFICES ASSUME NEW v \in Variants PROVE OnTheBooks(v)' + OffTheBooks(v)' = supplied'[v]
    BY DEF GoodsAreConserved
  <2>1. OnTheBooks(v) + OffTheBooks(v) = supplied[v]
    BY DEF TransferInv, GoodsAreConserved
  <2>2. OffTheBooks(v)' = OffTheBooks(v)
    BY <1>2 DEF OffTheBooks, ByWay
  <2>3. OnTheBooks(v) = InBins(rows, v) /\ OnTheBooks(v)' = InBins(rows', v)
    BY DEF OnTheBooks, InBins
  <2>4. CASE v = b[2]
    <3>1. InBins(rows', v) = InBins(rows, v) + (rows'[b].onHand - rows[b].onHand) /\ InBins(rows, v) \in Int
      BY <1>1, <1>5, <2>4, OneBinChanges
    <3>2. OffTheBooks(v) \in Int
      <4>1. \A t \in Transfers : Road(v)[t] \in Int
        BY RoadIsTyped DEF TransferInv
      <4>2. IsFiniteSet(Transfers)
        BY TransfersAssumption
      <4>3. SumFunctionOnSet(Road(v), Transfers) \in Int
        BY <4>1, <4>2, SumIsInt
      <4> QED
        BY <4>3, OffTheBooksIsRoad
    <3>3. supplied'[v] = supplied[v] + 1
      BY <1>1, <1>2, <2>4
    <3> QED
      BY <1>3, <1>5, <2>1, <2>2, <2>3, <3>1, <3>2, <3>3
  <2>5. CASE v # b[2]
    <3>1. InBins(rows', v) = InBins(rows, v)
      BY <1>5, <2>5, NoBinChanges
    <3>2. supplied'[v] = supplied[v]
      BY <1>1, <1>2, <2>5
    <3> QED
      BY <2>1, <2>2, <2>3, <3>1, <3>2
  <2> QED
    BY <2>4, <2>5
<1>8. ErrandsFit' /\ \A t \in Transfers : HistoryFits(t)'
  BY <1>2 DEF TransferInv, ErrandsFit, ErrandFits, Bound, HistoryFits, Lines
<1> QED
  BY <1>6, <1>7, <1>8 DEF TransferInv

LEMMA CreateKeeps ==
    ASSUME TransferInv, NEW t \in Transfers, NEW transit \in Transits,
           NEW quantity \in [Variants -> Quantity], CreateTransfer(t, transit, quantity)
    PROVE  TransferInv'
<1>1. /\ transfer[t].status = "NONE" /\ transfer \in [Transfers -> Transfer]
      /\ transfer' = [transfer EXCEPT ![t].status = "DRAFT", ![t].transit = transit, ![t].quantity = quantity]
      /\ UNCHANGED <<rows, errand, supplied, dispatched, arrived, stated, overtaken>>
  BY DEF CreateTransfer, TransferInv, TransfersTyped, TransferTypeOK
<1>2. \A u \in Transfers : u # t => transfer'[u] = transfer[u]
  BY <1>1
<1>3. transfer'[t] \in Transfer /\ transfer'[t].status = "DRAFT"
  <2>1. transfer'[t] = [[[transfer[t] EXCEPT !.status = "DRAFT"] EXCEPT !.transit = transit] EXCEPT !.quantity = quantity]
    BY <1>1
  <2>2. transfer[t] \in Transfer /\ transit \in Warehouses \cup {NoTransit}
    BY <1>1, TransfersAssumption
  <2> QED
    BY <2>1, <2>2 DEF Transfer
<1>4. transfer' \in [Transfers -> Transfer]
  <2>1. transfer' = [u \in Transfers |-> transfer'[u]]
    BY <1>1
  <2> QED
    BY <1>1, <1>2, <1>3, <2>1
<1>5. TransfersTyped'
  BY <1>1, <1>4 DEF TransferInv, TransfersTyped, TransferTypeOK
<1>6. dispatched[t] = Nothing /\ arrived[t] = Nothing
  BY <1>1 DEF TransferInv, HistoryFits
<1>7. GoodsAreConserved'
  <2>1. \A u \in Transfers : ByWay(u)' = ByWay(u) \/ (dispatched[u] = Nothing /\ arrived[u] = Nothing)
    BY <1>2, <1>6 DEF ByWay
  <2> QED
    BY <1>1, <2>1, NothingMoves DEF TransferInv
<1>8. ErrandsFit'
  <2>1. \A p \in Handlers : ~Bound(p, t)
    BY <1>1 DEF TransferInv, ErrandsFit, ErrandFits
  <2> QED
    BY <1>1, <1>2, <2>1 DEF TransferInv, ErrandsFit, ErrandFits, Bound
<1>9. ASSUME NEW u \in Transfers PROVE HistoryFits(u)'
  BY <1>1, <1>2, <1>3, <1>6 DEF TransferInv, HistoryFits, Lines
<1> QED
  BY <1>5, <1>7, <1>8, <1>9 DEF TransferInv

(* A request loads a transfer whose status lets it.                        *)
LEMMA LoadKeeps ==
    ASSUME TransferInv, NEW p \in Handlers, NEW r \in Errand, LoadTransfer(p, r),
           transfer[r.transfer].status = IF r.phase = "DISPATCH" THEN "DRAFT" ELSE "IN_TRANSIT",
           r.phase = "DISPATCH" => r.quantity = transfer[r.transfer].quantity
    PROVE  TransferInv'
<1> DEFINE t == r.transfer
<1>1. /\ errand[p] = NoErrand /\ errand' = [errand EXCEPT ![p] = r]
      /\ overtaken' = IF Underway(t) THEN overtaken \cup {t} ELSE overtaken
      /\ UNCHANGED <<rows, transfer, supplied, dispatched, arrived, stated>>
      /\ errand \in [Handlers -> Errand \cup {NoErrand}] /\ t \in Transfers
  BY DEF LoadTransfer, TransferInv, TransfersTyped, TransferTypeOK, Errand
<1>2. TransfersTyped'
  BY <1>1 DEF TransferInv, TransfersTyped, TransferTypeOK
<1>3. GoodsAreConserved'
  BY <1>1, NothingMoves DEF TransferInv, ByWay
<1>4. overtaken \subseteq overtaken'
  BY <1>1
<1>5. \A u \in Transfers : HistoryFits(u)'
  BY <1>1, <1>4 DEF TransferInv, HistoryFits, Lines
<1>6. ASSUME NEW q \in Handlers, NEW u \in Transfers, Bound(q, u)' PROVE ErrandFits(q, u)'
  <2>1. CASE q = p
    <3>1. errand'[q] = r /\ u = t
      BY <1>1, <1>6, <2>1 DEF Bound
    <3>2. ASSUME u \notin overtaken', NEW s \in Handlers, Bound(s, u)' PROVE s = q
      <4>1. ~Underway(u)
        BY <1>1, <3>1, <3>2
      <4> QED
        BY <1>1, <2>1, <3>2, <4>1 DEF Bound, Underway
    <3> QED
      BY <1>1, <3>1, <3>2 DEF ErrandFits
  <2>2. CASE q # p
    <3>1. errand'[q] = errand[q] /\ Bound(q, u) /\ ErrandFits(q, u)
      BY <1>1, <1>6, <2>2 DEF Bound, TransferInv, ErrandsFit
    <3>2. ASSUME u \notin overtaken', NEW s \in Handlers, Bound(s, u)' PROVE s = q
      <4>1. u # t
        BY <1>1, <3>1, <3>2 DEF Underway, Bound
      <4>2. Bound(s, u) /\ u \notin overtaken
        BY <1>1, <1>4, <3>2, <4>1 DEF Bound
      <4> QED
        BY <3>1, <4>2 DEF ErrandFits
    <3> QED
      BY <1>1, <1>4, <3>1, <3>2 DEF ErrandFits
  <2> QED
    BY <2>1, <2>2
<1> QED
  BY <1>2, <1>3, <1>5, <1>6 DEF TransferInv, ErrandsFit

LEMMA DispatchLoads ==
    ASSUME TransferInv, NEW p \in Handlers, NEW t \in Transfers, LoadForDispatch(p, t)
    PROVE  TransferInv'
<1> DEFINE r == [phase |-> "DISPATCH", transfer |-> t, quantity |-> transfer[t].quantity, intended |-> Nothing]
<1>1. r \in Errand
  BY DEF Errand, TransferInv, TransfersTyped, TransferTypeOK, Transfer, Nothing
<1>2. LoadTransfer(p, r) /\ transfer[t].status = "DRAFT"
  BY DEF LoadForDispatch
<1>3. r.phase = "DISPATCH" /\ r.transfer = t /\ r.quantity = transfer[t].quantity
  OBVIOUS
<1> HIDE DEF r
<1> QED
  BY <1>1, <1>2, <1>3, LoadKeeps

LEMMA ReceiptLoads ==
    ASSUME TransferInv, NEW p \in Handlers, NEW t \in Transfers, NEW receipt \in Receipts,
           LoadForReceipt(p, t, receipt)
    PROVE  TransferInv'
<1>1. PICK heard \in ReceivedQuantities(t, receipt) :
          LoadTransfer(p, [phase |-> "RECEIVE", transfer |-> t, quantity |-> heard,
                           intended |-> Intended(t, receipt)])
  BY DEF LoadForReceipt
<1> DEFINE r == [phase |-> "RECEIVE", transfer |-> t, quantity |-> heard, intended |-> Intended(t, receipt)]
<1>2. heard \in [Variants -> Quantity]
  BY DEF ReceivedQuantities
<1>3. Intended(t, receipt) \in [Variants -> Nat]
  <2>1. transfer[t].quantity \in [Variants -> Quantity]
    BY DEF TransferInv, TransfersTyped, TransferTypeOK, Transfer
  <2>2. \A v \in DOMAIN receipt : receipt[v] \in Nat
    BY MaxQuantityAssumption DEF Receipts
  <2> QED
    BY <2>1, <2>2, MaxQuantityAssumption DEF Intended, Quantity
<1>4. r \in Errand
  BY <1>2, <1>3 DEF Errand
<1>5. LoadTransfer(p, r) /\ transfer[t].status = "IN_TRANSIT"
  BY <1>1 DEF LoadForReceipt
<1>6. r.phase = "RECEIVE" /\ r.transfer = t
  OBVIOUS
<1> HIDE DEF r
<1> QED
  BY <1>4, <1>5, <1>6, LoadKeeps

LEMMA AbandonKeeps ==
    ASSUME TransferInv, NEW p \in Handlers, Abandon(p)
    PROVE  TransferInv'
<1>1. /\ errand \in [Handlers -> Errand \cup {NoErrand}] /\ errand' = [errand EXCEPT ![p] = NoErrand]
      /\ UNCHANGED <<rows, transfer, supplied, dispatched, arrived, stated, overtaken>>
  BY DEF Abandon, TransferInv, TransfersTyped, TransferTypeOK
<1>2. TransfersTyped'
  BY <1>1 DEF TransferInv, TransfersTyped, TransferTypeOK
<1>3. GoodsAreConserved'
  BY <1>1, NothingMoves DEF TransferInv, ByWay
<1>4. \A u \in Transfers : HistoryFits(u)'
  BY <1>1 DEF TransferInv, HistoryFits, Lines
<1>5. ErrandsFit'
  BY <1>1 DEF TransferInv, ErrandsFit, ErrandFits, Bound
<1> QED
  BY <1>2, <1>3, <1>4, <1>5 DEF TransferInv

(***************************************************************************)
(* The commits                                                             *)
(***************************************************************************)
(* A request commits: whoever else is at work on its transfer has met it.  *)
LEMMA CommitKeepsErrands ==
    ASSUME TransferInv, NEW p \in Handlers, NEW t \in Transfers, Bound(p, t),
           errand' = [errand EXCEPT ![p] = NoErrand], overtaken' = overtaken,
           transfer'[t].status # "NONE", transfer'[t].quantity = transfer[t].quantity,
           \A u \in Transfers : u # t => transfer'[u] = transfer[u]
    PROVE  ErrandsFit'
<1> SUFFICES ASSUME NEW q \in Handlers, NEW u \in Transfers, Bound(q, u)' PROVE ErrandFits(q, u)'
  BY DEF ErrandsFit
<1>1. errand \in [Handlers -> Errand \cup {NoErrand}]
  BY DEF TransferInv, TransfersTyped, TransferTypeOK
<1>2. q # p /\ errand'[q] = errand[q] /\ Bound(q, u) /\ ErrandFits(q, u)
  BY <1>1 DEF Bound, TransferInv, ErrandsFit
<1>3. \A s \in Handlers : Bound(s, u)' => Bound(s, u)
  BY <1>1 DEF Bound
<1>4. u = t => u \in overtaken
  BY <1>2 DEF ErrandFits
<1> QED
  BY <1>2, <1>3, <1>4 DEF ErrandFits

LEMMA BookedAt ==
    ASSUME NEW h \in [Transfers -> [Variants -> Nat]], NEW r \in Errand
    PROVE  /\ Booked(h, r) \in [Transfers -> [Variants -> Nat]]
           /\ \A u \in Transfers : u # r.transfer => Booked(h, r)[u] = h[u]
           /\ \A v \in Variants : Booked(h, r)[r.transfer][v] =
                  IF v \in Lines(r.transfer) THEN h[r.transfer][v] + r.quantity[v] ELSE h[r.transfer][v]
<1>1. r.transfer \in Transfers /\ r.quantity \in [Variants -> Nat]
  BY MaxQuantityAssumption DEF Errand, Quantity
<1>2. Booked(h, r)[r.transfer] =
          [v \in Variants |-> IF v \in Lines(r.transfer) THEN h[r.transfer][v] + r.quantity[v] ELSE h[r.transfer][v]]
  BY <1>1 DEF Booked
<1>3. Booked(h, r)[r.transfer] \in [Variants -> Nat]
  BY <1>1, <1>2
<1>4. \A u \in Transfers : u # r.transfer => Booked(h, r)[u] = h[u]
  BY DEF Booked
<1>5. Booked(h, r) = [u \in Transfers |-> Booked(h, r)[u]]
  BY DEF Booked
<1> QED
  BY <1>2, <1>3, <1>4, <1>5

LEMMA DepartureKeeps ==
    ASSUME TransferInv, NEW p \in Handlers, CommitDeparture(p)
    PROVE  TransferInv'
<1>1. PICK r \in Errand : r = errand[p]
  BY DEF CommitDeparture, TransferInv, TransfersTyped, TransferTypeOK
<1>2. PICK t \in Transfers : t = r.transfer
  BY DEF Errand
<1>3. /\ r.phase = "DISPATCH" /\ Carry(r) /\ errand[p] # NoErrand
      /\ transfer' = [transfer EXCEPT ![t].status = "IN_TRANSIT"]
      /\ dispatched' = Booked(dispatched, r) /\ errand' = [errand EXCEPT ![p] = NoErrand]
      /\ UNCHANGED <<supplied, arrived, stated, overtaken>>
  BY <1>1, <1>2 DEF CommitDeparture
<1>4. /\ transfer \in [Transfers -> Transfer] /\ errand \in [Handlers -> Errand \cup {NoErrand}]
      /\ dispatched \in [Transfers -> [Variants -> Nat]] /\ arrived \in [Transfers -> [Variants -> Nat]]
      /\ TransfersTyped /\ GoodsAreConserved
  BY DEF TransferInv, TransfersTyped, TransferTypeOK
<1>5. transfer'[t] = [transfer[t] EXCEPT !.status = "IN_TRANSIT"] /\ \A u \in Transfers : u # t => transfer'[u] = transfer[u]
  BY <1>3, <1>4
<1>6. /\ transfer'[t] \in Transfer /\ transfer'[t].status = "IN_TRANSIT"
      /\ transfer'[t].quantity = transfer[t].quantity /\ ByWay(t)' = ByWay(t) /\ Lines(t)' = Lines(t)
  <2>1. transfer[t] \in Transfer
    BY <1>4
  <2>2. /\ transfer'[t] \in Transfer /\ transfer'[t].status = "IN_TRANSIT" /\ transfer'[t].quantity = transfer[t].quantity
        /\ transfer'[t].transit = transfer[t].transit /\ transfer'[t].source = transfer[t].source
    BY <1>5, <2>1 DEF Transfer
  <2> QED
    BY <2>2 DEF ByWay, Lines
<1>7. Bound(p, t) /\ ErrandFits(p, t) /\ HistoryFits(t)
  BY <1>1, <1>2, <1>3 DEF Bound, TransferInv, ErrandsFit
<1>8. /\ dispatched' \in [Transfers -> [Variants -> Nat]]
      /\ \A u \in Transfers : u # t => dispatched'[u] = dispatched[u]
      /\ \A v \in Variants : dispatched'[t][v] =
             IF v \in Lines(t) THEN dispatched[t][v] + r.quantity[v] ELSE dispatched[t][v]
  BY <1>2, <1>3, <1>4, BookedAt
<1>9. TransfersTyped'
  <2>1. rows' \in [Bins -> Row]
    BY <1>3, <1>4, CarryKeeps
  <2>2. transfer' = [u \in Transfers |-> transfer'[u]]
    BY <1>3, <1>4
  <2>3. transfer' \in [Transfers -> Transfer]
    BY <1>4, <1>5, <1>6, <2>2
  <2> QED
    BY <1>3, <1>4, <1>8, <2>1, <2>3 DEF TransfersTyped, TransferTypeOK
<1>10. GoodsAreConserved'
  <2>1. \A u \in Transfers : ByWay(u)' = ByWay(u)
    BY <1>5, <1>6 DEF ByWay
  <2> QED
    BY <1>3, <1>4, <2>1, CarriedIsConserved
<1>11. ErrandsFit'
  BY <1>3, <1>5, <1>6, <1>7, CommitKeepsErrands
<1>12. ASSUME NEW u \in Transfers PROVE HistoryFits(u)'
  <2>1. CASE u # t
    BY <1>3, <1>5, <1>8, <2>1 DEF TransferInv, HistoryFits, Lines
  <2>2. CASE u = t
    <3>1. ASSUME t \notin overtaken PROVE dispatched'[t] = transfer[t].quantity /\ arrived'[t] = Nothing
      <4>1. /\ transfer[t].status = "DRAFT" /\ r.quantity = transfer[t].quantity
            /\ dispatched[t] = Nothing /\ arrived[t] = Nothing
        BY <1>1, <1>3, <1>7, <3>1 DEF ErrandFits, HistoryFits
      <4>2. transfer[t].quantity \in [Variants -> Nat]
        BY <1>4, MaxQuantityAssumption DEF Transfer, Quantity
      <4>3. ASSUME NEW v \in Variants PROVE dispatched'[t][v] = transfer[t].quantity[v]
        BY <1>8, <4>1, <4>2 DEF Nothing, Lines
      <4>4. dispatched'[t] \in [Variants -> Nat]
        BY <1>8
      <4> QED
        BY <1>3, <4>1, <4>2, <4>3, <4>4
    <3> QED
      BY <1>3, <1>6, <2>2, <3>1 DEF HistoryFits
  <2> QED
    BY <2>1, <2>2
<1> QED
  BY <1>9, <1>10, <1>11, <1>12 DEF TransferInv

LEMMA ReceiptKeeps ==
    ASSUME TransferInv, NEW p \in Handlers, CommitReceipt(p)
    PROVE  TransferInv'
<1>1. PICK r \in Errand : r = errand[p]
  BY DEF CommitReceipt, TransferInv, TransfersTyped, TransferTypeOK
<1>2. PICK t \in Transfers : t = r.transfer
  BY DEF Errand
<1>3. /\ r.phase = "RECEIVE" /\ NotMoreThanSent(r) /\ Carry(r) /\ errand[p] # NoErrand
      /\ transfer' = [transfer EXCEPT ![t].status = "RECEIVED", ![t].quantityReceived = r.quantity]
      /\ arrived' = Booked(arrived, r) /\ errand' = [errand EXCEPT ![p] = NoErrand]
      /\ UNCHANGED <<supplied, dispatched, overtaken>>
  BY <1>1, <1>2 DEF CommitReceipt
<1>4. /\ transfer \in [Transfers -> Transfer] /\ errand \in [Handlers -> Errand \cup {NoErrand}]
      /\ dispatched \in [Transfers -> [Variants -> Nat]] /\ arrived \in [Transfers -> [Variants -> Nat]]
      /\ TransfersTyped /\ GoodsAreConserved
  BY DEF TransferInv, TransfersTyped, TransferTypeOK
<1>5. /\ transfer'[t] = [[transfer[t] EXCEPT !.status = "RECEIVED"] EXCEPT !.quantityReceived = r.quantity]
      /\ \A u \in Transfers : u # t => transfer'[u] = transfer[u]
  BY <1>3, <1>4
<1>6. /\ transfer'[t] \in Transfer /\ transfer'[t].status = "RECEIVED"
      /\ transfer'[t].quantity = transfer[t].quantity /\ transfer'[t].quantityReceived = r.quantity
      /\ ByWay(t)' = ByWay(t) /\ Lines(t)' = Lines(t)
  <2>1. transfer[t] \in Transfer /\ r.quantity \in [Variants -> Quantity]
    BY <1>4 DEF Errand
  <2>2. /\ transfer'[t] \in Transfer /\ transfer'[t].status = "RECEIVED" /\ transfer'[t].quantity = transfer[t].quantity
        /\ transfer'[t].quantityReceived = r.quantity
        /\ transfer'[t].transit = transfer[t].transit /\ transfer'[t].source = transfer[t].source
    BY <1>5, <2>1 DEF Transfer
  <2> QED
    BY <2>2 DEF ByWay, Lines
<1>7. Bound(p, t) /\ ErrandFits(p, t) /\ HistoryFits(t)
  BY <1>1, <1>2, <1>3 DEF Bound, TransferInv, ErrandsFit
<1>8. /\ arrived' \in [Transfers -> [Variants -> Nat]]
      /\ \A u \in Transfers : u # t => arrived'[u] = arrived[u]
      /\ \A v \in Variants : arrived'[t][v] =
             IF v \in Lines(t) THEN arrived[t][v] + r.quantity[v] ELSE arrived[t][v]
  BY <1>2, <1>3, <1>4, BookedAt
<1>9. TransfersTyped'
  <2>1. rows' \in [Bins -> Row]
    BY <1>3, <1>4, CarryKeeps
  <2>2. transfer' = [u \in Transfers |-> transfer'[u]]
    BY <1>3, <1>4
  <2>3. transfer' \in [Transfers -> Transfer]
    BY <1>4, <1>5, <1>6, <2>2
  <2> QED
    BY <1>3, <1>4, <1>8, <2>1, <2>3 DEF TransfersTyped, TransferTypeOK
<1>10. GoodsAreConserved'
  <2>1. \A u \in Transfers : ByWay(u)' = ByWay(u)
    BY <1>5, <1>6 DEF ByWay
  <2> QED
    BY <1>3, <1>4, <2>1, CarriedIsConserved
<1>11. ErrandsFit'
  BY <1>3, <1>5, <1>6, <1>7, CommitKeepsErrands
<1>12. ASSUME NEW u \in Transfers PROVE HistoryFits(u)'
  <2>1. CASE u # t
    <3>1. /\ transfer'[u] = transfer[u] /\ arrived'[u] = arrived[u] /\ dispatched'[u] = dispatched[u]
          /\ overtaken' = overtaken /\ HistoryFits(u)
      BY <1>3, <1>5, <1>8, <2>1 DEF TransferInv
    <3> QED
      BY <3>1 DEF HistoryFits, Lines
  <2>2. CASE u = t
    <3>1. ASSUME t \notin overtaken
          PROVE  /\ dispatched'[t] = transfer'[t].quantity
                 /\ \A v \in Variants : /\ arrived'[t][v] <= transfer'[t].quantity[v]
                                        /\ v \in Lines(t) => arrived'[t][v] = r.quantity[v]
      <4>1. /\ transfer[t].status = "IN_TRANSIT" /\ dispatched[t] = transfer[t].quantity
            /\ arrived[t] = Nothing
        BY <1>1, <1>3, <1>7, <3>1 DEF ErrandFits, HistoryFits
      <4>2. transfer[t].quantity \in [Variants -> Nat] /\ r.quantity \in [Variants -> Nat]
        BY <1>4, MaxQuantityAssumption DEF Transfer, Quantity, Errand
      <4>3. ASSUME NEW v \in Variants
            PROVE  /\ arrived'[t][v] <= transfer[t].quantity[v]
                   /\ v \in Lines(t) => arrived'[t][v] = r.quantity[v]
        <5>1. v \in Lines(t) => r.quantity[v] <= transfer[t].quantity[v]
          BY <1>2, <1>3 DEF NotMoreThanSent
        <5> QED
          BY <1>8, <4>1, <4>2, <5>1 DEF Nothing
      <4> QED
        BY <1>3, <1>6, <4>1, <4>3
    <3> QED
      BY <1>3, <1>6, <2>2, <3>1 DEF HistoryFits
  <2> QED
    BY <2>1, <2>2
<1> QED
  BY <1>9, <1>10, <1>11, <1>12 DEF TransferInv

LEMMA TransferNextKeeps == TransferInv /\ [TransferNext]_transferVars => TransferInv'
<1> SUFFICES ASSUME TransferInv, [TransferNext]_transferVars PROVE TransferInv'
  OBVIOUS
<1>1. CASE UNCHANGED transferVars
  <2>1. TransfersTyped'
    BY <1>1 DEF TransferInv, TransfersTyped, TransferTypeOK, transferVars
  <2>2. GoodsAreConserved'
    BY <1>1, NothingMoves DEF TransferInv, ByWay, transferVars
  <2>3. ErrandsFit' /\ \A u \in Transfers : HistoryFits(u)'
    BY <1>1 DEF TransferInv, ErrandsFit, ErrandFits, Bound, HistoryFits, Lines, transferVars
  <2> QED
    BY <2>1, <2>2, <2>3 DEF TransferInv
<1> QED
  BY <1>1, SupplyKeeps, CreateKeeps, DispatchLoads, ReceiptLoads, AbandonKeeps, DepartureKeeps,
     ReceiptKeeps DEF TransferNext

LEMMA TransfersBegin == TransferInit => TransferInv
<1> SUFFICES ASSUME TransferInit PROVE TransferInv
  OBVIOUS
<1>1. /\ \A t \in Transfers : transfer[t] \in Transfer /\ transfer[t].status = "NONE"
      /\ transfer \in [Transfers -> Transfer]
  BY MaxQuantityAssumption DEF TransferInit, Transfer, Nothing, Quantity
<1>2. /\ rows = [b \in Bins |-> EmptyRow] /\ errand = [p \in Handlers |-> NoErrand]
      /\ supplied = Nothing /\ dispatched = Zero /\ arrived = Zero /\ overtaken = {}
  BY DEF TransferInit
<1>3. TransfersTyped
  BY <1>1, <1>2, MaxQuantityAssumption
     DEF TransfersTyped, TransferTypeOK, EmptyRow, Row, Nothing, Zero
<1>4. ErrandsFit /\ \A t \in Transfers : HistoryFits(t)
  BY <1>1, <1>2 DEF ErrandsFit, Bound, HistoryFits, Zero
<1>5. GoodsAreConserved
  <2> SUFFICES ASSUME NEW v \in Variants PROVE OnTheBooks(v) + OffTheBooks(v) = supplied[v]
    BY DEF GoodsAreConserved
  <2>1. OffTheBooks(v) = 0
    <3> DEFINE f == Road(v)
    <3>1. \A t \in Transfers : f[t] = 0
      BY <1>2 DEF Road, Zero, Nothing
    <3>2. OffTheBooks(v) = SumFunctionOnSet(f, Transfers)
      BY OffTheBooksIsRoad
    <3> HIDE DEF f
    <3> QED
      BY <3>1, <3>2, SumOfZeros, TransfersAssumption
  <2>2. OnTheBooks(v) = 0
    <3> DEFINE f == [b \in Bins |-> rows[b].onHand]
               S == {b \in Bins : b[2] = v}
    <3>1. \A b \in S : f[b] = 0
      BY <1>2 DEF EmptyRow
    <3>2. OnTheBooks(v) = SumFunctionOnSet(f, S)
      BY DEF OnTheBooks
    <3>3. IsFiniteSet(S)
      BY BinsAreFinite
    <3> HIDE DEF f, S
    <3> QED
      BY <3>1, <3>2, <3>3, SumOfZeros
  <2> QED
    BY <1>2, <2>1, <2>2 DEF Nothing
<1> QED
  BY <1>3, <1>4, <1>5 DEF TransferInv

(* TransfersAddUp: for any warehouses, goods, transfers and requests,      *)
(* double dispatches and double receipts included, every unit supplied is  *)
(* in a bin or on the road of a direct transfer; and the record of a       *)
(* transfer nobody raced on says what left and what arrived.               *)
THEOREM GoodsAreTracked == TransferSpec => []TransfersAddUp
<1>1. TransferInv => TransfersAddUp
  <2> SUFFICES ASSUME TransferInv PROVE TransfersAddUp
    OBVIOUS
  <2>1. TransferTypeOK /\ GoodsAreConserved
    BY DEF TransferInv, TransfersTyped
  <2>2. ASSUME NEW t \in Transfers, t \notin overtaken
        PROVE  /\ \A v \in Variants : arrived[t][v] <= dispatched[t][v]
               /\ transfer[t].status = "RECEIVED" =>
                      \A v \in Lines(t) : /\ transfer[t].quantity[v] = dispatched[t][v]
                                          /\ transfer[t].quantityReceived[v] = arrived[t][v]
    <3>1. HistoryFits(t) /\ transfer[t] \in Transfer /\ dispatched[t] \in [Variants -> Nat]
      BY DEF TransferInv, TransfersTyped, TransferTypeOK
    <3>2. transfer[t].status \in {"NONE", "DRAFT", "IN_TRANSIT", "RECEIVED"}
      BY <3>1 DEF Transfer
    <3>3. CASE transfer[t].status = "RECEIVED"
      BY <2>2, <3>1, <3>3 DEF HistoryFits, Lines
    <3>4. CASE transfer[t].status # "RECEIVED"
      <4>1. arrived[t] = Nothing
        BY <2>2, <3>1, <3>2, <3>4 DEF HistoryFits
      <4> QED
        BY <3>1, <3>4, <4>1 DEF Nothing
    <3> QED
      BY <3>3, <3>4
  <2> QED
    BY <2>1, <2>2 DEF TransfersAddUp, NothingArrivesUndispatched, RecordIsTrue
<1> QED
  BY <1>1, TransferNextKeeps, TransfersBegin, PTL DEF TransferSpec

-----------------------------------------------------------------------------
(* What goods cost, which shares no state with the others.  Of every bin   *)
(* (Valued): twice what its balance and its ledger disagree by is within   *)
(* its slack, since an averaging rounds what it divides by half a unit at  *)
(* most and all else moves both alike; and a weighted mean, rounded, stays *)
(* between any naturals that its terms are between.  Of every transfer     *)
(* (CostWaits): what its goods left at is still the average where it will  *)
(* be read, for goods that leave a bin do not change it, unless others     *)
(* came in, which is what mixed records.  Of every opener (OpeningFits):   *)
(* the bin it found without movements has none until it is overtaken.      *)
BinRow  == [onHand : Nat, average : Nat, value : Int, slack : Nat, paid : SUBSET Nat,
            unpriced : BOOLEAN]
Journey == [status : {"DRAFT", "IN_TRANSIT", "RECEIVED"}, direct : BOOLEAN, quantity : Nat,
            left : Nat, landed : Nat, mixed : BOOLEAN]
Opening == [status : {"NONE", "CHECKED", "POSTED"}, at : CostBins \ {"TRANSIT"},
            overtaken : BOOLEAN, first : BOOLEAN]

CostsTyped ==
    /\ bin \in [CostBins -> BinRow]
    /\ journey \in [Consignments -> Journey]
    /\ opening \in [Openers -> Opening]

(* A row is worth what its ledger says, within its slack, at an average of *)
(* what was paid; and goods it holds came in at a price or unpriced.       *)
Valued(b) ==
    /\ 2 * Magnitude(b.onHand * b.average - b.value) <= b.slack
    /\ b.paid # {} /\ ~b.unpriced =>
           /\ \E low \in b.paid : low <= b.average
           /\ \E high \in b.paid : b.average <= high
    /\ b.onHand > 0 => b.paid # {} \/ b.unpriced

(* The cost of goods on the road is where it will be read.                 *)
CostWaits(t) ==
    ~journey[t].mixed =>
        /\ journey[t].status = "IN_TRANSIT" => bin[Origin(t)].average = journey[t].left
        /\ journey[t].status = "RECEIVED" => journey[t].landed = journey[t].left

(* What an opener has seen of the ledger.                                  *)
OpeningFits(o) ==
    /\ opening[o].status = "CHECKED" /\ ~opening[o].overtaken => ~HasHistory(opening[o].at)
    /\ opening[o].status = "POSTED" => HasHistory(opening[o].at)

CostInv ==
    /\ CostsTyped
    /\ \A b \in CostBins : Valued(bin[b])
    /\ \A t \in Consignments : CostWaits(t)
    /\ \A o \in Openers : OpeningFits(o)
    /\ OpeningsComeFirst

(***************************************************************************)
(* Movements                                                               *)
(***************************************************************************)
(* A movement whose cost is not stated, or out of the bin.                 *)
LEMMA UncostedKeeps ==
    ASSUME NEW old \in BinRow, NEW quantity \in Int, old.onHand + quantity \in Nat, Valued(old)
    PROVE  /\ Moved(old, quantity, NoCost) \in BinRow /\ Valued(Moved(old, quantity, NoCost))
           /\ Moved(old, quantity, NoCost).average = old.average
           /\ Moved(old, quantity, NoCost).paid = old.paid
           /\ old.unpriced => Moved(old, quantity, NoCost).unpriced
           /\ quantity <= 0 => Moved(old, quantity, NoCost).unpriced = old.unpriced
           /\ quantity > 0 => old.paid # {} \/ Moved(old, quantity, NoCost).unpriced
<1> DEFINE after == Moved(old, quantity, NoCost)
<1>1. /\ old.onHand \in Nat /\ old.average \in Nat /\ old.value \in Int /\ old.slack \in Nat
      /\ old.paid \in SUBSET Nat /\ old.unpriced \in BOOLEAN
  BY DEF BinRow
<1>2. after = [onHand   |-> old.onHand + quantity, average |-> old.average,
               value    |-> old.value + quantity * old.average, slack |-> old.slack,
               paid     |-> old.paid, unpriced |-> old.unpriced \/ (quantity > 0 /\ old.paid = {})]
  <2>1. {NoCost} \ {NoCost} = {}
    OBVIOUS
  <2> QED
    BY <2>1 DEF Moved, NextAverageCost, LedgerUnitCost
<1>3. quantity * old.average \in Int
  BY <1>1
<1>4. after \in BinRow
  BY <1>1, <1>2, <1>3 DEF BinRow
<1>5. after.onHand * after.average - after.value = old.onHand * old.average - old.value
  <2>1. (old.onHand + quantity) * old.average = old.onHand * old.average + quantity * old.average
    BY <1>1, SMTT(30)
  <2>2. old.onHand * old.average \in Int
    BY <1>1
  <2> QED
    BY <1>1, <1>2, <1>3, <2>1, <2>2
<1>7. /\ after.slack = old.slack /\ after.paid = old.paid /\ after.average = old.average
      /\ after.unpriced = (old.unpriced \/ (quantity > 0 /\ old.paid = {}))
      /\ after.onHand = old.onHand + quantity
  BY <1>2
<1>8. /\ old.unpriced => after.unpriced
      /\ quantity <= 0 => after.unpriced = old.unpriced
      /\ quantity > 0 => old.paid # {} \/ after.unpriced
  <2>1. CASE quantity > 0 /\ old.paid = {}
    <3>1. ~(quantity <= 0)
      BY <2>1
    <3>2. after.unpriced
      <4> HIDE DEF after
      <4> QED
        BY <1>7, <2>1, Zenon
    <3> QED
      BY <3>1, <3>2
  <2>2. CASE ~(quantity > 0 /\ old.paid = {})
    <3>1. after.unpriced = old.unpriced
      BY <1>1, <1>7, <2>2
    <3> QED
      BY <2>2, <3>1
  <2> QED
    BY <2>1, <2>2
<1>6. after.onHand > 0 => after.paid # {} \/ after.unpriced
  <2>1. CASE quantity > 0
    BY <1>7, <1>8, <2>1
  <2>2. CASE ~(quantity > 0)
    <3>1. quantity <= 0 /\ (after.onHand > 0 => old.onHand > 0)
      BY <1>1, <1>7, <2>2
    <3> QED
      BY <1>7, <1>8, <3>1 DEF Valued
  <2> QED
    BY <2>1, <2>2
<1> HIDE DEF after
<1>9. Valued(after)
  BY <1>5, <1>6, <1>7, <1>8 DEF Valued
<1> QED
  BY <1>4, <1>7, <1>8, <1>9 DEF after

(* Goods come in at a price.                                               *)
LEMMA CostedKeeps ==
    ASSUME NEW old \in BinRow, NEW quantity \in Nat \ {0}, NEW cost \in Nat, Valued(old)
    PROVE  /\ Moved(old, quantity, cost) \in BinRow /\ Valued(Moved(old, quantity, cost))
           /\ Moved(old, quantity, cost).paid = old.paid \cup {cost}
           /\ Moved(old, quantity, cost).unpriced = old.unpriced
           /\ old.onHand = 0 => Moved(old, quantity, cost).average = cost
<1> DEFINE after == Moved(old, quantity, cost)
           n == old.onHand * old.average + quantity * cost
           d == old.onHand + quantity
<1>1. /\ old.onHand \in Nat /\ old.average \in Nat /\ old.value \in Int /\ old.slack \in Nat
      /\ old.paid \in SUBSET Nat /\ old.unpriced \in BOOLEAN /\ cost # NoCost
  BY CostedBinsAssumption DEF BinRow
<1>2. quantity > 0 /\ ~(quantity <= 0) /\ {cost} \ {NoCost} = {cost}
  BY <1>1
<1>3. after = [onHand   |-> d,
               average  |-> IF old.onHand <= 0 THEN cost ELSE RoundHalfUp(n, d),
               value    |-> old.value + quantity * cost,
               slack    |-> IF old.onHand > 0 THEN old.slack + old.onHand + quantity ELSE old.slack,
               paid     |-> old.paid \cup {cost}, unpriced |-> old.unpriced]
  BY <1>1, <1>2 DEF Moved, NextAverageCost, LedgerUnitCost
<1>4. PICK x \in Nat, y \in Nat : x = old.onHand * old.average /\ y = quantity * cost
  BY <1>1, SMTT(30)
<1>5. n = x + y /\ n \in Nat /\ d \in Nat \ {0}
  BY <1>1, <1>4
<1>6. CASE old.onHand = 0
  <2>1. after = [onHand |-> quantity, average |-> cost, value |-> old.value + y, slack |-> old.slack,
                 paid |-> old.paid \cup {cost}, unpriced |-> old.unpriced]
    BY <1>1, <1>3, <1>4, <1>6
  <2>2. after \in BinRow
    BY <1>1, <1>4, <2>1 DEF BinRow
  <2>3. x = 0
    BY <1>1, <1>4, <1>6
  <2>4. after.onHand * after.average - after.value = old.onHand * old.average - old.value
    BY <1>1, <1>4, <2>1, <2>3
  <2>5. cost <= cost /\ cost \in after.paid /\ after.average = cost /\ after.slack = old.slack
    BY <2>1
  <2> HIDE DEF after
  <2>6. Valued(after)
    BY <2>4, <2>5 DEF Valued
  <2> QED
    BY <2>1, <2>2, <2>6 DEF after
<1>7. CASE old.onHand > 0
  <2> DEFINE q == RoundHalfUp(n, d)
  <2> HIDE DEF n, d
  <2>1. q \in Nat /\ d * q \in Int /\ 2 * Magnitude(d * q - n) <= d
    BY <1>5, RoundingIsHalfOff
  <2>2. after = [onHand |-> d, average |-> q, value |-> old.value + y, slack |-> old.slack + d,
                 paid |-> old.paid \cup {cost}, unpriced |-> old.unpriced]
    <3>1. old.slack + old.onHand + quantity = old.slack + d /\ ~(old.onHand <= 0)
      BY <1>1, <1>7 DEF d
    <3> QED
      BY <1>3, <1>4, <1>7, <3>1
  <2>3. after \in BinRow
    BY <1>1, <1>4, <1>5, <2>1, <2>2 DEF BinRow
  <2>4. 2 * Magnitude(after.onHand * after.average - after.value) <= after.slack
    <3>1. 2 * Magnitude(x - old.value) <= old.slack
      BY <1>4 DEF Valued
    <3>2. after.onHand * after.average - after.value = (d * q - n) + (x - old.value)
      BY <1>1, <1>4, <1>5, <2>1, <2>2
    <3>3. ASSUME NEW a \in Int, NEW b \in Int PROVE Magnitude(a + b) <= Magnitude(a) + Magnitude(b) /\ Magnitude(a) \in Int
      BY DEF Magnitude
    <3>4. PICK a \in Int, b \in Int : a = d * q - n /\ b = x - old.value
      BY <1>1, <1>5, <2>1
    <3>5. after.slack = old.slack + d
      BY <2>2
    <3>6. 2 * Magnitude(a) <= d /\ 2 * Magnitude(b) <= old.slack
      BY <2>1, <3>1, <3>4
    <3>7. Magnitude(a) \in Int /\ Magnitude(b) \in Int /\ Magnitude(a + b) \in Int
      BY DEF Magnitude
    <3>8. after.onHand * after.average - after.value = a + b
      BY <3>2, <3>4
    <3>9. Magnitude(a + b) <= Magnitude(a) + Magnitude(b)
      BY <3>3
    <3>10. 2 * Magnitude(a + b) <= old.slack + d
      BY <1>1, <1>5, <3>6, <3>7, <3>9
    <3> HIDE DEF after
    <3> QED
      BY <3>5, <3>8, <3>10
  <2>5. ASSUME ~old.unpriced
        PROVE  /\ \E low \in old.paid \cup {cost} : low <= q
               /\ \E high \in old.paid \cup {cost} : q <= high
    <3>1. PICK l \in old.paid, h \in old.paid : l <= old.average /\ old.average <= h
      BY <1>7, <2>5 DEF Valued
    <3>2. PICK low \in old.paid \cup {cost} : low <= l /\ low <= cost
      <4>1. l \in Nat
        BY <1>1
      <4> QED
        BY <4>1
    <3>3. PICK high \in old.paid \cup {cost} : h <= high /\ cost <= high
      <4>1. h \in Nat
        BY <1>1
      <4> QED
        BY <4>1
    <3>4. low \in Nat /\ high \in Nat /\ l \in Nat /\ h \in Nat
      BY <1>1
    <3>5. low <= old.average /\ old.average <= high
      BY <1>1, <3>1, <3>2, <3>3, <3>4
    <3>6. ASSUME NEW a \in Nat, NEW b \in Nat, NEW c \in Nat, a <= b PROVE c * a <= c * b
      BY <3>6, SMTT(30)
    <3>7. ASSUME NEW a \in Nat PROVE d * a = old.onHand * a + quantity * a
      BY <1>1, SMTT(30) DEF d
    <3>8. old.onHand * low <= x /\ x <= old.onHand * high /\ quantity * low <= y /\ y <= quantity * high
      BY <1>1, <1>4, <3>2, <3>3, <3>4, <3>5, <3>6
    <3>9. d * low <= n /\ n <= d * high
      <4>1. PICK a \in Nat, b \in Nat : a = old.onHand * low /\ b = quantity * low
        BY <1>1, <3>4
      <4>2. PICK e \in Nat, f \in Nat : e = old.onHand * high /\ f = quantity * high
        BY <1>1, <3>4
      <4>3. d * low = a + b /\ d * high = e + f
        BY <3>4, <3>7, <4>1, <4>2
      <4>4. a <= x /\ x <= e /\ b <= y /\ y <= f
        BY <3>8, <4>1, <4>2
      <4> QED
        BY <1>5, <4>3, <4>4
    <3> QED
      BY <1>5, <3>4, <3>9, RoundingStaysBetween
  <2>6. after.paid = old.paid \cup {cost} /\ after.unpriced = old.unpriced /\ after.average = q
    BY <2>2
  <2>7. old.onHand # 0
    BY <1>7
  <2> HIDE DEF after, q
  <2>8. Valued(after)
    BY <2>4, <2>5, <2>6 DEF Valued
  <2> QED
    BY <2>3, <2>6, <2>7, <2>8 DEF after
<1> QED
  BY <1>1, <1>6, <1>7

(***************************************************************************)
(* The steps                                                               *)
(***************************************************************************)
(* What goods that move in some bins do to an opener.                      *)
LEMMA Overtaken ==
    ASSUME opening \in [Openers -> Opening], NEW bins \in SUBSET CostBins, NEW o \in Openers
    PROVE  /\ Overtake(bins)[o] \in Opening /\ Overtake(bins)[o].status = opening[o].status
           /\ Overtake(bins)[o].at = opening[o].at /\ Overtake(bins)[o].first = opening[o].first
           /\ Overtake(bins)[o].overtaken <=>
                  (opening[o].overtaken \/ (opening[o].status = "CHECKED" /\ opening[o].at \in bins))
<1>1. opening[o] \in Opening
  OBVIOUS
<1>2. PICK x \in BOOLEAN : x <=> (opening[o].overtaken \/ (opening[o].status = "CHECKED" /\ opening[o].at \in bins))
  OBVIOUS
<1>3. Overtake(bins)[o] = [opening[o] EXCEPT !.overtaken = x]
  <2>1. opening[o].overtaken \in BOOLEAN
    BY <1>1 DEF Opening
  <2>2. x = (opening[o].overtaken \/ (opening[o].status = "CHECKED" /\ opening[o].at \in bins))
    BY <1>2, <2>1, Zenon
  <2>3. Overtake(bins)[o] = [opening[o] EXCEPT !.overtaken = @ \/ (opening[o].status = "CHECKED" /\ opening[o].at \in bins)]
    BY DEF Overtake
  <2> QED
    BY <2>2, <2>3
<1>4. /\ Overtake(bins)[o] \in Opening /\ Overtake(bins)[o].status = opening[o].status
      /\ Overtake(bins)[o].at = opening[o].at /\ Overtake(bins)[o].first = opening[o].first
      /\ Overtake(bins)[o].overtaken = x
  BY <1>1, <1>3 DEF Opening
<1>5. Overtake(bins)[o].overtaken <=>
          (opening[o].overtaken \/ (opening[o].status = "CHECKED" /\ opening[o].at \in bins))
  BY <1>2, <1>4, Zenon
<1> QED
  BY <1>4, <1>5

(* Openings, when goods move in some bins.                                 *)
LEMMA OpeningsStand ==
    ASSUME CostInv, NEW bins \in SUBSET CostBins, bin' \in [CostBins -> BinRow],
           \A b \in CostBins : HasHistory(b) => HasHistory(b)',
           \A b \in CostBins \ bins : bin'[b] = bin[b],
           opening' = Overtake(bins)
    PROVE  /\ opening' \in [Openers -> Opening]
           /\ \A o \in Openers : OpeningFits(o)'
           /\ OpeningsComeFirst'
<1>1. opening \in [Openers -> Opening]
  BY DEF CostInv, CostsTyped
<1>2. ASSUME NEW o \in Openers
      PROVE  /\ opening'[o] \in Opening /\ opening'[o].status = opening[o].status
             /\ opening'[o].at = opening[o].at /\ opening'[o].first = opening[o].first
             /\ opening[o].overtaken => opening'[o].overtaken
             /\ opening'[o].overtaken =>
                    opening[o].overtaken \/ (opening[o].status = "CHECKED" /\ opening[o].at \in bins)
             /\ opening[o].status = "CHECKED" /\ opening[o].at \in bins => opening'[o].overtaken
  BY <1>1, Overtaken
<1>3. opening' \in [Openers -> Opening]
  BY <1>2 DEF Overtake
<1>4. ASSUME NEW o \in Openers PROVE OpeningFits(o)'
  <2>1. OpeningFits(o) /\ opening[o].at \in CostBins
    BY <1>1 DEF CostInv, Opening
  <2>2. PICK c \in CostBins : c = opening[o].at /\ c = opening'[o].at
    BY <1>2, <2>1
  <2>3. /\ c \notin bins => (HasHistory(c)' <=> HasHistory(c))
        /\ HasHistory(c) => HasHistory(c)'
    BY DEF HasHistory
  <2>4. /\ opening'[o].status = "CHECKED" /\ ~opening'[o].overtaken => ~HasHistory(c)'
        /\ opening'[o].status = "POSTED" => HasHistory(c)'
    BY <1>2, <2>1, <2>2, <2>3 DEF OpeningFits
  <2> QED
    BY <2>2, <2>4 DEF OpeningFits, HasHistory
<1>5. OpeningsComeFirst'
  <2> SUFFICES ASSUME NEW o \in Openers, opening'[o].status = "POSTED", ~opening'[o].overtaken
               PROVE  /\ opening'[o].first
                      /\ \A p \in Openers \ {o} :
                             opening'[p].status = "POSTED" /\ opening'[p].at = opening'[o].at =>
                                 opening'[p].overtaken
    BY DEF OpeningsComeFirst
  <2>1. opening[o].status = "POSTED" /\ ~opening[o].overtaken
    BY <1>2
  <2>2. /\ opening[o].first
        /\ \A p \in Openers \ {o} :
               opening[p].status = "POSTED" /\ opening[p].at = opening[o].at => opening[p].overtaken
    BY <2>1 DEF CostInv, OpeningsComeFirst
  <2> QED
    BY <1>2, <2>2
<1> QED
  BY <1>3, <1>4, <1>5

(* What waits on the road waits still, where its cost is as it was.        *)
LEMMA CostsWait ==
    ASSUME NEW t \in Consignments, CostWaits(t), journey[t] \in Journey,
           \/ journey'[t] = journey[t] /\ bin'[Origin(t)].average = bin[Origin(t)].average
           \/ journey'[t] = [journey[t] EXCEPT !.mixed = TRUE]
    PROVE  CostWaits(t)' /\ journey'[t] \in Journey
<1>1. CASE journey'[t] = journey[t] /\ bin'[Origin(t)].average = bin[Origin(t)].average
  BY <1>1 DEF CostWaits, Origin
<1>2. CASE journey'[t] = [journey[t] EXCEPT !.mixed = TRUE]
  <2>1. journey'[t] \in Journey /\ journey'[t].mixed = TRUE
    BY <1>2 DEF Journey
  <2> QED
    BY <2>1 DEF CostWaits
<1> QED
  BY <1>1, <1>2

(* A row after any movement of the model.                                  *)
LEMMA MovedRow ==
    ASSUME NEW old \in BinRow, Valued(old), NEW quantity \in Nat \ {0},
           NEW cost \in Nat \cup {NoCost}, old.onHand + quantity \in Nat
    PROVE  /\ Moved(old, quantity, cost) \in BinRow /\ Valued(Moved(old, quantity, cost))
           /\ Moved(old, quantity, cost).paid # {} \/ Moved(old, quantity, cost).unpriced
<1>1. CASE cost \in Nat
  <2>1. cost \in old.paid \cup {cost}
    OBVIOUS
  <2> QED
    BY <1>1, <2>1, CostedKeeps
<1>2. CASE cost = NoCost
  <2>1. quantity \in Int /\ quantity > 0
    OBVIOUS
  <2> QED
    BY <1>2, <2>1, UncostedKeeps
<1> QED
  BY <1>1, <1>2

(* Goods come into the source or the destination.                          *)
LEMMA TakeKeeps ==
    ASSUME CostInv, NEW b \in CostBins \ {"TRANSIT"}, NEW quantity \in 1..MaxOnHand,
           NEW cost \in Costs \cup {NoCost}, Take(b, quantity, cost)
    PROVE  /\ bin' \in [CostBins -> BinRow]
           /\ \A c \in CostBins : Valued(bin'[c])
           /\ \A c \in CostBins : HasHistory(c) => HasHistory(c)'
           /\ \A c \in CostBins \ {b} : bin'[c] = bin[c]
           /\ HasHistory(b)'
           /\ journey' \in [Consignments -> Journey]
           /\ \A t \in Consignments : CostWaits(t)'
<1>1. /\ bin \in [CostBins -> BinRow] /\ journey \in [Consignments -> Journey]
      /\ \A c \in CostBins : Valued(bin[c]) /\ \A t \in Consignments : CostWaits(t)
  BY DEF CostInv, CostsTyped
<1>2. /\ bin' = [bin EXCEPT ![b] = Moved(bin[b], quantity, cost)]
      /\ journey' = IF b = "SOURCE" THEN Mix(OnTheRoad(TRUE)) ELSE journey
      /\ bin[b].onHand + quantity \in 0..MaxOnHand
  BY <1>1 DEF Take, HasRoom
<1>3. quantity \in Nat \ {0} /\ cost \in Nat \cup {NoCost} /\ bin[b].onHand + quantity \in Nat
  BY <1>2, CostedBinsAssumption
<1>4. bin[b] \in BinRow /\ Valued(bin[b])
  BY <1>1
<1>5. /\ Moved(bin[b], quantity, cost) \in BinRow /\ Valued(Moved(bin[b], quantity, cost))
      /\ Moved(bin[b], quantity, cost).paid # {} \/ Moved(bin[b], quantity, cost).unpriced
  BY <1>3, <1>4, MovedRow
<1>6. bin'[b] = Moved(bin[b], quantity, cost) /\ \A c \in CostBins \ {b} : bin'[c] = bin[c]
  BY <1>1, <1>2
<1>7. bin' = [c \in CostBins |-> bin'[c]]
  BY <1>1, <1>2
<1>8. bin' \in [CostBins -> BinRow] /\ \A c \in CostBins : Valued(bin'[c])
  BY <1>1, <1>5, <1>6, <1>7
<1>9. HasHistory(b)' /\ \A c \in CostBins : HasHistory(c) => HasHistory(c)'
  BY <1>5, <1>6 DEF HasHistory
<1>10. ASSUME NEW t \in Consignments PROVE CostWaits(t)' /\ journey'[t] \in Journey
  <2>1. CASE b = "SOURCE" /\ t \in OnTheRoad(TRUE)
    <3>1. journey'[t] = [journey[t] EXCEPT !.mixed = TRUE]
      BY <1>2, <2>1 DEF Mix
    <3> QED
      BY <1>1, <3>1, CostsWait
  <2>2. CASE ~(b = "SOURCE" /\ t \in OnTheRoad(TRUE))
    <3>1. journey'[t] = journey[t]
      BY <1>1, <1>2, <2>2 DEF Mix
    <3>2. CASE b # "SOURCE"
      <4>1. bin'[Origin(t)] = bin[Origin(t)]
        BY <1>6, <3>2 DEF Origin, CostBins
      <4> QED
        BY <1>1, <3>1, <4>1, CostsWait
    <3>3. CASE b = "SOURCE" /\ journey[t].status # "IN_TRANSIT"
      BY <1>1, <3>1, <3>3 DEF CostWaits
    <3>4. CASE b = "SOURCE" /\ journey[t].status = "IN_TRANSIT"
      <4>1. journey[t].direct # TRUE
        BY <2>2, <3>4 DEF OnTheRoad
      <4>2. journey[t].direct \in BOOLEAN
        BY <1>1 DEF Journey
      <4>3. Origin(t) = "TRANSIT"
        BY <4>1, <4>2 DEF Origin
      <4>4. bin'[Origin(t)] = bin[Origin(t)]
        BY <1>6, <4>3 DEF CostBins
      <4> QED
        BY <1>1, <3>1, <4>4, CostsWait
    <3> QED
      BY <3>2, <3>3, <3>4
  <2> QED
    BY <2>1, <2>2
<1>11. journey' \in [Consignments -> Journey]
  <2>1. journey' = [t \in Consignments |-> journey'[t]]
    BY <1>1, <1>2 DEF Mix
  <2> QED
    BY <1>10, <2>1
<1> QED
  BY <1>6, <1>8, <1>9, <1>10, <1>11

LEMMA ReceiveGoodsKeeps ==
    ASSUME CostInv, NEW b \in CostBins \ {"TRANSIT"}, NEW quantity \in 1..MaxOnHand,
           NEW cost \in Costs \cup {NoCost}, ReceiveGoods(b, quantity, cost)
    PROVE  CostInv'
<1>1. Take(b, quantity, cost) /\ opening' = Overtake({b}) /\ {b} \in SUBSET CostBins
  BY DEF ReceiveGoods
<1>2. /\ bin' \in [CostBins -> BinRow]
      /\ \A c \in CostBins : Valued(bin'[c])
      /\ \A c \in CostBins : HasHistory(c) => HasHistory(c)'
      /\ \A c \in CostBins \ {b} : bin'[c] = bin[c]
      /\ journey' \in [Consignments -> Journey]
      /\ \A t \in Consignments : CostWaits(t)'
  BY <1>1, TakeKeeps
<1>3. opening' \in [Openers -> Opening] /\ (\A o \in Openers : OpeningFits(o)') /\ OpeningsComeFirst'
  BY <1>1, <1>2, OpeningsStand
<1> QED
  BY <1>2, <1>3 DEF CostInv, CostsTyped

(* Goods go out of a bin: its row but for the quantity and value.          *)
LEMMA Outbound ==
    ASSUME NEW old \in BinRow, Valued(old), NEW quantity \in 1..MaxOnHand, HasRoom(old, -quantity)
    PROVE  /\ Moved(old, -quantity, NoCost) \in BinRow /\ Valued(Moved(old, -quantity, NoCost))
           /\ Moved(old, -quantity, NoCost).average = old.average
           /\ Moved(old, -quantity, NoCost).paid = old.paid
           /\ Moved(old, -quantity, NoCost).unpriced = old.unpriced
<1>1. PICK n \in Int : n = -quantity
  BY CostedBinsAssumption
<1>2. n <= 0 /\ old.onHand + n \in Nat
  BY <1>1, CostedBinsAssumption DEF HasRoom
<1> QED
  BY <1>1, <1>2, UncostedKeeps

LEMMA IssueKeeps ==
    ASSUME CostInv, NEW b \in CostBins \ {"TRANSIT"}, NEW quantity \in 1..MaxOnHand, Issue(b, quantity)
    PROVE  CostInv'
<1>1. /\ bin \in [CostBins -> BinRow] /\ journey \in [Consignments -> Journey]
      /\ \A c \in CostBins : Valued(bin[c]) /\ \A t \in Consignments : CostWaits(t)
  BY DEF CostInv, CostsTyped
<1>2. /\ bin' = [bin EXCEPT ![b] = Moved(bin[b], -quantity, NoCost)] /\ HasRoom(bin[b], -quantity)
      /\ opening' = Overtake({b}) /\ {b} \in SUBSET CostBins /\ journey' = journey
  BY <1>1 DEF Issue
<1>3. /\ bin'[b] \in BinRow /\ Valued(bin'[b]) /\ bin'[b].average = bin[b].average
      /\ bin'[b].paid = bin[b].paid /\ bin'[b].unpriced = bin[b].unpriced
  <2>1. bin'[b] = Moved(bin[b], -quantity, NoCost) /\ bin[b] \in BinRow /\ Valued(bin[b])
    BY <1>1, <1>2
  <2> QED
    BY <1>2, <2>1, Outbound
<1>4. bin' = [c \in CostBins |-> bin'[c]] /\ \A c \in CostBins \ {b} : bin'[c] = bin[c]
  BY <1>1, <1>2
<1>5. bin' \in [CostBins -> BinRow] /\ (\A c \in CostBins : Valued(bin'[c]))
      /\ \A c \in CostBins : bin'[c].average = bin[c].average
  BY <1>1, <1>3, <1>4
<1>6. \A c \in CostBins : HasHistory(c) => HasHistory(c)'
  BY <1>3, <1>4 DEF HasHistory
<1>7. ASSUME NEW t \in Consignments PROVE CostWaits(t)'
  <2>1. Origin(t) \in CostBins
    BY DEF Origin, CostBins
  <2> QED
    BY <1>1, <1>2, <1>5, <2>1, CostsWait
<1>8. opening' \in [Openers -> Opening] /\ (\A o \in Openers : OpeningFits(o)') /\ OpeningsComeFirst'
  BY <1>2, <1>4, <1>5, <1>6, OpeningsStand
<1> QED
  BY <1>1, <1>2, <1>5, <1>7, <1>8 DEF CostInv, CostsTyped

LEMMA CheckOpeningKeeps ==
    ASSUME CostInv, NEW o \in Openers, NEW b \in CostBins \ {"TRANSIT"}, CheckOpening(o, b)
    PROVE  CostInv'
<1>1. /\ opening[o].status = "NONE" /\ ~HasHistory(b) /\ UNCHANGED <<bin, journey, moves>>
      /\ opening' = [opening EXCEPT ![o].status = "CHECKED", ![o].at = b]
      /\ opening \in [Openers -> Opening]
  BY DEF CheckOpening, CostInv, CostsTyped
<1>2. opening'[o] = [[opening[o] EXCEPT !.status = "CHECKED"] EXCEPT !.at = b]
  BY <1>1
<1>3. opening'[o] \in Opening /\ opening'[o].status = "CHECKED" /\ opening'[o].at = b
  BY <1>1, <1>2 DEF Opening
<1>4. \A p \in Openers \ {o} : opening'[p] = opening[p]
  BY <1>1
<1>5. opening' \in [Openers -> Opening]
  <2>1. opening' = [p \in Openers |-> opening'[p]]
    BY <1>1
  <2> QED
    BY <1>1, <1>3, <1>4, <2>1
<1>6. \A p \in Openers : OpeningFits(p)'
  BY <1>1, <1>3, <1>4 DEF CostInv, OpeningFits, HasHistory
<1>7. OpeningsComeFirst'
  BY <1>3, <1>4 DEF CostInv, OpeningsComeFirst
<1>8. \A t \in Consignments : CostWaits(t)'
  BY <1>1 DEF CostInv, CostWaits, Origin
<1> QED
  BY <1>1, <1>5, <1>6, <1>7, <1>8 DEF CostInv, CostsTyped

LEMMA PostOpeningKeeps ==
    ASSUME CostInv, NEW o \in Openers, NEW quantity \in 1..MaxOnHand,
           NEW cost \in Costs \cup {NoCost}, PostOpening(o, quantity, cost)
    PROVE  CostInv'
<1>1. opening \in [Openers -> Opening] /\ opening[o] \in Opening
  BY DEF CostInv, CostsTyped
<1>2. PICK b \in CostBins \ {"TRANSIT"} : b = opening[o].at
  BY <1>1 DEF Opening
<1>3. /\ opening[o].status = "CHECKED" /\ Take(b, quantity, cost)
      /\ opening' = [Overtake({b}) EXCEPT ![o] = [opening[o] EXCEPT !.status = "POSTED", !.first = ~HasHistory(b)]]
  BY <1>2 DEF PostOpening
<1>4. /\ bin' \in [CostBins -> BinRow]
      /\ \A c \in CostBins : Valued(bin'[c])
      /\ \A c \in CostBins : HasHistory(c) => HasHistory(c)'
      /\ \A c \in CostBins \ {b} : bin'[c] = bin[c]
      /\ HasHistory(b)'
      /\ journey' \in [Consignments -> Journey]
      /\ \A t \in Consignments : CostWaits(t)'
  BY <1>3, TakeKeeps
<1>5. DOMAIN Overtake({b}) = Openers
  BY DEF Overtake
<1>6. PICK first \in BOOLEAN : first <=> ~HasHistory(b)
  OBVIOUS
<1>7. opening'[o] = [[opening[o] EXCEPT !.status = "POSTED"] EXCEPT !.first = first]
  <2>1. HasHistory(b) \in BOOLEAN
    BY DEF HasHistory
  <2>2. first = ~HasHistory(b)
    BY <1>6, <2>1
  <2> QED
    BY <1>3, <1>5, <2>2
<1>8. /\ opening'[o] \in Opening /\ opening'[o].status = "POSTED" /\ opening'[o].at = b
      /\ opening'[o].first = first /\ opening'[o].overtaken = opening[o].overtaken
  BY <1>1, <1>2, <1>7 DEF Opening
<1>9. ASSUME NEW p \in Openers \ {o}
      PROVE  /\ opening'[p] \in Opening /\ opening'[p].status = opening[p].status
             /\ opening'[p].at = opening[p].at /\ opening'[p].first = opening[p].first
             /\ opening'[p].overtaken <=>
                    (opening[p].overtaken \/ (opening[p].status = "CHECKED" /\ opening[p].at = b))
  <2>1. opening'[p] = Overtake({b})[p] /\ p \in Openers /\ {b} \in SUBSET CostBins
    BY <1>3, <1>5
  <2>2. PICK q : q = Overtake({b})[p]
    OBVIOUS
  <2>3. /\ q \in Opening /\ q.status = opening[p].status /\ q.at = opening[p].at /\ q.first = opening[p].first
        /\ q.overtaken <=> (opening[p].overtaken \/ (opening[p].status = "CHECKED" /\ opening[p].at \in {b}))
    BY <1>1, <2>1, <2>2, Overtaken
  <2> QED
    BY <2>1, <2>2, <2>3
<1>10. opening' \in [Openers -> Opening]
  <2>1. opening' = [p \in Openers |-> opening'[p]]
    BY <1>3, <1>5
  <2> QED
    BY <1>8, <1>9, <2>1
<1>11. /\ ~opening[o].overtaken => ~HasHistory(b)
       /\ \A p \in Openers : opening[p].status = "POSTED" => HasHistory(opening[p].at)
  BY <1>2, <1>3 DEF CostInv, OpeningFits
<1>12. ASSUME NEW p \in Openers PROVE OpeningFits(p)'
  <2>1. CASE p = o
    BY <1>4, <1>8, <2>1 DEF OpeningFits, HasHistory
  <2>2. CASE p # o
    <3>1. PICK c \in CostBins : c = opening[p].at /\ c = opening'[p].at
      BY <1>1, <1>9, <2>2 DEF Opening
    <3>2. /\ c # b => (HasHistory(c)' <=> HasHistory(c))
          /\ HasHistory(c) => HasHistory(c)'
      BY <1>4 DEF HasHistory
    <3>3. OpeningFits(p)
      BY DEF CostInv
    <3>4. /\ opening'[p].status = "CHECKED" /\ ~opening'[p].overtaken => ~HasHistory(c)'
          /\ opening'[p].status = "POSTED" => HasHistory(c)'
      BY <1>9, <2>2, <3>1, <3>2, <3>3 DEF OpeningFits
    <3> QED
      BY <3>1, <3>4 DEF OpeningFits, HasHistory
  <2> QED
    BY <2>1, <2>2
<1>13. OpeningsComeFirst'
  <2> SUFFICES ASSUME NEW x \in Openers, opening'[x].status = "POSTED", ~opening'[x].overtaken
               PROVE  /\ opening'[x].first
                      /\ \A p \in Openers \ {x} :
                             opening'[p].status = "POSTED" /\ opening'[p].at = opening'[x].at =>
                                 opening'[p].overtaken
    BY DEF OpeningsComeFirst
  <2>1. CASE x = o
    <3>1. ~HasHistory(b)
      BY <1>8, <1>11, <2>1
    <3> QED
      BY <1>6, <1>8, <1>9, <1>11, <2>1, <3>1
  <2>2. CASE x # o
    <3>1. opening[x].status = "POSTED" /\ ~opening[x].overtaken
      BY <1>9, <2>2
    <3>2. /\ opening[x].first
          /\ \A p \in Openers \ {x} :
                 opening[p].status = "POSTED" /\ opening[p].at = opening[x].at => opening[p].overtaken
      BY <3>1 DEF CostInv, OpeningsComeFirst
    <3>3. ASSUME NEW p \in Openers \ {x}, opening'[p].status = "POSTED", opening'[p].at = opening'[x].at
          PROVE  opening'[p].overtaken
      <4>1. CASE p = o
        BY <1>8, <1>9, <1>11, <2>2, <3>1, <3>3, <4>1
      <4>2. CASE p # o
        BY <1>9, <2>2, <3>2, <3>3, <4>2
      <4> QED
        BY <4>1, <4>2
    <3> QED
      BY <1>9, <2>2, <3>2, <3>3
  <2> QED
    BY <2>1, <2>2
<1> QED
  BY <1>4, <1>10, <1>12, <1>13 DEF CostInv, CostsTyped

(* What a dispatch does to the two bins.                                   *)
LEMMA DispatchedBins ==
    ASSUME CostInv, NEW t \in Consignments, NEW direct \in BOOLEAN,
           NEW quantity \in 1..MaxOnHand, Dispatch(t, direct, quantity)
    PROVE  /\ bin' \in [CostBins -> BinRow]
           /\ \A b \in CostBins : Valued(bin'[b])
           /\ \A b \in CostBins : HasHistory(b) => HasHistory(b)'
           /\ \A b \in CostBins \ {"SOURCE", "TRANSIT"} : bin'[b] = bin[b]
           /\ bin'["SOURCE"].average = bin["SOURCE"].average
           /\ direct => bin'["TRANSIT"] = bin["TRANSIT"]
           /\ ~direct /\ bin["TRANSIT"].onHand = 0 =>
                  bin'["TRANSIT"].average = bin["SOURCE"].average
<1>1. /\ bin \in [CostBins -> BinRow] /\ \A b \in CostBins : Valued(bin[b])
      /\ "SOURCE" \in CostBins /\ "TRANSIT" \in CostBins
  BY DEF CostInv, CostsTyped, CostBins
<1>2. PICK cost \in Nat : cost = bin["SOURCE"].average
  BY <1>1 DEF BinRow
<1>3. /\ HasRoom(bin["SOURCE"], -quantity)
      /\ bin' = [bin EXCEPT !["SOURCE"]  = Moved(bin["SOURCE"], -quantity, NoCost),
                            !["TRANSIT"] = IF direct THEN bin["TRANSIT"]
                                           ELSE Moved(bin["TRANSIT"], quantity, cost)]
  BY <1>1, <1>2 DEF Dispatch
<1>4. /\ bin'["SOURCE"] = Moved(bin["SOURCE"], -quantity, NoCost)
      /\ bin'["TRANSIT"] = IF direct THEN bin["TRANSIT"] ELSE Moved(bin["TRANSIT"], quantity, cost)
      /\ \A b \in CostBins \ {"SOURCE", "TRANSIT"} : bin'[b] = bin[b]
      /\ bin' = [b \in CostBins |-> bin'[b]]
  BY <1>1, <1>3
<1>5. /\ bin'["SOURCE"] \in BinRow /\ Valued(bin'["SOURCE"])
      /\ bin'["SOURCE"].average = bin["SOURCE"].average
      /\ bin'["SOURCE"].paid = bin["SOURCE"].paid /\ bin'["SOURCE"].unpriced = bin["SOURCE"].unpriced
  <2>1. PICK old \in BinRow : old = bin["SOURCE"] /\ Valued(old)
    BY <1>1
  <2> QED
    BY <1>3, <1>4, <2>1, Outbound
<1>6. ASSUME ~direct
      PROVE  /\ bin'["TRANSIT"] \in BinRow /\ Valued(bin'["TRANSIT"])
             /\ bin'["TRANSIT"].paid = bin["TRANSIT"].paid \cup {cost}
             /\ bin["TRANSIT"].onHand = 0 => bin'["TRANSIT"].average = cost
  <2>1. PICK old \in BinRow : old = bin["TRANSIT"] /\ Valued(old)
    BY <1>1
  <2>2. quantity \in Nat \ {0} /\ bin'["TRANSIT"] = Moved(old, quantity, cost)
    BY <1>4, <1>6, <2>1, CostedBinsAssumption
  <2> QED
    BY <2>1, <2>2, CostedKeeps
<1>7. bin'["TRANSIT"] \in BinRow /\ Valued(bin'["TRANSIT"])
  BY <1>1, <1>4, <1>6
<1>8. bin' \in [CostBins -> BinRow] /\ \A b \in CostBins : Valued(bin'[b])
  BY <1>1, <1>4, <1>5, <1>7
<1>9. ASSUME NEW b \in CostBins, HasHistory(b) PROVE HasHistory(b)'
  <2>1. CASE b = "TRANSIT" /\ ~direct
    BY <1>6, <2>1 DEF HasHistory
  <2>2. CASE b = "TRANSIT" /\ direct
    BY <1>4, <1>9, <2>2 DEF HasHistory
  <2>3. CASE b = "SOURCE"
    BY <1>5, <1>9, <2>3 DEF HasHistory
  <2>4. CASE b \notin {"SOURCE", "TRANSIT"}
    BY <1>4, <1>9, <2>4 DEF HasHistory
  <2> QED
    BY <2>1, <2>2, <2>3, <2>4
<1> QED
  BY <1>2, <1>4, <1>5, <1>6, <1>8, <1>9

LEMMA DispatchKeeps ==
    ASSUME CostInv, NEW t \in Consignments, NEW direct \in BOOLEAN,
           NEW quantity \in 1..MaxOnHand, Dispatch(t, direct, quantity)
    PROVE  CostInv'
<1>1. /\ bin' \in [CostBins -> BinRow]
      /\ \A b \in CostBins : Valued(bin'[b])
      /\ \A b \in CostBins : HasHistory(b) => HasHistory(b)'
      /\ \A b \in CostBins \ {"SOURCE", "TRANSIT"} : bin'[b] = bin[b]
      /\ bin'["SOURCE"].average = bin["SOURCE"].average
      /\ direct => bin'["TRANSIT"] = bin["TRANSIT"]
      /\ ~direct /\ bin["TRANSIT"].onHand = 0 => bin'["TRANSIT"].average = bin["SOURCE"].average
  BY DispatchedBins
<1>2. /\ bin \in [CostBins -> BinRow] /\ journey \in [Consignments -> Journey]
      /\ \A u \in Consignments : CostWaits(u)
      /\ "SOURCE" \in CostBins /\ "TRANSIT" \in CostBins
  BY DEF CostInv, CostsTyped, CostBins
<1> DEFINE others == IF direct THEN {} ELSE OnTheRoad(FALSE)
           crowded == ~direct /\ bin["TRANSIT"].onHand > 0
<1>3. /\ opening' = Overtake({"SOURCE", "TRANSIT"})
      /\ journey' = [Mix(others) EXCEPT ![t] =
             [status |-> "IN_TRANSIT", direct |-> direct, quantity |-> quantity,
              left |-> bin["SOURCE"].average, landed |-> 0, mixed |-> crowded]]
  BY DEF Dispatch
<1>4. DOMAIN Mix(others) = Consignments
  BY DEF Mix
<1>5. CostWaits(t)' /\ journey'[t] \in Journey
  <2>1. journey'[t] = [status |-> "IN_TRANSIT", direct |-> direct, quantity |-> quantity,
                       left |-> bin["SOURCE"].average, landed |-> 0, mixed |-> crowded]
    BY <1>3, <1>4
  <2>2. journey'[t] \in Journey
    <3>1. bin["SOURCE"].average \in Nat /\ quantity \in Nat /\ crowded \in BOOLEAN
      BY <1>2, CostedBinsAssumption DEF BinRow
    <3> HIDE DEF crowded
    <3> QED
      BY <2>1, <3>1 DEF Journey
  <2>3. bin["TRANSIT"].onHand \in Nat
    BY <1>2 DEF BinRow
  <2>4. /\ journey'[t].status = "IN_TRANSIT" /\ journey'[t].direct = direct
        /\ journey'[t].left = bin["SOURCE"].average /\ journey'[t].mixed = crowded
    BY <2>1
  <2>5. ASSUME ~journey'[t].mixed PROVE bin'[Origin(t)'].average = journey'[t].left
    <3>1. CASE direct
      BY <1>1, <2>4, <3>1 DEF Origin
    <3>2. CASE ~direct
      <4>1. ~(bin["TRANSIT"].onHand > 0)
        BY <2>4, <2>5, <3>2
      <4>2. bin'["TRANSIT"].average = bin["SOURCE"].average
        BY <1>1, <2>3, <3>2, <4>1
      <4>3. Origin(t)' = "TRANSIT"
        BY <2>4, <3>2 DEF Origin
      <4> QED
        BY <2>4, <4>2, <4>3
    <3> QED
      BY <3>1, <3>2
  <2> HIDE DEF crowded
  <2> QED
    BY <2>2, <2>4, <2>5 DEF CostWaits
<1>6. ASSUME NEW u \in Consignments \ {t} PROVE CostWaits(u)' /\ journey'[u] \in Journey
  <2>1. journey'[u] = IF u \in others THEN [journey[u] EXCEPT !.mixed = TRUE] ELSE journey[u]
    BY <1>3, <1>4 DEF Mix
  <2>2. CASE u \in others
    BY <1>2, <2>1, <2>2, CostsWait
  <2>3. CASE u \notin others /\ bin'[Origin(u)].average = bin[Origin(u)].average
    BY <1>2, <2>1, <2>3, CostsWait
  <2>4. CASE u \notin others /\ bin'[Origin(u)].average # bin[Origin(u)].average
    <3>1. Origin(u) = "TRANSIT" /\ ~direct /\ ~journey[u].direct
      BY <1>1, <2>4 DEF Origin
    <3>2. journey[u].direct \in BOOLEAN
      BY <1>2 DEF Journey
    <3>3. journey[u].status # "IN_TRANSIT"
      BY <2>4, <3>1, <3>2 DEF OnTheRoad
    <3> QED
      BY <1>2, <2>1, <2>4, <3>3 DEF CostWaits
  <2> QED
    BY <2>2, <2>3, <2>4
<1>7. journey' \in [Consignments -> Journey]
  <2>1. journey' = [u \in Consignments |-> journey'[u]]
    BY <1>3, <1>4
  <2> QED
    BY <1>5, <1>6, <2>1
<1>8. opening' \in [Openers -> Opening] /\ (\A o \in Openers : OpeningFits(o)') /\ OpeningsComeFirst'
  <2>1. {"SOURCE", "TRANSIT"} \in SUBSET CostBins
    BY <1>2
  <2> QED
    BY <1>1, <1>3, <2>1, OpeningsStand
<1> QED
  BY <1>1, <1>5, <1>6, <1>7, <1>8 DEF CostInv, CostsTyped

LEMMA ArriveKeeps ==
    ASSUME CostInv, NEW t \in Consignments, NEW quantity \in 1..MaxOnHand, Arrive(t, quantity)
    PROVE  CostInv'
<1>1. /\ bin \in [CostBins -> BinRow] /\ journey \in [Consignments -> Journey]
      /\ (\A b \in CostBins : Valued(bin[b])) /\ \A u \in Consignments : CostWaits(u)
      /\ "TRANSIT" \in CostBins /\ "DESTINATION" \in CostBins
      /\ \A u \in Consignments : Origin(u) \in {"SOURCE", "TRANSIT"} /\ Origin(u) \in CostBins
  BY DEF CostInv, CostsTyped, CostBins, Origin
<1>2. PICK cost \in Nat : cost = CarriedCost(t)
  BY <1>1 DEF CarriedCost, BinRow
<1> DEFINE direct == journey[t].direct
<1>3. /\ journey[t].status = "IN_TRANSIT"
      /\ ~direct => HasRoom(bin["TRANSIT"], -quantity)
      /\ bin' = [bin EXCEPT
             !["TRANSIT"]     = IF direct THEN bin["TRANSIT"] ELSE Moved(bin["TRANSIT"], -quantity, NoCost),
             !["DESTINATION"] = Moved(bin["DESTINATION"], quantity, cost)]
      /\ opening' = Overtake({"TRANSIT", "DESTINATION"})
      /\ journey' = [journey EXCEPT ![t].status = "RECEIVED", ![t].landed = cost]
  BY <1>1, <1>2 DEF Arrive
<1>4. /\ bin'["TRANSIT"] = IF direct THEN bin["TRANSIT"] ELSE Moved(bin["TRANSIT"], -quantity, NoCost)
      /\ bin'["DESTINATION"] = Moved(bin["DESTINATION"], quantity, cost)
      /\ \A b \in CostBins \ {"TRANSIT", "DESTINATION"} : bin'[b] = bin[b]
      /\ bin' = [b \in CostBins |-> bin'[b]]
  BY <1>1, <1>3
<1>5. /\ bin'["TRANSIT"] \in BinRow /\ Valued(bin'["TRANSIT"])
      /\ bin'["TRANSIT"].average = bin["TRANSIT"].average
      /\ bin'["TRANSIT"].paid = bin["TRANSIT"].paid /\ bin'["TRANSIT"].unpriced = bin["TRANSIT"].unpriced
  <2>1. PICK old \in BinRow : old = bin["TRANSIT"] /\ Valued(old)
    BY <1>1
  <2>2. CASE direct
    BY <1>4, <2>1, <2>2
  <2>3. CASE ~direct
    <3>1. HasRoom(old, -quantity) /\ bin'["TRANSIT"] = Moved(old, -quantity, NoCost)
      BY <1>3, <1>4, <2>1, <2>3
    <3> QED
      BY <2>1, <3>1, Outbound
  <2> QED
    BY <2>2, <2>3
<1>6. /\ bin'["DESTINATION"] \in BinRow /\ Valued(bin'["DESTINATION"])
      /\ bin'["DESTINATION"].paid # {}
  <2>1. PICK old \in BinRow : old = bin["DESTINATION"] /\ Valued(old)
    BY <1>1
  <2>2. quantity \in Nat \ {0} /\ bin'["DESTINATION"] = Moved(old, quantity, cost)
    BY <1>4, <2>1, CostedBinsAssumption
  <2>3. bin'["DESTINATION"].paid = old.paid \cup {cost}
    BY <2>1, <2>2, CostedKeeps
  <2> QED
    BY <2>1, <2>2, <2>3, CostedKeeps
<1>7. bin' \in [CostBins -> BinRow] /\ \A b \in CostBins : Valued(bin'[b])
  BY <1>1, <1>4, <1>5, <1>6
<1>8. ASSUME NEW b \in CostBins, HasHistory(b) PROVE HasHistory(b)'
  <2>1. CASE b = "TRANSIT"
    BY <1>5, <1>8, <2>1 DEF HasHistory
  <2>2. CASE b = "DESTINATION"
    BY <1>6, <2>2 DEF HasHistory
  <2>3. CASE b \notin {"TRANSIT", "DESTINATION"}
    BY <1>4, <1>8, <2>3 DEF HasHistory
  <2> QED
    BY <2>1, <2>2, <2>3
<1>9. \A u \in Consignments : bin'[Origin(u)].average = bin[Origin(u)].average
  <2>1. bin'["SOURCE"] = bin["SOURCE"]
    BY <1>4 DEF CostBins
  <2> QED
    BY <1>1, <1>5, <2>1
<1>10. CostWaits(t)' /\ journey'[t] \in Journey
  <2>1. journey'[t] = [[journey[t] EXCEPT !.status = "RECEIVED"] EXCEPT !.landed = cost]
    BY <1>1, <1>3
  <2>2. /\ journey'[t] \in Journey /\ journey'[t].status = "RECEIVED" /\ journey'[t].landed = cost
        /\ journey'[t].mixed = journey[t].mixed /\ journey'[t].left = journey[t].left
    <3>1. PICK old \in Journey : old = journey[t]
      BY <1>1
    <3>2. journey'[t] = [[old EXCEPT !.status = "RECEIVED"] EXCEPT !.landed = cost] /\ cost \in Nat
      BY <1>1, <1>3, <2>1, <3>1
    <3> QED
      BY <3>1, <3>2 DEF Journey
  <2>3. ~journey[t].mixed => cost = journey[t].left
    BY <1>1, <1>2, <1>3 DEF CostWaits, CarriedCost
  <2> QED
    BY <2>2, <2>3 DEF CostWaits
<1>11. ASSUME NEW u \in Consignments \ {t} PROVE CostWaits(u)' /\ journey'[u] \in Journey
  <2>1. journey'[u] = journey[u]
    BY <1>1, <1>3
  <2> QED
    BY <1>1, <1>9, <2>1, CostsWait
<1>12. journey' \in [Consignments -> Journey]
  <2>1. journey' = [u \in Consignments |-> journey'[u]]
    BY <1>1, <1>3
  <2> QED
    BY <1>10, <1>11, <2>1
<1>13. opening' \in [Openers -> Opening] /\ (\A o \in Openers : OpeningFits(o)') /\ OpeningsComeFirst'
  <2>1. {"TRANSIT", "DESTINATION"} \in SUBSET CostBins
    BY <1>1
  <2>2. \A b \in CostBins \ {"TRANSIT", "DESTINATION"} : bin'[b] = bin[b]
    BY <1>4
  <2>3. \A b \in CostBins : HasHistory(b) => HasHistory(b)'
    BY <1>8
  <2> QED
    BY <1>3, <1>7, <2>1, <2>2, <2>3, OpeningsStand
<1> QED
  BY <1>7, <1>10, <1>11, <1>12, <1>13 DEF CostInv, CostsTyped

LEMMA CostNextKeeps ==
    ASSUME CostInv, [CostNext]_costVars
    PROVE  CostInv'
<1>1. CASE CostNext
  BY <1>1, CheckOpeningKeeps, ReceiveGoodsKeeps, PostOpeningKeeps, IssueKeeps, DispatchKeeps,
     ArriveKeeps DEF CostNext
<1>2. CASE UNCHANGED costVars
  <2>1. bin' = bin /\ journey' = journey /\ opening' = opening
    BY <1>2 DEF costVars
  <2>2. CostsTyped' /\ \A b \in CostBins : Valued(bin'[b])
    BY <2>1 DEF CostInv, CostsTyped
  <2>3. \A t \in Consignments : CostWaits(t)'
    BY <2>1 DEF CostInv, CostWaits, Origin
  <2>4. \A o \in Openers : OpeningFits(o)'
    BY <2>1 DEF CostInv, OpeningFits, HasHistory
  <2>5. OpeningsComeFirst'
    BY <2>1 DEF CostInv, OpeningsComeFirst
  <2> QED
    BY <2>1, <2>2, <2>3, <2>4, <2>5 DEF CostInv
<1> QED
  BY <1>1, <1>2

LEMMA CostsBegin ==
    ASSUME CostInit
    PROVE  CostInv
<1>1. CostsTyped
  <2>1. EmptyBin \in BinRow
    BY DEF EmptyBin, BinRow
  <2>2. NewTransfer \in Journey
    BY DEF NewTransfer, Journey
  <2>3. NewOpening \in Opening
    BY DEF NewOpening, Opening, CostBins
  <2> QED
    BY <2>1, <2>2, <2>3 DEF CostInit, CostsTyped
<1>2. Valued(EmptyBin)
  BY DEF Valued, EmptyBin, Magnitude
<1>3. \A b \in CostBins : bin[b] = EmptyBin
  BY DEF CostInit
<1>4. \A t \in Consignments : journey[t].status = "DRAFT"
  BY DEF CostInit, NewTransfer
<1>5. \A o \in Openers : opening[o].status = "NONE"
  BY DEF CostInit, NewOpening
<1> QED
  BY <1>1, <1>2, <1>3, <1>4, <1>5 DEF CostInv, CostWaits, OpeningFits, OpeningsComeFirst

(* COGS and the valuation disagree by no more than what the averages round *)
(* away, an average stays between the costs that were paid, the cost       *)
(* travels with the goods, and an opening comes first unless overtaken:    *)
(* for any bins, costs and consignments, and however long it goes on.      *)
THEOREM CostsStayFaithful == CostSpec => []CostsAreFaithful
<1>1. CostInv => CostsAreFaithful
  <2> SUFFICES ASSUME CostInv PROVE CostsAreFaithful
    OBVIOUS
  <2>1. ValuationFollowsLedger /\ AverageWithinPaid
    BY DEF CostInv, Valued, ValuationFollowsLedger, AverageWithinPaid
  <2>2. CostTravels
    BY DEF CostInv, CostWaits, CostTravels
  <2> QED
    BY <2>1, <2>2 DEF CostInv, CostsAreFaithful
<1> QED
  BY <1>1, CostsBegin, CostNextKeeps, PTL DEF CostSpec
=============================================================================
