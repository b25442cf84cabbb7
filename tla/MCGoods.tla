------------------------------- MODULE MCGoods -------------------------------
(* Slices for TLC of how goods are described, promised and moved.  Two of  *)
(* the catalogue: the revisions of one product, and kits of the others.    *)
(* Two of one instance of Shipments: every order with no shipment and no   *)
(* edit, for what orders owe each other (the credit limit, the stock), and *)
(* one order with all its shipments, for its fulfilment.  Three of the     *)
(* transfers between warehouses: the goods, under races; what the goods    *)
(* cost; and the same with opening balances, over fewer movements.  The    *)
(* three groups share no state.  Requests and transfers are                *)
(* interchangeable.                                                        *)
EXTENDS Shipments, StockTransfers, CostedBins, Products, TLC

CONSTANTS Fulfilled,   \* the order of the second slice
          w1, w2, w3, v1,
          MaxOpened,   \* bound on the movements where openings are posted
          Edited       \* the product of the slice of revisions

VARIABLE slice

SaleSlices     == {"CREDIT", "FULFILMENT"}
TransferSlices == {"GOODS", "COSTS", "OPENINGS"}
ProductSlices  == {"REVISIONS", "KITS"}

Single     == (v1 :> "p1")
SmallCosts == {1, 4}

Within(r) ==
    \/ slice = "CREDIT" /\ r.kind \notin {"CREATE", "UPDATE"}
    \/ slice = "FULFILMENT" /\ r.order = Fulfilled

(* One field at a time, of a second value where it makes no revision.      *)
States(e) == {f \in DOMAIN e : e[f] # Unstated}
OneField  == {e \in Edits : Cardinality(States(e)) = 1 /\ e.tags # 1}

RevisionStep(t) ==
    \/ \E e \in OneField : LoadEdit(t, Edited, e)
    \/ \E to \in {"ACTIVE", "DISCONTINUED", "ARCHIVED"} : LoadStatus(t, Edited, to)
    \/ CommitEdit(t) \/ ChangeStatus(t)

(* One product at most is taken out of the catalogue.                      *)
AtMostOneGone ==
    Cardinality({p \in Products : product[p].gone} \cup Others("REMOVE", Products)) <= 1

CatalogueStep ==
    \/ slice = "REVISIONS" /\ \E t \in Editors : RevisionStep(t) \/ Withdraw(t)
    \/ /\ slice = "KITS"
       /\ \/ \E t \in Editors : KitStep(t) \/ Withdraw(t)
          \/ \E e \in bom : RemoveComponent(e)
       /\ AtMostOneGone'
       /\ \A t \in Editors : task'[t] # NoTask => Edited \notin task'[t].on

MCInit ==
    /\ Init /\ TransferInit /\ CostInit /\ ProductInit
    /\ slice \in SaleSlices \cup TransferSlices \cup ProductSlices
    /\ \A p \in Products : product[p] = NewProduct("GOODS", 1)
    /\ \A o \in Orders \ {Fulfilled} : order[o] = NewOrder(1)
    /\ slice = "CREDIT" => order[Fulfilled] = NewOrder(MaxOrdered)
    /\ slice \notin SaleSlices =>
           row = EmptyRow /\ order[Fulfilled] = NewOrder(1)
    /\ slice # "GOODS" =>
           \A t \in Transfers : transfer[t].source = w1 /\ transfer[t].destination = w2
    /\ \A s \in Shipments : shipment[s].order = Fulfilled

MCNext ==
    /\ UNCHANGED slice
    /\ \/ /\ slice \in SaleSlices
          /\ Next
          /\ \A p \in Requests : request'[p] # NoRequest => Within(request'[p])
          /\ UNCHANGED <<transferVars, costVars, productVars>>
       \/ slice = "GOODS" /\ TransferNext /\ UNCHANGED <<vars, costVars, productVars>>
       \/ slice = "COSTS" /\ CostNext /\ UNCHANGED <<opening, vars, transferVars, productVars>>
       \/ slice = "OPENINGS" /\ CostNext /\ moves' <= MaxOpened /\
          UNCHANGED <<vars, transferVars, productVars>>
       \/ CatalogueStep /\ UNCHANGED <<vars, transferVars, costVars>>

MCSpec == MCInit /\ [][MCNext]_<<vars, transferVars, costVars, productVars, slice>>

(* The consignments are the transfers, the openers their requests.         *)
Symmetry == Permutations(Requests) \cup Permutations(Transfers) \cup Permutations(Handlers)
=============================================================================
