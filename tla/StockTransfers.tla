--------------------------- MODULE StockTransfers ---------------------------
(***************************************************************************)
(* Two-phase transfers between warehouses (StockService.createTransfer,    *)
(* dispatchTransfer and receiveTransfer, apps/api/src/modules/inventory/   *)
(* stock.service.ts): goods leave the source, rest in a transit warehouse  *)
(* if the transfer names one, and arrive, possibly short.                  *)
(*                                                                         *)
(* The movements of one commit are atomic and run under the bins' locks    *)
(* (StockLedger).  The transfer itself is loaded and its status checked    *)
(* before the transaction, and updated by id alone, so a request is a read *)
(* and a commit with anything in between.                                  *)
(***************************************************************************)
EXTENDS StockBalance, FiniteSets, Functions

CONSTANTS Warehouses,
          Variants,    \* what a transfer line names: a (product, variant) pair
          ProductOf,   \* the product of each variant
          Transfers,   \* identities of stock_transfer rows
          Handlers,    \* concurrent API requests
          MaxSupplied, \* bound on the supplier receipts
          Transits,    \* what a transfer may name as its transit warehouse
          NoTransit, NoErrand

ASSUME TransfersAssumption ==
    /\ ProductOf \in [Variants -> STRING]
    /\ MaxSupplied \in Nat
    /\ Transits \subseteq Warehouses \cup {NoTransit}
    /\ NoTransit \notin Warehouses
    /\ IsFiniteSet(Warehouses) /\ IsFiniteSet(Variants) /\ IsFiniteSet(Transfers)

Bins     == Warehouses \X Variants
Quantity == 0..MaxQuantity

VARIABLES rows,        \* stock_balance: quantity and reserved per bin
          transfer,    \* stock_transfer with its lines
          errand,      \* what each request has loaded and is about to commit
          supplied,    \* history: per variant, the goods that came from outside
          dispatched,  \* history: per transfer and variant, goods that left the source
          arrived,     \* history: per transfer and variant, goods booked in at the end
          stated,      \* history: per transfer, the receipt its request stated
          overtaken    \* history: the transfers two requests were at once at work on

transferVars == <<rows, transfer, errand, supplied, dispatched, arrived, stated, overtaken>>

(* A line of quantity 0 stands for no line.                                *)
Transfer == [status : {"NONE", "DRAFT", "IN_TRANSIT", "RECEIVED"},
             source : Warehouses, destination : Warehouses,
             transit : Warehouses \cup {NoTransit},
             quantity : [Variants -> Quantity],
             quantityReceived : [Variants -> Quantity]]

Nothing == [v \in Variants |-> 0]
Zero    == [t \in Transfers |-> Nothing]

TransferInit ==
    /\ rows = [b \in Bins |-> EmptyRow]
    /\ \E home, away \in Warehouses :
           /\ home # away
           /\ transfer = [t \in Transfers |->
                 [status |-> "NONE", source |-> home, destination |-> away,
                  transit |-> NoTransit, quantity |-> Nothing,
                  quantityReceived |-> Nothing]]
    /\ errand = [p \in Handlers |-> NoErrand]
    /\ supplied = Nothing
    /\ dispatched = Zero
    /\ arrived = Zero
    /\ stated = Zero
    /\ overtaken = {}

(***************************************************************************)
(* Movements                                                               *)
(***************************************************************************)
Lines(t) == {v \in Variants : transfer[t].quantity[v] > 0}

(* The transit warehouse, if there is one that is not the source itself.   *)
ByWay(t) == {transfer[t].transit} \ {NoTransit, transfer[t].source}

LeaveFrom(r) ==
    IF r.phase = "DISPATCH" THEN {transfer[r.transfer].source} ELSE ByWay(r.transfer)
ArriveAt(r) ==
    IF r.phase = "DISPATCH" THEN ByWay(r.transfer) ELSE {transfer[r.transfer].destination}

Places(at, r) == at \X Lines(r.transfer)

(* StockLedgerService.move on the rows of a book, of each line's goods.    *)
MayPost(book, at, type, r) ==
    \A b \in Places(at, r) : MayMove(book[b], type, r.quantity[b[2]])

Posted(book, at, type, r) ==
    [b \in Bins |-> IF b \in Places(at, r)
                   THEN [book[b] EXCEPT !.onHand = @ + SignedQuantity(type, r.quantity[b[2]])]
                   ELSE book[b]]

(* Each line leaves one bin and enters another; the lines have no bin in   *)
(* common, so that they may as well all leave before the first enters.     *)
InHand(r) == Posted(rows, LeaveFrom(r), "TRANSFER_OUT", r)

Carry(r) ==
    /\ MayPost(rows, LeaveFrom(r), "TRANSFER_OUT", r)
    /\ MayPost(InHand(r), ArriveAt(r), "TRANSFER_IN", r)
    /\ rows' = Posted(InHand(r), ArriveAt(r), "TRANSFER_IN", r)

(***************************************************************************)
(* Stock from outside, and drafting a transfer                             *)
(***************************************************************************)
Supply(b) ==
    /\ MayMove(rows[b], "RECEIPT", 1)
    /\ SumFunction(supplied) < MaxSupplied
    /\ rows' = [rows EXCEPT ![b].onHand = @ + 1]
    /\ supplied' = [supplied EXCEPT ![b[2]] = @ + 1]
    /\ UNCHANGED <<transfer, errand, dispatched, arrived, stated, overtaken>>

CreateTransfer(t, transit, quantity) ==
    /\ transfer[t].status = "NONE"
    /\ quantity # Nothing
    /\ transfer' = [transfer EXCEPT ![t].status = "DRAFT", ![t].transit = transit,
                                    ![t].quantity = quantity]
    /\ UNCHANGED <<rows, errand, supplied, dispatched, arrived, stated, overtaken>>

(***************************************************************************)
(* loadTransfer() and assertTransferTransition(): too early                *)
(***************************************************************************)
(* A receipt states a quantity for some of the variants; a line it does    *)
(* not mention counts as received in full.                                 *)
Receipts == UNION {[S -> 1..MaxQuantity] : S \in SUBSET Variants}

Intended(t, receipt) ==
    [v \in Variants |-> IF v \in DOMAIN receipt THEN receipt[v]
                                               ELSE transfer[t].quantity[v]]

SameProduct(u, v) == ProductOf[u] = ProductOf[v]

(* The quantities the lines are received with.  The code turns the stated  *)
(* list into a Map keyed by PRODUCT: whichever entry of a product comes    *)
(* last stands for all its variants.                                       *)
ReceivedQuantities(t, receipt) ==
    LET entries(v) == {u \in DOMAIN receipt : SameProduct(u, v)} IN
        {heard \in [Variants -> Quantity] :
            \A v \in Variants :
                /\ entries(v) = {} => heard[v] = transfer[t].quantity[v]
                /\ entries(v) # {} => \E u \in entries(v) : heard[v] = receipt[u]
                /\ \A u \in Variants :
                       SameProduct(u, v) /\ entries(v) # {} => heard[u] = heard[v]}

Underway(t) == \E q \in Handlers : errand[q] # NoErrand /\ errand[q].transfer = t

LoadTransfer(p, r) ==
    /\ errand[p] = NoErrand
    /\ errand' = [errand EXCEPT ![p] = r]
    /\ overtaken' = IF Underway(r.transfer) THEN overtaken \cup {r.transfer} ELSE overtaken
    /\ UNCHANGED <<rows, transfer, supplied, dispatched, arrived, stated>>

LoadForDispatch(p, t) ==
    /\ transfer[t].status = "DRAFT"
    /\ LoadTransfer(p, [phase |-> "DISPATCH", transfer |-> t,
                quantity |-> transfer[t].quantity, intended |-> Nothing])

(* Mutant: a draft can be received.                                        *)
LoadForReceiptUnchecked(p, t, receipt) ==
    /\ transfer[t].status # "NONE"
    /\ DOMAIN receipt \subseteq Lines(t)
    /\ \E heard \in ReceivedQuantities(t, receipt) :
           LoadTransfer(p, [phase |-> "RECEIVE", transfer |-> t, quantity |-> heard,
                    intended |-> Intended(t, receipt)])

LoadForReceipt(p, t, receipt) ==
    /\ transfer[t].status = "IN_TRANSIT"
    /\ DOMAIN receipt \subseteq Lines(t)
    /\ \E heard \in ReceivedQuantities(t, receipt) :
           LoadTransfer(p, [phase |-> "RECEIVE", transfer |-> t, quantity |-> heard,
                    intended |-> Intended(t, receipt)])

(***************************************************************************)
(* The transactions                                                        *)
(***************************************************************************)
(* More than was sent cannot be received.                                  *)
NotMoreThanSent(r) ==
    \A v \in Lines(r.transfer) : r.quantity[v] <= transfer[r.transfer].quantity[v]

Booked(history, r) ==
    [history EXCEPT ![r.transfer] =
        [v \in Variants |-> IF v \in Lines(r.transfer) THEN @[v] + r.quantity[v] ELSE @[v]]]

CommitDeparture(p) ==
    LET r == errand[p]
    IN  /\ r # NoErrand
        /\ r.phase = "DISPATCH"
        /\ Carry(r)
        /\ transfer' = [transfer EXCEPT ![r.transfer].status = "IN_TRANSIT"]
        /\ dispatched' = Booked(dispatched, r)
        /\ errand' = [errand EXCEPT ![p] = NoErrand]
        /\ UNCHANGED <<supplied, arrived, stated, overtaken>>

CommitReceipt(p) ==
    LET r == errand[p]
    IN  /\ r # NoErrand
        /\ r.phase = "RECEIVE"
        /\ NotMoreThanSent(r)
        /\ Carry(r)
        /\ transfer' = [transfer EXCEPT ![r.transfer].status = "RECEIVED",
                           ![r.transfer].quantityReceived = r.quantity]
        /\ arrived' = Booked(arrived, r)
        /\ stated' = [stated EXCEPT ![r.transfer] = r.intended]
        /\ errand' = [errand EXCEPT ![p] = NoErrand]
        /\ UNCHANGED <<supplied, dispatched, overtaken>>

(* A refused movement, a receipt of more than was sent, or a process that  *)
(* dies before COMMIT: nothing of the transaction remains.                 *)
Abandon(p) ==
    /\ errand[p] # NoErrand
    /\ errand' = [errand EXCEPT ![p] = NoErrand]
    /\ UNCHANGED <<rows, transfer, supplied, dispatched, arrived, stated, overtaken>>

TransferNext ==
    \/ \E b \in Bins : Supply(b)
    \/ \E t \in Transfers, transit \in Transits, quantity \in [Variants -> Quantity] :
           CreateTransfer(t, transit, quantity)
    \/ \E p \in Handlers, t \in Transfers : LoadForDispatch(p, t)
    \/ \E p \in Handlers, t \in Transfers, receipt \in Receipts :
           LoadForReceipt(p, t, receipt)
    \/ \E p \in Handlers : CommitDeparture(p) \/ CommitReceipt(p) \/ Abandon(p)

TransferSpec == TransferInit /\ [][TransferNext]_transferVars

(***************************************************************************)
(* Properties                                                              *)
(***************************************************************************)
Errand == [phase : {"DISPATCH", "RECEIVE"}, transfer : Transfers,
            quantity : [Variants -> Quantity], intended : [Variants -> Nat]]

(* Every variable holds a value of its kind.                               *)
TransferTypeOK ==
    /\ rows \in [Bins -> Row]
    /\ transfer \in [Transfers -> Transfer]
    /\ errand \in [Handlers -> Errand \cup {NoErrand}]
    /\ supplied \in [Variants -> Nat]
    /\ overtaken \in SUBSET Transfers

OnTheBooks(v) == SumFunctionOnSet([b \in Bins |-> rows[b].onHand],
                                  {b \in Bins : b[2] = v})

(* What left a source without a transit warehouse and is still on the road *)
(* or was lost there.                                                      *)
OffTheBooks(v) ==
    SumFunction([t \in Transfers |-> IF ByWay(t) # {} THEN 0
                                     ELSE dispatched[t][v] - arrived[t][v]])

GoodsAreConserved ==
    \A v \in Variants : OnTheBooks(v) + OffTheBooks(v) = supplied[v]

(* A transfer never books in more than it sent, unless two requests race   *)
(* on that very transfer.                                                  *)
NothingArrivesUndispatched ==
    \A t \in Transfers \ overtaken : \A v \in Variants : arrived[t][v] <= dispatched[t][v]

RecordIsTrue ==
    \A t \in Transfers \ overtaken : transfer[t].status = "RECEIVED" =>
        \A v \in Lines(t) :
            /\ transfer[t].quantity[v] = dispatched[t][v]
            /\ transfer[t].quantityReceived[v] = arrived[t][v]

(* However requests race, double dispatches and double receipts included,  *)
(* every unit that came from outside is in some bin or left its source     *)
(* without a transit warehouse: goods that travel by way of one stay       *)
(* "VISIBLE while they are moving", and none of them appear from nowhere.  *)
(* And what the record of a transfer nobody raced on says was sent and     *)
(* received is what left the source and what entered the destination, and  *)
(* no more is ever booked in than was sent.                                *)
TransfersAddUp ==
    /\ TransferTypeOK
    /\ GoodsAreConserved
    /\ NothingArrivesUndispatched
    /\ RecordIsTrue

(* "Short receipts are recorded, not hidden": where no more is stated than *)
(* was sent, each line is received with the quantity stated for it,        *)
(* whatever the other lines of the transfer are.                           *)
ShortReceiptsRecorded ==
    \A t \in Transfers : transfer[t].status = "RECEIVED" =>
        \A v \in Lines(t) : stated[t][v] <= transfer[t].quantity[v] =>
            transfer[t].quantityReceived[v] = stated[t][v]
=============================================================================
