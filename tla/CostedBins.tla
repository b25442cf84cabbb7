------------------------------ MODULE CostedBins -----------------------------
(***************************************************************************)
(* What goods cost, in a source and a destination warehouse and one of     *)
(* transit, under any sequence of receipts, costless receipts, issues and  *)
(* two-phase transfers (StockLedgerService.move, StockService): the        *)
(* running averages the balances keep, against the value the ledger        *)
(* records, and the cost that travels with the goods.  Every transaction   *)
(* is one step, under the locks of its bins; StockTransfers has the races. *)
(***************************************************************************)
EXTENDS Costing

CONSTANTS MaxOnHand,   \* bound on the quantity in a bin
          Costs,       \* unit costs a receipt may state
          MaxMoves,    \* bound on the number of transactions
          Consignments,   \* identities of transfers
          Openers         \* requests that post an opening balance

ASSUME CostedBinsAssumption ==
    /\ MaxOnHand \in Nat
    /\ Costs \subseteq Nat
    /\ NoCost \notin Nat
    /\ MaxMoves \in Nat

CostBins == {"SOURCE", "TRANSIT", "DESTINATION"}

VARIABLES bin,       \* stock_balance, and what the ledger says of the bin
          journey,   \* each transfer, and what its goods left and landed at
          opening,   \* the bin each opener found without movements
          moves      \* history: the number of transactions

costVars == <<bin, journey, opening, moves>>

(* onHand and average are columns; value is SUM(quantity * unit_cost) over *)
(* the ledger rows of the bin.  The rest is history: twice the rounding    *)
(* the averages so far allow, the unit costs that came in, and whether     *)
(* goods came before any cost did.                                         *)
EmptyBin == [onHand |-> 0, average |-> 0, value |-> 0, slack |-> 0, paid |-> {},
             unpriced |-> FALSE]

(* mixed: what its cost is read from was changed by other goods on the way.*)
NewTransfer == [status |-> "DRAFT", direct |-> FALSE, quantity |-> 0,
                left |-> 0, landed |-> 0, mixed |-> FALSE]

(* overtaken: goods moved in its bin since it was checked; first: none had.*)
NewOpening == [status |-> "NONE", at |-> "SOURCE", overtaken |-> FALSE, first |-> TRUE]

CostInit ==
    /\ bin = [b \in CostBins |-> EmptyBin]
    /\ journey = [t \in Consignments |-> NewTransfer]
    /\ opening = [o \in Openers |-> NewOpening]
    /\ moves = 0

HasRoom(row, quantity) == quantity # 0 /\ row.onHand + quantity \in 0..MaxOnHand

(* move(): the locked row after a movement of a signed quantity.           *)
Moved(row, quantity, unitCost) ==
    [onHand   |-> row.onHand + quantity,
     average  |-> NextAverageCost(row.onHand, row.average, quantity, unitCost),
     value    |-> row.value + quantity * LedgerUnitCost(row.average, quantity, unitCost),
     slack    |-> IF quantity > 0 /\ unitCost # NoCost /\ row.onHand > 0
                  THEN row.slack + row.onHand + quantity ELSE row.slack,
     paid     |-> row.paid \cup ({unitCost} \ {NoCost}),
     unpriced |-> row.unpriced \/ (unitCost = NoCost /\ quantity > 0 /\ row.paid = {})]

Counted == moves < MaxMoves /\ moves' = moves + 1

OnTheRoad(direct) ==
    {t \in Consignments : journey[t].status = "IN_TRANSIT" /\ journey[t].direct = direct}

(* Other goods came in where these transfers read their cost.              *)
Mix(ts) == [t \in Consignments |->
    IF t \in ts THEN [journey[t] EXCEPT !.mixed = TRUE] ELSE journey[t]]

(* The openers whose bin these movements enter while they are at work.     *)
Overtake(bins) == [o \in Openers |->
    [opening[o] EXCEPT !.overtaken = @ \/ (opening[o].status = "CHECKED" /\ opening[o].at \in bins)]]

Take(b, quantity, unitCost) ==
    /\ Counted
    /\ HasRoom(bin[b], quantity)
    /\ bin' = [bin EXCEPT ![b] = Moved(@, quantity, unitCost)]
    /\ journey' = IF b = "SOURCE" THEN Mix(OnTheRoad(TRUE)) ELSE journey

ReceiveGoods(b, quantity, unitCost) ==
    Take(b, quantity, unitCost) /\ opening' = Overtake({b})

Issue(b, quantity) ==
    /\ Counted
    /\ HasRoom(bin[b], -quantity)
    /\ bin' = [bin EXCEPT ![b] = Moved(@, -quantity, NoCost)]
    /\ opening' = Overtake({b})
    /\ UNCHANGED journey

(* Whether the ledger has a row for the bin: the first brings goods in.    *)
HasHistory(b) == bin[b].paid # {} \/ bin[b].unpriced

(* openingBalances(): refused where stock already moved, which is looked   *)
(* for before the transaction, and by nobody in it.                        *)
CheckOpening(o, b) ==
    /\ opening[o].status = "NONE"
    /\ ~HasHistory(b)
    /\ opening' = [opening EXCEPT ![o].status = "CHECKED", ![o].at = b]
    /\ UNCHANGED <<bin, journey, moves>>

PostOpening(o, quantity, unitCost) ==
    LET b == opening[o].at IN
    /\ opening[o].status = "CHECKED"
    /\ Take(b, quantity, unitCost)
    /\ opening' = [Overtake({b}) EXCEPT ![o] =
           [opening[o] EXCEPT !.status = "POSTED", !.first = ~HasHistory(b)]]

(* dispatchTransfer(): out of the source and, unless there is no transit   *)
(* warehouse, into transit at the source's average.                        *)
Dispatch(t, direct, quantity) ==
    LET cost == bin["SOURCE"].average
        others == IF direct THEN {} ELSE OnTheRoad(FALSE)
        crowded == ~direct /\ bin["TRANSIT"].onHand > 0 IN
    /\ Counted
    /\ journey[t].status = "DRAFT"
    /\ HasRoom(bin["SOURCE"], -quantity)
    /\ ~direct => HasRoom(bin["TRANSIT"], quantity)
    /\ bin' = [bin EXCEPT !["SOURCE"]  = Moved(@, -quantity, NoCost),
                          !["TRANSIT"] = IF direct THEN @ ELSE Moved(@, quantity, cost)]
    /\ opening' = Overtake({"SOURCE", "TRANSIT"})
    /\ journey' = [Mix(others) EXCEPT ![t] =
           [status |-> "IN_TRANSIT", direct |-> direct, quantity |-> quantity,
            left |-> cost, landed |-> 0, mixed |-> crowded]]

Origin(t) == IF journey[t].direct THEN "SOURCE" ELSE "TRANSIT"

(* Mutant: the destination's own average is taken.                         *)
NothingCarried(t) == bin["DESTINATION"].average

(* averageCostAt(), or what the movement out of transit returns.           *)
CarriedCost(t) == bin[Origin(t)].average

(* receiveTransfer(), in full or short.                                    *)
Arrive(t, quantity) ==
    /\ Counted
    /\ journey[t].status = "IN_TRANSIT"
    /\ quantity <= journey[t].quantity
    /\ HasRoom(bin["DESTINATION"], quantity)
    /\ ~journey[t].direct => HasRoom(bin["TRANSIT"], -quantity)
    /\ bin' = [bin EXCEPT
           !["TRANSIT"]     = IF journey[t].direct THEN @ ELSE Moved(@, -quantity, NoCost),
           !["DESTINATION"] = Moved(@, quantity, CarriedCost(t))]
    /\ opening' = Overtake({"TRANSIT", "DESTINATION"})
    /\ journey' = [journey EXCEPT ![t].status = "RECEIVED", ![t].landed = CarriedCost(t)]

CostNext ==
    \/ \E o \in Openers, b \in CostBins \ {"TRANSIT"} : CheckOpening(o, b)
    \/ \E quantity \in 1..MaxOnHand :
           \/ \E b \in CostBins \ {"TRANSIT"}, unitCost \in Costs \cup {NoCost} :
                  ReceiveGoods(b, quantity, unitCost)
           \/ \E o \in Openers, unitCost \in Costs \cup {NoCost} :
                  PostOpening(o, quantity, unitCost)
           \/ \E b \in CostBins \ {"TRANSIT"} : Issue(b, quantity)
           \/ \E t \in Consignments, direct \in BOOLEAN : Dispatch(t, direct, quantity)
           \/ \E t \in Consignments : Arrive(t, quantity)

CostSpec == CostInit /\ [][CostNext]_costVars

(***************************************************************************)
(* Properties                                                              *)
(***************************************************************************)
ValuationFollowsLedger ==
    \A b \in CostBins :
        2 * Magnitude(bin[b].onHand * bin[b].average - bin[b].value) <= bin[b].slack

AverageWithinPaid ==
    \A b \in CostBins : bin[b].paid # {} /\ ~bin[b].unpriced =>
        /\ \E low \in bin[b].paid : low <= bin[b].average
        /\ \E high \in bin[b].paid : bin[b].average <= high

(* "Moving goods between locations does not create or destroy value"       *)
(* (ADR-0010, 6): goods land at what they left at, in full or in part and  *)
(* whatever the destination holds - unless other goods came in where the   *)
(* cost is read on arrival: into the source behind a direct journey, or    *)
(* into the transit warehouse.                                             *)
CostTravels ==
    \A t \in Consignments : journey[t].status = "RECEIVED" /\ ~journey[t].mixed =>
        journey[t].landed = journey[t].left

(* "An opening balance posted after trading has begun is not an opening    *)
(* balance": what is opened is opened before any movement and once, unless *)
(* the opener was overtaken between its look at the ledger and its own     *)
(* posting - and of two that open one bin, one was.                        *)
OpeningsComeFirst ==
    \A o \in Openers : opening[o].status = "POSTED" /\ ~opening[o].overtaken =>
        /\ opening[o].first
        /\ \A other \in Openers \ {o} :
               opening[other].status = "POSTED" /\ opening[other].at = opening[o].at =>
                   opening[other].overtaken

(* COGS is read from the ledger, the valuation from the balance: over any  *)
(* sequence of movements the two disagree by no more than the half unit    *)
(* that each averaging may round away on what it averages; provided the    *)
(* first goods were priced, the average stays between the lowest and the   *)
(* highest cost that ever came in, costless receipts included; the cost    *)
(* travels with the goods; and an opening comes first unless overtaken.    *)
CostsAreFaithful ==
    ValuationFollowsLedger /\ AverageWithinPaid /\ CostTravels /\ OpeningsComeFirst
=============================================================================
