------------------------------- MODULE Costing -------------------------------
(***************************************************************************)
(* Moving weighted-average cost (apps/api/src/modules/inventory/costing.ts *)
(* and ADR-0010) as pure operators.  Quantities and costs are integers in  *)
(* the columns' smallest unit, so the one inexact step, the division, is   *)
(* rounded exactly where the code rounds it.                               *)
(***************************************************************************)
EXTENDS Money

CONSTANT NoCost   \* a receipt whose unit cost was not stated (null)

(* Mutant: a receipt with no stated cost came for free.                    *)
CostlessIsFree(onHand, average, quantity, unitCost) ==
    LET cost == IF unitCost = NoCost THEN 0 ELSE unitCost IN
        IF quantity <= 0 THEN average
        ELSE RoundHalfUp(onHand * average + quantity * cost, onHand + quantity)

(* The average after a movement of a signed quantity: outbound never       *)
(* changes it, neither does a receipt with no stated cost, and a receipt   *)
(* into an empty bin adopts its own.                                       *)
NextAverageCost(onHand, average, quantity, unitCost) ==
    IF quantity <= 0 \/ unitCost = NoCost THEN average
    ELSE IF onHand <= 0 THEN unitCost
    ELSE RoundHalfUp(onHand * average + quantity * unitCost, onHand + quantity)

(* The cost a movement is recorded at: what was paid, or the average       *)
(* prevailing before it.                                                   *)
LedgerUnitCost(average, quantity, unitCost) ==
    IF quantity > 0 /\ unitCost # NoCost THEN unitCost ELSE average
=============================================================================
