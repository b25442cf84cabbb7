---------------------------- MODULE StockBalance ----------------------------
(***************************************************************************)
(* One row of stock_balance and what StockLedgerService may do to it once  *)
(* it holds the row's lock (apps/api/src/modules/inventory/                *)
(* stock-ledger.service.ts).  The module is purely functional: it says     *)
(* which operations a row accepts and what row results.  StockLedger adds  *)
(* the locking, Reservations the callers that hold stock.                  *)
(*                                                                         *)
(* Quantities are DECIMAL(18,4) in the database; here they are integers,   *)
(* one unit standing for one ten-thousandth.  The running average cost is  *)
(* left out: nothing below depends on it.                                  *)
(***************************************************************************)
EXTENDS Integers

CONSTANT MaxQuantity   \* the largest quantity the DECIMAL column holds

ASSUME MaxQuantityAssumption == MaxQuantity \in Nat

InboundMovements  == {"OPENING", "RECEIPT", "TRANSFER_IN", "SALES_RETURN"}
OutboundMovements == {"ISSUE", "TRANSFER_OUT", "SCRAP"}
MovementTypes     == InboundMovements \cup OutboundMovements \cup {"ADJUSTMENT"}

(* What a caller may ask of one row inside its transaction: a movement, a  *)
(* signed change of the reserved figure, or "reserve up to this much".     *)
OperationKinds == MovementTypes \cup {"ADJUST_RESERVED", "RESERVE_UP_TO"}

Row      == [onHand : 0..MaxQuantity, reserved : 0..MaxQuantity]
EmptyRow == [onHand |-> 0, reserved |-> 0]

SignForMovement(type) == IF type \in InboundMovements  THEN 1
                    ELSE IF type \in OutboundMovements THEN -1
                    ELSE 0

(* A quantity is positive and takes its sign from the movement type; only  *)
(* an ADJUSTMENT carries its own.                                          *)
SignedQuantity(type, quantity) ==
    IF SignForMovement(type) = 0 THEN quantity
                                 ELSE SignForMovement(type) * quantity

WellSigned(type, quantity) == SignForMovement(type) = 0 \/ quantity >= 0

(* move(): a zero movement is refused, and so is one that would leave less *)
(* than nothing or less than what is reserved.  The column's precision     *)
(* bounds the result from above.                                           *)
MayMove(row, type, quantity) ==
    LET after == row.onHand + SignedQuantity(type, quantity) IN
        /\ WellSigned(type, quantity)
        /\ quantity # 0
        /\ after >= 0
        /\ after >= row.reserved
        /\ after <= MaxQuantity

(* adjustReserved(): never below zero and never above what is on hand.     *)
MayAdjustReserved(row, delta) ==
    /\ row.reserved + delta >= 0
    /\ row.reserved + delta <= row.onHand

(* reserveUpTo(): as much of the request as is available, possibly none.   *)
Available(row) == IF row.onHand > row.reserved THEN row.onHand - row.reserved ELSE 0

Reservable(row, requested) ==
    IF requested < Available(row) THEN requested ELSE Available(row)

Accepts(row, op) ==
    \/ op.kind \in MovementTypes /\ MayMove(row, op.kind, op.quantity)
    \/ op.kind = "ADJUST_RESERVED" /\ MayAdjustReserved(row, op.quantity)
    \/ op.kind = "RESERVE_UP_TO" /\ op.quantity >= 0

(* The signed quantity an operation appends to the ledger.  Reserving      *)
(* moves nothing, so it writes no ledger row.                              *)
LedgerQuantity(op) ==
    IF op.kind \in MovementTypes THEN SignedQuantity(op.kind, op.quantity) ELSE 0

ReservedChange(row, op) ==
    IF op.kind = "ADJUST_RESERVED" THEN op.quantity
    ELSE IF op.kind = "RESERVE_UP_TO" THEN Reservable(row, op.quantity)
    ELSE 0

Performed(row, op) ==
    [onHand   |-> row.onHand + LedgerQuantity(op),
     reserved |-> row.reserved + ReservedChange(row, op)]
=============================================================================
