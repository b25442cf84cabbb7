---------------------------- MODULE MCStockLedger ----------------------------
(* Small instances of StockLedger for TLC. *)
EXTENDS StockLedger

CONSTANTS b1, b2   \* two bins: two products, or one product in two warehouses

Do(kind, bin, quantity) == [kind |-> kind, bin |-> bin, quantity |-> quantity]

(* The plans the services issue: a goods receipt, a manual reservation, an *)
(* adjustment, a dispatch against a reservation, the two directions of a   *)
(* transfer, and an order approved with its lines in either order.         *)
MCPlans ==
    { <<Do("RECEIPT", b1, 2)>>,
      <<Do("RECEIPT", b2, 1)>>,
      <<Do("ADJUST_RESERVED", b1, 1)>>,
      <<Do("ADJUSTMENT", b1, -1)>>,
      <<Do("ADJUST_RESERVED", b1, -1), Do("ISSUE", b1, 1)>>,
      <<Do("TRANSFER_OUT", b1, 1), Do("TRANSFER_IN", b2, 1)>>,
      <<Do("TRANSFER_OUT", b2, 1), Do("TRANSFER_IN", b1, 1)>>,
      <<Do("RESERVE_UP_TO", b1, 2), Do("RESERVE_UP_TO", b2, 1)>>,
      <<Do("RESERVE_UP_TO", b2, 1), Do("RESERVE_UP_TO", b1, 1)>> }
=============================================================================
