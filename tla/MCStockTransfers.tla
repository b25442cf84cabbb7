-------------------------- MODULE MCStockTransfers --------------------------
(* Small instances of StockTransfers for TLC.                              *)
EXTENDS StockTransfers, TLC

CONSTANTS w1, w2, w3, v1, v2

Single      == (v1 :> "p1")
TwoVariants == (v1 :> "p1") @@ (v2 :> "p1")

Symmetry == Permutations(Transfers) \cup Permutations(Handlers)
=============================================================================
