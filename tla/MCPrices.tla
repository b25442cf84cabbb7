------------------------------ MODULE MCPrices -------------------------------
(* Small instances of Prices for TLC: odd prices, so that every rounding   *)
(* happens; rules that tie on priority and on scope, of both kinds, with   *)
(* thresholds and caps; an amount that exceeds the price.                  *)
EXTENDS Prices, TLC

MCPriceLists == {(1 :> 10050) @@ (3 :> 9999), (1 :> 3333)}

MCRules ==
    {[code |-> 1, kind |-> "PERCENT", value |-> 15, scope |-> 4, priority |-> 100,
      minQty |-> 0, minAmount |-> 0, cap |-> 2501],
     [code |-> 2, kind |-> "FLAT", value |-> 4000, scope |-> 4, priority |-> 100,
      minQty |-> 2, minAmount |-> 0, cap |-> NoCap],
     [code |-> 3, kind |-> "PERCENT", value |-> 50, scope |-> 0, priority |-> 100,
      minQty |-> 0, minAmount |-> 12000, cap |-> NoCap]}

MCTaxChoices == {[rate |-> 5, cess |-> 0], [rate |-> 18, cess |-> 1]}
=============================================================================
