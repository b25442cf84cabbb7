-------------------------------- MODULE Money --------------------------------
(***************************************************************************)
(* The one inexact step of the money type (packages/contracts/src/         *)
(* primitives/money.ts): rounding a quotient, half away from zero.  An     *)
(* amount is an integer in some smallest unit, and stays one.              *)
(***************************************************************************)
EXTENDS Integers

(* ROUND_HALF_UP of n / d, for n >= 0 and d > 0.                           *)
RoundHalfUp(n, d) == (2 * n + d) \div (2 * d)

Magnitude(n) == IF n < 0 THEN -n ELSE n
=============================================================================
