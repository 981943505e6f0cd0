------------------------------- MODULE Money -------------------------------
(***************************************************************************)
(* Fixed-point money (services/core/money.py).  A price is an integer      *)
(* number of cents, a quantity an integer number of 1/QuantityScale units  *)
(* (milli-units: the code's QUANTITY_SCALE is 1000), and the cash value of *)
(* a quantity at a price is rounded DOWN to a whole cent.  TLC instances   *)
(* use a small scale, so that roundings happen with single-digit inputs.   *)
(***************************************************************************)
EXTENDS Integers

CONSTANT QuantityScale    \* milli-units per unit of quantity

ASSUME QuantityScaleAssumption == QuantityScale \in Nat \ {0}

\* Python's // and TLA+'s \div both round towards minus infinity.
notional_cents(price, qty, multiplier) ==
    (price * qty * multiplier) \div QuantityScale
=============================================================================
