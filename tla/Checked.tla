------------------------------- MODULE Checked -------------------------------
(***************************************************************************)
(* Arithmetic shared by the quotes of all sources (your_venue/common/        *)
(* checked.rs), and the result of a quote.                                   *)
(*                                                                          *)
(* Amounts are natural numbers.  Where the code converts a u128 to a u64 or  *)
(* adds two u64 it fails at U64; the u128 and U256 intermediates are exact.  *)
(***************************************************************************)
EXTENDS Integers

CONSTANTS
    U64,       \* 2^64
    FULL_BPS   \* 10_000

ASSUME U64Assumption == U64 \in Nat \ {0}
ASSUME BpsAssumption == FULL_BPS \in Nat \ {0}

saturating_sub(x, y) == IF x >= y THEN x - y ELSE 0
smaller(x, y) == IF x <= y THEN x ELSE y
larger(x, y) == IF x >= y THEN x ELSE y
ceil_div(x, y) == (x + y - 1) \div y

mul_bps(amount, bps) == (amount * bps) \div FULL_BPS

\* require_no_value_per_share_loss
no_value_per_share_loss(old_value, old_supply, new_value, new_supply) ==
    \/ old_supply = 0 \/ new_supply = 0
    \/ new_value * old_supply >= old_value * new_supply

\* A quote that ends with an error.  Errors are not told apart.
Refused == [refused |-> TRUE]
=============================================================================
