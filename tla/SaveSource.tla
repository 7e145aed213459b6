----------------------------- MODULE SaveSource -----------------------------
(***************************************************************************)
(* Quotes on a Save reserve: your_venue/save/math.rs and wad.rs.             *)
(*                                                                          *)
(* A reserve r has the fields of SaveState: available liquidity, borrowed    *)
(* amount and protocol fees in wads, collateral supply, slot of the last     *)
(* accrual and config.  v is the WrapperVault, now the clock, net the amount *)
(* of a deposit after the wrapper's fees.                                    *)
(***************************************************************************)
EXTENDS Checked

CONSTANTS
    WAD,                 \* one in fixed-point: 10^18, a multiple of 100
    SAVE_SLOTS_PER_YEAR,
    Bits                 \* accruals span fewer than 2^(Bits + 1) slots

\* The fields of SaveState, and their types.
Fields == {"available", "borrowed", "fees", "supply", "last_update_slot", "config"}

Typed(r) ==
    /\ DOMAIN r = Fields
    /\ {r.available, r.borrowed, r.fees, r.supply, r.last_update_slot} \subseteq Nat
    /\ {r.config.optimal_util, r.config.max_util, r.config.min_rate, r.config.optimal_rate,
        r.config.max_rate, r.config.super_max_rate} \subseteq Nat
    /\ r.config.take_rate \in 0 .. 100

from_u64(x) == x * WAD
from_percent(p) == p * (WAD \div 100)
to_floor_u64(w) == (w \div WAD) % U64         \* `as u64' truncates
wad_mul(x, y) == (x * y) \div WAD
wad_div(x, y) == (x * WAD) \div y

\* Square and multiply, from the lowest bit on.
wad_pow(base, e) ==
    LET square[i \in 0 .. Bits] ==
            IF i = 0 THEN base ELSE wad_mul(square[i - 1], square[i - 1])
        bit(i) == (e \div 2^i) % 2 = 1
        ret[i \in 0 .. Bits] ==
            IF i = 0 THEN (IF bit(0) THEN base ELSE WAD)
            ELSE IF bit(i) THEN wad_mul(ret[i - 1], square[i]) ELSE ret[i - 1]
    IN  ret[Bits]

-----------------------------------------------------------------------------
(* Accrual                                                                   *)

utilization_rate(r) ==
    IF r.borrowed = 0 THEN 0
    ELSE wad_div(r.borrowed, from_u64(r.available) + r.borrowed)

\* The rate on one segment of the curve; an empty segment is its start.
Segment(util, start, span, low, high) ==
    IF span = 0 THEN low
    ELSE low + wad_mul(wad_div(saturating_sub(util, start), span), saturating_sub(high, low))

borrow_rate_at(r, util) ==
    LET optimal_util == from_percent(r.config.optimal_util)
        max_util == from_percent(r.config.max_util)
        optimal_rate == from_percent(r.config.optimal_rate)
        max_rate == from_percent(r.config.max_rate)
    IN  IF util <= optimal_util
          THEN Segment(util, 0, optimal_util, from_percent(r.config.min_rate), optimal_rate)
        ELSE IF util <= max_util
          THEN Segment(util, optimal_util, saturating_sub(max_util, optimal_util),
                       optimal_rate, max_rate)
        ELSE Segment(util, max_util, from_percent(saturating_sub(100, r.config.max_util)),
                     max_rate, from_percent(r.config.super_max_rate))

current_borrow_rate(r) == borrow_rate_at(r, utilization_rate(r))

\* The protocol takes its part of the new debt.
with_new_debt(r, new_borrowed) ==
    [borrowed |-> new_borrowed,
     fees |-> r.fees + wad_mul(saturating_sub(new_borrowed, r.borrowed),
                               from_percent(r.config.take_rate))]

\* Debt and protocol fees of the reserve now.
accrue_interest(r, now) ==
    LET elapsed == saturating_sub(now.slot, r.last_update_slot)
        per_slot == WAD + current_borrow_rate(r) \div SAVE_SLOTS_PER_YEAR
    IN  IF elapsed = 0 \/ r.borrowed = 0
          THEN [borrowed |-> r.borrowed, fees |-> r.fees]
          ELSE with_new_debt(r, wad_mul(r.borrowed, wad_pow(per_slot, elapsed)))

with_accrual(r, accrued) == [r EXCEPT !.borrowed = accrued.borrowed, !.fees = accrued.fees]

pre_accrue(r, now) ==
    [with_accrual(r, accrue_interest(r, now)) EXCEPT !.last_update_slot = now.slot]

-----------------------------------------------------------------------------
(* Quotes                                                                    *)

owned(r) == from_u64(r.available) + r.borrowed - r.fees

\* Negative where the code reports an error.
total_supply_wad(r, now) == owned(with_accrual(r, accrue_interest(r, now)))

exchange_rate(r, total) ==
    IF total = 0 \/ r.supply = 0 THEN WAD ELSE wad_div(from_u64(r.supply), total)

\* Deliberate error: the exchange rate is applied the wrong way round.
LiquidityToCollateralInverted(liquidity, rate) ==
    to_floor_u64(wad_div(from_u64(liquidity), rate))

liquidity_to_collateral(liquidity, rate) == to_floor_u64(wad_mul(from_u64(liquidity), rate))
collateral_to_liquidity(collateral, rate) == to_floor_u64(wad_div(from_u64(collateral), rate))

\* Deliberate error: the new shares are rounded up.
MintUp(collateral, v, net) ==
    IF v.wrapper_supply = 0 THEN net
    ELSE ceil_div(collateral * v.wrapper_supply, v.intermediate_held)

\* Shares for the collateral a deposit brings: pro rata, rounded down.
wrapper_to_mint(collateral, v, net) ==
    IF v.wrapper_supply = 0 THEN net
    ELSE (collateral * v.wrapper_supply) \div v.intermediate_held

\* Deliberate error: a deposit that brings no collateral still mints.
DepositChecksSkipCollateral(r, total, v, net) ==
    /\ net > 0
    /\ v.wrapper_supply > 0 => v.intermediate_held > 0

\* What quote_deposit checks before it computes the shares.
DepositChecks(r, total, v, net) ==
    /\ net > 0
    /\ total >= 0
    /\ to_floor_u64(from_u64(net) + total) <= r.config.deposit_limit
    /\ liquidity_to_collateral(net, exchange_rate(r, total)) \in 1 .. U64 - 1
    /\ v.wrapper_supply > 0 => v.intermediate_held > 0

\* The quotes, given the reserve's total supply.
deposit_at_total(r, total, v, net) ==
    LET collateral == liquidity_to_collateral(net, exchange_rate(r, total))
        mint == wrapper_to_mint(collateral, v, net)
    IN  IF ~DepositChecks(r, total, v, net) THEN Refused
        ELSE IF mint \notin 1 .. U64 - 1 \/ v.wrapper_supply + mint >= U64 THEN Refused
        ELSE [mint |-> mint, brought |-> collateral, spends |-> net,
              before |-> v.intermediate_held, after |-> v.intermediate_held + collateral]

quote_deposit(r, now, v, net) == deposit_at_total(r, total_supply_wad(r, now), v, net)

\* Collateral redeemed for burnt shares: pro rata, rounded down.
ctokens_to_redeem(v, amount) == (amount * v.intermediate_held) \div v.wrapper_supply

Liquid(r, underlying) == underlying > 0 /\ underlying <= r.available

withdraw_at_total(r, total, v, amount) ==
    LET redeemed == ctokens_to_redeem(v, amount)
        rate == exchange_rate(r, total)
        underlying == collateral_to_liquidity(redeemed, rate)
    IN  IF amount = 0 \/ amount > v.wrapper_supply \/ v.intermediate_held = 0 THEN Refused
        ELSE IF total < 0 \/ redeemed \notin 1 .. U64 - 1 \/ rate = 0 THEN Refused
        ELSE IF ~Liquid(r, underlying) THEN Refused
        ELSE [pays |-> underlying, redeemed |-> redeemed,
              before |-> v.intermediate_held, after |-> v.intermediate_held - redeemed]

quote_withdraw(r, now, v, amount) == withdraw_at_total(r, total_supply_wad(r, now), v, amount)

-----------------------------------------------------------------------------
(* External: what the reserve does when a quoted trade is executed, or when  *)
(* somebody borrows.                                                         *)

Deposited(r, now, v, q) ==
    [pre_accrue(r, now) EXCEPT !.available = @ + q.spends, !.supply = @ + q.brought]

Withdrawn(r, now, v, q) ==
    [pre_accrue(r, now) EXCEPT !.available = @ - q.pays, !.supply = @ - q.redeemed]

Lent(r, now, amount) ==
    [pre_accrue(r, now) EXCEPT !.available = @ - amount, !.borrowed = @ + from_u64(amount)]
=============================================================================
