----------------------------- MODULE KlendSource ----------------------------
(***************************************************************************)
(* Quotes on a Klend reserve: your_venue/klend/math.rs, fraction.rs and      *)
(* withdrawal_caps.rs.                                                       *)
(*                                                                          *)
(* A reserve r has the fields of KlendState: available liquidity, borrowed   *)
(* amount and fees in fractions of ONE, collateral supply, slot and time of  *)
(* the last accrual, the collateral queued for withdrawal, the withdrawal    *)
(* cap, config, and flags: which of emergency_mode, an old version, a status *)
(* other than active, and block_ctoken_usage hold.                           *)
(***************************************************************************)
EXTENDS Checked, Sequences

CONSTANTS
    ONE,                                    \* one in fixed-point: 2^60
    KLEND_SLOTS_PER_YEAR, SECONDS_PER_YEAR

INTEREST_RATE_BASIS_LEGACY == 0
INTEREST_RATE_BASIS_TRUE_APR == 1

\* The fields of KlendState, and their types.
Fields ==
    {"available", "borrowed", "fees", "referrer_fees", "supply", "last_update_slot",
     "last_update_timestamp", "queued", "cap", "flags", "config"}

Typed(r) ==
    /\ DOMAIN r = Fields
    /\ {r.available, r.borrowed, r.fees, r.referrer_fees, r.supply, r.queued,
        r.last_update_slot, r.last_update_timestamp} \subseteq Nat
    /\ r.cap \in [interval: Nat, capacity: Int, current_total: Int, start: Nat]
    /\ r.config.host_fixed_interest_rate_bps \in Nat
    /\ r.config.protocol_take_rate_pct \in 0 .. 100
    /\ r.config.curve \in Seq([util: Nat, rate: Nat]) /\ r.config.curve # <<>>

from_num(x) == x * ONE
floor(f) == f \div ONE
ceil(f) == ceil_div(f, ONE)
frac_mul(x, y) == (x * y) \div ONE
frac_div(x, y) == (x * ONE) \div y
bps_to_fraction(bps) == from_num(bps) \div FULL_BPS
percent_to_fraction(pct) == from_num(pct) \div 100

\* Powers up to four, three terms of the binomial series beyond.
approximate_compounded_interest(rate, elapsed, units_per_year) ==
    LET base == rate \div units_per_year
        pow_two == frac_mul(ONE + base, ONE + base)
        first_term == base * elapsed
        second_term == (frac_mul(first_term, base) * (elapsed - 1)) \div 2
        third_term == (frac_mul(second_term, base) * (elapsed - 2)) \div 3
    IN  CASE elapsed = 0 -> ONE
          [] elapsed = 1 -> ONE + base
          [] elapsed = 2 -> pow_two
          [] elapsed = 3 -> frac_mul(pow_two, ONE + base)
          [] elapsed = 4 -> frac_mul(pow_two, pow_two)
          [] OTHER -> ONE + first_term + second_term + third_term

-----------------------------------------------------------------------------
(* Accrual                                                                   *)

\* The curve is a sequence of points, utilization and rate in basis points.
util_to_bps(util) == smaller((util * FULL_BPS + ONE \div 2) \div ONE, FULL_BPS)

on_segment(prev, next, util) ==
    ((util - bps_to_fraction(prev.util)) * saturating_sub(next.rate, prev.rate))
        \div (next.util - prev.util)
    + bps_to_fraction(prev.rate)

\* A point is met exactly, or a segment is entered: whichever comes first.
rate_at(curve, util, util_bps) ==
    LET met(k) == curve[k].util = util_bps
        within(k) == k > 1 /\ curve[k - 1].util < util_bps /\ util_bps < curve[k].util
        hits == {k \in 1 .. Len(curve) : met(k) \/ within(k)}
        i == CHOOSE k \in hits : \A j \in hits : k <= j
    IN  IF hits = {} THEN bps_to_fraction(curve[Len(curve)].rate)
        ELSE IF met(i) THEN bps_to_fraction(curve[i].rate)
        ELSE on_segment(curve[i - 1], curve[i], util)

lookup_borrow_rate(curve, utilization) ==
    rate_at(curve, smaller(utilization, ONE), util_to_bps(smaller(utilization, ONE)))

\* total_supply_core.  Below zero the code's unsigned subtraction overflows.
total_supply_core(available, borrowed, fees, referrer_fees) ==
    from_num(available) + borrowed - fees - referrer_fees

total_supply_fraction_pre(r) ==
    total_supply_core(r.available, r.borrowed, r.fees, r.referrer_fees)

\* Fees do not exceed what the reserve owns, and something is behind every unit
\* of collateral; what is queued has been issued.
Solvent(r) ==
    /\ total_supply_fraction_pre(r) >= (IF r.supply > 0 THEN 1 ELSE 0)
    /\ r.queued <= r.supply

utilization_rate(borrowed, total_supply) ==
    IF total_supply = 0 THEN 0 ELSE frac_div(borrowed, total_supply)

\* AccrualDuration: slots, or seconds since a time that was ever recorded.
elapsed_units(r, now) ==
    IF r.config.basis = INTEREST_RATE_BASIS_LEGACY
      THEN saturating_sub(now.slot, r.last_update_slot)
    ELSE IF r.last_update_timestamp = 0 THEN 0
    ELSE saturating_sub(now.timestamp, r.last_update_timestamp)

known_basis(r) ==
    r.config.basis \in {INTEREST_RATE_BASIS_LEGACY, INTEREST_RATE_BASIS_TRUE_APR}

units_per_year(r) ==
    IF r.config.basis = INTEREST_RATE_BASIS_LEGACY THEN KLEND_SLOTS_PER_YEAR ELSE SECONDS_PER_YEAR

\* The host's fee and the protocol's part of the rest go to the fees.
with_new_debt(r, new_debt, fixed_host_fee) ==
    [borrowed |-> new_debt,
     fees |-> r.fees + fixed_host_fee
              + frac_mul(new_debt - r.borrowed - fixed_host_fee,
                         percent_to_fraction(r.config.protocol_take_rate_pct))]

compound_interest(r, elapsed, borrow_rate, host_rate) ==
    LET compounded(rate) ==
            frac_mul(r.borrowed, approximate_compounded_interest(rate, elapsed, units_per_year(r)))
    IN  with_new_debt(r, compounded(borrow_rate + host_rate), compounded(host_rate) - r.borrowed)

\* Debt and protocol fees now.  The referral rate is zero, so the referrers'
\* fees stay as they are.
accrue_interest(r, now) ==
    IF elapsed_units(r, now) = 0 THEN [borrowed |-> r.borrowed, fees |-> r.fees]
    ELSE compound_interest(r, elapsed_units(r, now),
             lookup_borrow_rate(r.config.curve,
                 utilization_rate(r.borrowed, total_supply_fraction_pre(r))),
             bps_to_fraction(r.config.host_fixed_interest_rate_bps))

with_accrual(r, accrued) == [r EXCEPT !.borrowed = accrued.borrowed, !.fees = accrued.fees]

\* Deliberate error: only the slot is recorded, not the time.
pre_accrue_slot_only(r, now) ==
    [with_accrual(r, accrue_interest(r, now)) EXCEPT !.last_update_slot = now.slot]

pre_accrue(r, now) ==
    IF ~known_basis(r) THEN r
    ELSE [with_accrual(r, accrue_interest(r, now)) EXCEPT
            !.last_update_slot = now.slot, !.last_update_timestamp = now.timestamp]

total_supply_fraction(r, now) ==
    total_supply_fraction_pre(with_accrual(r, accrue_interest(r, now)))

-----------------------------------------------------------------------------
(* Collateral and liquidity.  A rate x is the pair of collateral supply cs   *)
(* and total supply ts.                                                      *)

exchange_rate_pair(collateral_supply, total_supply) ==
    IF collateral_supply = 0 \/ total_supply = 0 THEN [cs |-> 1, ts |-> ONE]
    ELSE [cs |-> collateral_supply, ts |-> total_supply]

exchange_rate(r, now) == exchange_rate_pair(r.supply, total_supply_fraction(r, now))

\* Deliberate error: a deposit's collateral is rounded up.
liquidity_to_collateral_up(liquidity, x) == ceil(frac_div(from_num(x.cs * liquidity), x.ts))

\* BigFraction: the quotient is a fraction first, then rounded down.
liquidity_to_collateral(liquidity, x) ==
    floor(frac_div(from_num(x.cs * liquidity), x.ts))

collateral_to_liquidity_ceil(collateral, x) == ceil(ceil_div(collateral * x.ts, x.cs))

fraction_collateral_to_liquidity(collateral, x) == (collateral * x.ts) \div x.cs

collateral_to_liquidity(collateral, x) == floor(fraction_collateral_to_liquidity(collateral, x))

fraction_liquidity_to_collateral_ceil(liquidity, x) ==
    ceil_div(from_num(liquidity * x.cs), x.ts)

\* Deliberate error: the running total of the interval is ignored.
remaining_amount_full(cap, now) ==
    IF cap.interval = 0 THEN U64 - 1 ELSE larger(cap.capacity, 0)

interval_elapsed(cap, now) == saturating_sub(now.timestamp, cap.start) >= cap.interval

\* What the withdrawal cap leaves.  The total is negative after net deposits.
remaining_amount(cap, now) ==
    LET current_total == IF interval_elapsed(cap, now) THEN 0 ELSE cap.current_total
    IN  IF cap.interval = 0 THEN U64 - 1
        ELSE IF cap.capacity < 0 THEN 0
        ELSE saturating_sub(cap.capacity, current_total)

-----------------------------------------------------------------------------
(* Quotes                                                                    *)

deposits_open(r) == r.flags = {}
withdrawals_open(r) == r.flags \cap {"emergency_mode", "deprecated"} = {}

wrapper_to_mint(collateral, v, net) ==
    IF v.wrapper_supply = 0 THEN net
    ELSE (collateral * v.wrapper_supply) \div v.intermediate_held

\* Liquidity taken for the collateral: rounded up, at most the net amount.
liquidity_amount_to_deposit(net, x) ==
    collateral_to_liquidity_ceil(liquidity_to_collateral(net, x), x)

DepositChecks(r, total_supply, v, net, collateral, to_deposit) ==
    /\ net > 0 /\ deposits_open(r) /\ known_basis(r)
    /\ collateral \in 1 .. U64 - 1
    /\ to_deposit <= net
    /\ from_num(to_deposit) + total_supply <= from_num(r.config.deposit_limit)
    /\ v.wrapper_supply > 0 => v.intermediate_held > 0

\* The quote at the reserve's total supply and the exchange rate x it gives.
deposit_at_rate(r, total_supply, x, v, net) ==
    LET collateral == liquidity_to_collateral(net, x)
        to_deposit == liquidity_amount_to_deposit(net, x)
        mint == wrapper_to_mint(collateral, v, net)
    IN  IF ~DepositChecks(r, total_supply, v, net, collateral, to_deposit) THEN Refused
        ELSE IF mint \notin 1 .. U64 - 1 \/ v.wrapper_supply + mint >= U64 THEN Refused
        ELSE [mint |-> mint, brought |-> collateral, spends |-> to_deposit,
              before |-> v.intermediate_held, after |-> v.intermediate_held + collateral]

quote_deposit(r, now, v, net) ==
    deposit_at_rate(r, total_supply_fraction(r, now), exchange_rate(r, now), v, net)

ctokens_to_redeem(v, amount) == (amount * v.intermediate_held) \div v.wrapper_supply

\* Deliberate error: queued withdrawals may be overtaken.
freely_available_unqueued(r, x) == r.available

\* Liquidity that is not queued for earlier withdrawals.
freely_available(r, x) == saturating_sub(r.available, collateral_to_liquidity(r.queued, x))

withdraw_at_rate(r, x, now, v, amount) ==
    LET redeemed == ctokens_to_redeem(v, amount)
        underlying == collateral_to_liquidity(redeemed, x)
    IN  IF amount = 0 \/ ~withdrawals_open(r) \/ amount > v.wrapper_supply THEN Refused
        ELSE IF v.intermediate_held = 0 \/ redeemed \notin 1 .. U64 - 1 THEN Refused
        ELSE IF ~known_basis(r) \/ underlying = 0 THEN Refused
        ELSE IF underlying > freely_available(r, x) THEN Refused
        ELSE IF underlying > remaining_amount(r.cap, now) THEN Refused
        ELSE [pays |-> underlying, redeemed |-> redeemed,
              before |-> v.intermediate_held, after |-> v.intermediate_held - redeemed]

quote_withdraw(r, now, v, amount) == withdraw_at_rate(r, exchange_rate(r, now), now, v, amount)

-----------------------------------------------------------------------------
(* External: what the reserve does when a quoted trade is executed, when     *)
(* somebody borrows, or queues collateral for withdrawal.                    *)

\* A new interval starts with the first trade after the last one.
Counted(cap, now, amount) ==
    IF interval_elapsed(cap, now)
      THEN [cap EXCEPT !.start = now.timestamp, !.current_total = amount]
      ELSE [cap EXCEPT !.current_total = @ + amount]

Deposited(r, now, v, q) ==
    [pre_accrue(r, now) EXCEPT !.available = @ + q.spends, !.supply = @ + q.brought,
                               !.cap = Counted(@, now, -q.spends)]

Withdrawn(r, now, v, q) ==
    [pre_accrue(r, now) EXCEPT !.available = @ - q.pays, !.supply = @ - q.redeemed,
                               !.cap = Counted(@, now, q.pays)]

Lent(r, now, amount) ==
    [pre_accrue(r, now) EXCEPT !.available = @ - amount, !.borrowed = @ + from_num(amount)]
=============================================================================
