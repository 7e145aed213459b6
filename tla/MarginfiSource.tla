--------------------------- MODULE MarginfiSource ---------------------------
(***************************************************************************)
(* Quotes on a Marginfi bank: your_venue/marginfi/math.rs.                   *)
(*                                                                          *)
(* A bank r has the fields of MarginfiState: the values of an asset share    *)
(* and of a liability share, the total of each kind of share, all in         *)
(* fractions of FIX, the time of the last accrual, operational_state, config *)
(* and the group's program fees.  v.intermediate_held stands for             *)
(* cached_user_asset_shares, the raw bits of the shares that the vault's     *)
(* marginfi account holds.  All quantities are non-negative.                 *)
(***************************************************************************)
EXTENDS Checked, Sequences

CONSTANTS
    FIX,                  \* one in fixed-point: 2^48
    YEAR,                 \* 31_536_000 seconds
    U32_MAX               \* the largest u32: utilization one, rate ten

INTEREST_CURVE_LEGACY == 0
INTEREST_CURVE_SEVEN_POINT == 1

\* The fields of MarginfiState, and the balance of the bank's liquidity vault.
Fields ==
    {"available", "asset_share_value", "liability_share_value", "asset_shares",
     "liability_shares", "last_update", "operational_state", "config", "group"}

\* What the fields hold: shares, their values and rates are not negative, a
\* liability share is worth something, and a curve does not fall.
CurveTyped(c) ==
    /\ {c.optimal_utilization_rate, c.plateau_interest_rate, c.max_interest_rate,
        c.zero_util_rate, c.hundred_util_rate} \subseteq Nat
    /\ c.optimal_utilization_rate <= FIX /\ c.plateau_interest_rate <= c.max_interest_rate
    /\ c.points \in Seq([util : Nat, rate : Nat])
FeesTyped(r) ==
    {r.config.insurance_ir_fee, r.config.protocol_ir_fee, r.config.insurance_fee_fixed_apr,
     r.config.protocol_fixed_fee_apr, r.group.fee_rate, r.group.fee_fixed} \subseteq Nat
Typed(r) ==
    /\ DOMAIN r = Fields /\ CurveTyped(r.config) /\ FeesTyped(r) /\ r.last_update \in Int
    /\ {r.asset_share_value, r.asset_shares, r.liability_shares} \subseteq Nat
    /\ r.liability_share_value \in Nat \ {0}

fix(x) == x * FIX
fix_mul(x, y) == (x * y) \div FIX
fix_div(x, y) == (x * FIX) \div y

-----------------------------------------------------------------------------
(* InterestRateCalc                                                          *)

NoRate == -1     \* the code reports an error

interest_rate_curve(c, ur) ==
    IF ur <= c.optimal_utilization_rate
      THEN IF c.optimal_utilization_rate = 0 THEN NoRate
           ELSE fix_mul(fix_div(ur, c.optimal_utilization_rate), c.plateau_interest_rate)
    ELSE IF c.optimal_utilization_rate = FIX THEN NoRate
    ELSE fix_mul(fix_div(ur - c.optimal_utilization_rate, FIX - c.optimal_utilization_rate),
                 c.max_interest_rate - c.plateau_interest_rate)
         + c.plateau_interest_rate

rate_from_u32(rate) == fix_mul(fix_div(fix(rate), fix(U32_MAX)), fix(10))
util_from_u32(util) == fix_div(fix(util), fix(U32_MAX))

\* Falling curves are refused.
lerp(start_x, start_y, end_x, end_y, target_x) ==
    IF end_x <= start_x THEN start_y
    ELSE IF target_x < start_x \/ target_x > end_x \/ end_y < start_y THEN NoRate
    ELSE start_y + fix_mul(end_y - start_y, fix_div(target_x - start_x, end_x - start_x))

\* The points of the curve: those of utilization zero are unused; it starts at
\* utilization zero, as point 0, and ends at one.
used_points(c) == {i \in 1 .. Len(c.points) : c.points[i].util # 0}
point_util(c, i) ==
    IF i = 0 THEN 0 ELSE IF i > Len(c.points) THEN FIX ELSE util_from_u32(c.points[i].util)
point_rate(c, i) ==
    rate_from_u32(IF i = 0 THEN c.zero_util_rate
                  ELSE IF i > Len(c.points) THEN c.hundred_util_rate
                  ELSE c.points[i].rate)

\* The segment that a utilization is on: up to the first point that it does not
\* exceed, from the one before.
segment_end(c, ur) ==
    CHOOSE i \in used_points(c) \cup {Len(c.points) + 1} :
        /\ i <= Len(c.points) => ur <= point_util(c, i)
        /\ \A j \in used_points(c) : j < i => ur > point_util(c, j)
segment_start(c, end) ==
    CHOOSE i \in used_points(c) \cup {0} :
        i < end /\ \A j \in used_points(c) : j < end => j <= i

interest_rate_multipoint_curve(c, utilization) ==
    LET ur == smaller(utilization, FIX)
        end == segment_end(c, ur)
        start == segment_start(c, end)
    IN  lerp(point_util(c, start), point_rate(c, start), point_util(c, end), point_rate(c, end), ur)

base_rate_apr(c, ur) ==
    CASE c.curve_type = INTEREST_CURVE_LEGACY -> interest_rate_curve(c, ur)
      [] c.curve_type = INTEREST_CURVE_SEVEN_POINT -> interest_rate_multipoint_curve(c, ur)
      [] OTHER -> NoRate

\* get_fees: insurance, group and program fees, by rate and fixed.
fee_ir(r) ==
    r.config.insurance_ir_fee + r.config.protocol_ir_fee
    + (IF r.group.enabled THEN r.group.fee_rate ELSE 0)
fee_fixed(r) ==
    r.config.insurance_fee_fixed_apr + r.config.protocol_fixed_fee_apr
    + (IF r.group.enabled THEN r.group.fee_fixed ELSE 0)

lending_rate_apr(base, ur) == fix_mul(base, ur)
borrowing_rate_apr(r, base) == fix_mul(base, FIX + fee_ir(r)) + fee_fixed(r)

calc_accrued_interest_payment_per_period(apr, time_delta, value) ==
    fix_mul(value, FIX + (apr * time_delta) \div YEAR)

-----------------------------------------------------------------------------
(* Accrual                                                                   *)

total_assets(r) == fix_mul(r.asset_shares, r.asset_share_value)
total_liabilities(r) == fix_mul(r.liability_shares, r.liability_share_value)
utilization(r) == fix_div(total_liabilities(r), total_assets(r))

\* Share values stay as they are: a bank that never accrued, a clock that did
\* not advance, nothing lent.
Dormant(r, now) ==
    \/ r.last_update <= 0 \/ now.timestamp <= r.last_update
    \/ total_assets(r) = 0 \/ total_liabilities(r) = 0

AccrualFails(r, now) ==
    ~Dormant(r, now) /\ base_rate_apr(r.config, utilization(r)) = NoRate

\* Deliberate error: lenders are paid the rate that borrowers pay.
share_values_gross(r, base, ur, elapsed) ==
    LET after(apr, value) == calc_accrued_interest_payment_per_period(apr, elapsed, value)
    IN  [asset |-> after(borrowing_rate_apr(r, base), r.asset_share_value),
         liability |-> after(borrowing_rate_apr(r, base), r.liability_share_value)]

share_values_after(r, base, ur, elapsed) ==
    LET after(apr, value) == calc_accrued_interest_payment_per_period(apr, elapsed, value)
    IN  [asset |-> after(lending_rate_apr(base, ur), r.asset_share_value),
         liability |-> after(borrowing_rate_apr(r, base), r.liability_share_value)]

accrue_share_values(r, now) ==
    IF Dormant(r, now) THEN [asset |-> r.asset_share_value, liability |-> r.liability_share_value]
    ELSE share_values_after(r, base_rate_apr(r.config, utilization(r)), utilization(r),
                            now.timestamp - r.last_update)

with_share_values(r, accrued) ==
    [r EXCEPT !.asset_share_value = accrued.asset, !.liability_share_value = accrued.liability]

pre_accrue(r, now) ==
    IF AccrualFails(r, now) THEN r
    ELSE [with_share_values(r, accrue_share_values(r, now)) EXCEPT !.last_update = now.timestamp]

-----------------------------------------------------------------------------
(* Quotes                                                                    *)

deposits_open(r) == r.operational_state = "Operational" /\ ~r.config.drift
withdrawals_open(r) == r.operational_state \in {"Operational", "ReduceOnly"} /\ ~r.config.drift

\* The bits of the asset shares that an amount buys at a share's value.
shares_delta(net, value) == fix_div(fix(net), value)

\* Zero and the largest u64 mean no limit; a limit itself is never reached.
BelowDepositLimit(r, value, shares) ==
    \/ r.config.deposit_limit \in {0, U64 - 1}
    \/ fix_mul(r.asset_shares + shares, value) < fix(r.config.deposit_limit)

\* The product of shares and supply is exact, the quotient a fraction, floored.
wrapper_to_mint(shares, v, net) ==
    IF v.wrapper_supply = 0 THEN net
    ELSE fix_div(shares * v.wrapper_supply, v.intermediate_held) \div FIX

deposit_at_value(r, value, v, net) ==
    LET shares == shares_delta(net, value)
        mint == wrapper_to_mint(shares, v, net)
    IN  IF value = 0 THEN Refused
        ELSE IF ~BelowDepositLimit(r, value, shares) \/ shares \notin Nat \ {0} THEN Refused
        ELSE IF v.wrapper_supply > 0 /\ v.intermediate_held <= 0 THEN Refused
        ELSE IF mint \notin 1 .. U64 - 1 \/ v.wrapper_supply + mint >= U64 THEN Refused
        ELSE [mint |-> mint, brought |-> shares, spends |-> net,
              before |-> v.intermediate_held, after |-> v.intermediate_held + shares]

quote_deposit(r, now, v, net) ==
    IF ~deposits_open(r) \/ net = 0 \/ AccrualFails(r, now) THEN Refused
    ELSE deposit_at_value(r, accrue_share_values(r, now).asset, v, net)

shares_pro_rata(v, amount) == (amount * v.intermediate_held) \div v.wrapper_supply

\* Deliberate error: what borrowers owe is not set aside.
Covered_by_assets(r, accrued, underlying) ==
    fix_mul(r.asset_shares, accrued.asset) >= fix(underlying)

\* Assets left after the withdrawal cover the liabilities.
Covered(r, accrued, underlying) ==
    fix_mul(r.asset_shares, accrued.asset) - fix(underlying)
      >= fix_mul(r.liability_shares, accrued.liability)

withdraw_at_values(r, accrued, v, redeemed) ==
    LET underlying == fix_mul(redeemed, accrued.asset) \div FIX
    IN  IF underlying \notin 1 .. U64 - 1 \/ ~Covered(r, accrued, underlying) THEN Refused
        ELSE [pays |-> underlying, redeemed |-> redeemed,
              before |-> v.intermediate_held, after |-> v.intermediate_held - redeemed]

quote_withdraw(r, now, v, amount) ==
    LET redeemed == shares_pro_rata(v, amount)
    IN  IF amount = 0 \/ ~withdrawals_open(r) \/ amount > v.wrapper_supply THEN Refused
        ELSE IF v.intermediate_held <= 0 \/ redeemed = 0 \/ AccrualFails(r, now) THEN Refused
        ELSE withdraw_at_values(r, accrue_share_values(r, now), v, redeemed)

-----------------------------------------------------------------------------
(* External: what the bank does when a quoted trade is executed, or when     *)
(* somebody borrows.  available is the balance of its liquidity vault, which *)
(* the quotes never read.                                                    *)

Deposited(r, now, v, q) ==
    [pre_accrue(r, now) EXCEPT !.available = @ + q.spends, !.asset_shares = @ + q.brought]

Withdrawn(r, now, v, q) ==
    [pre_accrue(r, now) EXCEPT !.available = @ - q.pays, !.asset_shares = @ - q.redeemed]

Borrowed(r, amount) ==
    [r EXCEPT !.available = @ - amount,
              !.liability_shares = @ + ceil_div(fix(amount) * FIX, r.liability_share_value)]
Lent(r, now, amount) == Borrowed(pre_accrue(r, now), amount)
=============================================================================
