---------------------------- MODULE KvaultSource ----------------------------
(***************************************************************************)
(* Quotes on a Kamino vault: your_venue/kvault/math.rs, the derived fields   *)
(* that update.rs computes, and convert_stake_to_amount of state.rs.         *)
(*                                                                          *)
(* A vault r has the fields of KvaultState: available tokens, shares_issued, *)
(* fees in fractions of ONE, limits and penalties, and allocs: the sequence  *)
(* of allocations, each with its weight, cap, ctokens and the Klend reserve  *)
(* that they are held in.  missing: a reserve's account could not be read.   *)
(* farm: where the wrapper vault's shares are staked, if it uses farms.      *)
(***************************************************************************)
EXTENDS KlendSource

CONSTANTS
    KVAULT_YEAR,         \* 31_556_926 seconds
    MAX_QUOTE_DEPOSIT,   \* u64::MAX / 32
    FARM_WAD             \* 10^18

None == -1

\* The fields of KvaultState.  Its allocations are in Klend reserves.
KvaultFields ==
    {"available", "shares_issued", "pending_fees", "prev_aum", "last_fee_charge_timestamp",
     "management_fee_bps", "performance_fee_bps", "min_deposit_amount", "min_withdraw_amount",
     "deposit_cap", "crank_fund_fee_per_reserve", "penalty_bps", "penalty_lamports",
     "global_penalty_bps", "global_penalty_lamports", "missing", "cached_aum", "allocs", "farm"}
AllocsTyped(allocs) ==
    /\ allocs \in Seq({allocs[i] : i \in DOMAIN allocs})
    /\ \A i \in DOMAIN allocs :
          /\ DOMAIN allocs[i] = {"weight", "cap", "ctokens", "reserve"}
          /\ DOMAIN allocs[i].reserve = Fields

\* The ctokens of an allocation are part of the collateral that its reserve, which
\* is solvent, has issued.
AllocHolds(alloc) ==
    /\ Typed(alloc.reserve) /\ Solvent(alloc.reserve) /\ known_basis(alloc.reserve)
    /\ alloc.ctokens \in Nat /\ alloc.ctokens + alloc.reserve.queued <= alloc.reserve.supply

\* What the vault's administrators set, what its trades change, and their types.
Settings ==
    {"management_fee_bps", "performance_fee_bps", "min_deposit_amount", "min_withdraw_amount",
     "deposit_cap", "crank_fund_fee_per_reserve", "penalty_bps", "penalty_lamports",
     "global_penalty_bps", "global_penalty_lamports"}
Balances ==
    {"available", "shares_issued", "pending_fees", "prev_aum", "last_fee_charge_timestamp"}
KvaultTyped(r) ==
    /\ \A f \in Settings \cup Balances : r[f] \in Nat
    /\ \A i \in DOMAIN r.allocs : AllocHolds(r.allocs[i])

-----------------------------------------------------------------------------
(* Position and assets under management                                      *)

convert_stake_to_amount(stake, total_stake, total_amount) ==
    IF stake = 0 THEN 0
    ELSE IF total_stake = 0 THEN total_amount
    ELSE ((stake * FARM_WAD * total_amount) \div total_stake) \div FARM_WAD

\* Deliberate error: staked shares are not counted.
position_idle(r, v) == IF r.farm.used THEN r.farm.idle ELSE v.intermediate_held

\* position_kvault_shares: idle and staked shares, or what the wrapper recorded.
position_kvault_shares(r, v) ==
    IF r.farm.used
      THEN r.farm.idle
           + convert_stake_to_amount(r.farm.stake, r.farm.total_stake, r.farm.total_amount)
      ELSE v.intermediate_held

\* What the allocations hold, and the exchange rates of their reserves.
ctokens_held(r) == [i \in DOMAIN r.allocs |-> r.allocs[i].ctokens]
reserve_rates(r, now) == [i \in DOMAIN r.allocs |-> exchange_rate(r.allocs[i].reserve, now)]

invested_for_allocation(held, x) == fraction_collateral_to_liquidity(held, x)

\* The sum of the numbers s[1] to s[n].
sum_to(s, n) ==
    LET sum[i \in 0 .. n] == IF i = 0 THEN 0 ELSE sum[i - 1] + s[i]
    IN  sum[n]

invested_total(r, now) ==
    sum_to([i \in DOMAIN r.allocs |->
                invested_for_allocation(ctokens_held(r)[i], reserve_rates(r, now)[i])],
           Len(r.allocs))

holdings_total(r, now) == from_num(r.available) + invested_total(r, now)

\* Deliberate error: new fees may exceed what they are taken from.
charged_pending_fees_uncapped(r, now, holdings) ==
    LET seconds_passed == saturating_sub(now.timestamp, r.last_fee_charge_timestamp)
    IN  r.pending_fees + seconds_passed * r.prev_aum

\* Management fee on the last assets, performance fee on what was earned since,
\* together at most the assets themselves.
charged_pending_fees(r, now, holdings) ==
    LET seconds_passed == saturating_sub(now.timestamp, r.last_fee_charge_timestamp)
        new_aum_preview == saturating_sub(holdings, r.pending_fees)
        mgmt_charge ==
            frac_mul(r.prev_aum,
                     (bps_to_fraction(r.management_fee_bps) * seconds_passed) \div KVAULT_YEAR)
        perf_charge ==
            frac_mul(bps_to_fraction(r.performance_fee_bps),
                     saturating_sub(new_aum_preview, r.prev_aum))
    IN  IF r.last_fee_charge_timestamp = 0 THEN r.pending_fees
        ELSE r.pending_fees + smaller(mgmt_charge + perf_charge, new_aum_preview)

\* An allocation whose reserve is not cached has no value.
reserve_not_cached(r) == r.missing /\ r.allocs # <<>>

aum_of(r, holdings, fees) ==
    IF reserve_not_cached(r) \/ holdings < fees THEN None ELSE holdings - fees

aum_after_fees(r, now, holdings) == aum_of(r, holdings, charged_pending_fees(r, now, holdings))

\* None: a reserve is missing, or the fees exceed the holdings.
compute_current_aum(r, now) == aum_after_fees(r, now, holdings_total(r, now))

\* As of the last update, if that could compute it.
current_aum(r, now) == IF r.cached_aum # None THEN r.cached_aum ELSE compute_current_aum(r, now)

protocol_cap(r, aum) ==
    IF r.deposit_cap = 0 THEN U64 - 1
    ELSE IF aum = None THEN 0
    ELSE saturating_sub(r.deposit_cap, smaller(ceil(aum), U64 - 1))

\* cached_max_deposit: what the vault's cap leaves.
cached_max_deposit(r, now) ==
    smaller(protocol_cap(r, compute_current_aum(r, now)), MAX_QUOTE_DEPOSIT)

\* The reserves accrue, on chain or in the copy an update has fetched.
reserves_accrued(r, now) ==
    [r EXCEPT !.allocs = [i \in DOMAIN r.allocs |->
                             [r.allocs[i] EXCEPT !.reserve = pre_accrue(@, now)]]]

\* What an update adds to the decoded account.
with_cached_aum(r, now) == [r EXCEPT !.cached_aum = compute_current_aum(r, now)]
pre_accrue_kvault(r, now) == with_cached_aum(reserves_accrued(r, now), now)

-----------------------------------------------------------------------------
(* Deposits                                                                  *)

fraction_full_mul_int_ratio(f, mult, div) == (f * mult) \div div

\* Assets are rounded up, shares down.
get_shares_to_mint(aum, amount, shares_issued) ==
    IF shares_issued = 0 THEN amount
    ELSE floor(fraction_full_mul_int_ratio(from_num(shares_issued), amount, ceil(aum)))

crank_funds(r) ==
    LET paying(alloc) == alloc.weight > 0 /\ alloc.cap > 0
    IN  sum_to([i \in DOMAIN r.allocs |-> IF paying(r.allocs[i]) THEN 1 ELSE 0], Len(r.allocs))
          * r.crank_fund_fee_per_reserve

kvault_to_mint(shares, position, v, net) ==
    IF v.wrapper_supply = 0 THEN net ELSE (shares * v.wrapper_supply) \div position

\* The quote for the tokens that are left of it, at the present assets.
deposit_at_aum(r, aum, now, v, net, max_user_tokens) ==
    LET position == position_kvault_shares(r, v)
        shares == get_shares_to_mint(aum, max_user_tokens, r.shares_issued)
        mint == kvault_to_mint(shares, position, v, net)
    IN  IF net = 0 \/ max_user_tokens < 0 \/ max_user_tokens < r.min_deposit_amount THEN Refused
        ELSE IF max_user_tokens > cached_max_deposit(r, now) \/ aum = None THEN Refused
        ELSE IF r.shares_issued > 0 /\ aum = 0 THEN Refused
        ELSE IF shares \notin 1 .. U64 - 1 \/ (v.wrapper_supply > 0 /\ position = 0) THEN Refused
        ELSE IF mint \notin 1 .. U64 - 1 \/ v.wrapper_supply + mint >= U64 THEN Refused
        ELSE [mint |-> mint, brought |-> shares, spends |-> max_user_tokens,
              before |-> position, after |-> v.intermediate_held + shares]

kvault_quote_deposit(r, now, v, net) ==
    deposit_at_aum(r, current_aum(r, now), now, v, net, net - crank_funds(r))

-----------------------------------------------------------------------------
(* Withdrawals                                                               *)

kvault_shares_to_redeem(r, v, amount) ==
    (amount * position_kvault_shares(r, v)) \div v.wrapper_supply

total_with_penalty(r, aum, shares) ==
    IF shares = r.shares_issued THEN floor(aum)
    ELSE floor(fraction_full_mul_int_ratio(aum, shares, r.shares_issued))

\* The stricter of the vault's and the global penalty, each way.
withdrawal_penalty(r, total) ==
    larger(ceil_div(total * larger(r.penalty_bps, r.global_penalty_bps), FULL_BPS),
           larger(r.penalty_lamports, r.global_penalty_lamports))

\* The allocation with most ctokens; of several the last.
last_largest(s) ==
    CHOOSE i \in DOMAIN s : \A j \in DOMAIN s : s[j] < s[i] \/ (s[j] = s[i] /\ j <= i)
primary(r) == last_largest(ctokens_held(r))

\* Deliberate error: liquidity taken out is rounded down to ctokens.
disinvest_floor(held, x, to_disinvest) ==
    LET send == smaller(fraction_collateral_to_liquidity(held, x), from_num(to_disinvest))
    IN  [ctokens |-> liquidity_to_collateral(floor(send), x), sent |-> floor(send)]

\* What is taken out of the ctokens held for a withdrawal, at exchange rate x:
\* ctokens, and the tokens that reach the user for them.
disinvest(held, x, to_disinvest) ==
    LET send == smaller(fraction_collateral_to_liquidity(held, x), from_num(to_disinvest))
        ctokens == smaller(fraction_liquidity_to_collateral_ceil(floor(send), x), held)
        liquidity == fraction_collateral_to_liquidity(ctokens, x)
        rounding_err == IF liquidity % ONE > 0 /\ liquidity % ONE > send % ONE THEN 1 ELSE 0
    IN  IF send = 0 THEN [ctokens |-> 0, sent |-> 0]
        ELSE [ctokens |-> ctokens, sent |-> saturating_sub(floor(send), rounding_err)]

disinvest_primary(r, now, to_disinvest) ==
    disinvest(ctokens_held(r)[primary(r)], reserve_rates(r, now)[primary(r)], to_disinvest)

available_to_send(r, total) == smaller(r.available, total)

final_for_user(r, now, total) ==
    LET sent == available_to_send(r, total)
    IN  IF total <= sent THEN total ELSE sent + disinvest_primary(r, now, total - sent).sent

\* What of a withdrawal the user gets: the penalty taken off, then what the
\* vault can send.
pay_out(r, v, redeemed, for_user, final) ==
    IF final = 0 \/ final <= r.min_withdraw_amount \/ redeemed > v.intermediate_held THEN Refused
    ELSE [pays |-> final, redeemed |-> redeemed, total |-> for_user,
          before |-> position_kvault_shares(r, v), after |-> v.intermediate_held - redeemed]

pay_for_user(r, now, v, redeemed, for_user) ==
    IF for_user <= 0 \/ (for_user > r.available /\ r.allocs = <<>>) THEN Refused
    ELSE pay_out(r, v, redeemed, for_user, final_for_user(r, now, for_user))

withdraw_at_aum(r, aum, now, v, amount) ==
    LET redeemed == kvault_shares_to_redeem(r, v, amount)
        total == total_with_penalty(r, aum, redeemed)
    IN  IF amount = 0 \/ amount > v.wrapper_supply \/ position_kvault_shares(r, v) = 0 THEN Refused
        ELSE IF redeemed \notin 1 .. U64 - 1 \/ aum \in {None, 0} \/ r.shares_issued = 0 THEN Refused
        ELSE IF total = 0 THEN Refused
        ELSE pay_for_user(r, now, v, redeemed, total - withdrawal_penalty(r, total))

kvault_quote_withdraw(r, now, v, amount) ==
    withdraw_at_aum(r, current_aum(r, now), now, v, amount)

-----------------------------------------------------------------------------
(* External: what the vault does when a quoted trade is executed, or when    *)
(* its crank invests.                                                        *)

\* Every trade charges the fees first, and records the assets after it.
Charged(r, now) ==
    [r EXCEPT !.pending_fees = charged_pending_fees(r, now, holdings_total(r, now)),
              !.last_fee_charge_timestamp = now.timestamp]
Settled(r, now) ==
    [r EXCEPT !.prev_aum = saturating_sub(holdings_total(r, now), r.pending_fees)]

\* The wrapper's shares are staked as they come and unstaked as they go; a
\* share is a fixed number of stake.
Staked(farm, shares) ==
    LET scale == farm.total_stake \div farm.total_amount
    IN  IF ~farm.used THEN farm
        ELSE [farm EXCEPT !.stake = @ + shares * scale, !.total_stake = @ + shares * scale,
                          !.total_amount = @ + shares]

KvaultDeposited(r, now, v, q) ==
    Settled([Charged(r, now) EXCEPT !.available = @ + q.spends, !.shares_issued = @ + q.brought,
                                    !.farm = Staked(@, q.brought)], now)

\* What a withdrawal of q takes out of the primary allocation.
TakenOut(r, now, q) ==
    IF q.total <= r.available THEN [ctokens |-> 0, sent |-> 0]
    ELSE disinvest_primary(r, now, q.total - r.available)

\* Its reserve must have the liquidity; the quote does not look.
Redeemable(reserve, now, ctokens) ==
    ctokens > 0 => collateral_to_liquidity(ctokens, exchange_rate(reserve, now)) <= reserve.available
ReserveLiquid(r, now, q) ==
    Redeemable(r.allocs[primary(r)].reserve, now, TakenOut(r, now, q).ctokens)

\* Disinvesting redeems ctokens of allocation i at its reserve, for liquidity;
\* what is not sent stays.
AllocRedeemed(alloc, reserve, ctokens, liquidity) ==
    [alloc EXCEPT
        !.ctokens = @ - ctokens,
        !.reserve = [reserve EXCEPT !.available = @ - liquidity, !.supply = @ - ctokens]]
Redeemed(r, i, reserve, ctokens, liquidity) ==
    [r EXCEPT !.available = @ + liquidity,
              !.allocs[i] = AllocRedeemed(@, reserve, ctokens, liquidity)]

RedeemedAt(r, i, reserve, now, ctokens) ==
    Redeemed(r, i, reserve, ctokens, collateral_to_liquidity(ctokens, exchange_rate(reserve, now)))

Disinvested(r, now, ctokens) ==
    IF ctokens = 0 THEN r
    ELSE RedeemedAt(r, primary(r), pre_accrue(r.allocs[primary(r)].reserve, now), now, ctokens)

KvaultWithdrawn(r, now, v, q) ==
    Settled([Disinvested(Charged(r, now), now, TakenOut(r, now, q).ctokens) EXCEPT
               !.available = @ - q.pays, !.shares_issued = @ - q.redeemed,
               !.farm = Staked(@, -q.redeemed)], now)

\* The crank puts available tokens into the first allocation.
Investable(r, now, amount) ==
    /\ r.allocs # <<>> /\ amount <= r.available
    /\ liquidity_to_collateral(amount, exchange_rate(r.allocs[1].reserve, now)) > 0
InvestedFor(r, reserve, amount, collateral) ==
    [r EXCEPT !.available = @ - amount,
              !.allocs[1].ctokens = @ + collateral,
              !.allocs[1].reserve =
                  [reserve EXCEPT !.available = @ + amount, !.supply = @ + collateral]]
InvestedAt(r, reserve, now, amount) ==
    InvestedFor(r, reserve, amount,
                liquidity_to_collateral(amount, exchange_rate(reserve, now)))
Invested(r, now, amount) == InvestedAt(r, pre_accrue(r.allocs[1].reserve, now), now, amount)
=============================================================================
