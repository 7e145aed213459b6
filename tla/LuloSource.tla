----------------------------- MODULE LuloSource -----------------------------
(***************************************************************************)
(* Quotes on a Lulo pool: your_venue/lulo/math.rs.                           *)
(*                                                                          *)
(* A pool r has the fields of LuloState: protected_amount and                *)
(* protected_total_supply (what the LP tokens are worth together, and how    *)
(* many there are), deposit_limit, halted, the referral fee in bps, and the  *)
(* position's charged and average entry prices in fractions of Q60.  The     *)
(* vault v holds LP tokens and, in free_underlying_held, tokens not staked.  *)
(***************************************************************************)
EXTENDS Checked

CONSTANT Q60    \* one in fixed-point: 2^60

\* The fields of LuloState, and their types.
Fields ==
    {"protected_amount", "protected_total_supply", "deposit_limit", "halted", "ref_bps",
     "charged_q60", "avg_q60"}
Typed(r) ==
    /\ DOMAIN r = Fields
    /\ {r.protected_amount, r.protected_total_supply, r.charged_q60, r.avg_q60, r.ref_bps}
          \subseteq Nat

\* The profit of lp tokens bought at a basis price.
cpos(r, lp, basis) ==
    LET gain == saturating_sub(r.protected_amount * Q60, basis * r.protected_total_supply)
    IN  IF r.protected_total_supply = 0 \/ r.protected_amount = 0 \/ lp = 0 THEN 0
        ELSE (gain * lp) \div (r.protected_total_supply * Q60)

fee_from_profit(profit, bps) ==
    IF profit * bps = 0 THEN 0 ELSE (profit * bps - 1) \div FULL_BPS

position_fee_usdc(r, lp_a, old_lp) ==
    fee_from_profit(smaller(cpos(r, lp_a, r.charged_q60), cpos(r, old_lp, r.avg_q60)), r.ref_bps)

gross(r, lp) == (lp * r.protected_amount) \div r.protected_total_supply

lulo_lp_value(r, lp) ==
    IF r.protected_total_supply = 0 \/ r.protected_amount = 0 \/ lp = 0 THEN 0
    ELSE saturating_sub(gross(r, lp), position_fee_usdc(r, lp, lp))

total_value(r, v) == v.free_underlying_held + lulo_lp_value(r, v.intermediate_held)

-----------------------------------------------------------------------------
(* Deposits                                                                  *)

\* LP tokens bought for the net amount and what was free, before the fee.
new_lp(r, v, net) ==
    ((v.free_underlying_held + net) * r.protected_total_supply) \div r.protected_amount

\* The same after the fee, which is rounded up to LP tokens.
lp_net_pred(r, v, net) ==
    LET lp_a == v.intermediate_held + new_lp(r, v, net)
        fee_usdc == position_fee_usdc(r, lp_a, v.intermediate_held)
        fee_lp_ceil == ceil_div(fee_usdc * r.protected_total_supply, r.protected_amount)
    IN  saturating_sub(new_lp(r, v, net), fee_lp_ceil)

\* The value the vault will have: what is staked, at most what was and came in.
new_value_pred(r, post_lp, value_in) ==
    smaller(lulo_lp_value(r, post_lp) + position_fee_usdc(r, post_lp, post_lp), value_in)

wrapper_to_mint(v, old_value, new_value) ==
    IF v.wrapper_supply = 0 THEN new_value
    ELSE (saturating_sub(new_value, old_value) * v.wrapper_supply) \div old_value

\* The quote, given the LP tokens bought and the vault's value before and after.
deposit_at_value(v, net, lp_net, old_value, new_value) ==
    LET mint == wrapper_to_mint(v, old_value, new_value)
    IN  IF (v.wrapper_supply = 0) # (old_value = 0) THEN Refused
        ELSE IF mint \notin 1 .. U64 - 1 \/ v.wrapper_supply + mint >= U64 THEN Refused
        ELSE [mint |-> mint, brought |-> lp_net, spends |-> net,
              before |-> old_value, after |-> new_value]

quote_deposit(r, now, v, net) ==
    LET cap_headroom == saturating_sub(r.deposit_limit, r.protected_amount)
        lp_net == lp_net_pred(r, v, net)
    IN  IF net = 0 \/ r.halted \/ net > cap_headroom \div 2 \/ r.protected_amount = 0 THEN Refused
        ELSE deposit_at_value(v, net, lp_net, total_value(r, v),
                 new_value_pred(r, v.intermediate_held + lp_net, total_value(r, v) + net))

-----------------------------------------------------------------------------
(* Withdrawals                                                               *)

user_lp(v, amount) == (amount * v.intermediate_held) \div v.wrapper_supply

\* The shares' part of the free tokens and of the LP tokens' value, less the
\* price of one LP token, rounded up, and one.
n_owed(r, v, amount) ==
    LET free_share == (amount * v.free_underlying_held) \div v.wrapper_supply
        lp_part == IF v.intermediate_held = 0 THEN 0
                   ELSE (lulo_lp_value(r, v.intermediate_held) * user_lp(v, amount))
                          \div v.intermediate_held
        ceil_price == IF r.protected_total_supply = 0 THEN 0
                      ELSE ceil_div(r.protected_amount, r.protected_total_supply)
    IN  saturating_sub(free_share + lp_part, ceil_price + 1)

withdraw_owing(v, amount, value, owed) ==
    IF value = 0 \/ owed = 0 THEN Refused
    ELSE [pays |-> owed, redeemed |-> user_lp(v, amount), before |-> value, after |-> value - owed]

\* The last shares are never quoted.
quote_withdraw(r, now, v, amount) ==
    IF amount = 0 \/ r.halted \/ amount >= v.wrapper_supply THEN Refused
    ELSE withdraw_owing(v, amount, total_value(r, v), n_owed(r, v, amount))

-----------------------------------------------------------------------------
(* External: what pool and vault do when a quoted trade is executed, or when *)
(* the pool earns interest.                                                  *)

\* Free tokens and the net amount are staked; the LP tokens of the fee go to
\* the referrer, and the position's fee is settled up to the present price.
Deposited(r, now, v, q) ==
    LET bought == new_lp(r, v, q.spends)
        price == (r.protected_amount * Q60) \div r.protected_total_supply
    IN  [r EXCEPT !.protected_amount = @ + v.free_underlying_held + q.spends,
                  !.protected_total_supply = @ + bought,
                  !.charged_q60 = price,
                  !.avg_q60 = (v.intermediate_held * @ + bought * price)
                                \div (v.intermediate_held + bought)]
VaultDeposited(v, q) ==
    [wrapper_supply |-> v.wrapper_supply + q.mint,
     intermediate_held |-> v.intermediate_held + q.brought, free_underlying_held |-> 0]

\* The burnt shares' LP tokens are redeemed; what is not paid out stays free.
Withdrawn(r, now, v, q) ==
    [r EXCEPT !.protected_amount = @ - gross(r, q.redeemed),
              !.protected_total_supply = @ - q.redeemed]
VaultWithdrawn(r, v, amount, q) ==
    [wrapper_supply |-> v.wrapper_supply - amount,
     intermediate_held |-> v.intermediate_held - q.redeemed,
     free_underlying_held |-> v.free_underlying_held + gross(r, q.redeemed) - q.pays]

Earned(r, amount) == [r EXCEPT !.protected_amount = @ + amount]
=============================================================================
