----------------------------- MODULE RaydiumAmm -----------------------------
(***************************************************************************)
(* The worked example venue (src/example): a Raydium AMM pool, x * y = k     *)
(* with a proportional fee on the input.  The venue copies the pool's        *)
(* reserves out of an accounts cache it shares with others (update_state)    *)
(* and answers quotes from its copy.                                         *)
(*                                                                          *)
(* The pool changes on chain meanwhile: past is the history of its states,   *)
(* the last one being the present.  A cache entry remembers at which of them *)
(* it was fetched.  quote and price take &self and change nothing: they are  *)
(* operators on the venue's state.                                           *)
(***************************************************************************)
EXTENDS Integers, Sequences, FiniteSets

CONSTANTS
    U64,           \* 2^64
    InitialPools,  \* the pool's states at the start
    Trades,        \* amounts traded on chain
    Requests,      \* amounts quoted
    MaxChanges,    \* bound on the changes of the pool
    Prefetched,    \* accounts that others load into the cache
    MaxFaulty,     \* bound on the accounts missing or undecodable in one fetch
    Junk           \* what the balance bytes of an undecodable vault may say

\* The AMM account and its two vaults.  pnl: need_take_pnl, owed to the
\* protocol; num/den: the swap fee; accruals: how often pnl has grown (history).
Statuses == {"Uninitialized", "Initialized", "Disabled", "WithdrawOnly", "LiquidityOnly",
             "OrderBookOnly", "SwapOnly", "WaitingTrade"}
Pool == [pc: Nat, coin: Nat, pnl_pc: Nat, pnl_coin: Nat, status: Statuses,
         num: Nat, den: Nat, accruals: Nat]
CalculateResult == [pc: Nat, coin: Nat, num: Nat, den: Nat]
Directions == {"PC2Coin", "Coin2PC"}
Keys == {"pool", "pc_vault", "coin_vault", "mints"}
NotCached == [at |-> 0, is |-> "not cached"]

ASSUME U64Assumption == U64 \in Nat \ {0}
\* Raydium's fee is 25/10_000.
ASSUME PoolsAssumption ==
    InitialPools \subseteq {p \in Pool : /\ p.den = 0 \/ 2 * p.num < p.den
                                       /\ p.pnl_pc <= p.pc /\ p.pnl_coin <= p.coin}
ASSUME TradesAssumption == Trades \subseteq Nat \ {0} /\ Requests \subseteq Nat
ASSUME BoundsAssumption == MaxChanges \in Nat /\ MaxFaulty \in Nat /\ Prefetched \subseteq Keys
ASSUME JunkAssumption == Junk \subseteq Nat /\ Junk # {}

VARIABLES
    past,                     \* the pool's states (external)
    cache,                    \* the accounts cache
    calculate_result,         \* None until an update stored one
    pc_balance, coin_balance,
    token_info,               \* TRUE when token_info holds both tokens
    found_all_pubkeys,
    read                      \* when what calculate_result holds was fetched (history)

venue == <<calculate_result, pc_balance, coin_balance, token_info, found_all_pubkeys, read>>
vars == <<past, cache, venue>>

None == [none |-> TRUE]
Err == -1
Panic == -2

-----------------------------------------------------------------------------
(* raydium/math.rs and amm.rs *)

\* Deliberate error: any remainder rounds up, as the name says.
checked_ceil_div_up(a, b) == (a + b - 1) \div b

\* For b > 0.  A quotient below one is rounded to the nearest, any other up.
checked_ceil_div(a, b) ==
    IF a < b THEN IF 2 * a >= b THEN 1 ELSE 0
    ELSE (a + b - 1) \div b

\* Deliberate error: the protocol's profit is left in the coin reserve.
calc_total_pc_only(pc_amount, coin_amount, amm) ==
    <<pc_amount - amm.pnl_pc, coin_amount>>

calc_total_without_take_pnl(pc_amount, coin_amount, amm) ==
    <<pc_amount - amm.pnl_pc, coin_amount - amm.pnl_coin>>

ReserveIn(r, d) == IF d = "PC2Coin" THEN r.pc ELSE r.coin
ReserveOut(r, d) == IF d = "PC2Coin" THEN r.coin ELSE r.pc

\* Deliberate error: the output is rounded up.
base_in_up(amount_in, x, y) ==
    IF x + amount_in = 0 THEN Panic ELSE (y * amount_in + x + amount_in - 1) \div (x + amount_in)

\* Deliberate error: the product is a u64.
base_in_wraps(amount_in, x, y) ==
    IF x + amount_in = 0 THEN Panic ELSE ((y * amount_in) % U64) \div (x + amount_in)

swap_token_amount_base_in(amount_in, x, y) ==
    IF x + amount_in = 0 THEN Panic ELSE (y * amount_in) \div (x + amount_in)

\* Deliberate error: the input is rounded down.
base_out_down(amount_out, x, y) ==
    IF amount_out >= y THEN Panic ELSE (x * amount_out) \div (y - amount_out)

swap_token_amount_base_out(amount_out, x, y) ==
    IF amount_out >= y THEN Panic ELSE checked_ceil_div(x * amount_out, y - amount_out)

swap_fee(r, amount) == checked_ceil_div(amount * r.num, r.den)

\* swap_exact_amount with swap_base_in, and without.
exact_in(r, d, amount) ==
    IF r.den = 0 THEN Err
    ELSE IF swap_fee(r, amount) = 0 \/ swap_fee(r, amount) > amount THEN Err
    ELSE swap_token_amount_base_in(amount - swap_fee(r, amount), ReserveIn(r, d), ReserveOut(r, d))

exact_out(r, d, amount) ==
    LET before_fee == swap_token_amount_base_out(amount, ReserveIn(r, d), ReserveOut(r, d))
        after_fee == checked_ceil_div(before_fee * r.den, r.den - r.num)
    IN  IF before_fee = Panic THEN Panic
        ELSE IF before_fee * r.den >= U64 * U64 \/ r.den <= r.num THEN Err
        ELSE IF after_fee >= U64 THEN Panic
        ELSE after_fee

\* The slippage of the only caller is 0 and leaves the amount as it is.
swap_with_slippage(balance, r, d, amount, base_in) ==
    LET other_amount == IF base_in THEN exact_in(r, d, amount) ELSE exact_out(r, d, amount)
    IN  IF balance + amount >= U64 THEN Err
        ELSE IF other_amount = Err THEN Err
        ELSE IF other_amount = Panic THEN Panic
        ELSE IF other_amount >= ReserveOut(r, d) THEN Err
        ELSE other_amount

\* quote's expected_output; d is no direction when the mints are not the pool's.
quote(d, amount, base_in) ==
    IF calculate_result = None \/ d \notin Directions THEN Err
    ELSE IF amount = 0 THEN 0
    ELSE swap_with_slippage(IF d = "PC2Coin" THEN pc_balance ELSE coin_balance,
                            calculate_result, d, amount, base_in)

\* Deliberate error: the reserves are the wrong way round.
price_inverted(r, d, amount) ==
    LET scale == IF r.den = 0 THEN 1 ELSE r.den
        kept == IF r.den = 0 THEN 1 ELSE r.den - r.num
        denom == ReserveOut(r, d) * scale + kept * amount
    IN  [num |-> ReserveIn(r, d) * kept * ReserveOut(r, d) * scale, den |-> denom * denom]

\* Deliberate error: a fee that was never set is not set apart.
price_unset_fee(r, d, amount) ==
    LET denom == ReserveIn(r, d) * r.den + (r.den - r.num) * amount
    IN  [num |-> ReserveOut(r, d) * (r.den - r.num) * ReserveIn(r, d) * r.den,
         den |-> denom * denom]

\* price: Y * keep * X / (X + keep * amount)^2 as an exact fraction, f64 in the
\* code.  keep is kept/scale.
price(r, d, amount) ==
    LET scale == IF r.den = 0 THEN 1 ELSE r.den
        kept == IF r.den = 0 THEN 1 ELSE r.den - r.num
        denom == ReserveIn(r, d) * scale + kept * amount
    IN  [num |-> ReserveOut(r, d) * kept * ReserveIn(r, d) * scale, den |-> denom * denom]

-----------------------------------------------------------------------------
(* What the three accounts hold when they are fetched at these moments. *)

orderbook_permission(status) == status \in {"Initialized", "OrderBookOnly"}

\* Deliberate error: the subtraction is not checked.
calculate_pool_vault_amounts_unchecked(got) ==
    LET amm == past[got["pool"].at]
        total == calc_total_without_take_pnl(past[got["pc_vault"].at].pc,
                                             past[got["coin_vault"].at].coin, amm)
    IN  IF \/ \E k \in Keys \ {"mints"} : got[k].is # "found"
           \/ orderbook_permission(amm.status)
        THEN None
        ELSE [pc |-> total[1], coin |-> total[2], num |-> amm.num, den |-> amm.den]

\* calculate_pool_vault_amounts_from_accounts, None for its errors: an account
\* that is missing or does not decode, an order book pool, a profit owed that
\* exceeds a vault.
calculate_pool_vault_amounts(got) ==
    LET amm == past[got["pool"].at]
        total == calc_total_without_take_pnl(past[got["pc_vault"].at].pc,
                                             past[got["coin_vault"].at].coin, amm)
    IN  IF \/ \E k \in Keys \ {"mints"} : got[k].is # "found"
           \/ orderbook_permission(amm.status)
           \/ total[1] < 0 \/ total[2] < 0
        THEN None
        ELSE [pc |-> total[1], coin |-> total[2], num |-> amm.num, den |-> amm.den]

\* What the balance may be after bytes 64 to 72 of a vault were looked at: those
\* of an account that does not decode say anything, and a missing account or one
\* too short to have them leaves the balance as it is.
Balances(entry, old, amount) ==
    CASE entry.is = "found" -> {amount} [] entry.is = "bad" -> Junk [] OTHER -> {old}

\* data[64..72] of a shorter account panics.
SlicePanics(got) == got["pc_vault"].is = "short" \/ got["coin_vault"].is = "short"

-----------------------------------------------------------------------------
\* from_account has built the venue.
Init ==
    /\ past \in {<<p>> : p \in InitialPools}
    /\ cache = [k \in Keys |-> NotCached]
    /\ calculate_result = None
    /\ pc_balance = 0 /\ coin_balance = 0
    /\ token_info = FALSE /\ found_all_pubkeys = FALSE
    /\ read = <<>>

\* get_accounts: what is cached, and the rest fetched now.  An account may be
\* missing, or not be what it should; only a vault's length matters.
Answers == {"found", "missing", "bad", "short"}
Replies == {is \in [Keys -> Answers] :
               /\ \A k \in Keys : is[k] = "short" => k \in {"pc_vault", "coin_vault"}
               /\ Cardinality({k \in Keys : is[k] # "found"}) <= MaxFaulty}

get_accounts(is) ==
    [k \in Keys |-> IF cache[k] = NotCached THEN [at |-> Len(past), is |-> is[k]] ELSE cache[k]]

\* Deliberate error: the flag is set before the accounts are looked at.
UpdateStateFlagFirst ==
    \E got \in {get_accounts(is) : is \in Replies} :
       /\ ~SlicePanics(got)
       /\ cache' = got
       /\ pc_balance' \in Balances(got["pc_vault"], pc_balance, past[got["pc_vault"].at].pc)
       /\ coin_balance' \in Balances(got["coin_vault"], coin_balance, past[got["coin_vault"].at].coin)
       /\ LET result == calculate_pool_vault_amounts(got)
          IN  /\ calculate_result' = IF result = None THEN calculate_result ELSE result
              /\ read' = IF result = None THEN read
                         ELSE <<got["pool"].at, got["pc_vault"].at, got["coin_vault"].at>>
              /\ token_info' = (token_info \/ (result # None /\ got["mints"].is = "found"))
              /\ found_all_pubkeys' = TRUE
       /\ UNCHANGED past

\* update_state: accounts not cached are fetched in one call and cached.  What
\* was assigned before an error stays assigned.  Missing mints are no error.
UpdateState ==
    \E got \in {get_accounts(is) : is \in Replies} :
       /\ ~SlicePanics(got)
       /\ cache' = got
       /\ pc_balance' \in Balances(got["pc_vault"], pc_balance, past[got["pc_vault"].at].pc)
       /\ coin_balance' \in Balances(got["coin_vault"], coin_balance, past[got["coin_vault"].at].coin)
       /\ LET result == calculate_pool_vault_amounts(got)
          IN  /\ calculate_result' = IF result = None THEN calculate_result ELSE result
              /\ read' = IF result = None THEN read
                         ELSE <<got["pool"].at, got["pc_vault"].at, got["coin_vault"].at>>
              /\ token_info' = (token_info \/ (result # None /\ got["mints"].is = "found"))
              /\ found_all_pubkeys' =
                   (found_all_pubkeys \/ (result # None /\ got["mints"].is # "bad"))
       /\ UNCHANGED past

\* The same call, up to the slice that panics: the pc vault is looked at first.
UpdateStatePanics ==
    \E got \in {get_accounts(is) : is \in Replies} :
       /\ SlicePanics(got)
       /\ cache' = got
       /\ pc_balance' \in Balances(got["pc_vault"], pc_balance, past[got["pc_vault"].at].pc)
       /\ UNCHANGED <<past, calculate_result, coin_balance, token_info, found_all_pubkeys, read>>

\* External: another user of the cache loads one of the accounts; it is emptied.
Prefetch(k) ==
    /\ cache[k] = NotCached
    /\ cache' = [cache EXCEPT ![k] = [at |-> Len(past), is |-> "found"]]
    /\ UNCHANGED <<past, venue>>

ResetCache ==
    /\ \E k \in Keys : cache[k] # NotCached
    /\ cache' = [k \in Keys |-> NotCached]
    /\ UNCHANGED <<past, venue>>

-----------------------------------------------------------------------------
(* External: the Raydium program. *)

Now == past[Len(past)]

Reserves(p) == [pc |-> p.pc - p.pnl_pc, coin |-> p.coin - p.pnl_coin, num |-> p.num, den |-> p.den]

WithVaults(p, pc, coin) == [p EXCEPT !.pc = pc, !.coin = coin]
WithPnl(p, pc, coin) == [p EXCEPT !.pnl_pc = pc, !.pnl_coin = coin]

Changes(p) ==
    /\ Len(past) <= MaxChanges
    /\ past' = Append(past, p)
    /\ UNCHANGED <<cache, venue>>

\* swap_base_in_v2, the instruction generate_swap_instruction builds.
ProgramSwap(d, amount) ==
    LET out == exact_in(Reserves(Now), d, amount)
    IN  /\ Now.status = "SwapOnly" /\ out > 0
        /\ Changes(IF d = "PC2Coin" THEN WithVaults(Now, Now.pc + amount, Now.coin - out)
                   ELSE WithVaults(Now, Now.pc - out, Now.coin + amount))

\* The protocol's share of the profit grows, and is taken out.
AccruePnl ==
    /\ Now.pnl_pc < Now.pc /\ Now.pnl_coin < Now.coin
    /\ Changes([WithPnl(Now, Now.pnl_pc + 1, Now.pnl_coin + 1) EXCEPT !.accruals = @ + 1])

TakePnl ==
    /\ Now.pnl_pc + Now.pnl_coin > 0
    /\ Changes(WithPnl(WithVaults(Now, Now.pc - Now.pnl_pc, Now.coin - Now.pnl_coin), 0, 0))

SetStatus ==
    \E s \in {"SwapOnly", "OrderBookOnly"} \ {Now.status} :
        Changes([Now EXCEPT !.status = s])

Next ==
    \/ UpdateState \/ UpdateStatePanics
    \/ \E k \in Prefetched : Prefetch(k)
    \/ ResetCache
    \/ \E d \in Directions, amount \in Trades : ProgramSwap(d, amount)
    \/ AccruePnl \/ TakePnl \/ SetStatus

Spec == Init /\ [][Next]_vars

-----------------------------------------------------------------------------
(* Properties *)

Entries == [at: 1 .. Len(past), is: Answers] \cup {NotCached}

\* The venue never holds a negative reserve, whatever moments the accounts it
\* combined are of.
TypeOK ==
    /\ past \in Seq(Pool) /\ Len(past) > 0
    /\ cache \in [Keys -> Entries]
    /\ calculate_result \in CalculateResult \cup {None}
    /\ pc_balance \in Nat /\ coin_balance \in Nat
    /\ token_info \in BOOLEAN /\ found_all_pubkeys \in BOOLEAN
    /\ read \in Seq(1 .. Len(past))

\* initialized() promises a venue that quotes: after whatever failed updates, a
\* zero amount has a quote in both directions.  Its spot price is a positive
\* number exactly if the venue's copy has both reserves: the code also answers
\* for a pool with an empty side, with price 0 or with 0/0, though the trait
\* says "You **must** provide a spot price at 0."
SpotPrice(d) == price(calculate_result, d, 0)

InitializedQuotes ==
    found_all_pubkeys =>
        \A d \in Directions :
            /\ quote(d, 0, TRUE) = 0
            /\ SpotPrice(d).num > 0 /\ SpotPrice(d).den > 0
                  <=> calculate_result.pc > 0 /\ calculate_result.coin > 0

\* Reserves fetched at one moment are the pool's of that moment, profit owed to
\* the protocol excluded, and a failed update leaves them so: calculate_result
\* mixes moments only if the cache did.
OneMoment ==
    calculate_result # None /\ read[1] = read[2] /\ read[2] = read[3] =>
        calculate_result = Reserves(past[read[1]])

\* swap_base_in never lets the constant product fall: no sequence of swaps
\* takes value from the pool.
Product(p) == Reserves(p).pc * Reserves(p).coin

ProductNeverFalls ==
    \A i, j \in DOMAIN past :
        i < j /\ past[i].accruals = past[j].accruals => Product(past[i]) <= Product(past[j])

\* An output the pool can serve: it holds more than that, and the exact input
\* before the fee, plus one atom, is within what a u64 leaves after the fee.
Servable(d, amount) ==
    LET r == calculate_result
        left == ReserveOut(r, d) - amount
    IN  left > 0 /\ (ReserveIn(r, d) * amount + left) * r.den
                        <= left * ((U64 - 1) * (r.den - r.num))

\* What an ExactOut quote asks for buys at least the output wanted, unless the
\* input before the fee was rounded down to nothing, and no quote panics for an
\* output the pool can serve.  ExactIn, the only kind Titan asks for, never
\* panics.
ExactOutSound ==
    \A d \in Directions, amount \in Requests :
        LET in == quote(d, amount, FALSE)
        IN  /\ in > 0 /\ quote(d, in, TRUE) >= 0 => quote(d, in, TRUE) >= amount
            /\ calculate_result # None /\ Servable(d, amount) => in # Panic
            /\ quote(d, amount, TRUE) # Panic

\* The documentation of quote and of SwapType: venues need not implement
\* ExactOut "but must not panic on it", whatever the amount.
DocNoPanic ==
    \A d \in Directions, amount \in Requests, base_in \in BOOLEAN :
        quote(d, amount, base_in) # Panic

\* The boundary search bisects: the amounts that quote an output are an interval,
\* and on it the output never falls, the trait's first pricing rule.
QuotableCurve ==
    \A d \in Directions :
        LET f == [amount \in Requests |-> quote(d, amount, TRUE)]
            valid == {amount \in Requests : f[amount] > 0}
        IN  /\ \A gap \in Requests \ valid :
                  (\A amount \in valid : amount < gap) \/ (\A amount \in valid : amount > gap)
            /\ \A lo, hi \in valid : lo < hi => f[lo] <= f[hi]

\* The price brackets the average rate: no quote beats the spot price, and none
\* falls short of the price at its own amount by more than the two roundings,
\* one atom of input at the pool's rate before the fee and one of output.
PriceBracketsRate ==
    \A d \in Directions, amount \in Requests :
        LET out == quote(d, amount, TRUE)
            spot == price(calculate_result, d, 0)
            here == price(calculate_result, d, amount)
            x == ReserveIn(calculate_result, d)
            y == ReserveOut(calculate_result, d)
        IN  out > 0 =>
                /\ out * spot.den <= spot.num * amount
                /\ here.num * amount * x <= ((out + 1) * x + y) * here.den
=============================================================================
