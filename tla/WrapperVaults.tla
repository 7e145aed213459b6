---------------------------- MODULE WrapperVaults ---------------------------
(***************************************************************************)
(* A wrapper vault in use: deposits and withdrawals as the quotes of its     *)
(* source predict them, one after another, while interest accrues, others    *)
(* borrow and the protocol's administrators switch things off.               *)
(*                                                                          *)
(* The source is one of your_venue/mod.rs's enum Source.  The crate only     *)
(* quotes; what a transaction then does on chain is external: it moves       *)
(* exactly what the quote computed.                                          *)
(***************************************************************************)
EXTENDS Checked

CONSTANTS
    WAD, SAVE_SLOTS_PER_YEAR, Bits,               \* SaveSource
    ONE, KLEND_SLOTS_PER_YEAR, SECONDS_PER_YEAR,  \* KlendSource
    FIX, YEAR, U32_MAX,                           \* MarginfiSource
    KVAULT_YEAR, MAX_QUOTE_DEPOSIT, FARM_WAD,     \* KvaultSource
    Q60,                                          \* LuloSource
    Sources,         \* the sources of the instance
    Pools,           \* Pools[s]: the states of a source at the start
    Switches,        \* Switches[s]: changes its administrators make to it
    Fees,            \* pairs of protocol and creator deposit fee, in bps
    Amounts,         \* amounts quoted and traded
    Loans,           \* Loans[s]: amounts borrowed from a source, invested or earned by it,
                     \* or sent to the vault
    Ticks,           \* how slot and time advance
    MaxSlot,         \* bound on the slots explored
    MaxTrades        \* bound on the trades, loans and switches explored

Save == INSTANCE SaveSource
Klend == INSTANCE KlendSource
Marginfi == INSTANCE MarginfiSource
Kvault == INSTANCE KvaultSource
Lulo == INSTANCE LuloSource

ASSUME ScaleAssumption == {WAD, ONE, FIX, FARM_WAD, Q60} \subseteq Nat \ {0}
ASSUME AmountsAssumption == Amounts \subseteq Nat /\ \A s \in Sources : Loans[s] \subseteq Nat
ASSUME SourcesAssumption == Sources \subseteq {"Save", "Klend", "Marginfi", "Kvault", "Lulo"}

\* Time does not run backwards, and fees are not negative.
ASSUME TicksAssumption ==
    {MaxSlot, MaxTrades} \subseteq Nat /\ \A t \in Ticks : t.slots \in Nat /\ t.seconds \in Nat
ASSUME FeesAssumption == \A f \in Fees : f.protocol \in Nat /\ f.creator \in Nat

\* The periods that interest is compounded over, the scale of Marginfi's points
\* and the exponents of wad_pow.
ASSUME PeriodAssumption ==
    /\ {SAVE_SLOTS_PER_YEAR, KLEND_SLOTS_PER_YEAR, SECONDS_PER_YEAR, KVAULT_YEAR, YEAR, U32_MAX}
          \subseteq Nat \ {0}
    /\ Bits \in Nat

\* A source's account has the fields its module describes.
Fields(s) ==
    CASE s = "Save" -> Save!Fields
      [] s = "Klend" -> Klend!Fields
      [] s = "Marginfi" -> Marginfi!Fields
      [] s = "Kvault" -> Kvault!KvaultFields
      [] s = "Lulo" -> Lulo!Fields
ASSUME PoolsAssumption == \A s \in Sources : \A p \in Pools[s] : DOMAIN p = Fields(s)

\* A Save reserve has no settings that switch it; its fees are part of the interest
\* that borrowers still owe.
ASSUME SaveAssumption ==
    "Save" \in Sources =>
        /\ \A p \in Pools["Save"] : Save!Typed(p) /\ p.fees <= p.borrowed
        /\ Switches["Save"] = {}

\* Administrators set only the flags of a Klend reserve.
ASSUME KlendAssumption ==
    "Klend" \in Sources =>
        /\ \A p \in Pools["Klend"] : Klend!Typed(p) /\ Klend!Solvent(p)
        /\ \A change \in Switches["Klend"] : DOMAIN change \subseteq {"flags"}

\* Administrators set only the operational state of a Marginfi bank.
ASSUME MarginfiAssumption ==
    "Marginfi" \in Sources =>
        /\ \A p \in Pools["Marginfi"] : Marginfi!Typed(p)
        /\ \A change \in Switches["Marginfi"] : DOMAIN change \subseteq {"operational_state"}

\* Administrators set only whether a Lulo pool is halted and how much it may hold.
ASSUME LuloAssumption ==
    "Lulo" \in Sources =>
        /\ \A p \in Pools["Lulo"] : Lulo!Typed(p)
        /\ \A change \in Switches["Lulo"] : DOMAIN change \subseteq {"halted", "deposit_limit"}

\* The account of a Kamino vault holds no cached assets: an update computes those
\* in its copy.  Administrators change none of its balances.
ASSUME KvaultAssumption ==
    "Kvault" \in Sources =>
        /\ \A p \in Pools["Kvault"] :
              Kvault!AllocsTyped(p.allocs) /\ p.cached_aum = Kvault!None /\ Kvault!KvaultTyped(p)
        /\ \A change \in Switches["Kvault"] :
              /\ {"allocs", "cached_aum"} \cap DOMAIN change = {}
              /\ Kvault!Balances \cap DOMAIN change = {}
              /\ \A f \in Kvault!Settings \cap DOMAIN change : change[f] \in Nat

\* The farm of a Kamino vault before the wrapper stakes in it: others have, and
\* a share is a fixed number of stake.  No administrator changes that.  Shares
\* may lie idle in the wrapper's token account.
ASSUME FarmAssumption ==
    "Kvault" \in Sources =>
        /\ \A p \in Pools["Kvault"] :
              /\ p.farm \in [used : BOOLEAN, idle : Nat, stake : Nat, total_stake : Nat,
                             total_amount : Nat]
              /\ p.farm.used =>
                    /\ p.farm.stake = 0
                    /\ p.farm.total_stake > 0 /\ p.farm.total_amount > 0
                    /\ p.farm.total_stake % p.farm.total_amount = 0
        /\ \A change \in Switches["Kvault"] : "farm" \notin DOMAIN change

VARIABLES
    source,   \* which Source
    fees,     \* fees of wrapper and protocol
    now,      \* the clock: slot and timestamp
    pool,     \* the source's account on chain, as its module describes it
    wv,       \* WrapperVault: wrapper_supply, intermediate_held
    trades    \* trades, loans and switches so far

vars == <<source, fees, now, pool, wv, trades>>

Traded == trades < MaxTrades /\ trades' = trades + 1

-----------------------------------------------------------------------------
(* The methods of Source, and what is common to them.                        *)

\* What is left of a deposit after the fees, each rounded down.
net_amount(amount) ==
    saturating_sub(amount, mul_bps(amount, fees.protocol) + mul_bps(amount, fees.creator))

source_quote_deposit(r, v, net) ==
    CASE source = "Save" -> Save!quote_deposit(r, now, v, net)
      [] source = "Klend" -> Klend!quote_deposit(r, now, v, net)
      [] source = "Marginfi" -> Marginfi!quote_deposit(r, now, v, net)
      [] source = "Kvault" -> Kvault!kvault_quote_deposit(r, now, v, net)
      [] source = "Lulo" -> Lulo!quote_deposit(r, now, v, net)

source_quote_withdraw(r, v, amount) ==
    CASE source = "Save" -> Save!quote_withdraw(r, now, v, amount)
      [] source = "Klend" -> Klend!quote_withdraw(r, now, v, amount)
      [] source = "Marginfi" -> Marginfi!quote_withdraw(r, now, v, amount)
      [] source = "Kvault" -> Kvault!kvault_quote_withdraw(r, now, v, amount)
      [] source = "Lulo" -> Lulo!quote_withdraw(r, now, v, amount)

pre_accrue(r) ==
    CASE source = "Save" -> Save!pre_accrue(r, now)
      [] source = "Klend" -> Klend!pre_accrue(r, now)
      [] source = "Marginfi" -> Marginfi!pre_accrue(r, now)
      [] source = "Kvault" -> Kvault!pre_accrue_kvault(r, now)
      [] source = "Lulo" -> r

\* Every quote ends with the check on the value per share.
DepositKeepsValue(v, q) ==
    no_value_per_share_loss(q.before, v.wrapper_supply, q.after, v.wrapper_supply + q.mint)
WithdrawKeepsValue(v, amount, q) ==
    no_value_per_share_loss(q.before, v.wrapper_supply, q.after, v.wrapper_supply - amount)

CheckedDeposit(v, q) == IF q # Refused /\ ~DepositKeepsValue(v, q) THEN Refused ELSE q
CheckedWithdraw(v, amount, q) ==
    IF q # Refused /\ ~WithdrawKeepsValue(v, amount, q) THEN Refused ELSE q

quote_deposit(r, v, amount) == CheckedDeposit(v, source_quote_deposit(r, v, net_amount(amount)))
quote_withdraw(r, v, amount) == CheckedWithdraw(v, amount, source_quote_withdraw(r, v, amount))

\* External: the source after a trade or a loan.
Deposited(r, v, q) ==
    CASE source = "Save" -> Save!Deposited(r, now, v, q)
      [] source = "Klend" -> Klend!Deposited(r, now, v, q)
      [] source = "Marginfi" -> Marginfi!Deposited(r, now, v, q)
      [] source = "Kvault" -> Kvault!KvaultDeposited(r, now, v, q)
      [] source = "Lulo" -> Lulo!Deposited(r, now, v, q)
Withdrawn(r, v, q) ==
    CASE source = "Save" -> Save!Withdrawn(r, now, v, q)
      [] source = "Klend" -> Klend!Withdrawn(r, now, v, q)
      [] source = "Marginfi" -> Marginfi!Withdrawn(r, now, v, q)
      [] source = "Kvault" -> Kvault!KvaultWithdrawn(r, now, v, q)
      [] source = "Lulo" -> Lulo!Withdrawn(r, now, v, q)
Lent(r, amount) ==
    CASE source = "Save" -> Save!Lent(r, now, amount)
      [] source = "Klend" -> Klend!Lent(r, now, amount)
      [] source = "Marginfi" -> Marginfi!Lent(r, now, amount)
      [] source = "Kvault" -> Kvault!Invested(r, now, amount)
      [] source = "Lulo" -> Lulo!Earned(r, amount)

\* External: a loan or an investment takes no more than is there.
Lendable(r, amount) ==
    CASE source = "Kvault" -> Kvault!Investable(r, now, amount)
      [] source = "Lulo" -> TRUE
      [] OTHER -> amount <= r.available

\* External: what the source needs for a withdrawal that was quoted.
Executable(r, q) == source = "Kvault" => Kvault!ReserveLiquid(r, now, q)

\* External: the vault after a trade.
VaultDeposited(v, q) ==
    IF source = "Lulo" THEN Lulo!VaultDeposited(v, q)
    ELSE [v EXCEPT !.wrapper_supply = @ + q.mint, !.intermediate_held = @ + q.brought]
VaultWithdrawn(r, v, amount, q) ==
    IF source = "Lulo" THEN Lulo!VaultWithdrawn(r, v, amount, q)
    ELSE [v EXCEPT !.wrapper_supply = @ - amount, !.intermediate_held = @ - q.redeemed]

-----------------------------------------------------------------------------
Init ==
    /\ source \in Sources
    /\ fees \in Fees
    /\ now = [slot |-> 0, timestamp |-> 1]
    /\ pool \in Pools[source]
    /\ wv = [wrapper_supply |-> 0, intermediate_held |-> 0, free_underlying_held |-> 0]
    /\ trades = 0

\* External: time passes.
Tick ==
    /\ \E t \in Ticks :
          /\ now.slot + t.slots <= MaxSlot
          /\ now' = [slot |-> now.slot + t.slots, timestamp |-> now.timestamp + t.seconds]
    /\ UNCHANGED <<source, fees, pool, wv, trades>>

\* Anyone may have the source accrue; an update does the same to the copy a
\* venue has fetched.
Refresh ==
    /\ pool' = IF source = "Kvault" THEN Kvault!reserves_accrued(pool, now) ELSE pre_accrue(pool)
    /\ UNCHANGED <<source, fees, now, wv, trades>>

\* External: somebody borrows from the source.
Lend(amount) ==
    /\ Traded
    /\ 0 < amount /\ Lendable(pool, amount)
    /\ pool' = Lent(pool, amount)
    /\ UNCHANGED <<source, fees, now, wv>>

\* Shares that lie idle in the token account of the wrapper's authority, where
\* an update finds them: none of the wrapper's trades puts them there.
Strays == IF source = "Kvault" /\ pool.farm.used THEN pool.farm.idle ELSE 0

\* External: somebody sends shares of the Kamino vault to that account.
Credit(amount) ==
    /\ Traded
    /\ source = "Kvault" /\ pool.farm.used
    /\ 0 < amount /\ amount <= pool.shares_issued - wv.intermediate_held - Strays
    /\ pool' = [pool EXCEPT !.farm.idle = @ + amount]
    /\ UNCHANGED <<source, fees, now, wv>>

\* External: the administrators of the source change a setting.
Switch ==
    /\ Traded
    /\ \E change \in Switches[source] :
          pool' = [f \in DOMAIN pool |-> IF f \in DOMAIN change THEN change[f] ELSE pool[f]]
    /\ UNCHANGED <<source, fees, now, wv>>

\* A trade goes through if it is quoted.
Deposit(amount) ==
    /\ Traded
    /\ \E q \in {quote_deposit(pool, wv, amount)} \ {Refused} :
          /\ pool' = Deposited(pool, wv, q)
          /\ wv' = VaultDeposited(wv, q)
    /\ UNCHANGED <<source, fees, now>>

Withdraw(amount) ==
    /\ Traded
    /\ \E q \in {quote_withdraw(pool, wv, amount)} \ {Refused} :
          /\ Executable(pool, q)
          /\ pool' = Withdrawn(pool, wv, q)
          /\ wv' = VaultWithdrawn(pool, wv, amount, q)
    /\ UNCHANGED <<source, fees, now>>

Next ==
    \/ Tick \/ Refresh \/ Switch
    \/ \E amount \in Loans[source] : Lend(amount) \/ Credit(amount)
    \/ \E amount \in Amounts : Deposit(amount) \/ Withdraw(amount)

Spec == Init /\ [][Next]_vars

-----------------------------------------------------------------------------
(* Properties                                                                *)

\* Balances are natural numbers: no trade takes more than the source has, more
\* shares than exist or more of the position than the vault holds.  A Marginfi
\* withdrawal is compared with assets and liabilities only, and still never
\* exceeds the tokens in the bank's vault.
TypeOK ==
    /\ source \in Sources /\ fees \in Fees
    /\ now.slot \in 0 .. MaxSlot /\ now.timestamp \in Nat
    /\ source # "Lulo" => pool.available \in Nat
    /\ source \in {"Save", "Klend"} => pool.borrowed \in Nat /\ pool.supply \in Nat
    /\ source = "Marginfi" => pool.asset_shares \in Nat
    /\ source = "Kvault" => pool.shares_issued \in Nat
    /\ source = "Lulo" => pool.protected_amount \in Nat /\ pool.protected_total_supply \in Nat
    /\ wv \in [wrapper_supply : 0 .. U64 - 1, intermediate_held : Nat, free_underlying_held : Nat]
    /\ trades \in 0 .. MaxTrades

\* The final check of both quotes, that the value per share does not fall,
\* never refuses an amount the other checks let through: rounding the minted
\* shares and the redeemed position down already protects every holder.  Shares
\* that somebody sent to the wrapper's token account change that: they count in
\* the position before a trade and not in the one after it, so no withdrawal at
\* all is quoted while they lie there.
CheckNeverRejects ==
    \A amount \in Amounts :
        /\ \A d \in {source_quote_deposit(pool, wv, net_amount(amount))} \ {Refused} :
              Strays = 0 => DepositKeepsValue(wv, d)
        /\ \A w \in {source_quote_withdraw(pool, wv, amount)} \ {Refused} :
              WithdrawKeepsValue(wv, amount, w) <=> Strays = 0

\* Shares exist exactly while the vault holds a position, so the errors `ctokens
\* out of sync' and `pre-balance zero' never answer a vault that only saw
\* deposits and withdrawals, and no withdrawal leaves shares without backing.
\* The position that an update counts for a Kamino vault is what the wrapper
\* recorded and the shares that others sent it: no trade loses a share of it.
InSync ==
    /\ wv.wrapper_supply = 0 <=> wv.intermediate_held = 0
    /\ source = "Kvault" =>
          Kvault!position_kvault_shares(pool, wv) = wv.intermediate_held + Strays

\* Depositing and at once burning the shares minted never pays out more than
\* was paid in, whatever the fees, the accrued interest and the order of the
\* roundings.
RoundTripNoProfit ==
    \A amount \in Amounts :
        \A d \in {quote_deposit(pool, wv, amount)} \ {Refused} :
            \A w \in {quote_withdraw(Deposited(pool, wv, d), VaultDeposited(wv, d), d.mint)}
                       \ {Refused} :
                w.pays <= amount

\* A venue that accrued its copy of the source at its update, as update::run
\* does, quotes exactly what the accrual inside the quote gives from the raw
\* account: interest is never applied twice.
PreAccrueSame ==
    \A copy \in {pre_accrue(pool)} :
        \A amount \in Amounts :
            /\ quote_deposit(copy, wv, amount) = quote_deposit(pool, wv, amount)
            /\ quote_withdraw(copy, wv, amount) = quote_withdraw(pool, wv, amount)

\* What a Kamino vault's holdings are at t without its fees.
KvaultNet(r, t, holdings) == holdings - Kvault!charged_pending_fees(r, t, holdings)

\* What b shares are worth at t, liquidity aside.
Worth(r, t, v, b) ==
    CASE source = "Save" ->
            Save!collateral_to_liquidity(Save!ctokens_to_redeem(v, b),
                Save!exchange_rate(r, Save!total_supply_wad(r, t)))
      [] source = "Klend" ->
            Klend!collateral_to_liquidity(Klend!ctokens_to_redeem(v, b), Klend!exchange_rate(r, t))
      [] source = "Marginfi" ->
            Marginfi!fix_mul(Marginfi!shares_pro_rata(v, b),
                             Marginfi!accrue_share_values(r, t).asset) \div FIX
      [] source = "Kvault" ->
            Kvault!total_with_penalty(r, KvaultNet(r, t, Kvault!holdings_total(r, t)),
                Kvault!kvault_shares_to_redeem(r, v, b))
      [] source = "Lulo" -> (Lulo!total_value(r, v) * b) \div v.wrapper_supply

\* What shares are worth never falls when interest accrues or when somebody
\* else borrows, deposits or withdraws.  One unit may go where two roundings
\* meet: a withdrawal from a Save reserve, whose exchange rate is rounded down in
\* favour of who redeems, and interest of a Lulo pool, of which the referral fee
\* may be counted a step before the interest itself.  A Kamino vault charges a
\* management fee as time passes, so only the wrapper's trades are judged.
SharesKeepTheirWorth ==
    [][LET slack == \/ source = "Save" /\ wv'.wrapper_supply < wv.wrapper_supply
                    \/ source = "Lulo" /\ wv' = wv
       IN  (source = "Kvault" => wv' # wv) =>
              \A b \in Amounts :
                 (b <= wv.wrapper_supply /\ b <= wv'.wrapper_supply)
                   => Worth(pool, now, wv, b)
                        <= Worth(pool', now', wv', b) + (IF slack THEN 1 ELSE 0)]_vars

\* The vault implements ShareVault: no trade, whatever the source did in between,
\* dilutes the shares of the other holders, and the position is used up exactly
\* when the last share is burnt.  A Lulo position pays referral fees with its LP
\* tokens, so what backs a share there is a value and not a number of them: that
\* source takes no part.
Shares == IF source = "Lulo" THEN 0 ELSE wv.wrapper_supply
Position == IF source = "Lulo" THEN 0 ELSE wv.intermediate_held
Promise == INSTANCE ShareVault WITH supply <- Shares, held <- Position
KeepsPromise == Promise!Spec

\* Klend and Save: the fees taken out of the interest never exceed what the
\* reserve owns, so the unsigned subtractions of the total supply never
\* overflow, however long the debt compounds.
FeesWithinSupply ==
    /\ source = "Save" => Save!total_supply_wad(pool, now) >= 0
    /\ source = "Klend" => Klend!total_supply_fraction(pool, now) >= 0
    /\ source = "Kvault" => KvaultNet(pool, now, Kvault!holdings_total(pool, now)) >= 0

\* Klend: a deposit never needs more liquidity than it brings, although the
\* liquidity for its collateral is rounded up twice: the error `deposit > net'
\* is never reported.
DepositWithinNet ==
    source = "Klend" =>
        \A x \in {Klend!exchange_rate(pool, now)}, amount \in Amounts :
            Klend!liquidity_amount_to_deposit(amount, x) <= amount

\* Klend: within one interval of the withdrawal cap, withdrawals exceed
\* deposits by at most its capacity; and what is queued for withdrawal stays
\* available to those in the queue, whatever the vault withdraws, but for the
\* one unit by which the rounding of that withdrawal may make the queued
\* collateral dearer.
OutflowLimited ==
    [][source = "Klend" /\ wv'.wrapper_supply < wv.wrapper_supply =>
          /\ pool'.cap.interval > 0 => pool'.cap.current_total <= pool'.cap.capacity
          /\ Klend!collateral_to_liquidity(pool'.queued, Klend!exchange_rate(pool', now'))
               <= pool'.available + 1]_vars

\* Kvault and Lulo pay a withdrawal from what they redeem for it at the reserve
\* or the pool, whose own rounding takes something off: what is paid out is
\* always covered, and nothing of the others' part makes up for it.
PayoutCovered ==
    /\ source = "Kvault" /\ pool.allocs # <<>> =>
          \A alloc \in {pool.allocs[Kvault!primary(pool)]} :
              \A x \in {Kvault!exchange_rate(alloc.reserve, now)}, amount \in Amounts :
                  LET out == Kvault!disinvest(alloc.ctokens, x, amount)
                  IN  out.sent <= Kvault!collateral_to_liquidity(out.ctokens, x)
    /\ source = "Lulo" =>
          \A amount \in Amounts :
              \A w \in {Lulo!quote_withdraw(pool, now, wv, amount)} \ {Refused} :
                  w.pays <= (amount * wv.free_underlying_held) \div wv.wrapper_supply
                            + Lulo!gross(pool, w.redeemed)

\* Marginfi: accruing never makes lenders richer by more than borrowers poorer.
LendersPaidByBorrowers ==
    source = "Marginfi" =>
        \A after \in {Marginfi!pre_accrue(pool, now)} :
            Marginfi!total_assets(after) - Marginfi!total_assets(pool)
              <= Marginfi!total_liabilities(after) - Marginfi!total_liabilities(pool) + 1

\* No source gives away what it does not have: its fees come out of what it
\* owns, a deposit brings what it is charged, a payout is covered by what was
\* redeemed for it, and lenders are credited no more than borrowers are charged.
BooksBalance == FeesWithinSupply /\ DepositWithinNet /\ PayoutCovered /\ LendersPaidByBorrowers

\* What the trait asks of every quote: a larger amount never returns less.
DocMonotonicOutput ==
    \A a, b \in Amounts :
        a < b =>
            \A q \in {quote_deposit(pool, wv, a)} \ {Refused},
               larger_q \in {quote_deposit(pool, wv, b)} \ {Refused} : q.mint <= larger_q.mint
=============================================================================
