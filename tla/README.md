# Overpass venue and router: TLA+ verification project

This directory holds TLA+ models of the Overpass venue integration
(`src/src/`, the off-chain Rust crate) and of the Titan V3 router program
template (`src/program-template/`), the TLC configurations that check them on
small instances, and TLAPS proofs. `PROJECT.json` maps every definition to the
lines it models and lists runs, mutants, findings, hazards and theorems.

## 1. Inventory

### The off-chain crate

| component | state | operations | interacts with |
|---|---|---|---|
| boundary search (`trading_venue/bounds.rs`) | four bracket ends, local | `find_boundaries`: two doubling loops, two bisections | calls a venue's `quote` |
| account cache (`account_caching/rpc_cache.rs`) | concurrent map pubkey → account (or "missing") | `get_account`, `get_accounts`, `get_multiple`, `reset_cache` | RPC node; shared by all venues' refresh tasks |
| venue (`your_venue/mod.rs`) | wrapper vault, global config, token infos, source, two price tables | `from_account`, `update_state`, `quote`, `directions_num`, instruction building | cache; its source; boundary search |
| sources (`save`, `klend`, `kvault`, `marginfi`, `lulo`) | decoded pool state, clock, cached derived values | `update`, accrual, `quote_deposit`, `quote_withdraw` | cache; Kvault also uses Klend's mathematics |
| price tables (`price_parts` in `your_venue/mod.rs`) | edges, parts | built at the end of every update, read by `quote` | boundary search, `quote` |
| route builder (`swap_route/mod.rs`) | none | builds the arguments and accounts of `swap_route_v3` | each venue's swap instruction; the router program |
| Raydium example (`example/`) | decoded reserves, balances, two flags | `from_account`, `update_state`, `quote`, `price`, instruction building | cache |
| venue trait, tokens, errors, creation events (`trading_venue/`) | none | the contract venues owe to routing | all of the above |

### The router program

| component | state | operations |
|---|---|---|
| `swap_route_v3` | token accounts of one PDA shared by all users; user's accounts | create accounts, record balances, fund, one CPI per leg, pay out, close, compare balances |
| `initialize`, venue adapters | the PDA itself; none | one account creation; serialisation of a CPI |

### What is hard here

* **Interleaving.** Tasks share the cache; every `DashMap` access and every RPC
  answer is a separate step, and two tasks may fetch one account at two slots.
* **Partial failure and cancellation.** `update_state` awaits up to five times
  and assigns fields on the way. It returns at the first error, and its future
  can be dropped at any await; what was assigned stays.
* **Staleness.** A cached account is served until the next reset; Kvault carries
  over what it cannot read; the Raydium example combines three accounts that may
  have been cached at three moments.
* **Untrusted callees.** The router calls venues with its own signature over
  accounts that hold other users' tokens.
* **Two sides that must agree.** The builder concatenates account lists which
  the program cuts apart again by counts of one byte.
* **Numeric edges.** Doubling near `u64::MAX`, double rounding in midpoints,
  weights above 100 %, fees rounded separately, share arithmetic that rounds up
  to ten times between a deposit and a withdrawal, interest that may already
  have been applied, caps and queues at their limits.

The hazards, at their lines, are in `PROJECT.json`.

## 2. Modules

| module | models | composes with |
|---|---|---|
| `BoundarySearch` | `bounds.rs`; one action per loop iteration | the quote function is the constant operator `f` |
| `RpcClientCache` | `rpc_cache.rs`; any number of tasks, one action per map access or RPC answer | the ledger and the RPC node are external |
| `OverpassVenue` | `from_account`, `update_state`, each source's `update::run`, `initialized`, the control of `quote` | assumes of the cache exactly `FreshAfterReset` of `RpcClientCache` |
| `PriceParts` | `price_parts` and the price lookup of `quote` | takes any bounds that `BoundsQuote` of `BoundarySearch` allows |
| `Checked` | `common/checked.rs` and what a quote returns | used by all sources |
| `SaveSource`, `KlendSource`, `MarginfiSource`, `KvaultSource`, `LuloSource` | one source each: accrual, exchange rates, limits, fees, both quotes; what a trade does to the source (external) | `KvaultSource` extends `KlendSource`, whose reserves a Kamino vault invests in |
| `WrapperVaults` | a vault over any of the sources: the trades the quotes predict, while interest accrues, others borrow and administrators switch things off | instantiates the five sources; the quotes `OverpassVenue` and `BoundarySearch` leave abstract |
| `ShareVault` | the abstract specification: what a vault promises its shareholders | implemented by `WrapperVaults` |
| `RaydiumAmm` | the example venue: `update_state` over a shared cache, both kinds of quote, `price` | the pool's program and the cache's other users are external |
| `SwapRouteV3` | the whole `execute` of `swap_route_v3.rs`, transaction after transaction | venues are external, honest or not |
| `RouteBuilder` | `protocol_to_venue`, `assemble_leg_accounts`, `build_swap_leg`, and the program's slicing in `perform_cpi_swap` | extends `SwapRouteV3`, whose routes are the ones built |
| `BoundarySearchProofs`, `RpcClientCacheProofs`, `OverpassVenueProofs`, `PricePartsProofs`, `WrapperVaultsProofs`, `RaydiumAmmProofs`, `SwapRouteV3Proofs`, `RouteBuilderProofs` | theorems | extend their component |

Each run has an `MC...` module with the values of its constants.

### How state and actions correspond to the code

**BoundarySearch.** The variables are the four bracket ends of the code, `pc`
says which loop runs. `Valid` is `valid_quote` applied to the answer. `Scale` is
`saturating_mul(2)` capped at `MaxAmount`, `Mid` the double floor
`high/2 + low/2`. `Classify` is the code between the coarse search and the
refinements with its two error returns.

**RpcClientCache.** An entry carries the slot it was read at, which the code
does not store, so that properties can speak of age. `Scan` reads the map for
one key of the argument, `RpcAnswer` is the batched request, `StoreOne` and
`StoreMany` the inserts, `Assemble` the reordering with its `unwrap`.
`reset_cache` takes `&mut self`: it cannot run while a call borrows the cache.

**OverpassVenue.** One action is the synchronous code between two awaits. An
account's content is the chain version it was read at. `KvaultRun`, `LuloRun`
and so on list, per await, the keys asked for and the assignments in source
order; `SourceError` stops at any of them and keeps the earlier ones, `Cancel`
drops the future. A vault may change its protocol on chain, which makes
`update_state` rebuild its source; `MayFollow` says which protocols follow which
in an instance. Two accounts of Kvault that are fetched together and fail
together (the share account and the farms user state) are one key, `shares`.
What Kvault carries over for an account it cannot read (`Carried`) may be of any
age: `OkMeansFresh` is about the clock and the accounts an update cannot do without.
Decoders are reduced to success or failure; the arithmetic of a source is
reduced to whether it was accrued and whether it refuses every quote.

**PriceParts.** The three loops of `price_parts`. Prices are exact fractions
where the code divides `f64`, so statements are up to that rounding.

**WrapperVaults and the sources.** The operators keep the names and roundings of
the code: wads, scaled fractions, `I80F48` and Q60 numbers are integers times
their scale, powers are taken the way each source takes them. A quote is
`Refused` or a record of what it moves; every early return of the code is a
condition of the former. Each source's module gives its quotes up to the last
check, that of the value per share, which `WrapperVaults` adds, so that the two
can be compared (`CheckNeverRejects`). The crate only quotes; `Deposit` and
`Withdraw` apply to the source and the vault what the quote computed. `Refresh`
is the accrual that `update::run` performs on its copy and that anyone can have
the protocol perform. `Lend` and `Switch` are the others: borrowers (for Kvault
the crank that invests, for Lulo the pool's earnings) and administrators.
`Credit` is anyone who sends shares of a Kamino vault to the token account of the
wrapper's authority, which an update counts in the position when farms are in use
(`kvault/update.rs:139`); `Strays` is what lies there. A
Kvault quote does not look at the liquidity of the reserve it disinvests from;
`Executable` is that condition of the chain. Lulo keeps part of a position as
free tokens and pays referral fees with LP tokens, so its vault changes
differently (`Lulo!VaultDeposited`, `Lulo!VaultWithdrawn`); the venue refuses
every Lulo quote (`your_venue/mod.rs:411`), so what is shown of Lulo is about
the source's functions. Overflow of the 128 and 256 bit intermediates is left
out, that of `u64` results is kept.

**RaydiumAmm.** `past` is the history of the pool, and a cache entry says at
which of its states it was fetched. `UpdateState` is the whole of
`update_state`: fetch through the cache, both balances, the reserves, the tokens
and the flag, each kept if a later one fails. The balance is read from eight
bytes of a vault whether it decodes or not: those of another account say anything
(`Junk`), and an account too short to have them makes the update panic
(`UpdateStatePanics`). `read` remembers which moments the
stored reserves are of. Quotes are operators on the venue's state with the two
kinds of failure apart, `Err` and `Panic`.

**SwapRouteV3.** A PDA account is identified by its mint, so a mint listed twice
names one account twice. `saved` is the state a failed transaction rolls back
to. `Deficit`, `Fund` and `FundFails` cover the funding paths: plain tokens,
wrapped SOL topped up or created, and the token ledger of an earlier
instruction. `CpiSwap` is a venue that takes its input and pays anything,
`CpiMisbehaves` one that leaves any amount (`Leaves`) in each of the PDA
accounts it was given, all at once. Token-2022 may refuse to close an account
that holds withheld fees (`CloseError`), which rolls the route back. Rent,
decimals and a delegate that a venue could leave on a PDA account by an approval
are left out: custody is stated of what a route's own transaction does.

**RouteBuilder.** A plan lists each leg's venue instruction: protocol, program,
account metas with their signer flags, and its data reduced to the
discriminator. `BuildRoute` concatenates the legs, `Sent` is what the program
receives; `leg_accounts` and `account_metas` are the program's side. The count
of accounts is taken modulo `U8`. `PlannedIx` is what a venue's
`generate_swap_instruction` returns when the PDA is its user: only the PDA signs.

Operators commented "Deliberate error" are mutants: plausible bugs with which
the named property fails. No specification uses them.

## 3. Runs

| run | instance | shows |
|---|---|---|
| `bounds` | 6-bit amounts, tolerance 3, all contiguous ranges and some with a hole | bounds quote, are tight, wide ranges are never missed, the search ends |
| `bounds_doc_none` | same | *violation*: a quotable pool is reported as `NoQuotableValue` |
| `cache` | 2 tasks, 2 keys, 2 slots | order of replies, no panic, nothing survives a reset, every call returns |
| `venue` | all five protocols, Kvault with farms, vaults that change protocol, 2 chain versions | vault, config and tables stay together; an `Ok` repairs everything |
| `venue_doc_price` | Save, Klend | *violation*: after a failed update quote and price disagree |
| `venue_doc_required` | Kvault | *violation*: an update fetches unlisted accounts |
| `prices` | amounts 0..8, floor 1, curves with gaps, plateaus, falls | the table never rises and dominates the chords |
| `vaults` | all five sources, two or three pools each, amounts 1..4, up to 4 trades and 5 slots | shares and position stay in step, also when others send shares, no profit from a round trip, interest applied once, shares keep their worth, caps, queues and payouts respected; refinement of `ShareVault` |
| `vaults_doc_monotone` | same | *violation*: a larger deposit is quoted fewer shares |
| `raydium` | 4 pools, requests 0..12, 2 changes of the pool, one faulty account per fetch | reserves of one moment, product never falls, quotable amounts form an interval, price brackets the rate, exact-out buys enough and does not panic for what the pool can serve |
| `raydium_doc_no_panic` | same | *violation*: an exact-out quote panics |
| `route` | 3 mints, 8 plans of up to 3 legs, 2 weight units, bytes that count to 4 | custody, no stranded tokens, no account leak, exact payment; each venue gets the instruction it asked for |

**Why the bounds are enough to be interesting.** Six bits let the coarse search
double six times and the bisection bracket be ten tolerances wide; saturation,
the unprobed ends 0 and `MaxAmount` and ranges that the doubling steps over all
occur. Two tasks and two slots are what a race and a stale entry need. With two
chain versions an account is either older or newer than the last reset, the only
distinction the properties make.

*Vaults.* Each source starts once empty and once in use. Rates are such that a
slot compounds a visible interest and a span of several slots uses more than one
bit of the exponent, on curves with all their segments in use, with both bases
of Klend's compounding and both curves of Marginfi. The deposit fees of 25 %
step at every fourth amount, as 50 bps do at every 200th. The Klend pool in use
has a withdrawal queue and a withdrawal cap of one interval that runs out during
the run; the Kvault one has two allocations, fees, a penalty and a farm. `U64`
is 64 and the limits lie within reach, so that each refusal occurs. Scales of
5000 and 1024 stand for 10^18 and 2^60: TLC's integers have 32 bits. Amounts stay
far below the scale as they do in the code, except that the rounding of a rate
can then show as one unit, which `SharesKeepTheirWorth` and `OutflowLimited` allow
where it happens. Four trades are a deposit, a loan, another deposit or a switch, and a
withdrawal.

*Raydium.* A balanced pool, a lopsided one that owes profit, one whose fee was
never set and an empty one, with `U64` small enough for amounts to reach it. Two
changes separate the three moments the three accounts can be of; two prefetched
accounts are what mixing moments needs.

*Route.* A wrapped mint, a plain one and one with a transfer fee, a repeated
mint, a split with a join, a weight below and one above the unit, an unrelated
PDA account and each reason for refusal; balances of 0, 1 and 2 separate empty,
reserved and traded tokens. One plan has a leg with as many accounts as a byte
has values: it is built, cut short by the program, and refused. Another has an
instruction without a discriminator and is not built. One route is sent with an
account left out.

**Deadlock.** Searches and table construction end, so those configurations allow
it; the others check its absence.

**Fairness.** `BoundarySearch` and `PriceParts` are synchronous calls: weak
fairness of the next step says that the thread runs. In `RpcClientCache` each
task has weak fairness of its own steps: the runtime polls it, and the RPC
client's timeout turns silence into an error. No fairness is assumed for callers,
for the chain or for the order among tasks. The vaults, the Raydium venue and
the router promise nothing that must happen, so they have none.

**Refinement.** `ShareVault` has two variables, shares and the position behind
them, and three sentences: shares are minted only for an addition to the
position, a withdrawal takes all of it exactly with the last share, and no trade
leaves the other holders with less of the position per share. `KeepsPromise`
states that `WrapperVaults`, with `supply` mapped to `wrapper_supply` and `held`
to `intermediate_held`, implements it: accrual, loans, switches and the passing
of time are stuttering steps. Lulo takes no part, because its position shrinks by
referral fees and what backs a share there is a value.

### Where code and documentation disagree

Five runs refute a sentence of the documentation; `PROJECT.json` quotes each.
`NoQuotableValue` is also returned for narrow usable ranges (with
`WideRangeFound` bounding how narrow). A failed update leaves a new source with
the price tables of the old one until the next success. Kvault fetches accounts
its prefetch list lacks. Two deposit fees rounded separately let the quoted
output fall where both step, whatever the source. The Raydium example's `ExactOut`
quotes panic for outputs the pool does not hold and for inputs beyond a `u64`,
where the trait wants an error; `ExactOutSound` says for which outputs they do not.

Also worth knowing, without a run of its own:

* Shares that somebody sends to the token account of a farm-using Kvault wrapper
  count in the position before a trade (`kvault/math.rs:87`), while the position
  after it starts from the wrapper's record (`:79`, `:220`). The value check then
  refuses every withdrawal, and all but a few deposits, until the record includes
  them (second part of `CheckNeverRejects`). Whether the wrapper program ever
  records them is not in this repository; in the model it does not.
* Bounds are exact up to the tolerance only (`BoundsTight`), while the doc
  comment speaks of every smaller amount being invalid.
* Inside one window the price is constant, so the mean value condition of the
  trait holds between edges (`PriceBracketsChords`) and not between all amounts.
* A curve flat between its bounds has an empty price table, and its valid quotes
  report price 0 where the trait wants a positive one; `PriceShape` claims a
  positive price for curves that rise between their bounds.
* For a pool with an empty side the Raydium example answers a zero amount with
  `Ok` and a price of 0 or of 0/0 (`example/mod.rs:115`), where the trait wants a
  spot price; `InitializedQuotes` says that this is the only case.
* `data[64..72]` of a vault account shorter than 72 bytes panics before the error
  written for it can be returned (`example/mod.rs:347`, `:359`).
* `checked_ceil_div` rounds a quotient below one to the nearest instead of up, so
  an `ExactOut` quote can be zero; `ExactOutSound` leaves that case out.
* A Raydium venue whose mints were missing reports itself initialized with empty
  `token_info`, and one that finds its AMM account in the cache combines it with
  vaults of a later moment (`OneMoment` is about the other case).
* `n_accounts` is `accounts.len() as u8`: a leg of 256 accounts is counted as 0
  and the program refuses it. No leg of the crate comes near that.

## 4. Proofs

**BoundarySearchProofs** proves, for every integer width, every tolerance of at
least 2 and every quote function, all invariants of the run `bounds`, and three
more: the bracket invariant the code states (`SearchInvariantHolds`), that the
error for a collapsed range is never returned (`NeverCollapsesHolds`) and that
every refinement step narrows its bracket (`BracketNarrowsHolds`), the measure
behind termination. `BoundsQuote` is not inductive: that both returned ends quote
follows only from what each loop knows. `IInv` adds the shape of the doubling
probes (`ExpandLowerInv`), the order and validity of the bracket ends
(`BracketInv`) and what each phase has established (`PhaseInv`). `BoundsTight`
needs convexity of the usable set (`Convexity`), `WideRangeFound` the extra
invariant `WideInv`: no doubling passes the lower end of a wide range.
Assumptions: `MaxAmount >= 2`, `Tolerance >= 2`, quotes are well typed.

**RpcClientCacheProofs** proves, for any keys, tasks, argument lists and number
of slots, everything the run `cache` checks but liveness: the types, so that the
`unwrap` of the reassembly never fails (`TypeCorrect`), replies aligned with
their arguments (`RepliesInOrder`), nothing older than a reset served after it
(`ResetIsFresh`), and the action property that a cached account changes only by a
reset or by a task that missed it (`CacheStable`). A reply is built over several
steps between which other tasks write the map, so the invariant says of every
task, in every one of its phases, what it holds: what was found and what is still
missing together cover the arguments scanned so far (`Covered`), the node's
answer lists what was missing, in that order (`Aligned`), and everything held was
really read since the last reset (`FreshMap`). `FrameTask` shows once that a step
of one task disturbs none of this in another: what a task holds is its own, the
chain only grows, and a reset waits for open calls.
Assumptions: argument lists are not empty and there is a slot.

**OverpassVenueProofs** proves, for any choice of protocols, any way a vault may
change its protocol, with or without farms and for any number of chain versions,
that vault, config and tables are of one update (`CommitsTogether`) and that an
`Ok` leaves no required part older than the reset it ran after (`OkIsFresh`).
The second is about the whole update: it needs `Progress`, that what was asked
for before the current await is recent or dispensable, and that the parts
assigned before it are too, for a source that may still hold anything in the
others. What a source's update does is a recursive function over the list of
assignments of a stage (`After`). The provers do no induction over it, and need
not: no stage assigns more than four times, so `AfterStep` unfolds it four times
and `FourSteps` carries a property along. `SaveShape` to `KvaultShape` establish
the facts about each protocol's list of awaits (what is asked for before it is
assigned, that every part is assigned, that the last state is accrued); the rest
of the proof is the same for all five.

**PricePartsProofs** proves, for every quote function, bounds and floor, that
the construction stays within the bounds and divides by nothing (`TypeCorrect`),
that the reported price never rises (`PriceShapeHolds`) and that it brackets the
average rates between edges (`PriceBracketsChordsHolds`). The invariant `PInv`
has a part per loop: `Halving` for the unsorted edges, `Ordered` for the sorted
ones, `Tabled` for the parts made of the windows so far, `Smoothed` for the
suffix in which prices no longer rise; `Untouched` says that a curve that rises
everywhere has a part per window, and that smoothing changes none of them if it
is concave. Fractions are compared by cross multiplication; `NotLessTrans` is
their transitivity. Where the argument is an induction along the edges
(`Telescope`, from the slopes of windows to those between any two edges), it is
made with sets: `Climbing` says that a set of numbers which contains the first
and with each its successor contains all, `Least` and `Greatest` that a set has
ends. `ConcaveChords` gets from concavity at every amount to concavity between
edges. `Sorted` is defined as the sequence that lists a set in ascending order,
and `SortedFacts` proves that it does. Assumptions: amounts are an initial
segment of the natural numbers, and outputs are natural numbers or missing.

**WrapperVaultsProofs** proves, for every pool of all five sources, every
configuration, fee, scale and history, that shares and position vanish together
(`InSyncHolds`), that the value check never refuses unless others sent the vault
shares, and then refuses every withdrawal (`CheckNeverRejectsHolds`),
that the vaults implement `ShareVault` (`PromiseKept`), that a copy accrued at
an update quotes what the raw account does (`PreAccrueSameHolds`), that Klend's
caps and queue limit what is withdrawn (`OutflowLimitedHolds`) and that payouts
are covered (`PayoutCoveredHolds`). Three more properties are theorems for some of
the sources:

| property | Save | Klend | Kvault | Marginfi | Lulo |
|---|---|---|---|---|---|
| `TypeOK` (`TypeOKHolds`) | proved | proved | proved | TLC | proved |
| `BooksBalance` (`BooksBalanceHolds`) | proved | proved | TLC; payouts proved | TLC | proved |
| `RoundTripNoProfit` (`KlendRoundTrip`, `KvaultRoundTrip`, `MarginfiRoundTrip`) | TLC | proved if `EmptyOwnsDust` | proved if `EmptyKeepsDust` | proved | TLC |

The argument has these parts.

* *The value check* is not about one state alone: in a vault with shares and no
  position it would be meaningless, so `VaultInv` carries `InSync` through every
  trade. A Kvault position is counted in a farm, in stake, and not where the
  wrapper records it, so `FarmInv` carries that the stake is a fixed multiple of
  the record (`StakedAgrees`, `PositionAgrees`). With `Strays` in the position the
  part redeemed exceeds that of the record by more than rounding gives back, so the
  check refuses it (`StrayCheck`); every withdrawal that happens is of a vault
  without. The rest is pro-rata rounding:
  `FloorBelow`, then `MintKeepsValue` and `BurnKeepsValue`, which `DepositFacts`
  and `WithdrawFacts` apply to each source.
* *A Lulo share* is backed by a value: LP tokens less the referral fee on their
  profit, plus free tokens. `LuloInv` keeps the balances natural numbers and the
  LP tokens held within those issued. LP tokens are worth at most their part of
  the pool (`LuloValue`), from which follow `LuloDepositFacts` and
  `LuloWithdrawFacts`: what a trade leaves is at least the others' part
  (`RatioChain` chains the two roundings), a withdrawal never burns the last
  share, and what it pays is covered by the free tokens' part and what its LP
  tokens are redeemed for (`LuloPayoutCovered`).
* *Interest applied once.* `PreAccrueSame` needs `SourceInv`: accounts keep their
  fields, the clock is a natural number, and the account of a Kamino vault, unlike
  an update's copy, caches no assets. For each source, accruing at the time of the
  last accrual changes nothing (`SaveAccruedOnce` to `ReservesAccruedOnce`), and a
  quote reads nothing else that accrual touches (`SaveQuotesSame` to
  `KvaultQuotesSame`).
* *Solvency, however debts compound.* A withdrawal subtracts what a quote computed
  at an accrued rate, so that a balance stays a natural number is a fact about the
  rate: the vault's part is worth at most what the reserve owns. `KlendInv` says
  that the reserve owns something as long as collateral is issued (`Solvent`) and
  that position and queue together are part of that collateral; `SaveInv` that the
  fees are part of what borrowers owe. Accrual keeps both, since debt compounds by
  a factor of at least one and the fees taken are at most the new debt. Klend's factor is a polynomial; Save's is a power by squaring, a recursive
  function, and the induction over its bits is made with a least counterexample
  (`Least`). With these, `BooksBalance` follows for the lenders
  (`BooksOfLenders`), and `OutflowLimited` from what a withdrawal leaves: it pays
  for its collateral at most the rate before it, so the rate after differs by less
  than the unit the property allows.
* *Kamino vaults.* `KvaultInv` says the same of each reserve a vault is invested
  in, that the ctokens of an allocation are collateral its reserve has issued, and
  that the wrapper's shares are shares of the vault. Charging and settling fees,
  investing, disinvesting and redeeming each keep it (`SettledHolds`,
  `RebalancedHolds` and their neighbours). The assets are a recursive sum over the
  allocations; that it is a natural number, and that some allocation is the
  largest, are inductions along the list (`UpTo`, which rests on `Least`).
* *Marginfi.* `MarginfiInv` says that share values stay natural numbers and the
  position part of the asset shares. It rests on the two curves never giving a
  negative rate: the segments of the seven-point curve are found by `Least`
  and its mirror image, and a falling segment is refused by `lerp`.
* *No profit from a round trip* combines both sides of a trade. The shares minted
  redeem at most the collateral that the deposit brought (`MintedRedeemBrought`),
  and that collateral pays at most what was paid in for it (`PaidInCoversPaidOut`
  at an exchange rate, `BoughtPayBack` at a share value), because a deposit does
  not make the collateral of the source dearer than it was bought. A Kamino vault
  charges its fees with the deposit, so a withdrawal right after it charges none
  (`FeesChargedOnce`). A source without collateral issues it one for one whatever
  it owns, so one that has lost all its holders and still owns a token or more
  would give it to the next depositor. `EmptyOwnsDust` and `EmptyKeepsDust` exclude
  exactly that; they say nothing of a reserve or vault that has holders.
* *Supply.* `VaultFits`: every deposit checks that the new supply of shares fits
  in 64 bits, and nothing else raises it.
* Two theorems are about roundings at any rate: a Klend deposit never needs more
  than it brings (`DepositWithinNetAtAnyRate`), and a Kvault withdrawal is covered
  by what it redeems (`DisinvestCovered`).

Assumptions: scales and periods are positive, amounts and fees natural, time does
not run backwards (`ScaleAssumption`, `PeriodAssumption`, `AmountsAssumption`,
`FeesAssumption`, `TicksAssumption`); the sources are the five and their accounts
have the fields of their decoded states (`SourcesAssumption`, `PoolsAssumption`).
Initial accounts are ones the protocols can be in. A Save reserve's fees are part
of the interest owed (`SaveAssumption`). A Klend reserve owns something if it has
issued collateral, its take rate is at most 100 %, and administrators set its flags
(`KlendAssumption`). A Kamino vault holds part of the collateral of such reserves;
its administrators change settings and no balances (`KvaultAssumption`). Its
reserves have a basis of interest the crate knows, since accrual is an error with
another (`klend/math.rs:149`) and the vault then quotes nothing. A Marginfi bank's
curve does not fall and its optimal utilization is at most one, as the protocol
demands of its configuration (`MarginfiAssumption`). A farm starts without the
wrapper's stake and with a fixed number of stake per share, and any number of
shares may lie idle (`FarmAssumption`). A
Lulo pool has natural balances, and its administrators set its halt and its limit
(`LuloAssumption`). TLC evaluates all of them on the pools of the run `vaults`.

**RaydiumAmmProofs** proves, for every pool, history, fault and cache content,
all invariants of the run `raydium`. Two invariants carry them. `Inv` adds to
what is known of the pool that it never owes more profit than it holds
(`Solvent`), without which the subtraction of `OneMoment` says nothing, that
products are ordered along the whole history (`Ordered`), and that cache and
venue refer to states of it; from it follow `OneMomentHolds` and
`ProductNeverFallsHolds` (`BaseInKeepsProduct`: the output rounded down leaves the product at least what it was, and the fee only adds to
the input). `TInv` is about the reserves a venue has combined, of whatever
moments: they are natural numbers and the fee is below one half. Both together
give `InitializedQuotesHolds`, `TInv` alone the properties of quotes: a larger input keeps more after its fee (`KeptMono`)
and pays more (`CurveMono`), so quotable amounts are an interval
(`QuotableCurveHolds`); fee and output each lose at most one unit against the
exact curve (`BracketArith`, `PriceBracketsRateHolds`); and the two roundings up
of an exact-out quote outweigh the roundings down of the forward quote
(`BuysEnough`, `ExactOutSoundHolds`). Assumptions: the fee is below one half and a
pool starts solvent (`PoolsAssumption`).

**SwapRouteV3Proofs** proves, for any mints, routes, number of legs, amounts and
venue behaviour, all invariants of the program in the run `route`. Custody rests
on `IInv`: balances never underflow (`TypeCorrect`), committed routes keep what
they found (`ReservedNeverTakenHolds`), the closing check never rejects honest
venues (`HonestNeverViolatesHolds`). The check at the end compares recorded
accounts only, so custody needs more: that the recording was made before
anything moved (`Untouched`, `RecordsStart`), that every account a venue can be
given is recorded (`ExtraRecorded`), and that unrecorded accounts never lose
anything (`UnrecordedKeep`). For honest venues, `HonestKeep` follows from
`LegFacts`: a leg spends at most what exceeds the recorded balance, because a
weight capped at the unit never scales an amount up (`MulMono`, `DivLe`). A
second invariant, `AInv`, is proved on top of the first and follows accounts and
payments: a closed account is empty (`ClosedEmpty`), the route's own are open
while it runs (`RouteOpen`), an account it has created and left open holds
tokens (`NewHold`), the user has paid nothing before and exactly the amount
after the funding, which with a ledger is what arrived since it was set
(`NothingMoved`, `PaidAfterFunding`). Hence
`NoAccountLeakHolds` and `UserPaysExactlyHolds`. `NothingStrandedHolds` is about
the legs still to come: while an account other than the output's differs from
what was found, some later leg names it (`PendingLeg`), and the last such leg
spends all of it (`FullLeg`; `Least` picks that leg, in place of an induction
over them). Assumptions: arguments and initial balances are natural numbers and
the weight unit is positive; they hold of the program's types.

**RouteBuilderProofs** proves `BuiltRouteDelivered` for every plan with any number
of legs, each with fewer accounts than a byte can count
(`BuiltRouteDeliveredHolds`). The program advances an index by the count of each
leg and never sees the boundaries the builder concatenated at, so the invariant is
that the two agree: at every leg the index is the number of accounts of the legs
before it (`IndexFollowsBuilderHolds`), and the accounts up to there are a prefix
of the whole list. Then the slice is the leg's own, whose last account is the
program, and the signers are restored because the PDA is the only one that signs.
Assumptions: plans are well typed, and an instruction calls its protocol's program
and is signed by the PDA alone (`PlansAssumption`), which is what
`generate_swap_instruction` makes of the PDA as its user.

**Only model-checked.**

* Liveness (`Terminates`, `CallsReturn`), which this prover does not reach.
* `SharesKeepTheirWorth`. It compares what a share is worth before and after time
  passes. Klend's compounding is an approximation by three terms of a series whose
  rate is rounded per unit of time, and Save's a power of a rounded rate: that the
  result never falls as time goes on depends on the magnitudes.
* `BooksBalance` for Kvault and Marginfi. That a Kamino vault's pending fees stay
  within its assets can fail by a unit in the last place at some scales, after
  everything was withdrawn; that Marginfi's lenders are credited no more than
  borrowers are charged plus one depends on how large the shares are against the
  scale.
* `TypeOK` for Marginfi. It claims that a withdrawal stays within the tokens of the
  bank's vault: true of the magnitudes explored, but two roundings can add up where
  share values are large against the scale.
* `RoundTripNoProfit` for Save, whose exchange rate is rounded down in favour of
  who redeems, so that a profit of a unit is a matter of scale; for Lulo; and for a
  Klend reserve or Kamino vault that has no collateral and owns a token or more.

## 5. Not modelled, and the plan

| next | content |
|---|---|
| more proofs | `RoundTripNoProfit` for Lulo; `SharesKeepTheirWorth` for the steps in which no time passes |
| abstract specifications | a read-through cache and a range oracle, implemented by `RpcClientCache` and `BoundarySearch` |

Not planned, because it is stateless data layout without behaviour to check:
address derivation and account meta lists, the byte decoders of accounts (their
success or failure is modelled), the Borsh encoding of `swap_route_v3`'s
arguments and the venue adapters that serialise a CPI, `parse_pool_creations`,
the loading of AMM keys, error types. The router's `initialize` creates one
account and has no further state. Slippage is left out where its only caller
passes zero. `f64` rounding of prices is out of TLC's reach; prices are exact
fractions. The Overpass, lending and Raydium programs are not part of the
repository; they are modelled as external, by what the quotes predict.
