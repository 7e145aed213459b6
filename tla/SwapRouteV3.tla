---------------------------- MODULE SwapRouteV3 -----------------------------
(***************************************************************************)
(* The router program's swap_route_v3 instruction                            *)
(* (program-template/.../instructions/swap_route_v3.rs), executed by one     *)
(* transaction after another on the token accounts of the one TitanPDA that  *)
(* all users share.  What earlier transactions left there is `reserved':     *)
(* no later route may spend it.                                              *)
(*                                                                          *)
(* A transaction runs alone (Solana locks its writable accounts) and either  *)
(* commits or is rolled back.  The venue programs are external: they are     *)
(* called with the PDA's signature, so a faulty one may move what it likes   *)
(* between its pool and the PDA accounts of its leg.                         *)
(*                                                                          *)
(* A PDA token account is identified by its mint, so a mint that a route     *)
(* lists twice names one account twice.  Indices count from 1.               *)
(***************************************************************************)
EXTENDS Integers, Sequences

CONSTANTS
    Mints,       \* the mints
    Native,      \* the wSOL mint, or a value outside Mints
    FeeMints,    \* Token-2022 mints with a transfer fee
    Routes,      \* the route arguments explored
    Amounts,     \* the amount arguments explored
    Ledgers,     \* the ledger balances explored
    Leaves,      \* the balances a misbehaving venue may leave
    WeightUnit,  \* 1_000_000_000 nanos: spend all that is available
    MAX_SWAPS, MAX_MINTS,
    InitialPda, InitialUser,       \* balances at the start: sets
    InitialPool, InitialLamports,  \* and numbers
    NoLedger,    \* no token ledger account was passed
    WrongLedger  \* the ledger of another account, or an unreadable one

\* A route: its mint list; its legs, each with the number n of accounts it
\* takes; how many leg accounts were passed; and the mints of further PDA
\* accounts among those; owned: every account listed for a mint is the PDA's.
Leg == [from: Nat \ {0}, to: Nat \ {0}, weight: Nat, n: Nat]
Route == [mints: Seq(Mints), legs: Seq(Leg), accounts: Nat, extra: SUBSET Mints,
          owned: BOOLEAN]

ASSUME RoutesAssumption == Routes \subseteq Route /\ Routes # {}
ASSUME AmountsAssumption == Amounts \subseteq Nat /\ Amounts # {}
ASSUME LedgersAssumption ==
    /\ Ledgers # {}
    /\ Ledgers \subseteq Nat \cup {NoLedger, WrongLedger}
    /\ NoLedger \notin Nat /\ WrongLedger \notin Nat
ASSUME LeavesAssumption == Leaves \subseteq Nat
ASSUME WeightAssumption == WeightUnit \in Nat \ {0}
ASSUME FeeMintsAssumption == FeeMints \subseteq Mints
ASSUME InitialAssumption ==
    /\ InitialPda \subseteq Nat /\ InitialUser \subseteq Nat
    /\ InitialPool \in Nat /\ InitialLamports \in Nat

VARIABLES
    pda, pdaOpen,      \* the PDA's token balances; which accounts exist
    user, userOpen,    \* the user's
    pool,              \* the venues' (external)
    withheld,          \* transfer fees (external)
    lamports,          \* the user's SOL
    saved,             \* the state a rollback returns to
    pc, route, amount, ledger,
    created,           \* created_atas: indices whose account was created
    reserved,          \* reserved_balances, by index
    snapshot,          \* titan_pda_ata_balances, by account
    leg, pos,          \* current leg and remaining_account_index
    outcome,           \* how the last transaction ended
    honest             \* every venue took exactly its input so far (history)

bank == <<pda, pdaOpen, user, userOpen, pool, withheld, lamports>>
args == <<route, amount, ledger>>
progress == <<created, reserved, snapshot, leg, pos>>
vars == <<bank, saved, pc, args, progress, outcome, honest>>

Bank == [pda |-> pda, pdaOpen |-> pdaOpen, user |-> user, userOpen |-> userOpen,
         pool |-> pool, withheld |-> withheld, lamports |-> lamports]

-----------------------------------------------------------------------------
\* External: what a Token-2022 transfer of x withholds.
Fee(m, x) == IF m \in FeeMints /\ x > 0 THEN 1 ELSE 0

\* Deliberate error: a subtraction that does not saturate.
plain_sub(x, y) == x - y

saturating_sub(x, y) == IF x >= y THEN x - y ELSE 0

NoSnapshot == [m \in {} |-> 0]

Add(f, m, x) == [f EXCEPT ![m] = @ + x]

RouteMints(r) == {r.mints[i] : i \in 1 .. Len(r.mints)}
InputMint == route.mints[1]
OutputIndex == route.legs[Len(route.legs)].to
OutputMint == route.mints[OutputIndex]

\* The require!s at the start of execute.
WellFormed(r) ==
    /\ Len(r.mints) > 1 /\ r.legs # <<>>
    /\ Len(r.legs) <= MAX_SWAPS /\ Len(r.mints) <= MAX_MINTS
    /\ r.legs[1].from = 1
    /\ \A k \in 1 .. Len(r.legs) :
           r.legs[k].from <= Len(r.mints) /\ r.legs[k].to <= Len(r.mints)

-----------------------------------------------------------------------------
\* The transaction ends and its locals go; an error restores every account.
End(how) ==
    /\ pc' = "idle"
    /\ outcome' = how
    /\ created' = {} /\ reserved' = <<>> /\ snapshot' = NoSnapshot /\ leg' = 1 /\ pos' = 0
    /\ IF how = "Ok" THEN UNCHANGED bank
       ELSE /\ pda' = saved.pda /\ pdaOpen' = saved.pdaOpen
            /\ user' = saved.user /\ userOpen' = saved.userOpen
            /\ pool' = saved.pool /\ withheld' = saved.withheld
            /\ lamports' = saved.lamports

\* A transaction with these arguments starts; malformed ones change nothing.
Submit ==
    /\ pc = "idle"
    /\ \E r \in Routes, a \in Amounts, l \in Ledgers :
          /\ route' = r /\ amount' = a /\ ledger' = l
          /\ IF WellFormed(r) /\ l # WrongLedger
               THEN pc' = "create" /\ outcome' = "running"
               ELSE pc' = "idle" /\ outcome' = "Err"
    /\ saved' = Bank
    /\ honest' = TRUE
    /\ UNCHANGED <<bank, progress>>

\* PDA accounts that do not exist are created, each once.
CreateAtas ==
    /\ pc = "create"
    /\ created' = {i \in 1 .. Len(route.mints) :
                      /\ ~pdaOpen[route.mints[i]]
                      /\ \A j \in 1 .. i - 1 : route.mints[j] # route.mints[i]}
    /\ pdaOpen' = [m \in Mints |-> pdaOpen[m] \/ m \in RouteMints(route)]
    /\ pc' = "snapshot"
    /\ UNCHANGED <<pda, user, userOpen, pool, withheld, lamports, saved, args,
                   reserved, snapshot, leg, pos, outcome, honest>>

\* Balances to protect: the route's accounts and every other PDA account passed.
Snapshot ==
    /\ pc = "snapshot" /\ route.owned
    /\ reserved' = [i \in 1 .. Len(route.mints) |-> pda[route.mints[i]]]
    /\ snapshot' = [m \in RouteMints(route) \cup {x \in route.extra : pdaOpen[x]} |-> pda[m]]
    /\ pc' = "fund"
    /\ UNCHANGED <<bank, saved, args, created, leg, pos, outcome, honest>>

SnapshotError ==
    /\ pc = "snapshot" /\ ~route.owned
    /\ End("Err")
    /\ UNCHANGED <<saved, args, honest>>

-----------------------------------------------------------------------------
\* Deliberate error: what the account held when the ledger was set is spent too.
effective_amount_whole ==
    IF ledger = NoLedger THEN amount ELSE user[InputMint]

\* The amount to spend: the argument, or what arrived since the ledger was set.
effective_amount ==
    IF ledger = NoLedger THEN amount ELSE user[InputMint] - ledger

\* setup_wsol_input_account applies.
Wraps == ledger = NoLedger /\ InputMint = Native

\* Deliberate error: one atom more than the account lacks is wrapped.
DeficitPlusOne ==
    IF ~Wraps THEN 0
    ELSE IF userOpen[InputMint] THEN saturating_sub(effective_amount + 1, user[InputMint])
    ELSE effective_amount

\* SOL wrapped by it: the deficit of an existing account, else everything.
Deficit ==
    IF ~Wraps THEN 0
    ELSE IF userOpen[InputMint] THEN saturating_sub(effective_amount, user[InputMint])
    ELSE effective_amount

\* Each reason for which the funding transfer or what precedes it fails.
FundFails ==
    \/ /\ ledger # NoLedger
       /\ ~userOpen[InputMint] \/ effective_amount <= 0
    \/ Deficit > lamports
    \/ /\ effective_amount > 0
       /\ ~(userOpen[InputMint] \/ Wraps) \/ user[InputMint] + Deficit < effective_amount

\* The input moves to the PDA; a wSOL account made for it is closed again.
Fund ==
    /\ pc = "fund" /\ ~FundFails
    /\ LET fee == Fee(InputMint, effective_amount)
       IN  /\ lamports' = lamports - Deficit
           /\ user' = Add(user, InputMint, Deficit - effective_amount)
           /\ pda' = Add(pda, InputMint, effective_amount - fee)
           /\ withheld' = Add(withheld, InputMint, fee)
    /\ pc' = "legs"
    /\ UNCHANGED <<pdaOpen, userOpen, pool, saved, args, progress, outcome, honest>>

FundError ==
    /\ pc = "fund" /\ FundFails
    /\ End("Err")
    /\ UNCHANGED <<saved, args, honest>>

-----------------------------------------------------------------------------
Swap == route.legs[leg]
FromMint == route.mints[Swap.from]
ToMint == route.mints[Swap.to]

\* Deliberate error: the reserved balance is spent too.
available_balance_all == pda[FromMint]

available_balance == saturating_sub(pda[FromMint], reserved[Swap.from])

\* weight_nanos.min(1_000_000_000)
Weight == IF Swap.weight < WeightUnit THEN Swap.weight ELSE WeightUnit

\* Deliberate error: a leg spends no more than the route's input amount.
input_amount_capped ==
    LET all == (available_balance * Weight) \div WeightUnit
    IN  IF all > amount THEN amount ELSE all

input_amount == (available_balance * Weight) \div WeightUnit

\* The leg has accounts and they were passed.
LegAccountsOk == Swap.n > 0 /\ pos + Swap.n <= route.accounts

NextLeg ==
    /\ pc' = IF leg = Len(route.legs) THEN "settle" ELSE "legs"
    /\ leg' = IF leg = Len(route.legs) THEN leg ELSE leg + 1
    /\ pos' = pos + Swap.n

\* Nothing to spend: the venue is not called.
SkipLeg ==
    /\ pc = "legs" /\ LegAccountsOk /\ input_amount = 0
    /\ NextLeg
    /\ UNCHANGED <<bank, saved, args, created, reserved, snapshot, outcome, honest>>

\* perform_cpi_swap with a venue that takes amount_in and pays some output.
CpiSwap ==
    /\ pc = "legs" /\ LegAccountsOk /\ input_amount > 0
    /\ \E out \in 0 .. pool[ToMint] :
          /\ pda' = Add(Add(pda, FromMint, - input_amount), ToMint, out)
          /\ pool' = Add(Add(pool, FromMint, input_amount), ToMint, - out)
    /\ NextLeg
    /\ UNCHANGED <<pdaOpen, user, userOpen, withheld, lamports, saved, args,
                   created, reserved, snapshot, outcome, honest>>

\* External: the venue uses the PDA's signature for something else, on any of
\* the PDA accounts it is given at once.
Reach == {FromMint, ToMint} \cup {x \in route.extra : pdaOpen[x]}

CpiMisbehaves ==
    /\ pc = "legs" /\ LegAccountsOk /\ input_amount > 0
    /\ \E left \in [Reach -> Leaves] :
          /\ \A m \in Reach : left[m] <= pda[m] + pool[m]
          /\ pda' = [m \in Mints |-> IF m \in Reach THEN left[m] ELSE pda[m]]
          /\ pool' = [m \in Mints |->
                        IF m \in Reach THEN pool[m] + pda[m] - left[m] ELSE pool[m]]
    /\ honest' = FALSE
    /\ NextLeg
    /\ UNCHANGED <<pdaOpen, user, userOpen, withheld, lamports, saved, args,
                   created, reserved, snapshot, outcome>>

\* The accounts are missing, or the venue fails.
LegError ==
    /\ pc = "legs"
    /\ ~LegAccountsOk \/ input_amount > 0
    /\ End("Err")
    /\ UNCHANGED <<saved, args, honest>>

-----------------------------------------------------------------------------
traded_output_amount ==
    saturating_sub(pda[OutputMint], reserved[OutputIndex])

\* Deliberate error: the accounts this transaction created are closed though
\* they are not empty.
SettleClosesAll ==
    /\ pc = "settle"
    /\ LET out == traded_output_amount
           fee == Fee(OutputMint, out)
       IN  /\ pda' = Add(pda, OutputMint, - out)
           /\ user' = Add(user, OutputMint, out - fee)
           /\ withheld' = Add(withheld, OutputMint, fee)
    /\ userOpen' = [userOpen EXCEPT ![OutputMint] = TRUE]
    /\ pdaOpen' = [m \in Mints |-> pdaOpen[m] /\ ~\E i \in created : route.mints[i] = m]
    /\ pc' = "check"
    /\ UNCHANGED <<pool, lamports, saved, args, progress, outcome, honest>>

\* The output goes to the user, whose account is created when missing; then
\* the accounts this transaction created are closed if they are empty.
Settle ==
    /\ pc = "settle"
    /\ LET out == traded_output_amount
           fee == Fee(OutputMint, out)
       IN  /\ pda' = Add(pda, OutputMint, - out)
           /\ user' = Add(user, OutputMint, out - fee)
           /\ withheld' = Add(withheld, OutputMint, fee)
    /\ userOpen' = [userOpen EXCEPT ![OutputMint] = TRUE]
    /\ pdaOpen' = [m \in Mints |->
                      pdaOpen[m] /\ ~(pda'[m] = 0 /\ \E i \in created : route.mints[i] = m)]
    /\ pc' = "check"
    /\ UNCHANGED <<pool, lamports, saved, args, progress, outcome, honest>>

\* External: Token-2022 refuses to close an empty account that still holds
\* withheld transfer fees, and the transaction fails with it.
CloseError ==
    /\ pc = "settle"
    /\ \E i \in created :
          LET m == route.mints[i]
          IN  m \in FeeMints /\ pda[m] = IF m = OutputMint THEN traded_output_amount ELSE 0
    /\ End("Err")
    /\ UNCHANGED <<saved, args, honest>>

\* Deliberate error: only the accounts of the route's mints are compared.
CheckRouteOnly ==
    /\ pc = "check"
    /\ End(IF \A m \in DOMAIN snapshot \cap RouteMints(route) : pda[m] >= snapshot[m]
             THEN "Ok" ELSE "ReservedBalanceViolation")
    /\ UNCHANGED <<saved, args, honest>>

\* No protected account may have lost anything; a closed one counts as 0.
Check ==
    /\ pc = "check"
    /\ End(IF \A m \in DOMAIN snapshot : pda[m] >= snapshot[m]
             THEN "Ok" ELSE "ReservedBalanceViolation")
    /\ UNCHANGED <<saved, args, honest>>

-----------------------------------------------------------------------------
Next ==
    \/ Submit \/ CreateAtas \/ Snapshot \/ SnapshotError \/ Fund \/ FundError
    \/ SkipLeg \/ CpiSwap \/ CpiMisbehaves \/ LegError
    \/ Settle \/ CloseError \/ Check

\* External: balances and accounts left by earlier activity; a closed account
\* holds nothing.
Init ==
    /\ pda \in [Mints -> InitialPda]
    /\ pdaOpen \in [Mints -> BOOLEAN]
    /\ \A m \in Mints : pda[m] > 0 => pdaOpen[m]
    /\ user \in [Mints -> InitialUser]
    /\ userOpen = [m \in Mints |-> user[m] > 0]
    /\ pool = [m \in Mints |-> InitialPool]
    /\ withheld = [m \in Mints |-> 0]
    /\ lamports = InitialLamports
    /\ saved = Bank
    /\ pc = "idle"
    /\ route = CHOOSE r \in Routes : TRUE
    /\ amount = CHOOSE a \in Amounts : TRUE
    /\ ledger = CHOOSE l \in Ledgers : TRUE
    /\ created = {} /\ reserved = <<>> /\ snapshot = NoSnapshot
    /\ leg = 1 /\ pos = 0
    /\ outcome = "none" /\ honest = TRUE

Spec == Init /\ [][Next]_vars

-----------------------------------------------------------------------------
Balances == [Mints -> Nat]

\* Types; every balance stays a natural number, so no transfer underflows.
TypeOK ==
    /\ pda \in Balances /\ user \in Balances /\ pool \in Balances /\ withheld \in Balances
    /\ pdaOpen \in [Mints -> BOOLEAN] /\ userOpen \in [Mints -> BOOLEAN]
    /\ lamports \in Nat
    /\ saved \in [pda: Balances, pdaOpen: [Mints -> BOOLEAN], user: Balances,
                  userOpen: [Mints -> BOOLEAN], pool: Balances, withheld: Balances,
                  lamports: Nat]
    /\ pc \in {"idle", "create", "snapshot", "fund", "legs", "settle", "check"}
    /\ route \in Routes /\ amount \in Amounts /\ ledger \in Ledgers
    /\ created \subseteq 1 .. Len(route.mints)
    /\ leg \in Nat \ {0} /\ pos \in Nat
    /\ outcome \in {"none", "running", "Ok", "Err", "ReservedBalanceViolation"}
    /\ honest \in BOOLEAN

Committed == pc = "idle" /\ outcome = "Ok"

\* A committed route leaves in every PDA account at least what it found there,
\* also when a venue it called took more than its input, and also in accounts
\* that no leg names as input or output: no route spends what belongs to others.
ReservedNeverTaken ==
    Committed => \A m \in Mints : pda[m] >= saved.pda[m]

\* The program's own arithmetic never touches the reserved balances: while
\* venues take exactly their input, the final check does not fire, with
\* transfer fees, repeated mints and circular routes too.
HonestNeverViolates == outcome = "ReservedBalanceViolation" => ~honest

\* The route spends everything: of each mint but the output's, the last leg
\* that touches it is one that spends all of it.
SpendsAll ==
    \A k \in 1 .. Len(route.legs) :
        LET Touches(j, m) == m \in {route.mints[route.legs[j].from], route.mints[route.legs[j].to]}
        IN  \A m \in {route.mints[route.legs[k].from], route.mints[route.legs[k].to]} \ {OutputMint} :
               (\A j \in k + 1 .. Len(route.legs) : ~Touches(j, m)) =>
                   /\ route.mints[route.legs[k].from] = m
                   /\ route.mints[route.legs[k].to] # m
                   /\ route.legs[k].weight >= WeightUnit

\* Such a route with honest venues strands nothing in the PDA: all of what the
\* legs produced reaches the user.
NothingStranded ==
    Committed /\ honest /\ SpendsAll => pda = saved.pda

\* A PDA account is never closed with tokens in it, and an account that the
\* route had to create stays open only if it holds some.
NoAccountLeak ==
    /\ \A m \in Mints : pda[m] > 0 => pdaOpen[m]
    /\ Committed => \A m \in Mints : pdaOpen[m] /\ ~saved.pdaOpen[m] => pda[m] > 0

\* The user pays exactly the amount asked for, in tokens first and in wrapped
\* SOL only for what the token account lacks; with a ledger, exactly what
\* arrived since it was set, which is something, and no SOL: a balance that fell
\* or stayed meanwhile is refused.
Paid ==
    IF ledger = NoLedger
      THEN /\ saved.user[InputMint] + saved.lamports - user[InputMint] - lamports = amount
           /\ lamports < saved.lamports => user[InputMint] = 0
      ELSE /\ user[InputMint] = ledger /\ saved.user[InputMint] > ledger
           /\ lamports = saved.lamports

UserPaysExactly == Committed /\ InputMint # OutputMint => Paid
=============================================================================
