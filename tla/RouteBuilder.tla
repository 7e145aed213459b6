---------------------------- MODULE RouteBuilder ----------------------------
(***************************************************************************)
(* The off-chain route builder (src/swap_route/mod.rs) composed with the     *)
(* program that executes what it built: each leg's accounts are assembled    *)
(* from the venue's own swap instruction, all legs are concatenated, and the *)
(* program slices them apart again by the counts n_accounts, one byte each.  *)
(***************************************************************************)
EXTENDS SwapRouteV3

CONSTANTS
    U8,             \* 256
    Keys,           \* the accounts' keys
    TitanPda,       \* the PDA's key
    Discriminators, \* the leading bytes of instruction data
    Plans           \* the routes a client wants to build

ASSUME U8Assumption == U8 \in Nat \ {0}

NoData == "no data"
Failed == [failed |-> TRUE]

\* The program each of the two venues calls, by its protocol.
program_id == [RaydiumAMM |-> "raydium", Overpass |-> "overpass"]

\* A venue's swap instruction: its protocol, the program it calls, its account
\* metas, and its data, reduced to the discriminator or NoData when too short.
AccountMeta == [key: Keys, signer: BOOLEAN]
Instruction == [protocol: DOMAIN program_id, program: Keys,
                data: Discriminators \cup {NoData}, accounts: Seq(AccountMeta)]

\* A plan lists, beside the mints and weights, the instruction of each leg.
Plan == [mints: Seq(Mints), extra: SUBSET Mints, owned: BOOLEAN,
         legs: Seq([from: Nat \ {0}, to: Nat \ {0}, weight: Nat, ix: Instruction])]

\* generate_swap_instruction is given the PDA as the user: it, and no one else,
\* signs, and it is not one of the programs.
PlannedIx(ix) ==
    /\ ix.program = program_id[ix.protocol] /\ ix.program # TitanPda
    /\ \A i \in 1 .. Len(ix.accounts) : ix.accounts[i].signer <=> ix.accounts[i].key = TitanPda

ASSUME PlansAssumption ==
    /\ Plans \subseteq Plan
    /\ \A plan \in Plans : \A k \in 1 .. Len(plan.legs) : PlannedIx(plan.legs[k].ix)

WithSigner(meta, signer) == [key |-> meta.key, signer |-> signer]

-----------------------------------------------------------------------------
\* protocol_to_venue: the program's venue selector, or an error.
protocol_to_venue(ix) ==
    CASE ix.protocol = "RaydiumAMM" -> [venue |-> "RaydiumAmm", discriminator |-> "swap_base_in_v2"]
      [] ix.protocol = "Overpass" /\ ix.data # NoData ->
            [venue |-> "Overpass", discriminator |-> ix.data]
      [] OTHER -> Failed

\* Deliberate errors: the PDA still signs; the program id comes first.
assemble_still_signing(ix) ==
    Append(ix.accounts, [key |-> ix.program, signer |-> FALSE])

assemble_program_first(ix) ==
    <<[key |-> ix.program, signer |-> FALSE]>> \o
    [i \in 1 .. Len(ix.accounts) |->
        IF ix.accounts[i].key = TitanPda THEN WithSigner(ix.accounts[i], FALSE) ELSE ix.accounts[i]]

\* The PDA signs through its seeds, not the transaction; the program id is last.
assemble_leg_accounts(ix) ==
    Append([i \in 1 .. Len(ix.accounts) |->
               IF ix.accounts[i].key = TitanPda THEN WithSigner(ix.accounts[i], FALSE)
               ELSE ix.accounts[i]],
           [key |-> ix.program, signer |-> FALSE])

\* n_accounts: accounts.len() as u8.
build_swap_leg(l) ==
    IF protocol_to_venue(l.ix) = Failed THEN Failed
    ELSE LET accounts == assemble_leg_accounts(l.ix)
         IN  [spec |-> [from |-> l.from, to |-> l.to, weight |-> l.weight,
                        n |-> Len(accounts) % U8],
              venue |-> protocol_to_venue(l.ix),
              accounts |-> accounts]

\* The client builds one leg after the other and appends its accounts to the
\* route's; it gives up when a leg fails.
Buildable(plan) == \A k \in 1 .. Len(plan.legs) : build_swap_leg(plan.legs[k]) # Failed

AllAccounts(plan) ==
    LET all[k \in 0 .. Len(plan.legs)] ==
            IF k = 0 THEN <<>> ELSE all[k - 1] \o build_swap_leg(plan.legs[k]).accounts
    IN  all

BuildRoute(plan) ==
    [specs |-> [k \in 1 .. Len(plan.legs) |-> build_swap_leg(plan.legs[k]).spec],
     venues |-> [k \in 1 .. Len(plan.legs) |-> build_swap_leg(plan.legs[k]).venue],
     all |-> AllAccounts(plan)[Len(plan.legs)]]

\* What the program receives of it.
Sent(plan) ==
    LET r == BuildRoute(plan)
    IN  [mints |-> plan.mints, legs |-> r.specs, accounts |-> Len(r.all),
         extra |-> plan.extra, owned |-> plan.owned]

\* The plans that can be built and whose legs a byte can count, with the result.
Fits(plan) == \A k \in 1 .. Len(plan.legs) : Len(plan.legs[k].ix.accounts) + 1 < U8
Built == {[route |-> Sent(plan), legs |-> plan.legs, result |-> BuildRoute(plan)] :
             plan \in {x \in Plans : Buildable(x) /\ Fits(x)}}

-----------------------------------------------------------------------------
(* The program's side of a leg (perform_cpi_swap and the slice before it). *)

\* An account signs the transaction if any of its metas says so.
SignsTransaction(all, key) == \E i \in 1 .. Len(all) : all[i].key = key /\ all[i].signer

leg_accounts(all) == SubSeq(all, pos + 1, pos + Swap.n)

account_metas(all) ==
    LET slice == leg_accounts(all)
    IN  [i \in 1 .. Swap.n - 1 |->
            WithSigner(slice[i], slice[i].key = TitanPda \/ SignsTransaction(all, slice[i].key))]

\* The program each venue module names, and the data it sends.
PROGRAM_ID == [RaydiumAmm |-> "raydium", Overpass |-> "overpass"]

-----------------------------------------------------------------------------
(* Properties *)

\* A route that was built, with no leg of more accounts than a byte can count,
\* has all the accounts its legs count, and asks no signature of the PDA, which
\* has no private key: the transaction can be sent.  And what a venue's own
\* instruction asked for is what the venue gets when the route reaches its leg:
\* the same accounts with the same signers, its program, last in the slice, and
\* the same discriminator.
BuiltRouteDelivered ==
    pc = "legs" =>
        \A b \in {x \in Built : x.route = route} :
            LET ix == b.legs[leg].ix
                venue == b.result.venues[leg]
            IN  /\ LegAccountsOk
                /\ ~SignsTransaction(b.result.all, TitanPda)
                /\ account_metas(b.result.all) = ix.accounts
                /\ leg_accounts(b.result.all)[Swap.n].key = PROGRAM_ID[venue.venue]
                /\ ix.program = PROGRAM_ID[venue.venue]
                /\ ix.protocol = "Overpass" => venue.discriminator = ix.data
=============================================================================
