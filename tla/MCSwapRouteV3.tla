--------------------------- MODULE MCSwapRouteV3 ----------------------------
(***************************************************************************)
(* Three mints: sol is wrapped SOL, usd a plain token, taxed a Token-2022    *)
(* mint with a transfer fee.  Weights are in halves, and a byte counts to 4. *)
(***************************************************************************)
EXTENDS RouteBuilder

CONSTANTS sol, usd, taxed

MCMints == {sol, usd, taxed}

Meta(key, signer) == [key |-> key, signer |-> signer]
Pda(signer) == Meta(TitanPda, signer)
Ix(protocol, program, data, accounts) ==
    [protocol |-> protocol, program |-> program, data |-> data, accounts |-> accounts]

\* Instructions of the two protocols: the user owns the tokens and signs; one
\* with too many accounts to count, and one without a discriminator.
Raydium == Ix("RaydiumAMM", "raydium", "16", <<Meta("pool", FALSE), Pda(TRUE)>>)
Deposit == Ix("Overpass", "overpass", "deposit", <<Pda(TRUE)>>)
Withdraw == Ix("Overpass", "overpass", "withdraw", <<Pda(TRUE), Meta("vault", FALSE)>>)
Huge == Ix("Overpass", "overpass", "withdraw",
           <<Pda(TRUE), Meta("vault", FALSE), Meta("farm", FALSE), Meta("market", FALSE)>>)
Broken == Ix("Overpass", "overpass", NoData, <<Pda(TRUE)>>)

Swaps(from, to, weight, ix) == [from |-> from, to |-> to, weight |-> weight, ix |-> ix]
MCPlan(mints, legs, extra) == [mints |-> mints, legs |-> legs, extra |-> extra, owned |-> TRUE]

\* One leg; a split with a join; out and back over a repeated mint; half of the
\* input, beside an unrelated PDA account; a leg with too many accounts; and
\* requests the program or the builder refuses.
MCPlans ==
    { MCPlan(<<sol, usd>>, <<Swaps(1, 2, 2, Raydium)>>, {}),
      MCPlan(<<sol, usd, taxed>>,
             <<Swaps(1, 2, 1, Deposit), Swaps(1, 3, 3, Raydium), Swaps(2, 3, 2, Withdraw)>>, {}),
      MCPlan(<<taxed, usd, taxed>>, <<Swaps(1, 2, 2, Raydium), Swaps(2, 3, 2, Deposit)>>, {}),
      MCPlan(<<usd, sol>>, <<Swaps(1, 2, 1, Withdraw)>>, {taxed}),
      MCPlan(<<sol, usd>>, <<Swaps(1, 2, 2, Huge)>>, {}),
      MCPlan(<<sol, usd>>, <<Swaps(1, 3, 2, Deposit)>>, {}),
      MCPlan(<<sol, usd>>, <<Swaps(1, 2, 2, Broken)>>, {}),
      [MCPlan(<<sol, usd>>, <<Swaps(1, 2, 2, Deposit)>>, {}) EXCEPT !.owned = FALSE] }

\* What is sent: the routes built, and one of them with an account left out.
MCBuilt == {Sent(plan) : plan \in {x \in MCPlans : Buildable(x)}}
MCShort == {[r EXCEPT !.accounts = 1] : r \in {x \in MCBuilt : x.accounts = 3 /\ x.extra = {}}}
MCRoutes == MCBuilt \cup MCShort
=============================================================================
