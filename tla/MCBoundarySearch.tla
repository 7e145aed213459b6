-------------------------- MODULE MCBoundarySearch --------------------------
(***************************************************************************)
(* Instances of the boundary search.  Amounts have 6 bits: the coarse       *)
(* search doubles 6 times, and a refinement bracket is up to 32 wide, 10    *)
(* times the tolerance of 3.                                                *)
(***************************************************************************)
EXTENDS BoundarySearch

MCMaxAmount == 63
NoHole == 0

\* All contiguous ranges from..to (from > to: the pool never quotes), and some
\* ranges with one amount in the middle at which the quote fails.
MCCurves ==
    [from: 1 .. MCMaxAmount, to: 0 .. MCMaxAmount, above: {"exhausted", "failing"},
     hole: {NoHole}]
    \cup
    [from: {1, 2, 3, 5, 9}, to: {30, 31, 32, 33, 63}, above: {"exhausted"},
     hole: 1 .. MCMaxAmount]

\* The curve rounds amounts below `from' to nothing; above `to' it reports
\* missing liquidity or returns an error.
MCf(c, x) ==
    [ok |-> ~(x > c.to /\ c.above = "failing") /\ (x # c.hole \/ x = NoHole),
     not_enough_liquidity |-> x > c.to,
     expected_output |-> IF x < c.from THEN 0 ELSE 1]
=============================================================================
