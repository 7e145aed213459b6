---------------------------- MODULE MCPriceParts ----------------------------
(***************************************************************************)
(* Price tables of small quote functions: amounts 0 .. 8 and a floor of 1,   *)
(* so that the halving loop runs up to twice, every pair of bounds, output   *)
(* rising by 0, 1 or 2 per atom, with a refused amount or a fall on the way. *)
(***************************************************************************)
EXTENDS PriceParts

MCAmounts == 0 .. 8

\* Outputs of 1 .. 8 from the increments per atom; above 4 there is one for
\* every two atoms.
Outputs ==
    {<<p, p + q, p + q + r, p + q + r + s, p + q + r + s + t, p + q + r + s + 2 * t,
       p + q + r + s + 2 * t + u, p + q + r + s + 2 * t + 2 * u>> :
        p \in 0 .. 2, q \in 0 .. 2, r \in 0 .. 2, s \in 0 .. 2, t \in 0 .. 2, u \in 0 .. 2}

\* A curve that refuses the amount `hole', or starts again from nothing at the
\* amount `fall' (0: neither).
MCCurves ==
    {[x \in MCAmounts |->
        IF x = 0 THEN 0
        ELSE IF x = hole THEN None
        ELSE o[x] - (IF fall > 0 /\ x >= fall THEN o[fall] ELSE 0)] :
            o \in Outputs, hole \in {0, 4}, fall \in {0, 3}}
=============================================================================
