---------------------------- MODULE MCRaydiumAmm ----------------------------
(***************************************************************************)
(* A balanced pool, a lopsided one that owes profit, one whose fee was never *)
(* set, and an empty one.                                                    *)
(***************************************************************************)
EXTENDS RaydiumAmm

MCPool(pc, coin, pnl, num, den) ==
    [pc |-> pc, coin |-> coin, pnl_pc |-> pnl, pnl_coin |-> pnl, status |-> "SwapOnly",
     num |-> num, den |-> den, accruals |-> 0]

MCPools ==
    { MCPool(9, 7, 0, 2, 11), MCPool(13, 2, 1, 1, 4),
      MCPool(5, 3, 0, 0, 0), MCPool(0, 0, 0, 1, 5) }

MCRequests == 0 .. 12
=============================================================================
