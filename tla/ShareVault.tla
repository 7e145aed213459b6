----------------------------- MODULE ShareVault -----------------------------
(***************************************************************************)
(* What a wrapper vault promises the holders of its shares, whatever source  *)
(* it keeps their deposits in: shares are made and burnt against a position, *)
(* and no trade of one holder dilutes the others.                            *)
(***************************************************************************)
EXTENDS Integers

VARIABLES
    supply,   \* shares in circulation
    held      \* the position behind them, in units of the source

vars == <<supply, held>>

\* Every share is backed by at least as much of the position as before.
Undiluted == held' * supply >= held * supply'

Init == supply = 0 /\ held = 0

\* Shares are minted for what is added to the position.
Deposit == supply' > supply /\ held' > held /\ Undiluted

\* Shares are burnt for a part of the position: all of it only for all shares.
Withdraw ==
    /\ 0 <= supply' /\ supply' < supply
    /\ 0 <= held' /\ held' < held
    /\ supply' = 0 <=> held' = 0
    /\ Undiluted

Next == Deposit \/ Withdraw

Spec == Init /\ [][Next]_vars
=============================================================================
