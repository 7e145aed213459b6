-------------------------- MODULE MCRpcClientCache --------------------------
(***************************************************************************)
(* Two tasks refresh from one cache: two accounts, three slots.             *)
(***************************************************************************)
EXTENDS RpcClientCache

CONSTANTS a, b

MCKeys == {a, b}
MCRequests == {<<a, b>>, <<b, a>>}
=============================================================================
