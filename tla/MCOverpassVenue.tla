-------------------------- MODULE MCOverpassVenue ---------------------------
(***************************************************************************)
(* Instances of the venue refresh.  A vault may change between any of the    *)
(* protocols with small sources or to an unknown byte, which is handled the  *)
(* same whatever the protocol; a Kvault stays one.                           *)
(***************************************************************************)
EXTENDS OverpassVenue

Small == {"Save", "Klend", "Lulo", "Marginfi", UnknownProtocol}
MCMayFollow == (Small \X Small) \cup {<<"Kvault", "Kvault">>}
=============================================================================
