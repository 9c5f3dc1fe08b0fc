------------------------------- MODULE MCLogin -------------------------------
(***************************************************************************)
(* Login for TLC: three servers, so that records are inserted in the       *)
(* middle of the list, the best of which has an address of its own or two  *)
(* to try in turn.                                                         *)
(***************************************************************************)
EXTENDS Login

CONSTANTS a1, a2

ServerAddresses == <<<<a1, a2>>, <<a2, a1>>, <<a2>>>>
=============================================================================
