------------------------------ MODULE MCSession ------------------------------
(***************************************************************************)
(* Session for TLC.                                                        *)
(***************************************************************************)
EXTENDS Session

Requests == Node
=============================================================================
