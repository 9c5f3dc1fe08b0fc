------------------------------ MODULE MCPacket ------------------------------
(***************************************************************************)
(* Packet for TLC.                                                         *)
(***************************************************************************)
EXTENDS Packet
=============================================================================
