------------------------------ MODULE MCTracks ------------------------------
(***************************************************************************)
(* Tracks for TLC: two ids share a bucket.                                 *)
(***************************************************************************)
EXTENDS Tracks

SharedBucket(k) == IF k = "k3" THEN 2 ELSE 1
=============================================================================
