------------------------------ MODULE MCChannel ------------------------------
(***************************************************************************)
(* Channel for TLC: three owners are enough to leave a hole below          *)
(* next_channel_id and to make the ids creep past WireSize.                *)
(***************************************************************************)
EXTENDS Channel
=============================================================================
