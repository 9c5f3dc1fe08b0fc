------------------------------ MODULE MCRequest ------------------------------
(***************************************************************************)
(* Request for TLC.  One type that request_notify_main_thread() announces  *)
(* and one that it does not; the runs differ in the number of requests and *)
(* in whether a post can be caught half done.                              *)
(***************************************************************************)
EXTENDS Request
=============================================================================
