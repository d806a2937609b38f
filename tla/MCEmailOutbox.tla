---------------------------- MODULE MCEmailOutbox ----------------------------
(***************************************************************************)
(* Model values for EmailOutbox.  Dispatchers treat the tokens of users    *)
(* apart, so one user whose emails are of any kind is enough.              *)
(***************************************************************************)
EXTENDS EmailOutbox, TLC
=============================================================================
