-------------------------- MODULE MCDocumentUpload --------------------------
(***************************************************************************)
(* Model values for DocumentUpload.  Users share neither a quota nor a     *)
(* lock, so the uploads of one are enough.                                 *)
(***************************************************************************)
EXTENDS DocumentUpload, TLC
=============================================================================
