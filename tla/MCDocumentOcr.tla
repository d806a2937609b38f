--------------------------- MODULE MCDocumentOcr ---------------------------
(***************************************************************************)
(* Model values for DocumentOcr.  The documents do not share anything but  *)
(* the worker, so one of either type is enough.                            *)
(***************************************************************************)
EXTENDS DocumentOcr, TLC
=============================================================================
