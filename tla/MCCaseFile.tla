----------------------------- MODULE MCCaseFile -----------------------------
(***************************************************************************)
(* Model values for CaseFile: cases, requests and the users that are not   *)
(* ADMIN are interchangeable.                                              *)
(***************************************************************************)
EXTENDS CaseFile, TLC

Symmetry == Permutations(Users \ Admins) \cup Permutations(Cases) \cup Permutations(Requests)
=============================================================================
