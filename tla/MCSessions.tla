----------------------------- MODULE MCSessions -----------------------------
(***************************************************************************)
(* Model values for Sessions: sessions and requests are interchangeable.   *)
(***************************************************************************)
EXTENDS Sessions, TLC

Symmetry == Permutations(Sessions) \cup Permutations(Requests)
=============================================================================
