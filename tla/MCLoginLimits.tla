--------------------------- MODULE MCLoginLimits ---------------------------
(***************************************************************************)
(* Model values for LoginLimits: accounts whose hashes share a lock key.   *)
(***************************************************************************)
EXTENDS LoginLimits, TLC

CONSTANT k1
SameKey == [a \in Accounts |-> k1]
Symmetry == Permutations(Accounts) \cup Permutations(Clients) \cup Permutations(Requests)
=============================================================================
