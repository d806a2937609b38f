--------------------------- MODULE MCDocumentScan ---------------------------
EXTENDS DocumentScan, TLC

Symmetry == Permutations(Jobs) \cup Permutations(Executions)
=============================================================================
