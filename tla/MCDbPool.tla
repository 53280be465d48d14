------------------------------- MODULE MCDbPool -------------------------------
(* Small instances of DbPool for TLC.                                        *)
EXTENDS DbPool, TLC

(* Threads, scopes and handles are interchangeable, and so are data sources  *)
(* of the same driver.                                                       *)
Symmetry == Permutations(Workers) \cup Permutations(Scopes) \cup Permutations(Tokens)
=============================================================================
