------------------------------ MODULE MCExtCalls ------------------------------
(* Small instances of ExtCalls for TLC.                                      *)
EXTENDS ExtCalls, TLC

(* Threads of the host and of the process, and scopes, are interchangeable.  *)
Symmetry == Permutations(Hosts) \cup Permutations(Threads) \cup Permutations(Scopes)
=============================================================================
