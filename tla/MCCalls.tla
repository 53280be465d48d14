-------------------------------- MODULE MCCalls ---------------------------------
EXTENDS Calls

(* The collector's free places hold nothing that a later step reads.          *)
MCView ==
    <<[p \in Live |-> heap[p]], pool, bounded, retained, callVars>>

MCPlaces == 1 .. 5
=============================================================================
