------------------------------ MODULE MCDbService ------------------------------
(* Small instances of DbService for TLC.                                     *)
EXTENDS DbService, TLC
=============================================================================
