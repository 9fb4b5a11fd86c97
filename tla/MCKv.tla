-------------------------------- MODULE MCKv --------------------------------
(* Kv for TLC.                                                             *)
EXTENDS Kv
=============================================================================
