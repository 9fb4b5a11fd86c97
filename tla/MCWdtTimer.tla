----------------------------- MODULE MCWdtTimer -----------------------------
(* WdtTimer for TLC.                                                       *)
EXTENDS WdtTimer
=============================================================================
