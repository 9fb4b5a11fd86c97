----------------------------- MODULE MCRikbtnd -----------------------------
(* Rikbtnd for TLC.                                                        *)
EXTENDS Rikbtnd
=============================================================================
