------------------------------ MODULE MCIpmbd ------------------------------
(* Ipmbd for TLC: the handlers are interchangeable.                        *)
EXTENDS Ipmbd, TLC

Symmetry == Permutations(Handlers)
=============================================================================
