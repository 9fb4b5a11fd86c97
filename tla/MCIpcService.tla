--------------------------- MODULE MCIpcService ---------------------------
(* IpcService for TLC: the connections are interchangeable.                *)
EXTENDS IpcService, TLC

Symmetry == Permutations(Conns)
=============================================================================
