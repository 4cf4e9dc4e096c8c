--------------------------- MODULE MCHostedConnection ---------------------------
(* Small instances of HostedConnection for TLC. *)
EXTENDS HostedConnection, TLC

ThreadSymmetry == Permutations(Callbacks)
==============================================================================
