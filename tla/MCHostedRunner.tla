---------------------------- MODULE MCHostedRunner ----------------------------
(* The hosted account on small instances; run groups are interchangeable. *)
EXTENDS HostedRunner, TLC

GroupSymmetry == Permutations(Groups)
==============================================================================
