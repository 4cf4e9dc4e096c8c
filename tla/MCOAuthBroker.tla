----------------------------- MODULE MCOAuthBroker -----------------------------
(* Small instances of OAuthBroker for TLC. *)
EXTENDS OAuthBroker, TLC

Symmetry == Permutations(Invites) \cup Permutations(States) \cup Permutations(Threads)
=============================================================================
