---------------------------- MODULE MCAuthAccounts ----------------------------
(* AuthAccounts for TLC. *)
EXTENDS AuthAccounts, TLC

Symmetry ==
  Permutations(Requests) \cup Permutations(Emails) \cup Permutations(Secrets)
=============================================================================
