--------------------------- MODULE MCOrderLifecycle ---------------------------
(* OrderLifecycle for TLC: requests are interchangeable. *)
EXTENDS OrderLifecycle, TLC

\* A tie below zero, which may be carried as nothing, and what rounds up.
MCAmounts == {-5, 19}

Symmetry == Permutations(Requests)
=============================================================================
