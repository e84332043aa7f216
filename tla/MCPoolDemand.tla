----------------------------- MODULE MCPoolDemand -----------------------------
(* PoolDemand for TLC: three merchants, of which m2 is on no allowlist and  *)
(* m3 has a user account.                                                   *)
EXTENDS PoolDemand, TLC

CONSTANTS m1, m2, m3, p1, p2

MCMerchants == {m1, m2, m3}
MCAllowlist == {m1}
MCUserBacked == {m3}

\* One of the two on a roster is verified, or both are.
MCRosters == {<<m1, m2>>, <<m3, m1>>}

\* By default the roster; two who are not on every roster.
MCSeedLists == {<<>>, <<m3, m1>>}
MCNoLists == {<<>>}

\* A negative quantity is a correction nobody refuses.
MCCorrections == {-1, 2}

SymmetryOfPools == Permutations(Pools)
=============================================================================
