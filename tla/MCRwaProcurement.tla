--------------------------- MODULE MCRwaProcurement ---------------------------
(* RwaProcurement for TLC: two merchants, of which m2 is on no allowlist.   *)
EXTENDS RwaProcurement, TLC

CONSTANTS m1, m2

MCMerchants == {m1, m2}
MCAllowlist == {m1}
MCRosters == {<<m1, m2>>}
MCNoLists == {<<>>}

SymmetryOfIds == Permutations(Pools) \cup Permutations(Orders)
=============================================================================
