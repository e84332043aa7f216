---------------------------- MODULE MCActivityLog ----------------------------
(* ActivityLog for TLC: two kinds of entries, a buffer of three.            *)
EXTENDS ActivityLog

\* Nothing, less than nothing, less than one, two and a half, more than all.
MCLimits == {-10, 5, 10, 25, 90}
=============================================================================
