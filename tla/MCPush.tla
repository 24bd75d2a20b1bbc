----------------------------- MODULE MCPush --------------------------------
(* Small instances of Push for TLC: the constants of the runs.          *)
EXTENDS Push, TLC

CONSTANTS a, b, v1, v2, p, q

Symmetry == Permutations({a, b}) \cup Permutations({v1, v2})
=============================================================================
