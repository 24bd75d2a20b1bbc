----------------------------- MODULE MCWitness -----------------------------
(* Small instances of Witness for TLC: the constants of the runs.          *)
EXTENDS Witness, TLC

CONSTANTS a, b, v1, v2, p, q

Symmetry == Permutations({a, b}) \cup Permutations({v1, v2})
=============================================================================
