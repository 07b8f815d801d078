-------------------------- MODULE MCPostgresTriage --------------------------
(* Small instances of PostgresTriage.                                        *)
EXTENDS PostgresTriage, TLC

CONSTANTS k1, k2, ann, a1, a2, p, q

Symmetry == Permutations({a1, a2}) \cup Permutations({p, q})
=============================================================================
