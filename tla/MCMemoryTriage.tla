--------------------------- MODULE MCMemoryTriage ---------------------------
(* A small instance of MemoryTriage: one detection key, three alerts, one    *)
(* demo alert, two requests that may overlap.                                *)
EXTENDS MemoryTriage, TLC

CONSTANTS k1, k2, ann, a1, a2, a3, p, q

MCSeeds == {[key |-> k1, assignee |-> ann, resolution |-> "no_action"]}

Symmetry == Permutations(AlertIds) \cup Permutations({p, q})
=============================================================================
