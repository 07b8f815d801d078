---------------------------- MODULE MCEdgeEngine ----------------------------
(* One address under up to two policies of any kind, targeted or not, with   *)
(* and without an expiry; a bucket of two tokens refilled one per tick.      *)
EXTENDS EdgeEngine, TLC

CONSTANTS s1, s2, x, AnyOne

MCExpiries == {1, Never}

Symmetry == Permutations({s1, s2})
=============================================================================
