--------------------------- MODULE MCControlPlane ---------------------------
(* Two controls over one address.  Durations: none, already over, about to   *)
(* end, ending later, an invalid one, and a number of days that overflows.   *)
EXTENDS ControlPlane, TLC

CONSTANTS c1, c2, x

MCMinDuration == -4

MCRawDurations ==
    {[form |-> "permanent", n |-> 0], [form |-> "go", n |-> -1], [form |-> "go", n |-> 0],
     [form |-> "days", n |-> 1], [form |-> "days", n |-> 3], [form |-> "bad", n |-> 0]}

Symmetry == Permutations({c1, c2})
=============================================================================
