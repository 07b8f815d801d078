------------------------- MODULE MCIncidentResponse -------------------------
(* A small instance of IncidentResponse: a rule that counts by address and   *)
(* one that counts by asset, whose alert may therefore change its address;   *)
(* two alerts, two addresses, one request on a case and one on an alert.     *)
EXTENDS IncidentResponse, TLC

CONSTANTS k1, k2, ann, a1, a2, p, c, x, y, host, d1, d2

MCSeeds == {[key |-> k1, assignee |-> ann, resolution |-> "no_action"]}

MCOrigins == {<<k1, x>>, <<k2, x>>, <<k2, y>>, <<k2, host>>}

MCMinDuration == -4

MCRawDurations ==
    {[form |-> "permanent", n |-> 0], [form |-> "go", n |-> -1], [form |-> "bad", n |-> 0]}

\* A block, one whose time is over at once, a control that resolves alerts, and one
\* refused for each reason.
MCTerms ==
    LET ok == [form |-> "permanent", n |-> 0]
    IN {[type |-> "block_ip", raw |-> ok], [type |-> "block_ip", raw |-> [form |-> "go", n |-> -1]],
        [type |-> "waf_rule", raw |-> ok],
        [type |-> "unknown", raw |-> ok], [type |-> "block_ip", raw |-> [form |-> "bad", n |-> 0]]}

Symmetry == Permutations({a1, a2}) \cup Permutations({d1, d2})
=============================================================================
