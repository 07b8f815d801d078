---------------------------- MODULE EdgePolicies ----------------------------
(***************************************************************************)
(* The policy table of edge/edge.go and the verdict it gives on an event,  *)
(* without the token buckets (EdgeEngine adds them).                       *)
(***************************************************************************)
EXTENDS Clock

CONSTANTS SourceIds,  \* Policy.SourceID: the identity of the control behind it
          Sources,    \* source addresses of events
          AnyIP,      \* the empty TargetIP: a policy for every address
          NoPolicy    \* a source without a policy

Kinds == {"deny", "rate_limit", "waf"}

Policy == [kind : Kinds, target : Sources \cup {AnyIP}, expires : Int \cup {Never}]

ASSUME AnyIPAssumption == AnyIP \notin Sources
ASSUME NoPolicyAssumption == NoPolicy \notin Policy

VARIABLE policies

PoliciesTypeOK == policies \in [SourceIds -> Policy \cup {NoPolicy}]

PoliciesInit == policies = [s \in SourceIds |-> NoPolicy]

\* Mutant of Remove: every policy for the same address goes.
RemoveByTarget(s) ==
    policies' = [r \in SourceIds |->
                    IF policies[r] # NoPolicy /\ policies[s] # NoPolicy
                       /\ policies[r].target = policies[s].target
                    THEN NoPolicy ELSE policies[r]]

\* Install replaces whatever the source had; Remove forgets it.
Install(s, policy) == policies' = [policies EXCEPT ![s] = policy]
Remove(s) == policies' = [policies EXCEPT ![s] = NoPolicy]

\* matchLocked: the sources with a live policy of the kind for the address.  The
\* code returns any of them (it ranges over a map).
Matches(kind, ip) ==
    {s \in SourceIds : /\ policies[s] # NoPolicy
                       /\ policies[s].kind = kind
                       /\ ~Past(policies[s].expires)
                       /\ policies[s].target \in {AnyIP, ip}}

\* Which control decides on an event, in Eval's order: deny, then rate limit, and
\* the WAF rules only for addresses that are not rate limited.  Eval asks for WAF
\* policies with the empty address, so only untargeted ones can match.
Verdict(ip, attack) ==
    IF Matches("deny", ip) # {} THEN "deny"
    ELSE IF Matches("rate_limit", ip) # {} THEN "rate_limit"
    ELSE IF Matches("waf", AnyIP) # {} /\ attack THEN "waf"
    ELSE "pass"
=============================================================================
