---------------------------- MODULE ControlPlane ----------------------------
(***************************************************************************)
(* The containment handlers of server/analysis_handlers.go over the        *)
(* registry and the edge.  Deploying is two calls, registry then edge, and *)
(* so is revoking; each call takes its own component's lock, and nothing   *)
(* spans the two.  A control is listed, and can be revoked, as soon as the *)
(* first call has returned.                                                *)
(***************************************************************************)
EXTENDS ContainmentRegistry, EdgePolicies

ASSUME SharedNames == SourceIds = ControlIds /\ Sources = IPs /\ AnyIP = NoIP

VARIABLES installing,  \* deployed, Install still to come
          removing,    \* revoked, Remove still to come
          overlapped   \* history: revoked while Install was still to come

vars == <<now, items, policies, installing, removing, overlapped>>

TypeOK ==
    /\ ClockTypeOK /\ RegistryTypeOK /\ PoliciesTypeOK
    /\ installing \in SUBSET ControlIds
    /\ removing \in SUBSET ControlIds
    /\ overlapped \in SUBSET ControlIds

Init ==
    /\ ClockInit /\ RegistryInit /\ PoliciesInit
    /\ installing = {}
    /\ removing = {}
    /\ overlapped = {}

\* Mutant of edgePolicyFor: the expiry is not copied.
edgePolicyForNoExpiry(c) ==
    [target |-> c.ip, expires |-> Never,
     kind |-> CASE c.type = "block_ip" -> "deny"
                [] c.type = "rate_limit" -> "rate_limit"
                [] OTHER -> "waf"]

edgePolicyFor(c) ==
    [target |-> c.ip, expires |-> c.expires,
     kind |-> CASE c.type = "block_ip" -> "deny"
                [] c.type = "rate_limit" -> "rate_limit"
                [] OTHER -> "waf"]

-----------------------------------------------------------------------------
DeployRegister(id, type, ip, raw) ==
    /\ Deploy(id, type, ip, raw)
    /\ installing' = installing \cup {id}
    /\ UNCHANGED <<now, policies, removing, overlapped>>

DeployInstall(id) ==
    /\ id \in installing
    /\ Install(id, edgePolicyFor(items[id]))
    /\ installing' = installing \ {id}
    /\ UNCHANGED <<now, items, removing, overlapped>>

\* Mutant of RevokeMark: the handler never tells the edge.
RevokeMarkOnly(id) == Revoke(id) /\ UNCHANGED <<now, policies, installing, removing, overlapped>>

RevokeMark(id) ==
    /\ Revoke(id)
    /\ removing' = removing \cup {id}
    /\ overlapped' = IF id \in installing THEN overlapped \cup {id} ELSE overlapped
    /\ UNCHANGED <<now, policies, installing>>

RevokeRemove(id) ==
    /\ id \in removing
    /\ Remove(id)
    /\ removing' = removing \ {id}
    /\ UNCHANGED <<now, items, installing, overlapped>>

ListContainment(ip) == List(ip) /\ UNCHANGED <<now, policies, installing, removing, overlapped>>

Tick == Advance /\ UNCHANGED <<items, policies, installing, removing, overlapped>>

Next ==
    \/ \E id \in ControlIds, type \in Types \cup {"unknown"}, ip \in IPs \cup {NoIP},
          raw \in RawDurations :
          DeployRegister(id, type, ip, raw)
    \/ \E id \in ControlIds : DeployInstall(id) \/ RevokeMark(id) \/ RevokeRemove(id)
    \/ \E ip \in IPs \cup {NoIP} : ListContainment(ip)
    \/ Tick

\* A handler that made its first call makes its second: nothing between the two
\* blocks.  Operators and clocks owe nothing.
Fairness == \A id \in ControlIds : WF_vars(DeployInstall(id)) /\ WF_vars(RevokeRemove(id))

Spec == Init /\ [][Next]_vars /\ Fairness

-----------------------------------------------------------------------------
Settled(id) == id \notin installing \cup removing

\* A deployed IP block or rate limit that is neither revoked nor past its expiry
\* is in force for its address, whatever else was deployed or revoked meanwhile.
LiveControlEnforced ==
    \A id \in ControlIds :
        Known(id) /\ Settled(id) /\ items[id].status = "ACTIVE" /\ ~Past(items[id].expires) =>
            /\ items[id].type = "block_ip" => Verdict(items[id].ip, FALSE) = "deny"
            /\ items[id].type = "rate_limit" => Verdict(items[id].ip, FALSE) \in {"deny", "rate_limit"}

\* A policy that decides events stems from an active control that is not past its
\* expiry, or from one whose revocation is under way, or whose revocation
\* overlapped its deployment.
InForce(id) == \E kind \in Kinds, ip \in Sources \cup {AnyIP} : id \in Matches(kind, ip)

EnforcedOnlyWhileLive ==
    \A id \in ControlIds : InForce(id) =>
        /\ Known(id)
        /\ \/ items[id].status = "ACTIVE" /\ ~Past(items[id].expires)
           \/ id \in removing
           \/ id \in overlapped

\* An ended control never comes back to life, and its terms never change: REVOKED
\* and EXPIRED are final, and only a control past its expiry is shown EXPIRED.
OnlyEnds(id) ==
    /\ items'[id] # NoControl
    /\ items'[id] = [items[id] EXCEPT !.status = items'[id].status]
    /\ items[id].status # "ACTIVE" => items'[id].status = items[id].status
    /\ items[id].status # "EXPIRED" /\ items'[id].status = "EXPIRED" => Past(items[id].expires)

EndIsFinal == [][\A id \in ControlIds : Known(id) => OnlyEnds(id)]_vars

\* A revoked control stops deciding events, unless its revocation overlapped its
\* deployment.
RevokedIsReleased ==
    \A id \in ControlIds :
        (Known(id) /\ items[id].status = "REVOKED" /\ id \notin overlapped) ~> (policies[id] = NoPolicy)

-----------------------------------------------------------------------------
(* What the documentation says and the code does not deliver.              *)

\* "deployable, revocable controls": once no handler is busy with a revoked
\* control, it is not enforced.
RevokedNotEnforced ==
    \A id \in ControlIds : Known(id) /\ Settled(id) /\ items[id].status = "REVOKED" => ~InForce(id)

\* "controls (IP block, rate limit, WAF rule) enforced on the live pipeline": a
\* live WAF rule stops attack traffic of its address.
WafRuleEnforced ==
    \A id \in ControlIds :
        Known(id) /\ Settled(id) /\ items[id].status = "ACTIVE" /\ ~Past(items[id].expires)
        /\ items[id].type = "waf_rule" => Verdict(items[id].ip, TRUE) # "pass"
=============================================================================
