------------------------- MODULE ControlPlaneProofs -------------------------
(* Controls and their enforcement, for any number of controls, addresses and *)
(* concurrent deployments and revocations.                                   *)
EXTENDS ControlPlane, TLAPS

\* How the registry, the policy table and the handlers in flight are tied
\* together for one control.
Tied(id) ==
    /\ ~Known(id) => id \notin installing \cup removing \cup overlapped /\ policies[id] = NoPolicy
    /\ id \in installing => policies[id] = NoPolicy
    /\ policies[id] # NoPolicy => policies[id] = edgePolicyFor(items[id])
    /\ Known(id) /\ items[id].status = "ACTIVE" /\ id \notin installing => policies[id] # NoPolicy
    /\ Known(id) /\ items[id].status = "EXPIRED" => Past(items[id].expires)
    /\ id \in removing => items[id].status = "REVOKED"
    /\ Known(id) /\ items[id].status = "REVOKED" /\ (id \in installing \/ policies[id] # NoPolicy)
          => id \in removing \cup overlapped
    /\ Known(id) /\ items[id].status = "REVOKED" /\ id \in installing => id \in overlapped

IInv == TypeOK /\ \A id \in ControlIds : Tied(id)

\* An expiry computed from a valid duration is a time or Never.
LEMMA ExpiryTyped ==
    ASSUME now \in Nat, NEW raw \in RawDurations
    PROVE  ExpiryOf(raw) \in Int \cup {Never}
<1>1. raw.n \in Int
    BY DurationAssumption
<1>2. WrapDuration(raw.n * Day) \in Int
    <2> DEFINE m == raw.n * Day
               w == MaxDuration - MinDuration + 1
    <2>1. m \in Int /\ w \in Nat /\ w > 0 /\ MinDuration \in Int
        BY <1>1, DurationAssumption
    <2>2. (m - MinDuration) % w \in Int
        BY <2>1
    <2> QED
        BY <2>1, <2>2 DEF WrapDuration
<1> QED
    BY <1>1, <1>2 DEF ExpiryOf

\* The policy made of a control is a policy.
LEMMA PolicyTyped ==
    ASSUME NEW c \in Control
    PROVE  edgePolicyFor(c) \in Policy
BY SharedNames DEF edgePolicyFor, Control, Policy, Kinds, Types

\* Nothing ties two controls together but the clock: a step that leaves a
\* control's own state alone leaves it tied.
LEMMA Untouched ==
    ASSUME TypeOK, NEW id \in ControlIds, Tied(id),
           items'[id] = items[id], policies'[id] = policies[id],
           id \in installing' <=> id \in installing,
           id \in removing' <=> id \in removing,
           id \in overlapped' <=> id \in overlapped,
           now' >= now, now' \in Nat
    PROVE  Tied(id)'
<1>1. ASSUME Known(id), Past(items[id].expires) PROVE Past(items[id].expires)'
    BY <1>1, NeverAssumption DEF Past, TypeOK, ClockTypeOK, RegistryTypeOK, Known, Control
<1> QED
    BY <1>1 DEF Tied, Known, edgePolicyFor

\* The inductive invariant holds at the start,
LEMMA IInvInit == Init => IInv
BY SharedNames DEF Init, IInv, TypeOK, ClockInit, ClockTypeOK, RegistryInit, RegistryTypeOK,
                   PoliciesInit, PoliciesTypeOK, Tied, Known

\* and every step of the handlers, the edge and the clock keeps it.
LEMMA IInvStep == IInv /\ [Next]_vars => IInv'
<1> SUFFICES ASSUME IInv, [Next]_vars PROVE IInv'
    OBVIOUS
<1> USE SharedNames
<1>0. /\ TypeOK /\ now \in Nat
      /\ items \in [ControlIds -> Control \cup {NoControl}]
      /\ policies \in [ControlIds -> Policy \cup {NoPolicy}]
      /\ installing \in SUBSET ControlIds /\ removing \in SUBSET ControlIds
      /\ overlapped \in SUBSET ControlIds
      /\ NoControl \notin Control /\ NoPolicy \notin Policy
      /\ \A i \in ControlIds : Tied(i)
    BY NoControlAssumption, NoPolicyAssumption
    DEF IInv, TypeOK, ClockTypeOK, RegistryTypeOK, PoliciesTypeOK
<1>1. ASSUME NEW id \in ControlIds, NEW type \in Types \cup {"unknown"},
             NEW ip \in IPs \cup {NoIP}, NEW raw \in RawDurations,
             DeployRegister(id, type, ip, raw)
      PROVE  IInv'
    <2> DEFINE c == [type |-> type, ip |-> ip, status |-> "ACTIVE", expires |-> ExpiryOf(raw)]
    <2>1. /\ items' = [items EXCEPT ![id] = c] /\ ~Known(id)
          /\ installing' = installing \cup {id}
          /\ UNCHANGED <<now, policies, removing, overlapped>>
        BY <1>1 DEF DeployRegister, Deploy
    <2>2. c \in Control
        BY <1>0, <1>1, ExpiryTyped DEF DeployRegister, Deploy, ValidDeploy, Control
    <2>3. c.status = "ACTIVE"
        OBVIOUS
    <2> HIDE DEF c
    <2>4. TypeOK'
        BY <1>0, <2>1, <2>2 DEF TypeOK, ClockTypeOK, RegistryTypeOK, PoliciesTypeOK
    <2>5. ASSUME NEW i \in ControlIds PROVE Tied(i)'
        <3>1. CASE i = id
            BY <1>0, <2>1, <2>2, <2>3, <3>1 DEF Tied, Known
        <3>2. CASE i # id
            BY <1>0, <2>1, <3>2, Untouched
        <3> QED
            BY <3>1, <3>2
    <2> QED
        BY <2>4, <2>5 DEF IInv
<1>2. ASSUME NEW id \in ControlIds, DeployInstall(id) PROVE IInv'
    <2> DEFINE p == edgePolicyFor(items[id])
    <2>1. /\ policies' = [policies EXCEPT ![id] = p] /\ id \in installing
          /\ installing' = installing \ {id}
          /\ UNCHANGED <<now, items, removing, overlapped>>
        BY <1>2 DEF DeployInstall, Install
    <2>2. Known(id) /\ items[id] \in Control
        BY <1>0, <2>1 DEF Tied, Known
    <2>3. p \in Policy
        BY <2>2, PolicyTyped
    <2>4. TypeOK'
        BY <1>0, <2>1, <2>3 DEF TypeOK, ClockTypeOK, RegistryTypeOK, PoliciesTypeOK
    <2>5. ASSUME NEW i \in ControlIds PROVE Tied(i)'
        <3>1. CASE i = id
            <4>1. policies'[i] = p /\ items'[i] = items[i]
                BY <1>0, <2>1, <3>1
            <4> HIDE DEF p
            <4>2. p = edgePolicyFor(items[i])'
                BY <4>1, <3>1 DEF p, edgePolicyFor
            <4> QED
                BY <1>0, <2>1, <2>2, <2>3, <3>1, <4>1, <4>2 DEF Tied, Known, Past
        <3>2. CASE i # id
            BY <1>0, <2>1, <3>2, Untouched
        <3> QED
            BY <3>1, <3>2
    <2> QED
        BY <2>4, <2>5 DEF IInv
<1>3. ASSUME NEW id \in ControlIds, RevokeMark(id) PROVE IInv'
    <2> DEFINE c == [items[id] EXCEPT !.status = "REVOKED"]
    <2>1. /\ items' = [items EXCEPT ![id] = c] /\ Known(id) /\ items[id].status = "ACTIVE"
          /\ removing' = removing \cup {id}
          /\ overlapped' = IF id \in installing THEN overlapped \cup {id} ELSE overlapped
          /\ UNCHANGED <<now, policies, installing>>
        BY <1>3 DEF RevokeMark, Revoke
    <2>2. items[id] \in Control
        BY <1>0, <2>1 DEF Known
    <2>3. /\ c \in Control /\ c.status = "REVOKED"
          /\ edgePolicyFor(c) = edgePolicyFor(items[id])
        BY <2>2 DEF Control, edgePolicyFor
    <2> HIDE DEF c
    <2>4. TypeOK'
        BY <1>0, <2>1, <2>3 DEF TypeOK, ClockTypeOK, RegistryTypeOK, PoliciesTypeOK
    <2>5. ASSUME NEW i \in ControlIds PROVE Tied(i)'
        <3>1. CASE i = id
            <4>1. items'[i] = c /\ policies'[i] = policies[i]
                BY <1>0, <2>1, <3>1
            <4>2. edgePolicyFor(items[i])' = edgePolicyFor(items[i])
                BY <4>1, <2>3, <3>1 DEF edgePolicyFor
            <4> QED
                BY <1>0, <2>1, <2>2, <2>3, <3>1, <4>1, <4>2 DEF Tied, Known
        <3>2. CASE i # id
            BY <1>0, <2>1, <3>2, Untouched
        <3> QED
            BY <3>1, <3>2
    <2> QED
        BY <2>4, <2>5 DEF IInv
<1>4. ASSUME NEW id \in ControlIds, RevokeRemove(id) PROVE IInv'
    <2>1. /\ policies' = [policies EXCEPT ![id] = NoPolicy] /\ id \in removing
          /\ removing' = removing \ {id}
          /\ UNCHANGED <<now, items, installing, overlapped>>
        BY <1>4 DEF RevokeRemove, Remove
    <2>2. TypeOK'
        BY <1>0, <2>1 DEF TypeOK, ClockTypeOK, RegistryTypeOK, PoliciesTypeOK
    <2>3. ASSUME NEW i \in ControlIds PROVE Tied(i)'
        <3>1. CASE i = id
            BY <1>0, <2>1, <3>1 DEF Tied, Known, Past
        <3>2. CASE i # id
            BY <1>0, <2>1, <3>2, Untouched
        <3> QED
            BY <3>1, <3>2
    <2> QED
        BY <2>2, <2>3 DEF IInv
<1>5. ASSUME NEW ip \in IPs \cup {NoIP}, ListContainment(ip) PROVE IInv'
    <2>1. UNCHANGED <<now, policies, installing, removing, overlapped>>
        BY <1>5 DEF ListContainment
    <2>2. ASSUME NEW i \in ControlIds
          PROVE  \/ items'[i] = items[i]
                 \/ /\ Known(i) /\ items[i].status = "ACTIVE" /\ Past(items[i].expires)
                    /\ items'[i] = [items[i] EXCEPT !.status = "EXPIRED"]
        BY <1>5 DEF ListContainment, List, Resolve
    <2>3. ASSUME NEW i \in ControlIds
          PROVE  items'[i] \in Control \cup {NoControl} /\ Tied(i)'
        <3>1. CASE items'[i] = items[i]
            BY <1>0, <2>1, <3>1, Untouched
        <3>2. CASE /\ Known(i) /\ items[i].status = "ACTIVE" /\ Past(items[i].expires)
                   /\ items'[i] = [items[i] EXCEPT !.status = "EXPIRED"]
            <4>1. items[i] \in Control
                BY <1>0, <3>2 DEF Known
            <4>2. /\ items'[i] \in Control /\ items'[i].status = "EXPIRED"
                  /\ items'[i].expires = items[i].expires
                  /\ items'[i].type = items[i].type /\ items'[i].ip = items[i].ip
                BY <3>2, <4>1 DEF Control
            <4>3. edgePolicyFor(items[i])' = edgePolicyFor(items[i])
                BY <4>2 DEF edgePolicyFor
            <4>4. Past(items[i].expires)'
                BY <2>1, <3>2, <4>2 DEF Past
            <4> QED
                BY <1>0, <2>1, <3>2, <4>2, <4>3, <4>4 DEF Tied, Known
        <3> QED
            BY <2>2, <3>1, <3>2
    <2>4. items' = [id \in ControlIds |-> items'[id]]
        BY <1>5 DEF ListContainment, List
    <2>5. items' \in [ControlIds -> Control \cup {NoControl}]
        BY <2>3, <2>4
    <2> QED
        BY <1>0, <2>1, <2>3, <2>5 DEF IInv, TypeOK, ClockTypeOK, RegistryTypeOK, PoliciesTypeOK
<1>6. ASSUME Tick PROVE IInv'
    <2>1. now' = now + 1 /\ UNCHANGED <<items, policies, installing, removing, overlapped>>
        BY <1>6 DEF Tick, Advance
    <2>2. \A i \in ControlIds : Tied(i)'
        BY <1>0, <2>1, Untouched
    <2> QED
        BY <1>0, <2>1, <2>2 DEF IInv, TypeOK, ClockTypeOK, RegistryTypeOK, PoliciesTypeOK
<1>7. CASE UNCHANGED vars
    <2>1. \A i \in ControlIds : Tied(i)'
        BY <1>0, <1>7, Untouched DEF vars
    <2> QED
        BY <1>0, <1>7, <2>1 DEF vars, IInv, TypeOK, ClockTypeOK, RegistryTypeOK, PoliciesTypeOK
<1> QED
    BY <1>1, <1>2, <1>3, <1>4, <1>5, <1>6, <1>7 DEF Next

\* So it holds for ever.
LEMMA Inductive == Spec => []IInv
BY IInvInit, IInvStep, PTL DEF Spec

-----------------------------------------------------------------------------
\* Registry, policy table and handlers in flight are of the right kind.
THEOREM TypeCorrect == Spec => []TypeOK
<1>1. IInv => TypeOK
    BY DEF IInv
<1> QED
    BY <1>1, Inductive, PTL

\* Controls that are tied to their policies are enforced while they are live,
LEMMA TiedIsEnforced == IInv => LiveControlEnforced
<1> SUFFICES ASSUME IInv, NEW id \in ControlIds, Known(id), Settled(id),
                    items[id].status = "ACTIVE", ~Past(items[id].expires)
             PROVE  /\ items[id].type = "block_ip" => Verdict(items[id].ip, FALSE) = "deny"
                    /\ items[id].type = "rate_limit" =>
                          Verdict(items[id].ip, FALSE) \in {"deny", "rate_limit"}
    BY DEF LiveControlEnforced
<1>1. policies[id] = edgePolicyFor(items[id]) /\ policies[id] # NoPolicy
    BY DEF IInv, Tied, Settled
<1>2. id \in Matches(edgePolicyFor(items[id]).kind, items[id].ip)
    BY <1>1, SharedNames DEF Matches, edgePolicyFor
<1>3. CASE items[id].type = "block_ip"
    BY <1>2, <1>3 DEF edgePolicyFor, Verdict
<1>4. CASE items[id].type = "rate_limit"
    BY <1>2, <1>4 DEF edgePolicyFor, Verdict
<1> QED
    BY <1>3, <1>4

\* A live, settled IP block or rate limit decides on its address's events.
THEOREM DeployedIsEnforced == Spec => []LiveControlEnforced
BY TiedIsEnforced, Inductive, PTL

\* and such controls are enforced only while they are live, but for overlaps.
LEMMA TiedIsLive == IInv => EnforcedOnlyWhileLive
<1> SUFFICES ASSUME IInv, NEW id \in ControlIds, InForce(id)
             PROVE  /\ Known(id)
                    /\ \/ items[id].status = "ACTIVE" /\ ~Past(items[id].expires)
                       \/ id \in removing
                       \/ id \in overlapped
    BY DEF EnforcedOnlyWhileLive
<1>1. policies[id] # NoPolicy /\ ~Past(policies[id].expires)
    BY DEF InForce, Matches
<1>2. Known(id) /\ policies[id] = edgePolicyFor(items[id]) /\ items[id] \in Control
    BY <1>1 DEF IInv, Tied, TypeOK, RegistryTypeOK, Known
<1>3. ~Past(items[id].expires)
    BY <1>1, <1>2 DEF edgePolicyFor
<1>4. items[id].status # "EXPIRED"
    BY <1>2, <1>3 DEF IInv, Tied
<1>5. items[id].status = "REVOKED" => id \in removing \cup overlapped
    BY <1>1, <1>2 DEF IInv, Tied
<1> QED
    BY <1>2, <1>3, <1>4, <1>5 DEF Control

\* Whatever decides on events is live, or its revocation is under way or
\* overlapped its deployment.
THEOREM EnforcedIsLive == Spec => []EnforcedOnlyWhileLive
BY TiedIsLive, Inductive, PTL

\* No step does more to a control than end it.
LEMMA StepOnlyEnds ==
    IInv /\ [Next]_vars => \A id \in ControlIds : Known(id) => OnlyEnds(id)
<1> SUFFICES ASSUME IInv, [Next]_vars, NEW i \in ControlIds, Known(i)
             PROVE  /\ items'[i] # NoControl
                    /\ items'[i] = [items[i] EXCEPT !.status = items'[i].status]
                    /\ items[i].status # "ACTIVE" => items'[i].status = items[i].status
                    /\ items[i].status # "EXPIRED" /\ items'[i].status = "EXPIRED"
                          => Past(items[i].expires)
    BY DEF OnlyEnds
<1>0. /\ items \in [ControlIds -> Control \cup {NoControl}] /\ NoControl \notin Control
      /\ items[i] \in Control
    BY NoControlAssumption DEF IInv, TypeOK, RegistryTypeOK, Known
<1>1. CASE items'[i] = items[i]
    BY <1>0, <1>1 DEF Control
<1>2. CASE /\ items[i].status = "ACTIVE"
           /\ \/ items'[i] = [items[i] EXCEPT !.status = "REVOKED"]
              \/ Past(items[i].expires) /\ items'[i] = [items[i] EXCEPT !.status = "EXPIRED"]
    BY <1>0, <1>2 DEF Control
<1>3. ASSUME NEW id \in ControlIds, RevokeMark(id)
      PROVE  items'[i] = items[i] \/ (items[i].status = "ACTIVE"
                /\ items'[i] = [items[i] EXCEPT !.status = "REVOKED"])
    BY <1>0, <1>3 DEF RevokeMark, Revoke
<1>4. ASSUME NEW ip \in IPs \cup {NoIP}, ListContainment(ip)
      PROVE  items'[i] = items[i] \/ (items[i].status = "ACTIVE" /\ Past(items[i].expires)
                /\ items'[i] = [items[i] EXCEPT !.status = "EXPIRED"])
    BY <1>0, <1>4 DEF ListContainment, List, Resolve
<1>5. ASSUME NEW id \in ControlIds, NEW type, NEW ip, NEW raw, DeployRegister(id, type, ip, raw)
      PROVE  items'[i] = items[i]
    BY <1>0, <1>5 DEF DeployRegister, Deploy, Known
<1>6. ASSUME NEW id \in ControlIds, DeployInstall(id) \/ RevokeRemove(id)
      PROVE  items'[i] = items[i]
    BY <1>6 DEF DeployInstall, RevokeRemove
<1>7. ASSUME Tick \/ UNCHANGED vars PROVE items'[i] = items[i]
    BY <1>7 DEF Tick, vars
<1> QED
    BY <1>1, <1>2, <1>3, <1>4, <1>5, <1>6, <1>7 DEF Next

\* REVOKED and EXPIRED are final, and the terms of a control never change.
THEOREM EndedStaysEnded == Spec => EndIsFinal
BY StepOnlyEnds, Inductive, PTL DEF Spec, EndIsFinal
=============================================================================
