------------------------- MODULE AlertTriageProofs -------------------------
(* The promises of AlertTriage hold for any number of keys, identities,     *)
(* requests and batches; and so they do, with those of IncidentResponse,    *)
(* for the alert service, the case handlers and the control plane together. *)
EXTENDS IncidentResponse, AlertModelProofs, FiniteSetTheorems, WellFoundedInduction

\* One step on the store of alerts: what Ingest, Handle, SeedDemo and Act have in
\* common.  Either a fresh identity gets a coherent alert (which is active only
\* if its key has no open alert), or an alert makes a lifecycle step that does
\* not re-open it.  Nobody but `op' gets an entry in a trail.
Creates(id, a, op) ==
    /\ ~Exists(id)
    /\ a \in Alert(AllOps)
    /\ Coherent(a)
    /\ IsActive(a.status) => OpenFor(a.key) = {}
    /\ \A o : Carries(a, o) => o = op
    /\ alerts' = [alerts EXCEPT ![id] = a]

Evolves(id, a, op) ==
    /\ Exists(id)
    /\ a \in Alert(AllOps)
    /\ Coherent(alerts[id]) => Coherent(a)
    /\ IsActive(a.status) => IsActive(alerts[id].status)
    /\ LifecycleStep(alerts[id], a)
    /\ \A o : o # op => /\ Carries(a, o) <=> Carries(alerts[id], o)
                        /\ Once(alerts[id], o) => Once(a, o)
    /\ alerts' = [alerts EXCEPT ![id] = a]

StoreStep(op) ==
    \/ alerts' = alerts
    \/ \E id \in AlertIds : \E a \in Alert(AllOps) : Creates(id, a, op) \/ Evolves(id, a, op)

\* A demo alert is coherent (Service.SeedDemo).
LEMMA SeedSound ==
    ASSUME NEW seed \in Seeds
    PROVE  SeedAlert(seed) \in Alert(AllOps) /\ Coherent(SeedAlert(seed))
<1> DEFINE e == [op |-> SeedOp, act |-> "mitigate", from |-> "OPEN", to |-> "RESOLVED"]
<1>1. e \in Entry(AllOps)
    BY DEF Entry, AllOps, Resolving, Statuses
<1>2. /\ seed.key \in Keys /\ seed.assignee \in Analysts \cup {Nobody}
      /\ seed.resolution \in Resolutions \ {"none"}
    BY SeedsAssumption
<1>3. <<e>> \in Seq(Entry(AllOps)) /\ <<>> \in Seq(Nat)
    BY <1>1
<1>4. SeedAlert(seed) \in Alert(AllOps)
    BY <1>2, <1>3 DEF SeedAlert, Alert, Statuses
<1>5. Coherent(SeedAlert(seed))
    BY <1>2 DEF SeedAlert, Coherent, ChainedTrail, TrailStatus, IsActive
<1> QED
    BY <1>4, <1>5

\* Detection is the author of nothing: SeedOp stands for it.
LEMMA IngestIsStoreStep ==
    ASSUME TypeOK, NEW key \in Keys, Ingest(key)
    PROVE  StoreStep(SeedOp) /\ TypeOK'
<1>1. ingested' \in Nat /\ answered' = answered /\ toSeed' = toSeed
    BY DEF Ingest, TypeOK
<1>2. CASE \E id \in OpenFor(key) : alerts' = [alerts EXCEPT ![id] = Merge(@, ingested')]
    <2>1. PICK id \in OpenFor(key) : alerts' = [alerts EXCEPT ![id] = Merge(@, ingested')]
        BY <1>2
    <2>2. Exists(id) /\ alerts[id] \in Alert(AllOps) /\ id \in AlertIds
        BY <2>1 DEF OpenFor, Exists, TypeOK
    <2> DEFINE m == Merge(alerts[id], ingested')
    <2>3. /\ m \in Alert(AllOps) /\ m.status = alerts[id].status
          /\ Coherent(alerts[id]) => Coherent(m)
          /\ LifecycleStep(alerts[id], m)
        BY <2>2, <1>1, MergeSound
    <2>4. \A o : (Carries(m, o) <=> Carries(alerts[id], o)) /\ (Once(alerts[id], o) => Once(m, o))
        BY <2>2, MergeCarries
    <2> HIDE DEF m
    <2>5. alerts' = [alerts EXCEPT ![id] = m]
        BY <2>1 DEF m
    <2>6. Evolves(id, m, SeedOp)
        BY <2>2, <2>3, <2>4, <2>5 DEF Evolves
    <2> QED
        BY <2>2, <2>3, <2>5, <2>6, <1>1 DEF StoreStep, TypeOK
<1>3. CASE /\ OpenFor(key) = {}
           /\ \E id \in AlertIds :
                 ~Exists(id) /\ alerts' = [alerts EXCEPT ![id] = NewAlert(key, ingested')]
    <2>1. PICK id \in AlertIds :
            ~Exists(id) /\ alerts' = [alerts EXCEPT ![id] = NewAlert(key, ingested')]
        BY <1>3
    <2> DEFINE n == NewAlert(key, ingested')
    <2>2. n \in Alert(AllOps) /\ Coherent(n) /\ n.key = key
        BY <1>1, NewAlertSound DEF NewAlert
    <2>3. \A o : ~Carries(n, o)
        BY DEF NewAlert, Carries
    <2> HIDE DEF n
    <2>4. alerts' = [alerts EXCEPT ![id] = n]
        BY <2>1 DEF n
    <2>5. Creates(id, n, SeedOp)
        BY <2>1, <2>2, <2>3, <2>4, <1>3 DEF Creates
    <2> QED
        BY <2>2, <2>4, <2>5, <1>1 DEF StoreStep, TypeOK
<1> QED
    BY <1>2, <1>3 DEF Ingest

\* A request that is not refused, on an alert that exists.
LEMMA ApplyIsStoreStep ==
    ASSUME TypeOK, NEW id \in AlertIds, NEW op \in Ops, NEW req \in Requests,
           Exists(id), ~Refused(alerts[id], req),
           alerts' = [alerts EXCEPT ![id] = Apply(@, op, req)]
    PROVE  StoreStep(op) /\ alerts' \in [AlertIds -> Alert(AllOps) \cup {NoAlert}]
<1> DEFINE b == Apply(alerts[id], op, req)
<1>1. alerts[id] \in Alert(AllOps) /\ op \in AllOps
    BY DEF Exists, TypeOK, AllOps
<1>2. /\ b \in Alert(AllOps)
      /\ IsActive(b.status) => IsActive(alerts[id].status)
      /\ Coherent(alerts[id]) => Coherent(b)
      /\ LifecycleStep(alerts[id], b)
    BY <1>1, ApplySound
<1>3. \A o : o # op => /\ Carries(b, o) <=> Carries(alerts[id], o)
                       /\ Once(alerts[id], o) => Once(b, o)
    BY <1>1, ApplyCarries
<1>4. alerts' = [alerts EXCEPT ![id] = b]
    OBVIOUS
<1> HIDE DEF b
<1>5. Evolves(id, b, op)
    BY <1>2, <1>3, <1>4 DEF Evolves
<1> QED
    BY <1>2, <1>4, <1>5 DEF StoreStep, TypeOK

\* A console request changes at most its own alert, soundly.
LEMMA HandleIsStoreStep ==
    ASSUME TypeOK, NEW id \in AlertIds, NEW op \in Ops, NEW req \in Requests, Handle(id, op, req)
    PROVE  StoreStep(op) /\ TypeOK'
<1>1. StoreStep(op) /\ alerts' \in [AlertIds -> Alert(AllOps) \cup {NoAlert}]
    BY ApplyIsStoreStep DEF Handle
<1> QED
    BY <1>1 DEF Handle, TypeOK

\* A demo alert is created soundly.
LEMMA SeedDemoIsStoreStep ==
    ASSUME TypeOK, NEW seed \in Seeds, NEW id \in AlertIds, SeedDemo(seed, id)
    PROVE  StoreStep(SeedOp) /\ TypeOK'
<1> DEFINE s == SeedAlert(seed)
<1>1. s \in Alert(AllOps) /\ Coherent(s) /\ ~IsActive(s.status)
    BY SeedSound DEF SeedAlert, IsActive
<1>2. \A o : Carries(s, o) => o = SeedOp
    BY DEF SeedAlert, Carries
<1>3. alerts' = [alerts EXCEPT ![id] = s] /\ ~Exists(id)
    BY DEF SeedDemo
<1> HIDE DEF s
<1>4. Creates(id, s, SeedOp)
    BY <1>1, <1>2, <1>3 DEF Creates
<1>5. TypeOK'
    BY <1>1, <1>3 DEF SeedDemo, TypeOK
<1> QED
    BY <1>1, <1>4, <1>5 DEF StoreStep

\* Every step of the service is a StoreStep.
LEMMA StepIsStoreStep == TypeOK /\ [Next]_vars => (\E op : StoreStep(op)) /\ TypeOK'
<1> SUFFICES ASSUME TypeOK, [Next]_vars PROVE (\E op : StoreStep(op)) /\ TypeOK'
    OBVIOUS
<1>1. CASE UNCHANGED vars
    BY <1>1 DEF vars, StoreStep, TypeOK
<1> QED
    BY <1>1, IngestIsStoreStep, HandleIsStoreStep, SeedDemoIsStoreStep DEF Next

-----------------------------------------------------------------------------
(* What a step on the store keeps.                                         *)

\* A StoreStep keeps all alerts coherent.
LEMMA CoherentStep ==
    ASSUME TypeOK, AlertsCoherent, NEW op, StoreStep(op)
    PROVE  AlertsCoherent'
<1> SUFFICES ASSUME NEW i \in AlertIds, Exists(i)'
             PROVE  Coherent(alerts[i])'
    BY DEF AlertsCoherent
<1>1. CASE alerts' = alerts
    BY <1>1 DEF AlertsCoherent, Exists
<1>2. ASSUME NEW id \in AlertIds, NEW a \in Alert(AllOps), Creates(id, a, op) \/ Evolves(id, a, op)
      PROVE  Coherent(alerts[i])'
    BY <1>2 DEF Creates, Evolves, AlertsCoherent, Exists, TypeOK
<1> QED
    BY <1>1, <1>2 DEF StoreStep

\* A StoreStep leaves a key with one open alert at most.
LEMMA OneOpenStep ==
    ASSUME TypeOK, OneOpenPerKey, NEW op, StoreStep(op)
    PROVE  OneOpenPerKey'
<1> SUFFICES ASSUME NEW key \in Keys, NEW i \in OpenFor(key)', NEW j \in OpenFor(key)'
             PROVE  i = j
    BY DEF OneOpenPerKey
<1>1. CASE alerts' = alerts
    BY <1>1 DEF OneOpenPerKey, OpenFor, Exists
<1>2. ASSUME NEW id \in AlertIds, NEW a \in Alert(AllOps), Creates(id, a, op)
      PROVE  i = j
    <2>1. \A x \in OpenFor(key)' : \/ x \in OpenFor(key)
                                   \/ x = id /\ a.key = key /\ IsActive(a.status)
        BY <1>2 DEF Creates, OpenFor, Exists, TypeOK
    <2>2. a.key = key /\ IsActive(a.status) => OpenFor(key) = {}
        BY <1>2 DEF Creates
    <2> QED
        BY <2>1, <2>2 DEF OneOpenPerKey
<1>3. ASSUME NEW id \in AlertIds, NEW a \in Alert(AllOps), Evolves(id, a, op)
      PROVE  i = j
    <2>1. OpenFor(key)' \subseteq OpenFor(key)
        BY <1>3 DEF Evolves, OpenFor, Exists, TypeOK, LifecycleStep
    <2> QED
        BY <2>1 DEF OneOpenPerKey
<1> QED
    BY <1>1, <1>2, <1>3 DEF StoreStep

\* A StoreStep only adds to the history of an alert.
LEMMA HistoryStep ==
    ASSUME TypeOK, NEW op, StoreStep(op), NEW i \in AlertIds, Exists(i)
    PROVE  alerts'[i] # NoAlert /\ LifecycleStep(alerts[i], alerts'[i])
<1>0. NoAlert \notin Alert(AllOps) /\ alerts[i] \in Alert(AllOps)
    BY NoAlertAssumption DEF AllOps, TypeOK, Exists
<1>1. LifecycleStep(alerts[i], alerts[i])
    <2>1. Len(alerts[i].trail) \in Nat
        BY <1>0 DEF Alert
    <2> QED
        BY <2>1 DEF LifecycleStep
<1>2. CASE alerts' = alerts
    BY <1>1, <1>2 DEF Exists
<1>3. ASSUME NEW id \in AlertIds, NEW a \in Alert(AllOps), Creates(id, a, op) \/ Evolves(id, a, op)
      PROVE  alerts'[i] # NoAlert /\ LifecycleStep(alerts[i], alerts'[i])
    BY <1>0, <1>1, <1>3 DEF Creates, Evolves, Exists, TypeOK
<1> QED
    BY <1>2, <1>3 DEF StoreStep

\* Other requests' entries stay as they are, wherever the step is taken.
LEMMA OthersTrails ==
    ASSUME TypeOK, NEW op, StoreStep(op), NEW o, o # op, NEW i \in AlertIds
    PROVE  /\ InTrail(o, i)' <=> InTrail(o, i)
           /\ InTrail(o, i) /\ Once(alerts[i], o) => Once(alerts[i], o)'
<1>0. NoAlert \notin Alert(AllOps)
    BY NoAlertAssumption DEF AllOps
<1>1. InTrail(o, i) <=> Exists(i) /\ Carries(alerts[i], o)
    BY DEF InTrail, Carries
<1>2. InTrail(o, i)' <=> Exists(i)' /\ Carries(alerts'[i], o)
    BY DEF InTrail, Carries
<1>3. CASE alerts' = alerts
    BY <1>3, <1>1, <1>2 DEF Exists
<1>4. ASSUME NEW id \in AlertIds, NEW a \in Alert(AllOps), Creates(id, a, op) \/ Evolves(id, a, op)
      PROVE  /\ InTrail(o, i)' <=> InTrail(o, i)
             /\ InTrail(o, i) /\ Once(alerts[i], o) => Once(alerts[i], o)'
    <2>1. CASE i = id
        <3>1. alerts'[i] = a /\ Exists(i)'
            BY <1>0, <1>4, <2>1 DEF Creates, Evolves, TypeOK, Exists
        <3> QED
            BY <1>1, <1>2, <1>4, <2>1, <3>1 DEF Creates, Evolves
    <2>2. CASE i # id
        <3>1. alerts'[i] = alerts[i]
            BY <1>4, <2>2 DEF Creates, Evolves, TypeOK
        <3> QED
            BY <1>1, <1>2, <3>1 DEF Exists
    <2> QED
        BY <2>1, <2>2
<1> QED
    BY <1>3, <1>4 DEF StoreStep

-----------------------------------------------------------------------------
(* Evidence.                                                               *)

\* No batch is newer than the last, no batch is evidence of two alerts, and the last
\* one is evidence of some alert.
EvidenceInv ==
    /\ \A id \in AlertIds : EvidenceOf(id) \subseteq 0 .. ingested
    /\ BatchesRecorded

\* Either nothing happens to the evidence, or one alert takes the next batch.
EvidenceStep ==
    \/ ingested' = ingested /\ \A id \in AlertIds : EvidenceOf(id)' = EvidenceOf(id)
    \/ /\ ingested' = ingested + 1
       /\ \E id \in AlertIds :
             /\ EvidenceOf(id)' \subseteq EvidenceOf(id) \cup {ingested'}
             /\ ingested' \in EvidenceOf(id)'
             /\ \A i \in AlertIds \ {id} : EvidenceOf(i)' = EvidenceOf(i)

\* The evidence of an identity, before and after a step.
LEMMA EvidenceIsBatches ==
    \A id \in AlertIds : /\ EvidenceOf(id) = IF Exists(id) THEN Batches(alerts[id]) ELSE {}
                         /\ EvidenceOf(id)' = IF Exists(id)' THEN Batches(alerts'[id]) ELSE {}
BY DEF EvidenceOf, Batches

\* A step that changes no evidence and emits no batch is an EvidenceStep.
LEMMA EvidenceKept ==
    ASSUME TypeOK, ingested' = ingested,
           \/ alerts' = alerts
           \/ \E id \in AlertIds : \E a \in Alert(AllOps) :
                 /\ alerts' = [alerts EXCEPT ![id] = a]
                 /\ Batches(a) = IF Exists(id) THEN Batches(alerts[id]) ELSE {}
    PROVE  EvidenceStep
<1>0. NoAlert \notin Alert(AllOps)
    BY NoAlertAssumption DEF AllOps
<1>1. CASE alerts' = alerts
    BY <1>1 DEF EvidenceStep, EvidenceOf, Exists
<1>2. ASSUME NEW id \in AlertIds, NEW a \in Alert(AllOps),
             alerts' = [alerts EXCEPT ![id] = a],
             Batches(a) = IF Exists(id) THEN Batches(alerts[id]) ELSE {}
      PROVE  EvidenceStep
    <2> SUFFICES ASSUME NEW i \in AlertIds PROVE EvidenceOf(i)' = EvidenceOf(i)
        BY DEF EvidenceStep
    <2>1. alerts'[i] = IF i = id THEN a ELSE alerts[i]
        BY <1>2 DEF TypeOK
    <2> QED
        BY <1>0, <1>2, <2>1, EvidenceIsBatches DEF Exists
<1> QED
    BY <1>1, <1>2

\* Ingest makes the new batch evidence of one alert.
LEMMA IngestEvidence ==
    ASSUME TypeOK, NEW key \in Keys, Ingest(key)
    PROVE  EvidenceStep
<1>0. NoAlert \notin Alert(AllOps)
    BY NoAlertAssumption DEF AllOps
<1>1. ingested \in Nat /\ ingested' = ingested + 1 /\ ingested' \in Nat
    BY DEF Ingest, TypeOK
<1>2. ASSUME NEW id \in AlertIds, NEW a \in Alert(AllOps),
             alerts' = [alerts EXCEPT ![id] = a],
             Batches(a) \subseteq EvidenceOf(id) \cup {ingested'}, ingested' \in Batches(a)
      PROVE  EvidenceStep
    <2>1. \A i \in AlertIds : alerts'[i] = IF i = id THEN a ELSE alerts[i]
        BY <1>2 DEF TypeOK
    <2>2. EvidenceOf(id)' = Batches(a)
        BY <1>0, <1>2, <2>1, EvidenceIsBatches DEF Exists
    <2>3. \A i \in AlertIds \ {id} : EvidenceOf(i)' = EvidenceOf(i)
        BY <2>1, EvidenceIsBatches DEF Exists
    <2> QED
        BY <1>1, <1>2, <2>2, <2>3 DEF EvidenceStep
<1>3. ASSUME NEW id \in OpenFor(key), alerts' = [alerts EXCEPT ![id] = Merge(@, ingested')]
      PROVE  EvidenceStep
    <2> DEFINE m == Merge(alerts[id], ingested')
    <2>1. Exists(id) /\ alerts[id] \in Alert(AllOps) /\ id \in AlertIds
        BY <1>3 DEF OpenFor, Exists, TypeOK
    <2>2. /\ m \in Alert(AllOps) /\ alerts' = [alerts EXCEPT ![id] = m]
          /\ Batches(m) \subseteq Batches(alerts[id]) \cup {ingested'} /\ ingested' \in Batches(m)
        BY <1>1, <1>3, <2>1, MergeSound, MergeBatches
    <2> HIDE DEF m
    <2> QED
        BY <1>2, <2>1, <2>2, EvidenceIsBatches
<1>4. ASSUME NEW id \in AlertIds, alerts' = [alerts EXCEPT ![id] = NewAlert(key, ingested')]
      PROVE  EvidenceStep
    <2> DEFINE n == NewAlert(key, ingested')
    <2>1. n \in Alert(AllOps) /\ alerts' = [alerts EXCEPT ![id] = n]
        BY <1>1, <1>4, NewAlertSound
    <2>2. Batches(n) = {ingested'}
        BY DEF NewAlert, Batches
    <2> HIDE DEF n
    <2> QED
        BY <1>2, <2>1, <2>2
<1> QED
    BY <1>3, <1>4 DEF Ingest

\* A demo alert has no evidence.
LEMMA SeedDemoEvidence ==
    ASSUME TypeOK, NEW seed \in Seeds, NEW id \in AlertIds, SeedDemo(seed, id)
    PROVE  EvidenceStep
<1>1. SeedAlert(seed) \in Alert(AllOps)
    BY SeedSound
<1>2. Batches(SeedAlert(seed)) = {}
    BY DEF SeedAlert, Batches
<1> QED
    BY <1>1, <1>2, EvidenceKept DEF SeedDemo

\* No console request touches the evidence.
LEMMA ApplyEvidence ==
    ASSUME TypeOK, NEW id \in AlertIds, NEW op \in Ops, NEW req \in Requests,
           Exists(id), ~Refused(alerts[id], req), ingested' = ingested,
           alerts' = [alerts EXCEPT ![id] = Apply(@, op, req)]
    PROVE  EvidenceStep
<1>1. alerts[id] \in Alert(AllOps) /\ op \in AllOps
    BY DEF Exists, TypeOK, AllOps
<1> DEFINE b == Apply(alerts[id], op, req)
<1>2. /\ b \in Alert(AllOps) /\ Batches(b) = Batches(alerts[id])
      /\ alerts' = [alerts EXCEPT ![id] = b]
    BY <1>1, ApplySound, ApplyBatches
<1> HIDE DEF b
<1> QED
    BY <1>2, EvidenceKept

\* An EvidenceStep keeps the newest batch in one place.
LEMMA EvidenceInvStep ==
    ASSUME TypeOK, EvidenceInv, EvidenceStep
    PROVE  EvidenceInv'
<1>0. ingested \in Nat
    BY DEF TypeOK
<1>1. CASE ingested' = ingested /\ \A id \in AlertIds : EvidenceOf(id)' = EvidenceOf(id)
    BY <1>1 DEF EvidenceInv, BatchesRecorded
<1>2. ASSUME NEW id \in AlertIds, ingested' = ingested + 1,
             EvidenceOf(id)' \subseteq EvidenceOf(id) \cup {ingested'},
             ingested' \in EvidenceOf(id)',
             \A i \in AlertIds \ {id} : EvidenceOf(i)' = EvidenceOf(i)
      PROVE  EvidenceInv'
    <2>1. \A i \in AlertIds : ingested' \notin EvidenceOf(i)
        BY <1>0, <1>2 DEF EvidenceInv
    <2> QED
        BY <1>0, <1>2, <2>1 DEF EvidenceInv, BatchesRecorded
<1> QED
    BY <1>1, <1>2 DEF EvidenceStep

-----------------------------------------------------------------------------
(* The contract, AlertTriage.                                              *)

\* The store only holds alerts, requests and batches of the right kind.
THEOREM TypeCorrect == Spec => []TypeOK
<1>1. Init => TypeOK
    BY DEF Init, TypeOK
<1>2. TypeOK /\ [Next]_vars => TypeOK'
    BY StepIsStoreStep
<1> QED
    BY <1>1, <1>2, PTL DEF Spec

\* Every alert agrees with its action trail: Assign, SetStatus, Action, Merge
\* and SeedDemo keep status, resolution, response and assignee in step with it.
THEOREM TrailExplainsAlert == Spec => []AlertsCoherent
<1>1. Init => AlertsCoherent
    BY DEF Init, AlertsCoherent, Exists
<1>2. TypeOK /\ AlertsCoherent /\ [Next]_vars => AlertsCoherent'
    BY StepIsStoreStep, CoherentStep
<1> QED
    BY <1>1, <1>2, TypeCorrect, PTL DEF Spec

\* Repeated hits merge: no key ever has two open alerts (Service.Ingest).
THEOREM RepeatedHitsMerge == Spec => []OneOpenPerKey
<1>1. Init => OneOpenPerKey
    BY DEF Init, OneOpenPerKey, OpenFor, Exists
<1>2. TypeOK /\ OneOpenPerKey /\ [Next]_vars => OneOpenPerKey'
    BY StepIsStoreStep, OneOpenStep
<1> QED
    BY <1>1, <1>2, TypeCorrect, PTL DEF Spec

\* Nothing re-opens a resolved alert or edits what a trail already says.
THEOREM HistoryIsFinal == Spec => NoHistoryRewritten
<1> DEFINE Kept == \A id \in AlertIds :
                      Exists(id) => alerts'[id] # NoAlert /\ LifecycleStep(alerts[id], alerts'[id])
<1>1. TypeOK /\ [Next]_vars => [Kept]_vars
    BY StepIsStoreStep, HistoryStep
<1> QED
    BY <1>1, TypeCorrect, PTL DEF Spec, NoHistoryRewritten

\* The newest batch is evidence, and no batch is evidence twice (Service.Ingest).
THEOREM BatchesAreRecorded == Spec => []BatchesRecorded
<1>1. Init => EvidenceInv
    BY DEF Init, EvidenceInv, BatchesRecorded, EvidenceOf, Exists
<1>2. TypeOK /\ EvidenceInv /\ [Next]_vars => EvidenceInv'
    <2> SUFFICES ASSUME TypeOK, EvidenceInv, [Next]_vars PROVE EvidenceInv'
        OBVIOUS
    <2>1. ASSUME NEW id \in AlertIds, NEW op \in Ops, NEW req \in Requests, Handle(id, op, req)
          PROVE  EvidenceStep
        BY <2>1, ApplyEvidence DEF Handle
    <2>2. ASSUME UNCHANGED vars PROVE EvidenceStep
        BY <2>2, EvidenceKept DEF vars
    <2>3. ASSUME NEW key \in Keys, Ingest(key) PROVE EvidenceStep
        BY <2>3, IngestEvidence
    <2>4. ASSUME NEW seed \in Seeds, NEW id \in AlertIds, SeedDemo(seed, id) PROVE EvidenceStep
        BY <2>4, SeedDemoEvidence
    <2>5. EvidenceStep
        BY <2>1, <2>2, <2>3, <2>4 DEF Next
    <2> QED
        BY <2>5, EvidenceInvStep
<1>3. EvidenceInv => BatchesRecorded
    BY DEF EvidenceInv
<1> QED
    BY <1>1, <1>2, <1>3, TypeCorrect, PTL DEF Spec

-----------------------------------------------------------------------------
(* Requests on cases, IncidentResponse: what ties a request to the alerts   *)
(* and the controls it works on.                                           *)

\* Where a request reads an address it has found before.
Reading == {"check", "mark", "deploy"}

\* The addresses it has met and is done with.
Handled(r) == IF r.pc = "deploy" THEN r.seen \ {r.ip} ELSE r.seen

\* Unless an alert is moved under it, it still has the address it found: about to mark
\* it, it has not met it, and about to deploy for it, it has.
MeetsOf(c) ==
    LET r == case[c]
    IN r # NoCase /\ MovedUnder(c) = {} =>
          /\ r.pc = "mark" => r.ip \notin r.seen
          /\ r.pc = "deploy" => r.ip \in r.seen

\* The request's own entries: one in each alert it is done with, none elsewhere.
TrailsOf(c) ==
    LET r == case[c]
    IN /\ \A id \in AlertIds : InTrail(c, id) =>
             r # NoCase /\ id \in r.group \ r.todo /\ Once(alerts[id], c)
       /\ r # NoCase =>
             /\ r.todo \subseteq r.group
             /\ r.verb # "deploy" => \A id \in r.group : Exists(id)
             /\ r.pc \in Reading \cup {"act"} => r.verb = "contain"
             /\ r.verb = "contain" /\ r.pc \in Reading \cup {"act", "install"} => r.at \in r.todo
             /\ r.pc \in Reading => r.ip \in IPs
             /\ Answered(c) => r.todo = {}

\* The alerts it has left behind without an entry.
Left(c) == {id \in case[c].group \ case[c].todo : ~InTrail(c, id)}

\* Which those are: resolved ones if it assigns, one for each address if its control
\* is refused, none otherwise, but for alerts that were moved under it.
LeftOf(c) ==
    LET r == case[c]
    IN r # NoCase =>
          /\ r.verb = "contain" /\ ~Refusing(c) => Left(c) \subseteq MovedUnder(c)
          /\ r.verb = "contain" /\ Refusing(c) /\ MovedUnder(c) = {} =>
                /\ IsFiniteSet(Left(c)) /\ IsFiniteSet(Handled(r))
                /\ Cardinality(Left(c)) = Cardinality(Handled(r))
          /\ r.verb = "assign" => \A id \in Left(c) : ~IsActive(alerts[id].status)

\* Its controls: one for each address it has met, unless an alert was moved under it,
\* on the client's terms, and all but the one it is about to install are installed.
ControlsOf(c) ==
    LET r == case[c]
    IN r # NoCase =>
          /\ r.verb = "assign" \/ Refusing(c) => r.controls = {}
          /\ r.verb = "deploy" => ~Refusing(c)
          /\ r.pc = "install" => r.verb # "assign"
          /\ MovedUnder(c) = {} =>
                /\ r.verb # "assign" /\ ~Refusing(c) =>
                      {items[ctl].ip : ctl \in r.controls} = Handled(r)
                /\ \A d, e \in r.controls : items[d].ip = items[e].ip => d = e
          /\ \A ctl \in r.controls : Plane!Known(ctl) /\ items[ctl].type = r.arg.type
          /\ \A d, e \in r.controls \cap installing : d = e
          /\ r.pc # "install" => r.controls \cap installing = {}

\* Whatever control is not about to be installed has its policy at the edge.
PlaneInv ==
    \A ctl \in ControlIds :
        IF Plane!Known(ctl)
        THEN ctl \in installing \/ policies[ctl] = Plane!edgePolicyFor(items[ctl])
        ELSE ctl \notin installing

CaseInv(c) == TrailsOf(c) /\ MeetsOf(c) /\ LeftOf(c) /\ ControlsOf(c)

SystemInv == SystemTypeOK /\ PlaneInv /\ \A c \in CaseOps : CaseInv(c)

\* What type correctness says of a request on a case.
LEMMA CaseFields ==
    ASSUME NEW r \in Cases
    PROVE  /\ r.verb \in {"contain", "deploy", "assign"} /\ r.key \in CaseKeys
           /\ r.group \in SUBSET AlertIds /\ r.todo \in SUBSET AlertIds
           /\ r.at \in AlertIds \cup {NoAlert}
           /\ r.seen \in SUBSET (IPs \cup {NoIP}) /\ r.controls \in SUBSET ControlIds
           /\ r.ip \in IPs \cup {NoIP} /\ r.torn \in SUBSET AlertIds
           /\ r.pc \in {"next", "check", "mark", "deploy", "install", "act", "ok", "error"}
           /\ r.verb # "assign" => r.arg \in Terms
           /\ r.verb = "assign" =>
                 /\ r.arg \in Analysts /\ r.at = NoAlert /\ r.seen = {} /\ r.controls = {}
                 /\ r.torn = {} /\ r.ip = NoIP
                 /\ r.pc \in {"next", "ok", "error"}
           /\ IF r.verb = "assign" THEN r \in Assignments ELSE r \in Deployments
           /\ DOMAIN r = {"verb", "key", "arg", "group", "todo", "at", "ip", "seen", "controls",
                          "torn", "pc"}
BY DEF Cases, Deployments, Assignments

\* What the service is asked for each alert is a request it knows.
LEMMA AskedIsRequest ==
    ASSUME NEW r \in Cases
    PROVE  Asked(r) \in Requests
BY CaseFields DEF Asked, Requests

-----------------------------------------------------------------------------
(* The control plane under a request.                                      *)

\* Controls that are known keep their terms, and none is set aside to be installed.
PlaneKeeps ==
    \A ctl \in ControlIds : Plane!Known(ctl) =>
        /\ Plane!Known(ctl)' /\ items'[ctl].ip = items[ctl].ip /\ items'[ctl].type = items[ctl].type
        /\ ctl \in installing' => ctl \in installing

\* An expiry computed from a valid duration is a time or Never.
LEMMA ExpiryTyped ==
    ASSUME now \in Nat, NEW raw \in RawDurations
    PROVE  Plane!ExpiryOf(raw) \in Int \cup {Never}
<1>1. raw.n \in Int
    BY PlaneAssumption DEF Plane!DurationAssumption
<1>2. Plane!WrapDuration(raw.n * Day) \in Int
    <2> DEFINE m == raw.n * Day
               w == MaxDuration - MinDuration + 1
    <2>1. m \in Int /\ w \in Nat /\ w > 0 /\ MinDuration \in Int
        BY <1>1, PlaneAssumption DEF Plane!DurationAssumption
    <2>2. (m - MinDuration) % w \in Int
        BY <2>1
    <2> QED
        BY <2>1, <2>2 DEF Plane!WrapDuration
<1> QED
    BY <1>1, <1>2 DEF Plane!ExpiryOf

\* What type correctness says of the control plane.
LEMMA PlaneTyped ==
    Plane!TypeOK <=>
        /\ now \in Nat /\ items \in [ControlIds -> Plane!Control \cup {NoControl}]
        /\ policies \in [ControlIds -> Plane!Policy \cup {NoPolicy}]
        /\ installing \in SUBSET ControlIds /\ removing \in SUBSET ControlIds
        /\ overlapped \in SUBSET ControlIds
BY DEF Plane!TypeOK, Plane!ClockTypeOK, Plane!RegistryTypeOK, Plane!PoliciesTypeOK

\* Registering a control leaves the others as they are.
LEMMA PlaneDeploy ==
    ASSUME Plane!TypeOK, PlaneInv, NEW ctl \in ControlIds, NEW type, NEW ip \in IPs,
           NEW raw \in RawDurations, Plane!DeployRegister(ctl, type, ip, raw)
    PROVE  /\ Plane!TypeOK' /\ PlaneInv' /\ PlaneKeeps
           /\ type \in Plane!Types /\ Plane!ValidDuration(raw)
           /\ ~Plane!Known(ctl) /\ Plane!Known(ctl)'
           /\ items'[ctl].ip = ip /\ items'[ctl].type = type
           /\ installing' = installing \cup {ctl}
<1> DEFINE d == [type |-> type, ip |-> ip, status |-> "ACTIVE", expires |-> Plane!ExpiryOf(raw)]
<1>1. /\ type \in Plane!Types /\ Plane!ValidDuration(raw) /\ ~Plane!Known(ctl)
      /\ items' = [items EXCEPT ![ctl] = d] /\ installing' = installing \cup {ctl}
      /\ UNCHANGED <<now, policies, removing, overlapped>>
    BY DEF Plane!DeployRegister, Plane!Deploy, Plane!ValidDeploy
<1>2. d \in Plane!Control /\ d.ip = ip /\ d.type = type
    BY <1>1, ExpiryTyped, PlaneTyped DEF Plane!Control
<1>3. NoControl \notin Plane!Control
    BY PlaneAssumption DEF Plane!NoControlAssumption
<1> HIDE DEF d
<1>4. \A i \in ControlIds : items'[i] = IF i = ctl THEN d ELSE items[i]
    BY <1>1, PlaneTyped
<1>5. Plane!TypeOK'
    <2>1. /\ now' \in Nat /\ items' \in [ControlIds -> Plane!Control \cup {NoControl}]
          /\ policies' \in [ControlIds -> Plane!Policy \cup {NoPolicy}]
          /\ installing' \in SUBSET ControlIds /\ removing' \in SUBSET ControlIds
          /\ overlapped' \in SUBSET ControlIds
        BY <1>1, <1>2, PlaneTyped
    <2> QED
        BY <2>1 DEF Plane!TypeOK, Plane!ClockTypeOK, Plane!RegistryTypeOK, Plane!PoliciesTypeOK
<1>6. Plane!Known(ctl)' /\ \A i \in ControlIds \ {ctl} : Plane!Known(i)' <=> Plane!Known(i)
    BY <1>2, <1>3, <1>4 DEF Plane!Known
<1>7. PlaneInv'
    BY <1>1, <1>4, <1>6 DEF PlaneInv, Plane!edgePolicyFor
<1>8. PlaneKeeps
    BY <1>1, <1>4, <1>6 DEF PlaneKeeps
<1> QED
    BY <1>1, <1>2, <1>4, <1>5, <1>6, <1>7, <1>8

\* Installing a control gives the edge its policy and leaves the others as they are.
LEMMA PlaneInstall ==
    ASSUME Plane!TypeOK, PlaneInv, NEW ctl \in ControlIds, Plane!DeployInstall(ctl)
    PROVE  /\ Plane!TypeOK' /\ PlaneInv' /\ PlaneKeeps
           /\ ctl \in installing /\ installing' = installing \ {ctl} /\ items' = items
<1> DEFINE p == Plane!edgePolicyFor(items[ctl])
<1>1. /\ ctl \in installing /\ policies' = [policies EXCEPT ![ctl] = p]
      /\ installing' = installing \ {ctl}
      /\ UNCHANGED <<now, items, removing, overlapped>>
    BY DEF Plane!DeployInstall, Plane!Install
<1>2. items[ctl] \in Plane!Control
    BY <1>1, PlaneTyped DEF PlaneInv, Plane!Known
<1>3. p \in Plane!Policy
    BY <1>2 DEF Plane!edgePolicyFor, Plane!Control, Plane!Policy, Plane!Kinds, Plane!Types
<1>4. \A i \in ControlIds : policies'[i] = IF i = ctl THEN p ELSE policies[i]
    BY <1>1, PlaneTyped
<1>5. PlaneInv'
    BY <1>1, <1>4 DEF PlaneInv, Plane!Known, Plane!edgePolicyFor
<1> HIDE DEF p
<1>6. Plane!TypeOK'
    <2>1. /\ now' \in Nat /\ items' \in [ControlIds -> Plane!Control \cup {NoControl}]
          /\ policies' \in [ControlIds -> Plane!Policy \cup {NoPolicy}]
          /\ installing' \in SUBSET ControlIds /\ removing' \in SUBSET ControlIds
          /\ overlapped' \in SUBSET ControlIds
        BY <1>1, <1>3, PlaneTyped
    <2> QED
        BY <2>1 DEF Plane!TypeOK, Plane!ClockTypeOK, Plane!RegistryTypeOK, Plane!PoliciesTypeOK
<1>7. PlaneKeeps
    BY <1>1 DEF PlaneKeeps, Plane!Known
<1> QED
    BY <1>1, <1>5, <1>6, <1>7

\* Listing controls may mark them expired but takes no policy away.
LEMMA PlaneList ==
    ASSUME Plane!TypeOK, PlaneInv, NEW ip, Plane!ListContainment(ip)
    PROVE  Plane!TypeOK' /\ PlaneInv' /\ PlaneKeeps /\ installing' = installing
<1>1. /\ items' = [id \in ControlIds |-> IF Plane!Known(id) /\ ip \in {NoIP, items[id].ip}
                                         THEN Plane!Resolve(items[id]) ELSE items[id]]
      /\ UNCHANGED <<now, policies, installing, removing, overlapped>>
    BY DEF Plane!ListContainment, Plane!List
<1>2. NoControl \notin Plane!Control
    BY PlaneAssumption DEF Plane!NoControlAssumption
<1>3. \A d \in Plane!Control :
         /\ Plane!Resolve(d) \in Plane!Control
         /\ Plane!Resolve(d).ip = d.ip /\ Plane!Resolve(d).type = d.type
         /\ Plane!Resolve(d).expires = d.expires
    BY DEF Plane!Resolve, Plane!Control
<1>4. \A i \in ControlIds :
         /\ items'[i] \in Plane!Control \cup {NoControl}
         /\ Plane!Known(i)' <=> Plane!Known(i)
         /\ Plane!Known(i) => /\ items'[i].ip = items[i].ip /\ items'[i].type = items[i].type
                              /\ items'[i].expires = items[i].expires
    BY <1>1, <1>2, <1>3, PlaneTyped DEF Plane!Known
<1>5. Plane!TypeOK'
    <2>1. /\ now' \in Nat /\ items' \in [ControlIds -> Plane!Control \cup {NoControl}]
          /\ policies' \in [ControlIds -> Plane!Policy \cup {NoPolicy}]
          /\ installing' \in SUBSET ControlIds /\ removing' \in SUBSET ControlIds
          /\ overlapped' \in SUBSET ControlIds
        BY <1>1, <1>4, PlaneTyped
    <2> QED
        BY <2>1 DEF Plane!TypeOK, Plane!ClockTypeOK, Plane!RegistryTypeOK, Plane!PoliciesTypeOK
<1>6. PlaneInv'
    BY <1>1, <1>4 DEF PlaneInv, Plane!edgePolicyFor
<1>7. PlaneKeeps
    BY <1>1, <1>4 DEF PlaneKeeps
<1> QED
    BY <1>1, <1>5, <1>6, <1>7

-----------------------------------------------------------------------------
(* A request while others act, and each of its own steps.                  *)

\* What a request on a case has achieved survives the steps of everybody else.
LEMMA Bystander ==
    ASSUME SystemInv, NEW c \in CaseOps, case'[c] = case[c], store' = store,
           NEW op, op # c, StoreStep(op), PlaneKeeps
    PROVE  CaseInv(c)'
<1> DEFINE r == case[c]
<1>1. \A id \in AlertIds : /\ InTrail(c, id)' <=> InTrail(c, id)
                           /\ InTrail(c, id) /\ Once(alerts[id], c) => Once(alerts[id], c)'
                           /\ Exists(id) => Exists(id)' /\ LifecycleStep(alerts[id], alerts'[id])
    BY OthersTrails, HistoryStep DEF SystemInv, SystemTypeOK, Exists
<1>2. /\ TrailsOf(c) /\ MeetsOf(c) /\ LeftOf(c) /\ ControlsOf(c)
      /\ r # NoCase => r \in Cases
      /\ MovedUnder(c)' = MovedUnder(c)
    BY DEF SystemInv, CaseInv, SystemTypeOK, MovedUnder
<1>3. Refusing(c)' <=> Refusing(c)
    BY DEF Refusing, Plane!ValidDuration
<1>4. r # NoCase => r.group \subseteq AlertIds /\ r.controls \subseteq ControlIds
    BY <1>2, CaseFields
<1>5. TrailsOf(c)'
    BY <1>1, <1>2, <1>4 DEF TrailsOf, Answered
<1>6. r # NoCase => Left(c)' = Left(c)
    BY <1>1, <1>4 DEF Left
<1>7. LeftOf(c)'
    <2>1. ASSUME r # NoCase, r.verb = "assign", NEW id \in Left(c)
          PROVE  ~IsActive(alerts'[id].status)
        <3>1. id \in r.group /\ id \in AlertIds /\ Exists(id) /\ ~IsActive(alerts[id].status)
            BY <1>2, <1>4, <2>1 DEF Left, LeftOf, TrailsOf
        <3> QED
            BY <1>1, <3>1 DEF LifecycleStep
    <2> QED
        BY <1>2, <1>3, <1>6, <2>1 DEF LeftOf, Handled
<1>8. ControlsOf(c)'
    <2> SUFFICES ASSUME r # NoCase PROVE ControlsOf(c)'
        BY DEF ControlsOf
    <2>1. \A ctl \in r.controls : /\ Plane!Known(ctl) /\ Plane!Known(ctl)'
                                  /\ items'[ctl].ip = items[ctl].ip
                                  /\ items'[ctl].type = items[ctl].type
                                  /\ ctl \in installing' => ctl \in installing
        BY <1>2, <1>4 DEF ControlsOf, PlaneKeeps
    <2>2. {items'[ctl].ip : ctl \in r.controls} = {items[ctl].ip : ctl \in r.controls}
        BY <2>1
    <2> QED
        BY <1>2, <1>3, <2>1, <2>2 DEF ControlsOf, Handled
<1>9. MeetsOf(c)'
    BY <1>2 DEF MeetsOf
<1> QED
    BY <1>5, <1>7, <1>8, <1>9 DEF CaseInv

\* A request that begins has left no entry yet and works on alerts that exist.
LEMMA BeginCase ==
    ASSUME SystemInv, NEW c \in CaseOps, NEW verb \in {"contain", "assign"}, NEW key \in CaseKeys,
           NEW arg, verb = "contain" => arg \in Terms, verb = "assign" => arg \in Analysts,
           Starts(c, Request(verb, key, arg, Group(key))), alerts' = alerts
    PROVE  case'[c] \in Cases /\ CaseInv(c)'
<1> DEFINE r == Request(verb, key, arg, Group(key))
<1>1. case'[c] = r /\ case[c] = NoCase
    BY DEF Starts, SystemInv, SystemTypeOK
<1>2. Group(key) \in SUBSET AlertIds /\ \A id \in Group(key) : Exists(id)
    BY DEF Group
<1>3. r \in Cases
    BY <1>2 DEF Request, Cases, Deployments, Assignments
<1>4. \A id \in AlertIds : ~InTrail(c, id) /\ ~InTrail(c, id)'
    BY <1>1 DEF SystemInv, CaseInv, TrailsOf, InTrail, Exists
<1>5. /\ r.verb = verb /\ r.group = Group(key) /\ r.todo = Group(key) /\ r.seen = {}
      /\ r.controls = {} /\ r.pc = "next" /\ Handled(r) = {}
    BY DEF Request, Handled
<1> HIDE DEF r
<1>6. TrailsOf(c)'
    BY <1>1, <1>2, <1>4, <1>5 DEF TrailsOf, Answered, Exists, Reading
<1>7. Left(c)' = {}
    BY <1>1, <1>5 DEF Left
<1>8. LeftOf(c)'
    BY <1>1, <1>5, <1>7, FS_EmptySet DEF LeftOf
<1>9. ControlsOf(c)'
    BY <1>1, <1>5 DEF ControlsOf
<1>10. MeetsOf(c)'
    BY <1>1, <1>5 DEF MeetsOf
<1> QED
    BY <1>1, <1>3, <1>6, <1>8, <1>9, <1>10 DEF CaseInv

\* A deployment starts with one control, which it is about to install.
LEMMA BeginDeployCase ==
    ASSUME SystemInv, NEW c \in CaseOps, NEW ip \in IPs, NEW terms \in Terms,
           NEW ids \in SUBSET AlertIds, BeginDeploy(c, ip, terms, ids)
    PROVE  case'[c] \in Cases /\ CaseInv(c)' /\ PlaneInv' /\ Plane!TypeOK' /\ PlaneKeeps
<1>1. PICK ctl \in ControlIds :
          /\ Plane!DeployRegister(ctl, terms.type, ip, terms.raw)
          /\ Starts(c, [Request("deploy", ip, terms, ids) EXCEPT !.seen = {ip}, !.controls = {ctl},
                                                                 !.pc = "install"])
    BY DEF BeginDeploy
<1> DEFINE r == [Request("deploy", ip, terms, ids) EXCEPT !.seen = {ip}, !.controls = {ctl},
                                                          !.pc = "install"]
<1>2. case'[c] = r /\ case[c] = NoCase
    BY <1>1 DEF Starts, SystemInv, SystemTypeOK
<1>3. ip \in CaseKeys /\ terms.raw \in RawDurations
    BY OriginsAssumption, TermsAssumption
<1>4. r \in Cases
    BY <1>3 DEF Request, Cases, Deployments, Assignments
<1>5. /\ r.verb = "deploy" /\ r.arg = terms /\ r.group = ids /\ r.todo = ids /\ r.seen = {ip}
      /\ r.controls = {ctl} /\ r.pc = "install" /\ Handled(r) = {ip}
    BY DEF Request, Handled
<1> HIDE DEF r
<1>6. /\ Plane!TypeOK' /\ PlaneInv' /\ PlaneKeeps
      /\ terms.type \in Plane!Types /\ Plane!ValidDuration(terms.raw)
      /\ Plane!Known(ctl)'
      /\ items'[ctl].ip = ip /\ items'[ctl].type = terms.type
    BY <1>1, <1>3, PlaneDeploy DEF SystemInv, SystemTypeOK
<1>7. \A id \in AlertIds : ~InTrail(c, id) /\ ~InTrail(c, id)'
    BY <1>2 DEF SystemInv, CaseInv, TrailsOf, InTrail, Exists, BeginDeploy, vars
<1>8. TrailsOf(c)'
    BY <1>2, <1>5, <1>7 DEF TrailsOf, Answered, Reading
<1>9. LeftOf(c)'
    BY <1>2, <1>5 DEF LeftOf
<1>10. ~Refusing(c)'
    BY <1>2, <1>5, <1>6 DEF Refusing, Plane!Types, Plane!ValidDuration
<1>11. ControlsOf(c)'
    BY <1>2, <1>5, <1>6, <1>10 DEF ControlsOf
<1>12. MeetsOf(c)'
    BY <1>2, <1>5 DEF MeetsOf
<1> QED
    BY <1>2, <1>4, <1>6, <1>8, <1>9, <1>11, <1>12 DEF CaseInv

\* A step of a request that leaves the control plane alone.
LEMMA PlaneIdle ==
    ASSUME Plane!TypeOK, PlaneInv, UNCHANGED planeVars
    PROVE  /\ Plane!TypeOK' /\ PlaneInv' /\ PlaneKeeps /\ items' = items /\ installing' = installing
<1>1. UNCHANGED <<now, items, policies, installing, removing, overlapped>>
    BY DEF planeVars
<1>2. PlaneKeeps
    BY <1>1 DEF PlaneKeeps, Plane!Known
<1>3. PlaneInv'
    BY <1>1 DEF PlaneInv, Plane!Known, Plane!edgePolicyFor
<1>4. Plane!TypeOK'
    BY <1>1 DEF Plane!TypeOK, Plane!ClockTypeOK, Plane!RegistryTypeOK, Plane!PoliciesTypeOK
<1> QED
    BY <1>1, <1>2, <1>3, <1>4

-----------------------------------------------------------------------------
(* IncidentContain comes to an alert: it reads the address again and again. *)

\* An address that is read is an address or none.
LEMMA AddressKnown ==
    ASSUME NEW r \in Cases
    PROVE  Address(r) \in IPs \cup {NoIP}
BY CaseFields DEF Address, AddressOf

\* Reading the address notes whether it is still the one found first, and nothing else.
LEMMA ReadAgainFields ==
    ASSUME NEW r \in Deployments, r.at \in AlertIds
    PROVE  LET q == ReadAgain(r)
           IN /\ q \in Deployments /\ q.verb = r.verb /\ q.key = r.key /\ q.arg = r.arg
              /\ q.group = r.group /\ q.todo = r.todo /\ q.at = r.at /\ q.ip = r.ip
              /\ q.seen = r.seen /\ q.controls = r.controls /\ q.pc = r.pc
              /\ q.torn = IF Address(r) = r.ip THEN r.torn ELSE r.torn \cup {r.at}
BY DEF ReadAgain, Deployments

\* What reading the address leaves of the alerts moved under the request: the address
\* is the one found first, or the alert in hand is among them.
LEMMA MovesKnown ==
    ASSUME NEW c, store' = store,
           case'[c].torn = IF Address(case[c]) = case[c].ip THEN case[c].torn
                           ELSE case[c].torn \cup {case[c].at}
    PROVE  /\ MovedUnder(c) \subseteq MovedUnder(c)'
           /\ Address(case[c]) # case[c].ip => case[c].at \in MovedUnder(c)'
           /\ MovedUnder(c)' = {} => MovedUnder(c) = {} /\ Address(case[c]) = case[c].ip
BY DEF MovedUnder, Address

\* A step that touches neither alerts nor controls and leaves the request at an alert.
LEMMA AtAlertCase ==
    ASSUME SystemInv, NEW c \in CaseOps, case[c] # NoCase, case'[c] \in Cases,
           alerts' = alerts, store' = store, UNCHANGED planeVars,
           case[c].verb = "contain", case[c].pc # "install",
           case'[c].verb = case[c].verb, case'[c].arg = case[c].arg,
           case'[c].group = case[c].group, case'[c].todo = case[c].todo,
           case'[c].controls = case[c].controls,
           case'[c].at \in case[c].todo, case'[c].pc \in Reading \cup {"act"},
           case'[c].pc \in Reading => case'[c].ip \in IPs,
           MovedUnder(c) \subseteq MovedUnder(c)',
           MovedUnder(c)' = {} => Handled(case'[c]) = Handled(case[c]),
           MeetsOf(c)'
    PROVE  CaseInv(c)'
<1> DEFINE r == case[c]
           s == case'[c]
<1>1. /\ r \in Cases /\ TrailsOf(c) /\ LeftOf(c) /\ ControlsOf(c)
      /\ r.group \subseteq AlertIds /\ r.controls \subseteq ControlIds
      /\ s # NoCase
    BY CaseFields, NoCaseAssumption DEF SystemInv, SystemTypeOK, CaseInv
<1>2. items' = items /\ installing' = installing
    BY DEF planeVars
<1>3. /\ s.verb = "contain" /\ r.verb = "contain" /\ s.arg = r.arg /\ s.group = r.group
      /\ s.todo = r.todo /\ s.controls = r.controls /\ s.at \in r.todo
      /\ s.pc \in Reading \cup {"act"} /\ (s.pc \in Reading => s.ip \in IPs)
      /\ r.pc # "install" /\ r # NoCase
      /\ MovedUnder(c)' = {} => MovedUnder(c) = {} /\ Handled(s) = Handled(r)
    OBVIOUS
<1> HIDE DEF r, s
<1>4. /\ Left(c)' = Left(c)
      /\ Refusing(c)' <=> Refusing(c)
      /\ \A i \in AlertIds : /\ InTrail(c, i)' <=> InTrail(c, i)
                             /\ Once(alerts[i], c)' <=> Once(alerts[i], c)
                             /\ Exists(i)' <=> Exists(i)
    BY <1>3 DEF Left, Refusing, Plane!ValidDuration, InTrail, Exists, r, s
<1>5. TrailsOf(c)'
    <2>1. s.pc \notin {"ok", "error"}
        BY <1>3 DEF Reading
    <2> QED
        BY <1>1, <1>3, <1>4, <2>1 DEF TrailsOf, Answered, r, s
<1>6. LeftOf(c)'
    BY <1>1, <1>3, <1>4 DEF LeftOf, r, s
<1>7. ControlsOf(c)'
    <2>1. s.pc # "install"
        BY <1>3 DEF Reading
    <2> QED
        BY <1>1, <1>2, <1>3, <1>4, <2>1 DEF ControlsOf, Plane!Known, r, s
<1> QED
    BY <1>5, <1>6, <1>7 DEF CaseInv

\* It gets the next alert: an alert without an address is acted on at once.
LEMMA LookCase ==
    ASSUME SystemInv, NEW c \in CaseOps, case[c] # NoCase, NEW id \in AlertIds, Look(c, id)
    PROVE  case'[c] \in Cases /\ CaseInv(c)' /\ PlaneInv' /\ Plane!TypeOK' /\ PlaneKeeps
<1> DEFINE r == case[c]
           s == case'[c]
           pc == IF AddressOf(id) = NoIP THEN "act" ELSE "check"
<1>1. /\ r \in Cases /\ r.verb = "contain" /\ r.pc = "next" /\ id \in r.todo
      /\ s = [r EXCEPT !.at = id, !.ip = AddressOf(id), !.pc = pc]
      /\ alerts' = alerts /\ store' = store /\ UNCHANGED planeVars
      /\ Plane!TypeOK /\ PlaneInv
    BY DEF Look, Goes, SystemInv, SystemTypeOK, vars
<1>2. AddressOf(id) \in IPs \cup {NoIP}
    BY DEF AddressOf
<1>3. r \in Deployments
    BY <1>1, CaseFields
<1> HIDE DEF r, s, pc
<1>4. /\ s \in Cases /\ s.verb = r.verb /\ s.arg = r.arg /\ s.group = r.group
      /\ s.todo = r.todo /\ s.at = id /\ s.ip = AddressOf(id) /\ s.seen = r.seen
      /\ s.controls = r.controls /\ s.torn = r.torn /\ s.pc = pc
    BY <1>1, <1>2, <1>3 DEF Cases, Deployments, pc
<1>5. /\ s.pc \in {"act", "check"} /\ (s.pc = "check" => s.ip \in IPs)
      /\ Handled(s) = Handled(r) /\ MovedUnder(c)' = MovedUnder(c) /\ MeetsOf(c)'
    BY <1>1, <1>2, <1>4 DEF pc, Handled, MovedUnder, MeetsOf, r, s
<1>6. CaseInv(c)'
    <2>1. s.pc \in Reading \cup {"act"} /\ (s.pc \in Reading => s.ip \in IPs)
        BY <1>5 DEF Reading
    <2> QED
        BY <1>1, <1>4, <1>5, <2>1, AtAlertCase DEF r, s
<1> QED
    BY <1>1, <1>4, <1>6, PlaneIdle DEF s

\* A step that reads the address again.
LEMMA ReadingAgain ==
    ASSUME SystemInv, NEW c \in CaseOps, case[c] # NoCase, case[c].pc \in Reading
    PROVE  /\ case[c] \in Deployments /\ case[c].at \in AlertIds
           /\ case[c].verb = "contain" /\ case[c].at \in case[c].todo /\ case[c].ip \in IPs
           /\ case[c].at \in case[c].group
<1>1. case[c] \in Cases /\ TrailsOf(c)
    BY DEF SystemInv, SystemTypeOK, CaseInv
<1> QED
    BY <1>1, CaseFields DEF TrailsOf

\* An address met before is left alone.
LEMMA CheckCase ==
    ASSUME SystemInv, NEW c \in CaseOps, case[c] # NoCase, Check(c)
    PROVE  case'[c] \in Cases /\ CaseInv(c)' /\ PlaneInv' /\ Plane!TypeOK' /\ PlaneKeeps
<1> DEFINE r == case[c]
           s == case'[c]
           q == ReadAgain(r)
           pc == IF IsMet(r) THEN "act" ELSE "mark"
<1>1. /\ r \in Cases /\ r.pc = "check" /\ s = [q EXCEPT !.pc = pc]
      /\ alerts' = alerts /\ store' = store /\ UNCHANGED planeVars
      /\ Plane!TypeOK /\ PlaneInv
    BY DEF Check, Goes, SystemInv, SystemTypeOK, vars
<1>2. /\ r \in Deployments /\ r.at \in AlertIds /\ r.verb = "contain" /\ r.at \in r.todo
      /\ r.ip \in IPs
    BY <1>1, ReadingAgain DEF Reading
<1> HIDE DEF r, s, pc
<1>3. /\ q \in Deployments /\ q.verb = r.verb /\ q.arg = r.arg /\ q.group = r.group
      /\ q.todo = r.todo /\ q.at = r.at /\ q.ip = r.ip /\ q.seen = r.seen
      /\ q.controls = r.controls
      /\ q.torn = IF Address(r) = r.ip THEN r.torn ELSE r.torn \cup {r.at}
    BY <1>2, ReadAgainFields
<1> HIDE DEF q
<1>4. /\ s \in Cases /\ s.verb = r.verb /\ s.arg = r.arg /\ s.group = r.group
      /\ s.todo = r.todo /\ s.at = r.at /\ s.ip = r.ip /\ s.seen = r.seen
      /\ s.controls = r.controls /\ s.pc = pc
      /\ s.torn = IF Address(r) = r.ip THEN r.torn ELSE r.torn \cup {r.at}
    BY <1>1, <1>3 DEF Cases, Deployments, pc
<1>5. /\ MovedUnder(c) \subseteq MovedUnder(c)'
      /\ MovedUnder(c)' = {} => Address(r) = r.ip
    BY <1>1, <1>4, MovesKnown DEF r, s
<1>6. s.pc \in {"act", "mark"} /\ Handled(s) = Handled(r) /\ MeetsOf(c)'
    BY <1>1, <1>4, <1>5 DEF pc, IsMet, Handled, MeetsOf, s
<1>7. CaseInv(c)'
    <2>1. s.pc \in Reading \cup {"act"} /\ s.ip \in IPs
        BY <1>2, <1>4, <1>6 DEF Reading
    <2> QED
        BY <1>1, <1>2, <1>4, <1>5, <1>6, <2>1, AtAlertCase DEF r, s
<1> QED
    BY <1>1, <1>4, <1>7, PlaneIdle DEF s

\* A new one is noted as met before its control is deployed.
LEMMA MarkCase ==
    ASSUME SystemInv, NEW c \in CaseOps, case[c] # NoCase, Mark(c)
    PROVE  case'[c] \in Cases /\ CaseInv(c)' /\ PlaneInv' /\ Plane!TypeOK' /\ PlaneKeeps
<1> DEFINE r == case[c]
           s == case'[c]
           q == ReadAgain(r)
           ip == Address(r)
<1>1. /\ r \in Cases /\ r.pc = "mark" /\ s = [q EXCEPT !.seen = @ \cup {ip}, !.pc = "deploy"]
      /\ alerts' = alerts /\ store' = store /\ UNCHANGED planeVars
      /\ Plane!TypeOK /\ PlaneInv /\ MeetsOf(c) /\ r # NoCase
    BY DEF Mark, Goes, SystemInv, CaseInv, SystemTypeOK, vars
<1>2. /\ r \in Deployments /\ r.at \in AlertIds /\ r.verb = "contain" /\ r.at \in r.todo
      /\ r.ip \in IPs
    BY <1>1, ReadingAgain DEF Reading
<1>3. ip \in IPs \cup {NoIP}
    BY <1>1, AddressKnown
<1> HIDE DEF r, s
<1>4. /\ q \in Deployments /\ q.verb = r.verb /\ q.arg = r.arg /\ q.group = r.group
      /\ q.todo = r.todo /\ q.at = r.at /\ q.ip = r.ip /\ q.seen = r.seen
      /\ q.controls = r.controls
      /\ q.torn = IF ip = r.ip THEN r.torn ELSE r.torn \cup {r.at}
    BY <1>2, ReadAgainFields
<1> HIDE DEF q, ip
<1>5. /\ s \in Cases /\ s.verb = r.verb /\ s.arg = r.arg /\ s.group = r.group
      /\ s.todo = r.todo /\ s.at = r.at /\ s.ip = r.ip /\ s.seen = r.seen \cup {ip}
      /\ s.controls = r.controls /\ s.pc = "deploy"
      /\ s.torn = IF ip = r.ip THEN r.torn ELSE r.torn \cup {r.at}
    BY <1>1, <1>3, <1>4 DEF Cases, Deployments
<1>6. /\ MovedUnder(c) \subseteq MovedUnder(c)'
      /\ MovedUnder(c)' = {} => MovedUnder(c) = {} /\ ip = r.ip
    BY <1>1, <1>5, MovesKnown DEF ip, r, s
<1>7. /\ MeetsOf(c)'
      /\ MovedUnder(c)' = {} => Handled(s) = Handled(r)
    <2>1. MovedUnder(c)' = {} => r.ip \notin r.seen
        BY <1>1, <1>6 DEF MeetsOf, r
    <2> QED
        BY <1>1, <1>5, <1>6, <2>1 DEF Handled, MeetsOf, s
<1>8. CaseInv(c)'
    <2>1. s.pc \in Reading \cup {"act"} /\ s.ip \in IPs
        BY <1>2, <1>5 DEF Reading
    <2> QED
        BY <1>1, <1>2, <1>5, <1>6, <1>7, <2>1, AtAlertCase DEF r, s
<1> QED
    BY <1>1, <1>5, <1>8, PlaneIdle DEF s

\* Its control is deployed for the address as it is by then, or refused, and then the
\* alert is passed over.
LEMMA DeployNextCase ==
    ASSUME SystemInv, NEW c \in CaseOps, case[c] # NoCase, DeployNext(c)
    PROVE  case'[c] \in Cases /\ CaseInv(c)' /\ PlaneInv' /\ Plane!TypeOK' /\ PlaneKeeps
<1> DEFINE r == case[c]
           s == case'[c]
           q == ReadAgain(r)
           id == r.at
           ip == Address(r)
<1>1. /\ r \in Cases /\ TrailsOf(c) /\ MeetsOf(c) /\ LeftOf(c) /\ ControlsOf(c)
      /\ case \in [CaseOps -> Cases \cup {NoCase}]
      /\ Plane!TypeOK /\ PlaneInv /\ r # NoCase
      /\ r.pc = "deploy" /\ alerts' = alerts /\ store' = store
    BY DEF DeployNext, vars, SystemInv, SystemTypeOK, CaseInv
<1>2. /\ r \in Deployments /\ id \in AlertIds /\ r.verb = "contain" /\ id \in r.todo
      /\ id \in r.group /\ r.ip \in IPs /\ ip \in IPs \cup {NoIP}
      /\ r.group \subseteq AlertIds /\ r.controls \subseteq ControlIds
    BY <1>1, ReadingAgain, AddressKnown, CaseFields DEF Reading
<1>3. /\ r.arg \in Terms /\ r.arg.raw \in RawDurations
      /\ r.arg.type \in {"block_ip", "rate_limit", "waf_rule", "unknown"}
    BY <1>1, <1>2, CaseFields, TermsAssumption
<1>4. /\ q \in Deployments /\ q.verb = r.verb /\ q.arg = r.arg /\ q.group = r.group
      /\ q.todo = r.todo /\ q.at = r.at /\ q.ip = r.ip /\ q.seen = r.seen
      /\ q.controls = r.controls
      /\ q.torn = IF ip = r.ip THEN r.torn ELSE r.torn \cup {id}
    <2> HIDE DEF r
    <2> QED
        BY <1>2, ReadAgainFields
<1>5. \A i \in AlertIds : /\ InTrail(c, i)' <=> InTrail(c, i)
                          /\ Once(alerts[i], c)' <=> Once(alerts[i], c)
                          /\ Exists(i)' <=> Exists(i)
    BY <1>1 DEF InTrail, Exists
<1>6. ~InTrail(c, id)
    BY <1>1, <1>2 DEF TrailsOf
<1>7. ASSUME s.torn = q.torn
      PROVE  /\ MovedUnder(c) \subseteq MovedUnder(c)'
             /\ ip # r.ip => id \in MovedUnder(c)'
             /\ MovedUnder(c)' = {} => MovedUnder(c) = {} /\ ip = r.ip /\ ip \in r.seen
    <2>1. s.torn = IF Address(r) = r.ip THEN r.torn ELSE r.torn \cup {r.at}
        BY <1>4, <1>7
    <2> HIDE DEF ip, s
    <2>2. /\ MovedUnder(c) \subseteq MovedUnder(c)'
          /\ Address(r) # r.ip => r.at \in MovedUnder(c)'
          /\ MovedUnder(c)' = {} => MovedUnder(c) = {} /\ Address(r) = r.ip
        BY <1>1, <2>1, MovesKnown DEF s
    <2> QED
        BY <1>1, <2>2 DEF MeetsOf, ip
<1>8. ASSUME NEW ctl \in ControlIds, Plane!DeployRegister(ctl, r.arg.type, ip, r.arg.raw),
             Goes(c, [q EXCEPT !.controls = @ \cup {ctl}, !.pc = "install"])
      PROVE  case'[c] \in Cases /\ CaseInv(c)' /\ PlaneInv' /\ Plane!TypeOK' /\ PlaneKeeps
    <2>1. s = [q EXCEPT !.controls = @ \cup {ctl}, !.pc = "install"]
        BY <1>1, <1>8 DEF Goes
    <2>2. /\ s.verb = r.verb /\ s.arg = r.arg /\ s.group = r.group /\ s.todo = r.todo
          /\ s.at = id /\ s.seen = r.seen /\ s.controls = r.controls \cup {ctl}
          /\ s.torn = q.torn /\ s.pc = "install" /\ s \in Cases
        <3> HIDE DEF r, s, q, id
        <3> QED
            BY <1>4, <2>1 DEF Cases, Deployments, id
    <2>3. /\ MovedUnder(c) \subseteq MovedUnder(c)'
          /\ MovedUnder(c)' = {} => MovedUnder(c) = {} /\ ip = r.ip /\ ip \in r.seen
        BY <1>7, <2>2
    <2>4. /\ Plane!TypeOK' /\ PlaneInv' /\ PlaneKeeps
          /\ r.arg.type \in Plane!Types /\ Plane!ValidDuration(r.arg.raw)
          /\ ~Plane!Known(ctl) /\ Plane!Known(ctl)'
          /\ items'[ctl].ip = ip /\ items'[ctl].type = r.arg.type
          /\ installing' = installing \cup {ctl}
        <3> DEFINE type == r.arg.type
                   raw == r.arg.raw
        <3>1. ip # NoIP
            BY <1>8 DEF Plane!DeployRegister, Plane!Deploy, Plane!ValidDeploy
        <3>2. /\ Plane!TypeOK /\ PlaneInv /\ ip \in IPs /\ raw \in RawDurations
              /\ Plane!DeployRegister(ctl, type, ip, raw)
            BY <1>1, <1>2, <1>3, <1>8, <3>1
        <3> HIDE DEF type, raw, ip
        <3>3. /\ Plane!TypeOK' /\ PlaneInv' /\ PlaneKeeps
              /\ type \in Plane!Types /\ Plane!ValidDuration(raw)
              /\ ~Plane!Known(ctl) /\ Plane!Known(ctl)'
              /\ items'[ctl].ip = ip /\ items'[ctl].type = type
              /\ installing' = installing \cup {ctl}
            BY <3>2, PlaneDeploy, Zenon
        <3> QED
            BY <3>3 DEF type, raw
    <2>5. ~Refusing(c)
        BY <2>4 DEF Refusing, Plane!Types
    <2>6. s # NoCase
        BY <2>2, NoCaseAssumption
    <2> HIDE DEF r, s, q, id, ip
    <2>7. Left(c)' = Left(c) /\ ~Refusing(c)' /\ MeetsOf(c)'
        BY <1>2, <1>5, <2>2, <2>5 DEF Left, Refusing, Plane!ValidDuration, MeetsOf, r, s
    <2>8. TrailsOf(c)'
        BY <1>1, <1>2, <1>5, <2>2, <2>6 DEF TrailsOf, Answered, Reading, r, s
    <2>9. LeftOf(c)'
        BY <1>1, <1>2, <2>2, <2>3, <2>5, <2>6, <2>7 DEF LeftOf, r, s
    <2>10. ControlsOf(c)'
        <3>1. \A d \in r.controls : /\ Plane!Known(d) /\ Plane!Known(d)' /\ d # ctl
                                    /\ items'[d].ip = items[d].ip /\ items'[d].type = r.arg.type
                                    /\ d \notin installing'
            BY <1>1, <1>2, <2>4 DEF ControlsOf, PlaneKeeps, r
        <3>2. ASSUME MovedUnder(c)' = {}
              PROVE  /\ {items'[d].ip : d \in s.controls} = Handled(s)
                     /\ \A d, e \in s.controls : items'[d].ip = items'[e].ip => d = e
            <4>1. /\ {items[d].ip : d \in r.controls} = r.seen \ {r.ip}
                  /\ \A d, e \in r.controls : items[d].ip = items[e].ip => d = e
                BY <1>1, <1>2, <2>3, <2>5, <3>2 DEF ControlsOf, Handled, r
            <4>2. ip = r.ip /\ ip \in r.seen /\ Handled(s) = r.seen
                BY <2>2, <2>3, <3>2 DEF Handled
            <4>3. \A d \in r.controls : items'[d].ip \in r.seen \ {ip}
                BY <3>1, <4>1, <4>2
            <4>4. {items'[d].ip : d \in s.controls} = {items[d].ip : d \in r.controls} \cup {ip}
                BY <2>2, <2>4, <3>1
            <4> QED
                BY <2>2, <2>4, <3>1, <4>1, <4>2, <4>3, <4>4
        <3>3. \A d \in s.controls : Plane!Known(d)' /\ items'[d].type = s.arg.type
            BY <2>2, <2>4, <3>1
        <3>4. \A d, e \in s.controls \cap installing' : d = e
            BY <2>2, <3>1
        <3> QED
            BY <1>2, <2>2, <2>7, <3>2, <3>3, <3>4 DEF ControlsOf, s
    <2> QED
        BY <2>2, <2>4, <2>7, <2>8, <2>9, <2>10 DEF CaseInv, s
<1>9. ASSUME ~Plane!ValidDeploy(r.arg.type, ip, r.arg.raw), UNCHANGED planeVars,
             Goes(c, [q EXCEPT !.todo = @ \ {id}, !.at = NoAlert, !.ip = NoIP, !.pc = "next"])
      PROVE  case'[c] \in Cases /\ CaseInv(c)' /\ PlaneInv' /\ Plane!TypeOK' /\ PlaneKeeps
    <2>1. s = [q EXCEPT !.todo = @ \ {id}, !.at = NoAlert, !.ip = NoIP, !.pc = "next"]
        BY <1>1, <1>9 DEF Goes
    <2>2. /\ s.verb = r.verb /\ s.arg = r.arg /\ s.group = r.group /\ s.todo = r.todo \ {id}
          /\ s.seen = r.seen /\ s.controls = r.controls
          /\ s.torn = q.torn /\ s.pc = "next" /\ s \in Cases
        <3> HIDE DEF r, s, q, id
        <3> QED
            BY <1>4, <2>1 DEF Cases, Deployments
    <2>3. /\ MovedUnder(c) \subseteq MovedUnder(c)'
          /\ ip # r.ip => id \in MovedUnder(c)'
          /\ MovedUnder(c)' = {} => MovedUnder(c) = {} /\ ip = r.ip /\ ip \in r.seen
        BY <1>7, <2>2
    <2>4. /\ PlaneKeeps /\ PlaneInv' /\ Plane!TypeOK' /\ items' = items /\ installing' = installing
        BY <1>1, <1>9, PlaneIdle
    <2>5. ~Refusing(c) => ip # r.ip
        <3>1. r.ip # NoIP
            BY <1>2, PlaneAssumption DEF Plane!NoIPAssumption
        <3> QED
            BY <1>3, <1>9, <3>1 DEF Refusing, Plane!ValidDeploy, Plane!Types
    <2>6. s # NoCase
        BY <2>2, NoCaseAssumption
    <2> HIDE DEF r, s, q, id, ip
    <2>7. (Refusing(c)' <=> Refusing(c)) /\ MeetsOf(c)'
        BY <2>2 DEF Refusing, Plane!ValidDuration, MeetsOf, r, s
    <2>8. TrailsOf(c)'
        BY <1>1, <1>2, <1>5, <1>6, <2>2, <2>6 DEF TrailsOf, Answered, Reading, r, s
    <2>9. Left(c)' = Left(c) \cup {id} /\ id \notin Left(c)
        BY <1>2, <1>5, <1>6, <2>2 DEF Left, r, s
    <2>10. LeftOf(c)'
        <3>1. ASSUME ~Refusing(c) PROVE Left(c)' \subseteq MovedUnder(c)'
            BY <1>1, <1>2, <2>3, <2>5, <2>9, <3>1 DEF LeftOf, r
        <3>2. ASSUME Refusing(c), MovedUnder(c)' = {}
              PROVE  /\ IsFiniteSet(Left(c)') /\ IsFiniteSet(Handled(s))
                     /\ Cardinality(Left(c)') = Cardinality(Handled(s))
            <4> DEFINE done == Handled(r)
            <4>1. /\ IsFiniteSet(Left(c)) /\ IsFiniteSet(done)
                  /\ Cardinality(Left(c)) = Cardinality(done)
                BY <1>1, <1>2, <2>3, <3>2 DEF LeftOf, r
            <4>2. ip \notin done /\ Handled(s) = done \cup {ip}
                BY <1>1, <2>2, <2>3, <3>2 DEF Handled
            <4> HIDE DEF done
            <4>3. /\ IsFiniteSet(Left(c) \cup {id})
                  /\ Cardinality(Left(c) \cup {id}) = Cardinality(Left(c)) + 1
                BY <2>9, <4>1, FS_AddElement
            <4>4. /\ IsFiniteSet(done \cup {ip})
                  /\ Cardinality(done \cup {ip}) = Cardinality(done) + 1
                BY <4>1, <4>2, FS_AddElement
            <4> QED
                BY <2>9, <4>1, <4>2, <4>3, <4>4
        <3> QED
            BY <1>2, <2>2, <2>7, <3>1, <3>2 DEF LeftOf, s
    <2>11. ControlsOf(c)'
        <3>1. r.controls \cap installing' = {}
            BY <1>1, <2>4 DEF ControlsOf, r
        <3>2. ASSUME ~Refusing(c) PROVE MovedUnder(c)' # {}
            BY <2>3, <2>5, <3>2
        <3> QED
            BY <1>1, <1>2, <2>2, <2>3, <2>4, <2>7, <3>1, <3>2 DEF ControlsOf, r, s, Plane!Known
    <2> QED
        BY <2>2, <2>4, <2>7, <2>8, <2>10, <2>11 DEF CaseInv, s
<1> QED
    BY <1>8, <1>9 DEF DeployNext

\* A step that changes no alert and at most the phase of the request: what it has done
\* stays done, and its controls stay its controls.
LEMMA PhaseCase ==
    ASSUME SystemInv, NEW c \in CaseOps, case[c] # NoCase, case'[c] \in Cases,
           alerts' = alerts, store' = store, PlaneKeeps, case[c].pc \in {"next", "install"},
           NEW pc \in {"act", "next", "ok", "error"}, case'[c] = [case[c] EXCEPT !.pc = pc],
           pc = "act" => case[c].verb = "contain" /\ case[c].pc = "install",
           pc \in {"ok", "error"} => case[c].todo = {},
           case[c].controls \cap installing' = {}
    PROVE  CaseInv(c)'
<1> DEFINE r == case[c]
           s == case'[c]
<1>1. /\ r \in Cases /\ TrailsOf(c) /\ MeetsOf(c) /\ LeftOf(c) /\ ControlsOf(c)
    BY DEF SystemInv, SystemTypeOK, CaseInv
<1>2. /\ s.verb = r.verb /\ s.arg = r.arg /\ s.group = r.group /\ s.todo = r.todo
      /\ s.at = r.at /\ s.seen = r.seen /\ s.controls = r.controls /\ s.pc = pc
      /\ s.torn = r.torn /\ Handled(s) = Handled(r)
      /\ r.group \subseteq AlertIds /\ r.controls \subseteq ControlIds
    BY <1>1, CaseFields DEF Handled
<1>3. s # NoCase
    BY NoCaseAssumption
<1> HIDE DEF r, s
<1>4. /\ Left(c)' = Left(c)
      /\ Refusing(c)' <=> Refusing(c)
      /\ \A i \in AlertIds : InTrail(c, i)' <=> InTrail(c, i)
      /\ MovedUnder(c)' = MovedUnder(c)
    BY <1>2 DEF MovedUnder, Left, Refusing, Plane!ValidDuration, InTrail, Exists, r, s
<1>5. TrailsOf(c)'
    BY <1>1, <1>2, <1>3, <1>4 DEF TrailsOf, Reading, Answered, Exists, r, s
<1>6. LeftOf(c)'
    BY <1>1, <1>2, <1>3, <1>4 DEF LeftOf, r, s
<1>7. ControlsOf(c)'
    <2>1. \A ctl \in r.controls : /\ Plane!Known(ctl)' /\ items'[ctl].ip = items[ctl].ip
                                  /\ items'[ctl].type = items[ctl].type
                                  /\ items'[ctl].type = s.arg.type
        BY <1>1, <1>2 DEF ControlsOf, PlaneKeeps, r
    <2>2. {items'[ctl].ip : ctl \in r.controls} = {items[ctl].ip : ctl \in r.controls}
        BY <2>1
    <2> QED
        BY <1>1, <1>2, <1>3, <1>4, <2>1, <2>2 DEF ControlsOf, r, s
<1>8. MeetsOf(c)'
    BY <1>2 DEF MeetsOf, s
<1> QED
    BY <1>5, <1>6, <1>7, <1>8 DEF CaseInv

\* The edge learns of the one control that waits for it.
LEMMA InstallCase ==
    ASSUME SystemInv, NEW c \in CaseOps, case[c] # NoCase, InstallNew(c)
    PROVE  case'[c] \in Cases /\ CaseInv(c)' /\ PlaneInv' /\ Plane!TypeOK' /\ PlaneKeeps
<1> DEFINE r == case[c]
           pc == IF r.verb = "contain" THEN "act" ELSE "next"
<1>1. /\ r \in Cases /\ ControlsOf(c) /\ TypeOK /\ PlaneInv /\ Plane!TypeOK
      /\ case \in [CaseOps -> Cases \cup {NoCase}]
    BY DEF SystemInv, SystemTypeOK, CaseInv
<1>2. r.pc = "install" /\ alerts' = alerts /\ store' = store /\ r.controls \subseteq ControlIds
    BY <1>1, CaseFields DEF InstallNew, vars
<1>3. PICK ctl \in r.controls : Plane!DeployInstall(ctl)
    BY DEF InstallNew
<1>4. case'[c] = [r EXCEPT !.pc = pc]
    BY <1>1, <1>2, CaseFields DEF InstallNew, Installed, Goes
<1>5. case'[c] \in Cases
    <2>1. r \in Deployments
        BY <1>1, <1>2, CaseFields
    <2> HIDE DEF r
    <2> QED
        BY <1>4, <2>1 DEF Cases, Deployments
<1>6. /\ PlaneKeeps /\ PlaneInv' /\ Plane!TypeOK'
      /\ ctl \in installing /\ installing' = installing \ {ctl}
    BY <1>1, <1>2, <1>3, PlaneInstall
<1>7. r.controls \cap installing' = {}
    BY <1>1, <1>3, <1>6 DEF ControlsOf
<1> HIDE DEF r
<1>8. CaseInv(c)'
    BY <1>2, <1>4, <1>5, <1>6, <1>7, PhaseCase DEF r
<1> QED
    BY <1>5, <1>6, <1>8

\* The answer changes no alert; listing the address's controls only marks expired ones.
LEMMA AnswerCase ==
    ASSUME SystemInv, NEW c \in CaseOps, case[c] # NoCase, Answer(c)
    PROVE  case'[c] \in Cases /\ CaseInv(c)' /\ PlaneInv' /\ Plane!TypeOK' /\ PlaneKeeps
<1> DEFINE r == case[c]
<1>1. /\ r \in Cases /\ ControlsOf(c) /\ TypeOK /\ PlaneInv /\ Plane!TypeOK
      /\ case \in [CaseOps -> Cases \cup {NoCase}]
    BY DEF SystemInv, SystemTypeOK, CaseInv
<1>2. r.pc = "next" /\ r.todo = {} /\ alerts' = alerts /\ store' = store
    BY DEF Answer
<1>3. PICK pc \in {"ok", "error"} : case'[c] = [r EXCEPT !.pc = pc]
    BY <1>1 DEF Answer, Goes
<1>4. case'[c] \in Cases
    <2>1. IF r.verb = "assign" THEN r \in Assignments ELSE r \in Deployments
        BY <1>1, CaseFields
    <2> HIDE DEF r
    <2>2. CASE r \in Assignments
        BY <1>3, <2>2 DEF Cases, Assignments
    <2>3. CASE r \in Deployments
        BY <1>3, <2>3 DEF Cases, Deployments
    <2> QED
        BY <2>1, <2>2, <2>3
<1>5. PlaneKeeps /\ PlaneInv' /\ Plane!TypeOK' /\ installing' = installing
    BY <1>1, PlaneIdle, PlaneList DEF Answer
<1>6. r.controls \cap installing' = {}
    BY <1>1, <1>2, <1>5 DEF ControlsOf
<1> HIDE DEF r
<1>7. CaseInv(c)'
    BY <1>2, <1>3, <1>4, <1>5, <1>6, PhaseCase DEF r
<1> QED
    BY <1>4, <1>5, <1>7

\* The service call on one alert: it is logged there under the request's name, unless
\* the alert is passed over.
LEMMA ActCase ==
    ASSUME SystemInv, NEW c \in CaseOps, case[c] # NoCase, NEW id \in AlertIds, Act(c, id)
    PROVE  case'[c] \in Cases /\ CaseInv(c)' /\ StoreStep(c) /\ TypeOK' /\ EvidenceStep
<1> DEFINE r == case[c]
           s == case'[c]
           b == Apply(alerts[id], c, Asked(r))
<1>1. /\ r \in Cases /\ TrailsOf(c) /\ LeftOf(c) /\ ControlsOf(c) /\ TypeOK
      /\ case \in [CaseOps -> Cases \cup {NoCase}] /\ c \in Ops /\ c \in AllOps
    BY CaseOpsAssumption DEF SystemInv, SystemTypeOK, CaseInv, AllOps
<1>2. /\ \/ r.verb = "contain" /\ r.pc = "act" /\ id = r.at
         \/ r.verb # "contain" /\ r.pc = "next" /\ id \in r.todo
      /\ alerts' = IF PassedOver(r, id) THEN alerts ELSE [alerts EXCEPT ![id] = Apply(@, c, Asked(r))]
      /\ s = [r EXCEPT !.todo = @ \ {id}, !.at = NoAlert, !.ip = NoIP, !.pc = "next"]
      /\ UNCHANGED <<ingested, answered, toSeed, source, store, planeVars>>
    BY <1>1 DEF Act, Goes
<1>3. id \in r.todo /\ id \in r.group /\ r.group \subseteq AlertIds /\ r.controls \subseteq ControlIds
    BY <1>1, <1>2, CaseFields DEF TrailsOf
<1>4. Asked(r) \in Requests
    BY <1>1, AskedIsRequest
<1>5. /\ s \in Cases /\ s.verb = r.verb /\ s.arg = r.arg /\ s.group = r.group
      /\ s.todo = r.todo \ {id} /\ s.seen = r.seen /\ s.controls = r.controls /\ s.pc = "next"
      /\ s.torn = r.torn /\ Handled(s) = Handled(r)
    <2>1. IF r.verb = "assign" THEN r \in Assignments ELSE r \in Deployments
        BY <1>1, CaseFields
    <2>2. s = [r EXCEPT !.todo = @ \ {id}, !.at = NoAlert, !.ip = NoIP, !.pc = "next"]
        BY <1>2
    <2> HIDE DEF r, s
    <2>3. CASE r \in Assignments
        BY <2>2, <2>3 DEF Cases, Assignments, Handled
    <2>4. CASE r \in Deployments
        <3>1. r.pc # "deploy"
            BY <1>2 DEF r
        <3> QED
            BY <2>2, <2>4, <3>1 DEF Cases, Deployments, Handled
    <2> QED
        BY <2>1, <2>3, <2>4
<1>6. s # NoCase
    BY <1>5, NoCaseAssumption
<1>7. (Refusing(c)' <=> Refusing(c)) /\ MovedUnder(c)' = MovedUnder(c) /\ MeetsOf(c)'
    BY <1>2, <1>5 DEF Refusing, Plane!ValidDuration, MovedUnder, MeetsOf
<1>8. ControlsOf(c)'
    <2>1. items' = items /\ installing' = installing
        BY <1>2 DEF planeVars
    <2>2. r.controls \cap installing = {}
        BY <1>1, <1>2 DEF ControlsOf
    <2> HIDE DEF r, s
    <2> QED
        BY <1>1, <1>5, <1>6, <1>7, <2>1, <2>2 DEF ControlsOf, Plane!Known, r, s
<1>9. CASE PassedOver(r, id)
    <2>1. alerts' = alerts
        BY <1>2, <1>9
    <2>2. StoreStep(c) /\ TypeOK' /\ EvidenceStep
        BY <1>1, <1>2, <2>1, EvidenceKept DEF StoreStep, TypeOK
    <2>3. r.verb # "contain"
        BY <1>1, <1>3, <1>9 DEF PassedOver, TrailsOf, Refused, Asked
    <2>4. r.verb = "assign" => ~IsActive(alerts[id].status)
        BY <1>1, <1>3, <1>9 DEF PassedOver, TrailsOf, Refused, Asked
    <2> HIDE DEF r, s
    <2>5. \A i \in AlertIds : /\ InTrail(c, i)' <=> InTrail(c, i)
                              /\ Once(alerts[i], c)' <=> Once(alerts[i], c)
                              /\ Exists(i)' <=> Exists(i)
        BY <2>1 DEF InTrail, Exists
    <2>6. TrailsOf(c)'
        BY <1>1, <1>3, <1>5, <1>6, <2>5 DEF TrailsOf, Reading, Answered, r, s
    <2>7. \A i \in Left(c)' : i \in Left(c) \/ i = id
        BY <1>3, <1>5, <2>5 DEF Left, r, s
    <2>8. LeftOf(c)'
        BY <1>1, <1>5, <1>6, <1>7, <2>1, <2>3, <2>4, <2>7 DEF LeftOf, r, s
    <2> QED
        BY <1>5, <1>7, <1>8, <2>2, <2>6, <2>8 DEF CaseInv, s
<1>10. CASE ~PassedOver(r, id)
    <2>1. /\ Exists(id) /\ ~Refused(alerts[id], Asked(r)) /\ alerts[id] \in Alert(AllOps)
          /\ alerts' = [alerts EXCEPT ![id] = b]
        BY <1>1, <1>2, <1>10 DEF PassedOver, TypeOK, Exists
    <2>2. /\ b \in Alert(AllOps) /\ Carries(b, c)
          /\ Once(alerts[id], c) /\ ~Carries(alerts[id], c) => Once(b, c)
        BY <1>1, <1>4, <2>1, ApplySound, ApplyCarries
    <2>3. ~InTrail(c, id) /\ ~Carries(alerts[id], c)
        BY <1>1, <1>3, <2>1 DEF TrailsOf, InTrail, Carries
    <2>4. Once(alerts[id], c)
        BY <2>3 DEF Once, Carries
    <2>5. StoreStep(c) /\ alerts' \in [AlertIds -> Alert(AllOps) \cup {NoAlert}]
        BY <1>1, <1>4, <2>1, ApplyIsStoreStep
    <2>6. EvidenceStep
        BY <1>1, <1>2, <1>4, <2>1, ApplyEvidence
    <2>7. TypeOK'
        BY <1>1, <1>2, <2>5 DEF TypeOK
    <2> HIDE DEF r, s, b
    <2>8. NoAlert \notin Alert(AllOps) /\ \A i \in AlertIds : alerts'[i] = IF i = id THEN b ELSE alerts[i]
        BY <1>1, <2>1, NoAlertAssumption DEF TypeOK, AllOps
    <2>9. \A i \in AlertIds : /\ InTrail(c, i)' <=> InTrail(c, i) \/ i = id
                              /\ InTrail(c, i) => (Once(alerts[i], c)' <=> Once(alerts[i], c))
                              /\ Exists(i) <=> Exists(i)'
        BY <2>1, <2>2, <2>3, <2>8 DEF InTrail, Carries, Exists
    <2>10. Once(alerts[id], c)'
        BY <2>2, <2>3, <2>4, <2>8
    <2>11. TrailsOf(c)'
        BY <1>1, <1>3, <1>5, <1>6, <2>9, <2>10 DEF TrailsOf, Reading, Answered, r, s
    <2>12. Left(c)' = Left(c) /\ id \notin Left(c)
        BY <1>3, <1>5, <2>9 DEF Left, r, s
    <2>13. \A i \in Left(c) : alerts'[i] = alerts[i]
        BY <1>3, <2>8, <2>12 DEF Left, r
    <2>14. LeftOf(c)'
        BY <1>1, <1>5, <1>6, <1>7, <2>12, <2>13 DEF LeftOf, r, s
    <2> QED
        BY <1>5, <1>7, <1>8, <2>5, <2>6, <2>7, <2>11, <2>14 DEF CaseInv, s
<1> QED
    BY <1>9, <1>10

-----------------------------------------------------------------------------
(* Every step of the system.                                               *)

\* A step by the request c.
LEMMA CaseStep ==
    ASSUME SystemInv, NEW c \in CaseOps, NEW r \in Cases, case' = [case EXCEPT ![c] = r],
           CaseInv(c)', PlaneInv', Plane!TypeOK', PlaneKeeps, StoreStep(c), TypeOK',
           source' = source, store' = store
    PROVE  SystemInv'
<1>1. case \in [CaseOps -> Cases \cup {NoCase}]
    BY DEF SystemInv, SystemTypeOK
<1>2. SystemTypeOK'
    BY <1>1 DEF SystemInv, SystemTypeOK
<1>3. ASSUME NEW d \in CaseOps, d # c PROVE CaseInv(d)'
    <2>1. case'[d] = case[d]
        BY <1>1, <1>3
    <2> QED
        BY <2>1, <1>3, Bystander
<1> QED
    BY <1>2, <1>3 DEF SystemInv

\* A step by anybody else.
LEMMA OtherStep ==
    ASSUME SystemInv, NEW op, op \notin CaseOps, StoreStep(op), TypeOK',
           source' \in [AlertIds -> CaseKeys \cup {NoIP}], UNCHANGED <<case, store, planeVars>>
    PROVE  SystemInv'
<1>1. case' = case /\ store' = store /\ UNCHANGED planeVars
    OBVIOUS
<1>2. Plane!TypeOK' /\ PlaneInv' /\ PlaneKeeps
    BY <1>1, PlaneIdle DEF SystemInv, SystemTypeOK
<1>3. SystemTypeOK'
    BY <1>1, <1>2 DEF SystemInv, SystemTypeOK
<1>4. ASSUME NEW c \in CaseOps PROVE CaseInv(c)'
    BY <1>1, <1>2, <1>4, Bystander
<1> QED
    BY <1>2, <1>3, <1>4 DEF SystemInv

Stepped == SystemInv' /\ (\E op : StoreStep(op)) /\ EvidenceStep

\* Every step of the whole system keeps SystemInv and is a StoreStep.
LEMMA SystemStep == SystemInv /\ [SystemNext]_systemVars => Stepped
<1> SUFFICES ASSUME SystemInv, [SystemNext]_systemVars PROVE Stepped
    OBVIOUS
<1>0. /\ TypeOK /\ Plane!TypeOK /\ PlaneInv /\ source \in [AlertIds -> CaseKeys \cup {NoIP}]
      /\ case \in [CaseOps -> Cases \cup {NoCase}]
      /\ SeedOp \notin CaseOps
    BY CaseOpsAssumption, SeedOpAssumption DEF SystemInv, SystemTypeOK
<1>1. ASSUME NEW key \in Keys, NEW from \in CaseKeys, IngestFrom(key, from)
      PROVE  Stepped
    <2>1. Ingest(key) /\ UNCHANGED <<case, store, planeVars>>
        BY <1>1 DEF IngestFrom
    <2>2. StoreStep(SeedOp) /\ TypeOK' /\ EvidenceStep
        BY <1>0, <2>1, IngestIsStoreStep, IngestEvidence
    <2>3. source' \in [AlertIds -> CaseKeys \cup {NoIP}]
        BY <1>0, <1>1 DEF IngestFrom
    <2> QED
        BY <1>0, <2>1, <2>2, <2>3, OtherStep DEF Stepped
<1>2. ASSUME NEW seed \in Seeds, NEW id \in AlertIds, NEW from \in CaseKeys, SeedFrom(seed, id, from)
      PROVE  Stepped
    <2>1. SeedDemo(seed, id) /\ UNCHANGED <<case, store, planeVars>>
        BY <1>2 DEF SeedFrom
    <2>2. StoreStep(SeedOp) /\ TypeOK' /\ EvidenceStep
        BY <1>0, <2>1, SeedDemoIsStoreStep, SeedDemoEvidence
    <2>3. source' \in [AlertIds -> CaseKeys \cup {NoIP}]
        BY <1>0, <1>2 DEF SeedFrom
    <2> QED
        BY <1>0, <2>1, <2>2, <2>3, OtherStep DEF Stepped
<1>3. ASSUME NEW id \in AlertIds, NEW op \in Ops \ CaseOps, NEW req \in Requests, Console(id, op, req)
      PROVE  Stepped
    <2>1. Handle(id, op, req) /\ source' = source /\ store' = store /\ UNCHANGED <<case, store, planeVars>>
        BY <1>3 DEF Console
    <2>2. StoreStep(op) /\ TypeOK'
        BY <1>0, <2>1, HandleIsStoreStep
    <2>3. EvidenceStep
        BY <1>0, <2>1, ApplyEvidence DEF Handle
    <2> QED
        BY <1>0, <2>1, <2>2, <2>3, OtherStep DEF Stepped
<1>4. ASSUME alerts' = alerts, ingested' = ingested
      PROVE  EvidenceStep /\ \A op : StoreStep(op)
    BY <1>0, <1>4, EvidenceKept DEF StoreStep
<1>5. ASSUME UNCHANGED vars
      PROVE  TypeOK' /\ EvidenceStep /\ \A op : StoreStep(op)
    BY <1>0, <1>4, <1>5 DEF vars, TypeOK
<1>6. ASSUME NEW c \in CaseOps, NEW key \in CaseKeys,
             \/ \E terms \in Terms : BeginContain(c, key, terms)
             \/ \E assignee \in Analysts : BeginAssign(c, key, assignee)
      PROVE  Stepped
    <2>1. PICK verb \in {"contain", "assign"}, arg \in Terms \cup Analysts :
              /\ verb = "contain" => arg \in Terms
              /\ verb = "assign" => arg \in Analysts
              /\ Starts(c, Request(verb, key, arg, Group(key)))
              /\ UNCHANGED <<vars, source, store, planeVars>>
        BY <1>6 DEF BeginContain, BeginAssign
    <2>2. alerts' = alerts /\ UNCHANGED vars /\ source' = source /\ store' = store /\ UNCHANGED planeVars
        BY <2>1 DEF vars
    <2>3. case'[c] \in Cases /\ CaseInv(c)'
        BY <2>1, <2>2, BeginCase
    <2>4. case' = [case EXCEPT ![c] = case'[c]]
        BY <1>0, <2>1 DEF Starts
    <2>5. Plane!TypeOK' /\ PlaneInv' /\ PlaneKeeps
        BY <1>0, <2>2, PlaneIdle
    <2> QED
        BY <1>5, <2>2, <2>3, <2>4, <2>5, CaseStep DEF Stepped
<1>7. ASSUME NEW c \in CaseOps, NEW ip \in IPs, NEW terms \in Terms, NEW ids \in SUBSET AlertIds,
             BeginDeploy(c, ip, terms, ids)
      PROVE  Stepped
    <2>1. case'[c] \in Cases /\ CaseInv(c)' /\ PlaneInv' /\ Plane!TypeOK' /\ PlaneKeeps
        BY <1>7, BeginDeployCase
    <2>2. UNCHANGED vars /\ source' = source /\ store' = store /\ case' = [case EXCEPT ![c] = case'[c]]
        BY <1>0, <1>7 DEF BeginDeploy, Starts
    <2> QED
        BY <1>5, <2>1, <2>2, CaseStep DEF Stepped
<1>8. ASSUME NEW c \in CaseOps, case[c] # NoCase, NEW id \in AlertIds, Look(c, id)
      PROVE  Stepped
    <2>1. case'[c] \in Cases /\ CaseInv(c)' /\ PlaneInv' /\ Plane!TypeOK' /\ PlaneKeeps
        BY <1>8, LookCase
    <2>2. UNCHANGED vars /\ source' = source /\ store' = store /\ case' = [case EXCEPT ![c] = case'[c]]
        BY <1>0, <1>8 DEF Look, Goes
    <2> QED
        BY <1>5, <2>1, <2>2, CaseStep DEF Stepped
<1>13. ASSUME NEW c \in CaseOps, case[c] # NoCase, Check(c) \/ Mark(c) \/ DeployNext(c)
       PROVE  Stepped
    <2>1. case'[c] \in Cases /\ CaseInv(c)' /\ PlaneInv' /\ Plane!TypeOK' /\ PlaneKeeps
        BY <1>13, CheckCase, MarkCase, DeployNextCase
    <2>2. /\ UNCHANGED vars /\ source' = source /\ store' = store
          /\ case' = [case EXCEPT ![c] = case'[c]]
        BY <1>0, <1>13 DEF Check, Mark, DeployNext, Goes
    <2> QED
        BY <1>5, <2>1, <2>2, CaseStep DEF Stepped
<1>9. ASSUME NEW c \in CaseOps, case[c] # NoCase, NEW id \in AlertIds, Act(c, id)
      PROVE  Stepped
    <2>1. case'[c] \in Cases /\ CaseInv(c)' /\ StoreStep(c) /\ TypeOK' /\ EvidenceStep
        BY <1>9, ActCase
    <2>2. /\ source' = source /\ store' = store /\ case' = [case EXCEPT ![c] = case'[c]]
          /\ UNCHANGED planeVars
        BY <1>0, <1>9 DEF Act, Goes
    <2>3. Plane!TypeOK' /\ PlaneInv' /\ PlaneKeeps
        BY <1>0, <2>2, PlaneIdle
    <2> QED
        BY <2>1, <2>2, <2>3, CaseStep DEF Stepped
<1>10. ASSUME NEW c \in CaseOps, case[c] # NoCase, InstallNew(c)
       PROVE  Stepped
    <2>1. case'[c] \in Cases /\ CaseInv(c)' /\ PlaneInv' /\ Plane!TypeOK' /\ PlaneKeeps
        BY <1>10, InstallCase
    <2>2. UNCHANGED vars /\ source' = source /\ store' = store /\ case' = [case EXCEPT ![c] = case'[c]]
        BY <1>0, <1>10 DEF InstallNew, Installed, Goes
    <2> QED
        BY <1>5, <2>1, <2>2, CaseStep DEF Stepped
<1>11. ASSUME NEW c \in CaseOps, case[c] # NoCase, Answer(c)
       PROVE  Stepped
    <2>1. case'[c] \in Cases /\ CaseInv(c)' /\ PlaneInv' /\ Plane!TypeOK' /\ PlaneKeeps
        BY <1>11, AnswerCase
    <2>2. /\ UNCHANGED <<alerts, ingested, toSeed, source, store>>
          /\ case' = [case EXCEPT ![c] = case'[c]]
          /\ answered' \in {answered, answered \cup {c}}
        BY <1>0, <1>11 DEF Answer, Goes
    <2>3. TypeOK'
        BY <1>0, <2>2, CaseOpsAssumption DEF TypeOK
    <2> QED
        BY <1>4, <2>1, <2>2, <2>3, CaseStep DEF Stepped
<1>12. CASE UNCHANGED systemVars
    <2>1. UNCHANGED vars /\ source' = source /\ store' = store /\ UNCHANGED <<case, store, planeVars>>
        BY <1>12 DEF systemVars
    <2> QED
        BY <1>0, <1>5, <2>1, OtherStep DEF Stepped
<1> QED
    BY <1>1, <1>2, <1>3, <1>6, <1>7, <1>8, <1>9, <1>10, <1>11, <1>12,
       <1>13 DEF SystemNext

\* The invariants hold before anything has happened.
LEMMA SystemStart == SystemInit => SystemInv /\ EvidenceInv /\ AlertsCoherent /\ OneOpenPerKey
<1> SUFFICES ASSUME SystemInit PROVE SystemInv /\ EvidenceInv /\ AlertsCoherent /\ OneOpenPerKey
    OBVIOUS
<1>1. TypeOK /\ \A id \in AlertIds : ~Exists(id)
    BY DEF SystemInit, Init, TypeOK, Exists
<1>2. Plane!TypeOK /\ PlaneInv
    BY DEF SystemInit, Plane!Init, Plane!ClockInit, Plane!RegistryInit, Plane!PoliciesInit,
           Plane!TypeOK, Plane!ClockTypeOK, Plane!RegistryTypeOK, Plane!PoliciesTypeOK,
           PlaneInv, Plane!Known
<1>3. SystemTypeOK
    BY <1>1, <1>2 DEF SystemInit, SystemTypeOK
<1>4. ASSUME NEW c \in CaseOps PROVE CaseInv(c)
    <2>1. case[c] = NoCase /\ \A id \in AlertIds : ~InTrail(c, id)
        BY <1>1 DEF SystemInit, InTrail
    <2> QED
        BY <2>1 DEF CaseInv, TrailsOf, MeetsOf, LeftOf, ControlsOf
<1>5. EvidenceInv
    BY <1>1 DEF SystemInit, Init, EvidenceInv, BatchesRecorded, EvidenceOf
<1> QED
    BY <1>1, <1>2, <1>3, <1>4, <1>5 DEF SystemInv, AlertsCoherent, OneOpenPerKey, OpenFor

-----------------------------------------------------------------------------
(* The system: the promises of the contract hold although requests on cases *)
(* act on many alerts, and the requests keep theirs.                        *)

\* Alerts, requests on cases, controls and policies are always of the right kind.
THEOREM SystemTypeCorrect == SystemSpec => []SystemTypeOK
<1>1. SystemInv /\ [SystemNext]_systemVars => SystemInv'
    BY SystemStep DEF Stepped
<1>2. SystemInv => SystemTypeOK
    BY DEF SystemInv
<1> QED
    BY <1>1, <1>2, SystemStart, PTL DEF SystemSpec

\* SystemInv holds for ever.
LEMMA SystemHolds == SystemSpec => []SystemInv
<1>1. SystemInv /\ [SystemNext]_systemVars => SystemInv'
    BY SystemStep DEF Stepped
<1> QED
    BY <1>1, SystemStart, PTL DEF SystemSpec

\* The handlers of cases keep every alert in step with its trail, too.
THEOREM SystemTrailExplainsAlert == SystemSpec => []AlertsCoherent
<1>1. SystemInv /\ AlertsCoherent /\ [SystemNext]_systemVars => AlertsCoherent'
    BY SystemStep, CoherentStep DEF Stepped, SystemInv, SystemTypeOK
<1> QED
    BY <1>1, SystemStart, SystemHolds, PTL DEF SystemSpec

\* No key has two open alerts while whole cases are worked off.
THEOREM SystemRepeatedHitsMerge == SystemSpec => []OneOpenPerKey
<1>1. SystemInv /\ OneOpenPerKey /\ [SystemNext]_systemVars => OneOpenPerKey'
    BY SystemStep, OneOpenStep DEF Stepped, SystemInv, SystemTypeOK
<1> QED
    BY <1>1, SystemStart, SystemHolds, PTL DEF SystemSpec

\* No request on a case re-opens a resolved alert or edits a trail.
THEOREM SystemHistoryIsFinal == SystemSpec => NoHistoryRewritten
<1> DEFINE Kept == \A id \in AlertIds :
                      Exists(id) => alerts'[id] # NoAlert /\ LifecycleStep(alerts[id], alerts'[id])
<1>1. SystemInv /\ [SystemNext]_systemVars => [Kept]_vars
    BY SystemStep, HistoryStep DEF Stepped, SystemInv, SystemTypeOK
<1> QED
    BY <1>1, SystemHolds, PTL DEF SystemSpec, NoHistoryRewritten

\* The newest batch is evidence and no batch is evidence twice, whatever requests on
\* cases resolve meanwhile.
THEOREM SystemBatchesAreRecorded == SystemSpec => []BatchesRecorded
<1>1. SystemInv /\ EvidenceInv /\ [SystemNext]_systemVars => EvidenceInv'
    BY SystemStep, EvidenceInvStep DEF Stepped, SystemInv, SystemTypeOK
<1>2. EvidenceInv => BatchesRecorded
    BY DEF EvidenceInv
<1> QED
    BY <1>1, <1>2, SystemStart, SystemHolds, PTL DEF SystemSpec

\* A request on a case acts once on each of its alerts and never on others, and deploys
\* one control for each address it met, unless the memory store lets an alert be moved
\* while the handler reads it (IncidentContain, IncidentAssign, DeployContainment).
THEOREM ActsOnce == SystemSpec => []OncePerAlertAndAddress
<1>1. SystemInv => OncePerAlertAndAddress
    <2> SUFFICES ASSUME SystemInv, NEW c \in CaseOps, case[c] # NoCase
                 PROVE  /\ \A id \in AlertIds : InTrail(c, id) =>
                              /\ id \in case[c].group
                              /\ Cardinality({i \in 1 .. Len(alerts[id].trail) :
                                                 alerts[id].trail[i].op = c}) = 1
                        /\ case[c].verb = "assign" \/ Refusing(c) => case[c].controls = {}
                        /\ MovedUnder(c) = {} =>
                              /\ \A d, e \in case[c].controls : items[d].ip = items[e].ip => d = e
                              /\ case[c].verb # "assign" /\ ~Refusing(c) /\ case[c].pc # "deploy" =>
                                    {items[ctl].ip : ctl \in case[c].controls} = case[c].seen
        BY DEF OncePerAlertAndAddress
    <2>1. TrailsOf(c) /\ ControlsOf(c)
        BY DEF SystemInv, CaseInv
    <2>2. ASSUME NEW id \in AlertIds, InTrail(c, id)
          PROVE  /\ id \in case[c].group
                 /\ Cardinality({i \in 1 .. Len(alerts[id].trail) : alerts[id].trail[i].op = c}) = 1
        <3>1. id \in case[c].group /\ Once(alerts[id], c)
            BY <2>1, <2>2 DEF TrailsOf
        <3>2. PICK k \in 1 .. Len(alerts[id].trail) : alerts[id].trail[k].op = c
            BY <2>2 DEF InTrail
        <3>3. {i \in 1 .. Len(alerts[id].trail) : alerts[id].trail[i].op = c} = {k}
            BY <3>1, <3>2 DEF Once
        <3> QED
            BY <3>1, <3>3, FS_Singleton
    <2>3. case[c].pc # "deploy" => Handled(case[c]) = case[c].seen
        BY DEF Handled
    <2> QED
        BY <2>1, <2>2, <2>3 DEF ControlsOf
<1> QED
    BY <1>1, SystemHolds, PTL

\* An answered request has worked off the whole case: what it left out was resolved
\* already, or stands for one address whose control was refused, or was moved while the
\* handler read it.
THEOREM WorksOffTheCase == SystemSpec => []CaseIsWorkedOff
<1>1. SystemInv => CaseIsWorkedOff
    <2> SUFFICES ASSUME SystemInv, NEW c \in CaseOps, Answered(c)
                 PROVE  CASE case[c].verb = "contain" /\ ~Refusing(c) -> Unlogged(c) \subseteq MovedUnder(c)
                          [] case[c].verb = "contain" /\ Refusing(c) ->
                                 MovedUnder(c) = {} => Cardinality(Unlogged(c)) = Cardinality(case[c].seen)
                          [] case[c].verb = "assign" ->
                                 \A id \in Unlogged(c) : ~IsActive(alerts[id].status)
                          [] OTHER -> TRUE
        BY DEF CaseIsWorkedOff
    <2>1. TrailsOf(c) /\ LeftOf(c) /\ case[c] # NoCase
        BY DEF SystemInv, CaseInv, Answered
    <2>2. Unlogged(c) = Left(c)
        BY <2>1 DEF TrailsOf, Left, Unlogged
    <2>3. Handled(case[c]) = case[c].seen
        BY DEF Answered, Handled
    <2> QED
        BY <2>1, <2>2, <2>3 DEF LeftOf
<1> QED
    BY <1>1, SystemHolds, PTL

\* An answered block of a case is enforced at the edge for every control it deployed,
\* and these are for every address it met, unless an alert was moved under it.
THEOREM EnforcesTheCase == SystemSpec => []CaseIsEnforced
<1>1. SystemInv => CaseIsEnforced
    <2> SUFFICES ASSUME SystemInv, NEW c \in CaseOps, Answered(c), case[c].verb # "assign",
                        case[c].arg.type = "block_ip", ~Refusing(c)
                 PROVE  /\ \A ctl \in case[c].controls :
                              ~Plane!Past(items[ctl].expires)
                                  => Plane!Verdict(items[ctl].ip, FALSE) = "deny"
                        /\ MovedUnder(c) = {} =>
                              case[c].seen \subseteq {items[ctl].ip : ctl \in case[c].controls}
        BY DEF CaseIsEnforced
    <2>1. /\ ControlsOf(c) /\ case[c] # NoCase /\ case[c].pc \notin {"install", "deploy"}
          /\ case[c] \in Cases /\ PlaneInv /\ Plane!TypeOK
        BY DEF SystemInv, CaseInv, Answered, SystemTypeOK
    <2>2. ASSUME NEW ctl \in case[c].controls, ~Plane!Past(items[ctl].expires)
          PROVE  Plane!Verdict(items[ctl].ip, FALSE) = "deny"
        <3>1. /\ ctl \in ControlIds /\ Plane!Known(ctl) /\ ctl \notin installing
              /\ items[ctl].type = "block_ip"
            BY <2>1, CaseFields DEF ControlsOf
        <3>2. policies[ctl] = Plane!edgePolicyFor(items[ctl])
            BY <2>1, <3>1 DEF PlaneInv
        <3>3. items[ctl] \in Plane!Control
            BY <2>1, <3>1, PlaneTyped DEF Plane!Known
        <3>4. policies[ctl] \in Plane!Policy
            BY <3>2, <3>3 DEF Plane!edgePolicyFor, Plane!Control, Plane!Policy, Plane!Kinds, Plane!Types
        <3>5. /\ policies[ctl].kind = "deny" /\ policies[ctl].target = items[ctl].ip
              /\ policies[ctl].expires = items[ctl].expires
              /\ policies[ctl] # NoPolicy
            BY <3>1, <3>2, <3>4, PlaneAssumption DEF Plane!edgePolicyFor, Plane!NoPolicyAssumption
        <3>6. ctl \in Plane!Matches("deny", items[ctl].ip)
            BY <2>2, <3>1, <3>5 DEF Plane!Matches
        <3> QED
            BY <3>6 DEF Plane!Verdict
    <2>3. Handled(case[c]) = case[c].seen
        BY <2>1 DEF Handled
    <2> QED
        BY <2>1, <2>2, <2>3 DEF ControlsOf
<1> QED
    BY <1>1, SystemHolds, PTL

-----------------------------------------------------------------------------
(* The status of an incident.  That a loop over a list computes what it     *)
(* should is shown by the first place where it would not.                   *)

\* A set of numbers that is not empty has a least element.
LEMMA LeastNumber ==
    ASSUME NEW T, T \subseteq Nat, T # {}
    PROVE  \E x \in T : \A y \in T : ~(y < x)
<1>1. PICK x \in T : \A y \in T : <<y, x>> \notin OpToRel(<, Nat)
    BY WFMin, NatLessThanWellFounded
<1> QED
    BY <1>1 DEF OpToRel

\* One more alert of a case changes the most advanced status as RollUp says.
LEMMA OneMoreAlert ==
    ASSUME NEW S, NEW next \in Statuses
    PROVE  RollUp(MostAdvanced(S), next) = MostAdvanced(S \cup {next})
<1>1. CASE next = "OPEN"
    BY <1>1 DEF RollUp, MostAdvanced, IsActive
<1>2. CASE next = "ASSIGNED"
    BY <1>2 DEF RollUp, MostAdvanced, IsActive
<1>3. CASE next = "IN_PROGRESS"
    BY <1>3 DEF RollUp, MostAdvanced, IsActive
<1>4. CASE next = "RESOLVED"
    BY <1>4 DEF RollUp, MostAdvanced, IsActive
<1> QED
    BY <1>1, <1>2, <1>3, <1>4 DEF Statuses

\* The loop of buildIncident ends with the most advanced status of the list.
LEMMA RollingUp ==
    ASSUME NEW order, NEW n \in Nat, Len(order) = n,
           \A i \in 1 .. n : alerts[order[i]].status \in Statuses
    PROVE  IncidentStatus(order) = MostAdvanced({alerts[order[i]].status : i \in 1 .. n})
<1> DEFINE met(i) == {alerts[order[j]].status : j \in 1 .. i}
           step(g) == [i \in 0 .. n |-> IF i = 0 THEN "" ELSE RollUp(g[i - 1], alerts[order[i]].status)]
           want == [i \in 0 .. n |-> MostAdvanced(met(i))]
           upTo == CHOOSE g : g = step(g)
<1>1. ASSUME NEW i \in 1 .. n PROVE MostAdvanced(met(i)) = RollUp(MostAdvanced(met(i - 1)), alerts[order[i]].status)
    <2>1. met(i) = met(i - 1) \cup {alerts[order[i]].status}
        <3>1. 1 .. i = (1 .. i - 1) \cup {i}
            OBVIOUS
        <3> QED
            BY <3>1, Zenon
    <2> HIDE DEF met
    <2> QED
        BY <2>1, OneMoreAlert
<1>2. MostAdvanced(met(0)) = ""
    BY DEF MostAdvanced
<1>3. want = step(want)
    <2> HIDE DEF met
    <2>1. \A i \in 0 .. n : i # 0 => i \in 1 .. n /\ i - 1 \in 0 .. n
        OBVIOUS
    <2> QED
        BY <1>1, <1>2, <2>1
<1>4. upTo = step(upTo)
    <2> HIDE DEF step, want
    <2> QED
        BY <1>3
<1>5. /\ upTo[0] = ""
      /\ \A i \in 1 .. n : upTo[i] = RollUp(upTo[i - 1], alerts[order[i]].status)
    <2> HIDE DEF upTo
    <2>1. ASSUME NEW i \in 0 .. n
          PROVE  upTo[i] = IF i = 0 THEN "" ELSE RollUp(upTo[i - 1], alerts[order[i]].status)
        BY <1>4, Zenon
    <2>2. 0 \in 0 .. n /\ \A i \in 1 .. n : i \in 0 .. n /\ i # 0
        OBVIOUS
    <2> QED
        BY <2>1, <2>2, Zenon
<1> HIDE DEF met, step, want, upTo
<1>6. \A i \in 0 .. n : upTo[i] = MostAdvanced(met(i))
    <2> SUFFICES ASSUME {i \in 0 .. n : upTo[i] # MostAdvanced(met(i))} # {}
                 PROVE  FALSE
        OBVIOUS
    <2> DEFINE wrong == {i \in 0 .. n : upTo[i] # MostAdvanced(met(i))}
    <2>0. wrong \subseteq Nat /\ wrong # {}
        OBVIOUS
    <2>1. PICK i \in wrong : \A j \in wrong : ~(j < i)
        <3> HIDE DEF wrong
        <3> QED
            BY <2>0, LeastNumber
    <2>2. i # 0
        BY <1>2, <1>5
    <2>3. i \in 1 .. n /\ i - 1 \in 0 .. n /\ i - 1 < i
        BY <2>2
    <2>4. i - 1 \notin wrong
        BY <2>1, <2>3
    <2>5. upTo[i - 1] = MostAdvanced(met(i - 1))
        BY <2>3, <2>4
    <2> QED
        BY <1>1, <1>5, <2>3, <2>5
<1>7. IncidentStatus(order) = upTo[n]
    BY DEF IncidentStatus, upTo, step
<1>8. upTo[n] = MostAdvanced(met(n))
    <2>1. n \in 0 .. n
        OBVIOUS
    <2> QED
        BY <1>6, <2>1, Zenon
<1> QED
    BY <1>7, <1>8, Zenon DEF met

\* Only finitely many alerts have been created.
FinitelyMany == IsFiniteSet({id \in AlertIds : Exists(id)})

\* A step creates one alert at most.
LEMMA AlertsStayFinite ==
    ASSUME TypeOK, FinitelyMany, NEW op, StoreStep(op)
    PROVE  FinitelyMany'
<1> DEFINE known == {id \in AlertIds : Exists(id)}
<1>1. \/ known' \subseteq known
      \/ \E id \in AlertIds : known' \subseteq known \cup {id}
    BY DEF StoreStep, Creates, Evolves, TypeOK, Exists
<1>2. \A id \in AlertIds : IsFiniteSet(known \cup {id})
    BY FS_AddElement DEF FinitelyMany
<1> QED
    BY <1>1, <1>2, FS_Subset DEF FinitelyMany

\* Every list of a case has each of its alerts.
LEMMA ListsAreComplete ==
    ASSUME NEW S, IsFiniteSet(S), NEW order \in SetToSeqs(S)
    PROVE  /\ Cardinality(S) \in Nat /\ Len(order) = Cardinality(S)
           /\ S = {order[i] : i \in 1 .. Cardinality(S)}
<1> DEFINE n == Cardinality(S)
<1>1. n \in Nat
    BY FS_CardinalityType
<1>2. /\ order \in [1 .. n -> S]
      /\ \A i, j \in 1 .. n : i # j => order[i] # order[j]
    BY DEF SetToSeqs
<1>3. Len(order) = n
    BY <1>1, <1>2
<1>4. IsFiniteSet(1 .. n) /\ Cardinality(1 .. n) = n
    BY <1>1, FS_Interval
<1>5. order \in Injection(1 .. n, S)
    BY <1>2 DEF Injection, IsInjective
<1>6. order \in Surjection(1 .. n, S)
    BY <1>4, <1>5, FS_Injection
<1> QED
    BY <1>1, <1>2, <1>3, <1>6 DEF Surjection

\* Whatever the order of the list, a case shows the most advanced status among its
\* active alerts (buildIncident).
THEOREM RollsUp == SystemSpec => []StatusRollsUp
<1>1. SystemInit => FinitelyMany
    <2> SUFFICES ASSUME SystemInit PROVE FinitelyMany
        OBVIOUS
    <2>1. {id \in AlertIds : Exists(id)} = {}
        BY DEF SystemInit, Init, Exists
    <2> QED
        BY <2>1, FS_EmptySet DEF FinitelyMany
<1>2. SystemInv /\ FinitelyMany /\ [SystemNext]_systemVars => FinitelyMany'
    <2> SUFFICES ASSUME SystemInv, FinitelyMany, [SystemNext]_systemVars PROVE FinitelyMany'
        OBVIOUS
    <2>1. TypeOK
        BY DEF SystemInv, SystemTypeOK
    <2>2. PICK op : StoreStep(op)
        BY SystemStep DEF Stepped
    <2> QED
        BY <2>1, <2>2, AlertsStayFinite
<1>3. SystemInv /\ FinitelyMany => StatusRollsUp
    <2> SUFFICES ASSUME SystemInv, FinitelyMany, NEW key \in CaseKeys, HasActive(key),
                        NEW order \in SetToSeqs(Group(key))
                 PROVE  /\ IncidentStatus(order) = MostAdvanced({alerts[id].status : id \in Group(key)})
                        /\ IncidentStatus(order) # ""
        BY DEF StatusRollsUp
    <2> DEFINE S == {alerts[id].status : id \in Group(key)}
               n == Cardinality(Group(key))
    <2>1. IsFiniteSet(Group(key))
        BY FS_Subset DEF Group, FinitelyMany
    <2>2. n \in Nat /\ Len(order) = n /\ Group(key) = {order[i] : i \in 1 .. n}
        BY <2>1, ListsAreComplete
    <2>3. \A id \in Group(key) : alerts[id].status \in Statuses
        BY DEF SystemInv, SystemTypeOK, TypeOK, Group, Exists, Alert
    <2>4. \E id \in Group(key) : alerts[id].status # "RESOLVED"
        BY DEF HasActive, IsActive
    <2> HIDE DEF n
    <2>5. \A i \in 1 .. n : order[i] \in Group(key)
        BY <2>2, Zenon
    <2>6. S = {alerts[order[i]].status : i \in 1 .. n}
        BY <2>2
    <2>7. IncidentStatus(order) = MostAdvanced(S)
        <3>1. /\ n \in Nat /\ Len(order) = n
              /\ \A i \in 1 .. n : alerts[order[i]].status \in Statuses
            BY <2>2, <2>3, <2>5
        <3>2. IncidentStatus(order) = MostAdvanced({alerts[order[i]].status : i \in 1 .. n})
            BY <3>1, RollingUp, Zenon
        <3> QED
            BY <2>6, <3>2, Zenon
    <2>8. S \subseteq Statuses /\ S \ {"RESOLVED"} # {}
        BY <2>3, <2>4
    <2> HIDE DEF S
    <2>9. MostAdvanced(S) # ""
        BY <2>8 DEF MostAdvanced, Statuses
    <2> QED
        BY <2>7, <2>9, Zenon DEF S
<1> QED
    BY <1>1, <1>2, <1>3, SystemHolds, PTL DEF SystemSpec

-----------------------------------------------------------------------------
(* The control plane as requests on cases drive it: what is proved of it in *)
(* ControlPlaneProofs holds in the system, too.                             *)

Controls == INSTANCE ControlPlaneProofs WITH SourceIds <- ControlIds, Sources <- IPs, AnyIP <- NoIP

\* Both instances of the control plane are the same.
LEMMA SameTerms ==
    /\ Controls!Types = Plane!Types /\ Controls!Control = Plane!Control
    /\ Controls!Policy = Plane!Policy
    /\ \A raw : Controls!ExpiryOf(raw) = Plane!ExpiryOf(raw)
    /\ \A ctl : Controls!edgePolicyFor(ctl) = Plane!edgePolicyFor(ctl)
<1>1. Controls!Types = Plane!Types
    BY DEF Controls!Types, Plane!Types
<1>2. Controls!Control = Plane!Control
    BY <1>1, Zenon DEF Controls!Control, Plane!Control
<1>3. Controls!Policy = Plane!Policy
    BY Zenon DEF Controls!Policy, Plane!Policy, Controls!Kinds, Plane!Kinds
<1>4. ASSUME NEW raw PROVE Controls!ExpiryOf(raw) = Plane!ExpiryOf(raw)
    BY DEF Controls!ExpiryOf, Plane!ExpiryOf, Controls!WrapDuration, Plane!WrapDuration
<1>5. ASSUME NEW ctl PROVE Controls!edgePolicyFor(ctl) = Plane!edgePolicyFor(ctl)
    BY DEF Controls!edgePolicyFor, Plane!edgePolicyFor
<1> QED
    BY <1>1, <1>2, <1>3, <1>4, <1>5

\* So are their steps,
LEMMA SameSteps ==
    /\ Plane!Init => Controls!Init
    /\ \A ctl, type, ip, raw :
          Plane!DeployRegister(ctl, type, ip, raw) => Controls!DeployRegister(ctl, type, ip, raw)
    /\ \A ctl : Plane!DeployInstall(ctl) => Controls!DeployInstall(ctl)
    /\ \A ip : Plane!ListContainment(ip) => Controls!ListContainment(ip)
    /\ \A ctl : /\ Plane!RevokeMark(ctl) => Controls!RevokeMark(ctl)
                /\ Plane!RevokeRemove(ctl) => Controls!RevokeRemove(ctl)
    /\ Plane!Tick => Controls!Tick
<1>1. Plane!Init => Controls!Init
    BY DEF Plane!Init, Controls!Init, Plane!ClockInit, Controls!ClockInit, Plane!RegistryInit,
           Controls!RegistryInit, Plane!PoliciesInit, Controls!PoliciesInit
<1>2. ASSUME NEW ctl, NEW type, NEW ip, NEW raw, Plane!DeployRegister(ctl, type, ip, raw)
      PROVE  Controls!DeployRegister(ctl, type, ip, raw)
    BY <1>2, SameTerms
       DEF Plane!DeployRegister, Controls!DeployRegister, Plane!Deploy, Controls!Deploy,
           Plane!ValidDeploy, Controls!ValidDeploy, Plane!ValidDuration, Controls!ValidDuration,
           Plane!Known, Controls!Known
<1>3. ASSUME NEW ctl, Plane!DeployInstall(ctl) PROVE Controls!DeployInstall(ctl)
    BY <1>3, SameTerms DEF Plane!DeployInstall, Controls!DeployInstall, Plane!Install, Controls!Install
<1>4. ASSUME NEW ip, Plane!ListContainment(ip) PROVE Controls!ListContainment(ip)
    BY <1>4, Zenon
       DEF Plane!ListContainment, Controls!ListContainment, Plane!List, Controls!List,
           Plane!Resolve, Controls!Resolve, Plane!Known, Controls!Known, Plane!Past, Controls!Past
<1>5. ASSUME NEW ctl
      PROVE  /\ Plane!RevokeMark(ctl) => Controls!RevokeMark(ctl)
             /\ Plane!RevokeRemove(ctl) => Controls!RevokeRemove(ctl)
    BY DEF Plane!RevokeMark, Controls!RevokeMark, Plane!Revoke, Controls!Revoke, Plane!Known, Controls!Known,
           Plane!RevokeRemove, Controls!RevokeRemove, Plane!Remove, Controls!Remove
<1>6. Plane!Tick => Controls!Tick
    BY DEF Plane!Tick, Controls!Tick, Plane!Advance, Controls!Advance
<1> QED
    BY <1>1, <1>2, <1>3, <1>4, <1>5, <1>6

\* next-state relations,
LEMMA SameNext == [Plane!Next]_(Plane!vars) => [Controls!Next]_(Controls!vars)
<1>1. Plane!Next => Controls!Next
    BY SameSteps, SameTerms DEF Plane!Next, Controls!Next
<1>2. UNCHANGED Plane!vars => UNCHANGED Controls!vars
    BY DEF Plane!vars, Controls!vars
<1> QED
    BY <1>1, <1>2

\* and properties.
LEMMA SamePromises ==
    /\ Controls!LiveControlEnforced => Plane!LiveControlEnforced
    /\ Controls!EnforcedOnlyWhileLive => Plane!EnforcedOnlyWhileLive
<1>1. \A ip, attack : Plane!Verdict(ip, attack) = Controls!Verdict(ip, attack)
    BY DEF Plane!Verdict, Controls!Verdict, Plane!Matches, Controls!Matches, Plane!Past, Controls!Past
<1>2. \A ctl : /\ Plane!Known(ctl) <=> Controls!Known(ctl)
               /\ Plane!Settled(ctl) <=> Controls!Settled(ctl)
               /\ Plane!InForce(ctl) <=> Controls!InForce(ctl)
    BY DEF Plane!Known, Controls!Known, Plane!Settled, Controls!Settled, Plane!InForce, Controls!InForce,
           Plane!Matches, Controls!Matches, Plane!Past, Controls!Past, Plane!Kinds, Controls!Kinds
<1>3. \A t : Plane!Past(t) <=> Controls!Past(t)
    BY DEF Plane!Past, Controls!Past
<1> QED
    BY <1>1, <1>2, <1>3 DEF Plane!LiveControlEnforced, Controls!LiveControlEnforced,
                            Plane!EnforcedOnlyWhileLive, Controls!EnforcedOnlyWhileLive

\* A step of the system is a step of the control plane or leaves it alone.
LEMMA StepOfPlane == SystemInv /\ [SystemNext]_systemVars => [Plane!Next]_(Plane!vars)
<1> SUFFICES ASSUME SystemInv, [SystemNext]_systemVars
             PROVE  Plane!Next \/ UNCHANGED planeVars
    BY DEF planeVars, Plane!vars
<1>1. ASSUME NEW ctl \in ControlIds, NEW type, NEW ip \in IPs, NEW raw \in RawDurations,
             Plane!DeployRegister(ctl, type, ip, raw)
      PROVE  Plane!Next
    <2>1. type \in Plane!Types
        BY <1>1 DEF Plane!DeployRegister, Plane!Deploy, Plane!ValidDeploy
    <2> QED
        BY <1>1, <2>1 DEF Plane!Next
<1>2. \A terms \in Terms : terms.raw \in RawDurations
    BY TermsAssumption
<1>3. ASSUME NEW c \in CaseOps, case[c] # NoCase
      PROVE  case[c] \in Cases /\ case[c].controls \in SUBSET ControlIds
    BY <1>3, CaseFields DEF SystemInv, SystemTypeOK
<1>4. ASSUME NEW key \in Keys, NEW from \in CaseKeys, IngestFrom(key, from) PROVE UNCHANGED planeVars
    BY <1>4 DEF IngestFrom
<1>5. ASSUME NEW seed \in Seeds, NEW id \in AlertIds, NEW from \in CaseKeys, SeedFrom(seed, id, from)
      PROVE  UNCHANGED planeVars
    BY <1>5 DEF SeedFrom
<1>6. ASSUME NEW id \in AlertIds, NEW op \in Ops \ CaseOps, NEW req \in Requests, Console(id, op, req)
      PROVE  UNCHANGED planeVars
    BY <1>6 DEF Console
<1>7. ASSUME NEW c \in CaseOps, NEW key \in CaseKeys,
             \/ \E terms \in Terms : BeginContain(c, key, terms)
             \/ \E assignee \in Analysts : BeginAssign(c, key, assignee)
      PROVE  UNCHANGED planeVars
    BY <1>7 DEF BeginContain, BeginAssign
<1>8. ASSUME NEW c \in CaseOps, NEW ip \in IPs, NEW terms \in Terms, NEW ids \in SUBSET AlertIds,
             BeginDeploy(c, ip, terms, ids)
      PROVE  Plane!Next
    BY <1>1, <1>2, <1>8 DEF BeginDeploy
<1>9. ASSUME NEW c \in CaseOps, (\E id \in AlertIds : Look(c, id)) \/ Check(c) \/ Mark(c)
      PROVE  UNCHANGED planeVars
    BY <1>9 DEF Look, Check, Mark
<1>14. ASSUME NEW c \in CaseOps, case[c] # NoCase, DeployNext(c)
       PROVE  Plane!Next \/ UNCHANGED planeVars
    <2>0. case[c] \in Cases /\ case[c].pc = "deploy"
        BY <1>3, <1>14 DEF DeployNext
    <2>1. case[c].arg \in Terms
        BY <2>0, CaseFields
    <2>2. Address(case[c]) \in IPs \cup {NoIP}
        BY <2>0, AddressKnown
    <2>3. \/ UNCHANGED planeVars
          \/ \E ctl \in ControlIds :
                Plane!DeployRegister(ctl, case[c].arg.type, Address(case[c]), case[c].arg.raw)
        BY <1>14 DEF DeployNext
    <2>4. ASSUME NEW ctl \in ControlIds,
                 Plane!DeployRegister(ctl, case[c].arg.type, Address(case[c]), case[c].arg.raw)
          PROVE  Address(case[c]) \in IPs
        BY <2>2, <2>4 DEF Plane!DeployRegister, Plane!Deploy, Plane!ValidDeploy
    <2> QED
        BY <1>1, <1>2, <2>1, <2>3, <2>4
<1>10. ASSUME NEW c \in CaseOps, NEW id \in AlertIds, Act(c, id) PROVE UNCHANGED planeVars
    BY <1>10 DEF Act
<1>11. ASSUME NEW c \in CaseOps, case[c] # NoCase, InstallNew(c) PROVE Plane!Next
    BY <1>3, <1>11 DEF InstallNew, Plane!Next
<1>12. ASSUME NEW c \in CaseOps, case[c] # NoCase, Answer(c) PROVE Plane!Next \/ UNCHANGED planeVars
    BY <1>12 DEF Answer, Plane!Next
<1>13. CASE UNCHANGED systemVars
    BY <1>13 DEF systemVars
<1> QED
    BY <1>4, <1>5, <1>6, <1>7, <1>8, <1>9, <1>10, <1>11, <1>12, <1>13, <1>14 DEF SystemNext

\* What is proved of the control plane may be used: its assumptions are PlaneAssumption.
LEMMA ControlsHold ==
    /\ Controls!Init => Controls!IInv
    /\ Controls!IInv /\ [Controls!Next]_(Controls!vars) => Controls!IInv'
    /\ Controls!IInv => Controls!LiveControlEnforced
    /\ Controls!IInv => Controls!EnforcedOnlyWhileLive
    /\ Controls!IInv /\ [Controls!Next]_(Controls!vars)
          => \A ctl \in ControlIds : Controls!Known(ctl) => Controls!OnlyEnds(ctl)
<1>1. /\ Never \notin Int /\ NoIP \notin IPs
      /\ NoControl \notin Controls!Control /\ NoPolicy \notin Controls!Policy
    BY PlaneAssumption, SameTerms
       DEF Plane!NeverAssumption, Plane!NoIPAssumption, Plane!NoControlAssumption, Plane!NoPolicyAssumption
<1>2. Plane!DurationAssumption
    BY PlaneAssumption
<1> QED
    BY <1>1, <1>2, Controls!IInvInit, Controls!IInvStep, Controls!TiedIsEnforced, Controls!TiedIsLive,
       Controls!StepOnlyEnds DEF Plane!DurationAssumption

\* Controls and policies stay tied together in the system.
LEMMA ControlsTied == SystemSpec => []Controls!IInv
<1>1. SystemInit => Controls!IInv
    BY SameSteps, ControlsHold DEF SystemInit
<1>2. SystemInv /\ Controls!IInv /\ [SystemNext]_systemVars => Controls!IInv'
    BY StepOfPlane, SameNext, ControlsHold
<1> QED
    BY <1>1, <1>2, SystemHolds, PTL DEF SystemSpec

\* The handlers of cases use registry and edge as the handlers of controls do: the
\* system's steps on them are ControlPlane's.
THEOREM CasesUseControlPlane == SystemSpec => Plane!Init /\ [][Plane!Next]_(Plane!vars)
<1>1. SystemInit => Plane!Init
    BY DEF SystemInit
<1> QED
    BY <1>1, StepOfPlane, SystemHolds, PTL DEF SystemSpec

\* A control deployed for a case is enforced while it is live, whatever other cases
\* do to the same address meanwhile.
THEOREM CaseControlsAreEnforced == SystemSpec => []Plane!LiveControlEnforced
<1>1. Controls!IInv => Plane!LiveControlEnforced
    BY ControlsHold, SamePromises
<1> QED
    BY <1>1, ControlsTied, PTL

\* Nobody is turned away in the name of a case but by a control that is live.
THEOREM CaseControlsAreLive == SystemSpec => []Plane!EnforcedOnlyWhileLive
<1>1. Controls!IInv => Plane!EnforcedOnlyWhileLive
    BY ControlsHold, SamePromises
<1> QED
    BY <1>1, ControlsTied, PTL

\* A control that has expired is not brought back by the next request on a case
\* (containment.List, Deploy), and no request changes the terms of a control.
THEOREM CaseControlsEndForGood == SystemSpec => Plane!EndIsFinal
<1>1. SystemInv /\ Controls!IInv /\ [SystemNext]_systemVars
         => \A id \in ControlIds : Plane!Known(id) => Plane!OnlyEnds(id)
    <2> SUFFICES ASSUME SystemInv, Controls!IInv, [SystemNext]_systemVars
                 PROVE  \A id \in ControlIds : Plane!Known(id) => Plane!OnlyEnds(id)
        OBVIOUS
    <2>1. [Controls!Next]_(Controls!vars)
        BY StepOfPlane, SameNext
    <2>2. \A ctl \in ControlIds : Controls!Known(ctl) => Controls!OnlyEnds(ctl)
        BY <2>1, ControlsHold
    <2> QED
        BY <2>2 DEF Controls!Known, Plane!Known, Controls!OnlyEnds, Plane!OnlyEnds,
                    Controls!Past, Plane!Past
<1>2. SystemSpec => [][\A id \in ControlIds : Plane!Known(id) => Plane!OnlyEnds(id)]_(Plane!vars)
    BY <1>1, ControlsTied, SystemHolds, PTL DEF SystemSpec
<1> QED
    BY <1>2, PTL DEF Plane!EndIsFinal
=============================================================================
