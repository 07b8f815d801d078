----------------------------- MODULE AlertTriage -----------------------------
(***************************************************************************)
(* What the alert service promises: the contract of alerts/service.go if   *)
(* each of its calls took effect in one step.  The detailed modules say    *)
(* where the two stores keep this promise and where they do not.           *)
(***************************************************************************)
EXTENDS AlertModel, FiniteSets

CONSTANTS AlertIds,     \* identities newID can draw
          Ops,          \* identities of console requests
          SeedOp,       \* the identity under which SeedDemo logs
          Seeds,        \* the demo history: some of key, assignee, resolution
          NoAlert,      \* an identity no alert has yet
          MaxBatches    \* bound: detection batches in a behaviour

ASSUME SeedOpAssumption == SeedOp \notin Ops
ASSUME SeedsAssumption ==
    Seeds \subseteq [key : Keys, assignee : Analysts \cup {Nobody},
                     resolution : Resolutions \ {"none"}]
ASSUME NoAlertAssumption == NoAlert \notin Alert(Ops \cup {SeedOp})

VARIABLES alerts,     \* the store: identity -> alert or NoAlert
          ingested,   \* number of batches the detection engine has emitted
          answered,   \* requests that were answered with success
          toSeed      \* demo alerts SeedDemo has still to create

vars == <<alerts, ingested, answered, toSeed>>

AllOps == Ops \cup {SeedOp}

TypeOK ==
    /\ alerts \in [AlertIds -> Alert(AllOps) \cup {NoAlert}]
    /\ ingested \in Nat
    /\ answered \in SUBSET Ops
    /\ toSeed \in SUBSET Seeds

Exists(id) == alerts[id] # NoAlert

OpenFor(key) == {id \in AlertIds : Exists(id) /\ alerts[id].key = key /\ IsActive(alerts[id].status)}

-----------------------------------------------------------------------------
Init ==
    /\ alerts = [id \in AlertIds |-> NoAlert]
    /\ ingested = 0
    /\ answered = {}
    /\ toSeed \in {{}, Seeds}  \* the demo history is optional

\* Mutant of Ingest: hits only merge into an alert nobody has taken yet.
IngestIfUnassigned(key) ==
    /\ ingested < MaxBatches
    /\ ingested' = ingested + 1
    /\ LET found == {id \in OpenFor(key) : alerts[id].status = "OPEN"}
       IN \/ \E id \in found : alerts' = [alerts EXCEPT ![id] = Merge(@, ingested')]
          \/ /\ found = {}
             /\ \E id \in AlertIds :
                   /\ ~Exists(id)
                   /\ alerts' = [alerts EXCEPT ![id] = NewAlert(key, ingested')]
    /\ UNCHANGED <<answered, toSeed>>

\* A batch of events reached a rule's threshold: merge into the open alert of
\* its key, or create one.
Ingest(key) ==
    /\ ingested < MaxBatches
    /\ ingested' = ingested + 1
    /\ \/ \E id \in OpenFor(key) :
             alerts' = [alerts EXCEPT ![id] = Merge(@, ingested')]
       \/ /\ OpenFor(key) = {}
          /\ \E id \in AlertIds :
                /\ ~Exists(id)
                /\ alerts' = [alerts EXCEPT ![id] = NewAlert(key, ingested')]
    /\ UNCHANGED <<answered, toSeed>>

\* A console request on an alert.  A refused one changes nothing.
Handle(id, op, req) ==
    /\ op \notin answered
    /\ Exists(id)
    /\ ~Refused(alerts[id], req)
    /\ alerts' = [alerts EXCEPT ![id] = Apply(@, op, req)]
    /\ answered' = answered \cup {op}
    /\ UNCHANGED <<ingested, toSeed>>

\* The simulator's demo mode seeds a history while the pipeline already runs:
\* alerts that are born resolved, so that FindOpen never returns them.
SeedAlert(seed) ==
    [key |-> seed.key, status |-> "RESOLVED", assignee |-> seed.assignee, responded |-> TRUE,
     resolution |-> seed.resolution, evidence |-> <<>>,
     trail |-> <<[op |-> SeedOp, act |-> "mitigate", from |-> "OPEN", to |-> "RESOLVED"]>>]

SeedDemo(seed, id) ==
    /\ seed \in toSeed
    /\ ~Exists(id)
    /\ alerts' = [alerts EXCEPT ![id] = SeedAlert(seed)]
    /\ toSeed' = toSeed \ {seed}
    /\ UNCHANGED <<ingested, answered>>

Next ==
    \/ \E key \in Keys : Ingest(key)
    \/ \E id \in AlertIds, op \in Ops, req \in Requests : Handle(id, op, req)
    \/ \E seed \in Seeds, id \in AlertIds : SeedDemo(seed, id)

Spec == Init /\ [][Next]_vars

-----------------------------------------------------------------------------
(* The promises.                                                           *)

\* A key has at most one alert that is not resolved: repeated hits merge
\* (Service.Ingest, store FindOpen).
OneOpenPerKey == \A key \in Keys : \A i, j \in OpenFor(key) : i = j

\* Status, resolution, response and assignee of every alert agree with its
\* action trail (Assign, SetStatus, Action, SeedDemo).
AlertsCoherent == \A id \in AlertIds : Exists(id) => Coherent(alerts[id])

\* A resolved alert stays resolved, an alert is never deleted nor moved to
\* another key, and a trail only grows: the audit promise of the lifecycle.
NoHistoryRewritten ==
    [][\A id \in AlertIds : Exists(id) => alerts'[id] # NoAlert /\ LifecycleStep(alerts[id], alerts'[id])]_vars

\* A request that changed an alert is in its trail.
InTrail(op, id) == Exists(id) /\ \E i \in 1 .. Len(alerts[id].trail) : alerts[id].trail[i].op = op

\* The newest batch is the newest evidence of some alert, and no batch is
\* evidence of two alerts.
EvidenceOf(id) == IF Exists(id) THEN {alerts[id].evidence[i] : i \in 1 .. Len(alerts[id].evidence)} ELSE {}

BatchesRecorded ==
    /\ ingested > 0 => \E id \in AlertIds : ingested \in EvidenceOf(id)
    /\ \A i, j \in AlertIds : i # j => EvidenceOf(i) \cap EvidenceOf(j) = {}
=============================================================================
