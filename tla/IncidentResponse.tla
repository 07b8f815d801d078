-------------------------- MODULE IncidentResponse --------------------------
(***************************************************************************)
(* The case handlers of server/analysis_handlers.go, which work on all     *)
(* alerts of one source, together with the alert service (by its contract, *)
(* AlertTriage) and the control plane (ControlPlane) they call.  A handler *)
(* takes the list of the case's alerts once and then goes from alert to    *)
(* alert; detection, the console and other handlers run in between.  Where *)
(* IncidentContain reads the alert's address again and again, a merge may  *)
(* have moved the alert in between if the store hands out its own records. *)
(*                                                                         *)
(* An incident is no state: it is the alerts of one source, grouped anew   *)
(* on every request from the store's list (500 alerts at most: more than   *)
(* any instance has).  The order of that list comes from fields that are   *)
(* left out, so a handler may take the alerts in any order.                *)
(***************************************************************************)
EXTENDS AlertTriage, SequencesExt

CONSTANTS CaseOps,     \* identities of requests on cases
          IPs, NoIP,   \* source addresses, and the empty one
          CaseKeys,    \* what incidentKey makes of an alert: its address, or its
                       \* asset if it has none
          Origins,     \* the case keys hits of a detection key may have: one for
                       \* rules that count by address, several for db-anomaly
          Terms,       \* the controls clients ask for: a type and a duration
          NoCase,
          Stores,      \* the stores the factory may open
          ControlIds, RawDurations, MinDuration, MaxDuration, Day, NoControl, NoPolicy,
          MaxTime, Never

ASSUME CaseOpsAssumption == CaseOps \subseteq Ops
ASSUME TermsAssumption ==
    Terms \subseteq [type : {"block_ip", "rate_limit", "waf_rule", "unknown"}, raw : RawDurations]
ASSUME OriginsAssumption == IPs \subseteq CaseKeys /\ Origins \subseteq Keys \X CaseKeys

ASSUME StoresAssumption == Stores \subseteq {"memory", "postgres"}

VARIABLES source,      \* each alert's case key
          case,        \* the requests on cases
          store,       \* the store this process has opened
          now, items, policies, installing, removing, overlapped  \* see ControlPlane

planeVars == <<now, items, policies, installing, removing, overlapped>>
systemVars == <<vars, source, case, store, planeVars>>

Plane == INSTANCE ControlPlane WITH SourceIds <- ControlIds, Sources <- IPs, AnyIP <- NoIP

ASSUME PlaneAssumption ==
    /\ Plane!NeverAssumption /\ Plane!NoIPAssumption /\ Plane!DurationAssumption
    /\ Plane!NoControlAssumption /\ Plane!NoPolicyAssumption

\* A request on a case: `group' is the case as the handler found it, `todo' what it has
\* not come to yet, `at' the alert in hand and `ip' the address the handler found there,
\* `seen' the addresses it has met, `controls' what it has deployed; `arg' is the
\* assignee or the terms of the control.  `torn' is history: the alerts whose address
\* was another one when the handler read it again.
Deployments ==
    [verb : {"contain", "deploy"}, key : CaseKeys, arg : Terms, group : SUBSET AlertIds,
     todo : SUBSET AlertIds, at : AlertIds \cup {NoAlert}, ip : IPs \cup {NoIP},
     seen : SUBSET (IPs \cup {NoIP}), controls : SUBSET ControlIds, torn : SUBSET AlertIds,
     pc : {"next", "check", "mark", "deploy", "install", "act", "ok", "error"}]

Assignments ==
    [verb : {"assign"}, key : CaseKeys, arg : Analysts, group : SUBSET AlertIds,
     todo : SUBSET AlertIds, at : {NoAlert}, ip : {NoIP}, seen : {{}}, controls : {{}},
     torn : {{}}, pc : {"next", "ok", "error"}]

Cases == Deployments \cup Assignments

ASSUME NoCaseAssumption == NoCase \notin Cases

SystemTypeOK ==
    /\ TypeOK
    /\ Plane!TypeOK
    /\ source \in [AlertIds -> CaseKeys \cup {NoIP}]
    /\ case \in [CaseOps -> Cases \cup {NoCase}]
    /\ store \in Stores

-----------------------------------------------------------------------------
(* Incidents, analysis/analysis.go.                                        *)

Group(key) == {id \in AlertIds : Exists(id) /\ source[id] = key}

\* Only cases with an active alert are incidents.
HasActive(key) == \E id \in Group(key) : IsActive(alerts[id].status)

\* Mutant of RollUp: an assigned alert wins over one in progress.
RollUpAssignedWins(status, next) ==
    CASE ~IsActive(next) -> status
      [] next = "IN_PROGRESS" -> next
      [] next = "ASSIGNED" -> next
      [] OTHER -> IF status = "" THEN "OPEN" ELSE status

\* buildIncident: the status of the incident so far and the next alert's.
RollUp(status, next) ==
    CASE ~IsActive(next) -> status
      [] next = "IN_PROGRESS" -> next
      [] next = "ASSIGNED" -> IF status = "IN_PROGRESS" THEN status ELSE next
      [] OTHER -> IF status = "" THEN "OPEN" ELSE status

\* buildIncident goes over the alerts of the case one by one.
IncidentStatus(order) ==
    LET upTo[i \in 0 .. Len(order)] ==
            IF i = 0 THEN "" ELSE RollUp(upTo[i - 1], alerts[order[i]].status)
    IN upTo[Len(order)]

-----------------------------------------------------------------------------
\* Demo alerts are seeded into the memory store only.
SystemInit ==
    /\ Init
    /\ Plane!Init
    /\ source = [id \in AlertIds |-> NoIP]
    /\ case = [c \in CaseOps |-> NoCase]
    /\ store \in Stores
    /\ store = "postgres" => toSeed = {}

\* The alert a hit creates or merges into takes the hit's source: a merge can move
\* an alert from one case to another.
IngestFrom(key, from) ==
    /\ <<key, from>> \in Origins
    /\ Ingest(key)
    /\ source' = [id \in AlertIds |-> IF alerts'[id] # alerts[id] THEN from ELSE source[id]]
    /\ UNCHANGED <<case, store, planeVars>>

SeedFrom(seed, id, from) ==
    /\ <<seed.key, from>> \in Origins
    /\ SeedDemo(seed, id)
    /\ source' = [source EXCEPT ![id] = from]
    /\ UNCHANGED <<case, store, planeVars>>

Console(id, op, req) == Handle(id, op, req) /\ UNCHANGED <<source, case, store, planeVars>>

-----------------------------------------------------------------------------
(* Requests on a case.                                                     *)

Starts(c, r) == case[c] = NoCase /\ case' = [case EXCEPT ![c] = r]

Goes(c, r) == case' = [case EXCEPT ![c] = r]

Request(verb, key, arg, group) ==
    [verb |-> verb, key |-> key, arg |-> arg, group |-> group, todo |-> group, at |-> NoAlert,
     ip |-> NoIP, seen |-> {}, controls |-> {}, torn |-> {}, pc |-> "next"]

\* IncidentContain and IncidentAssign.  A request that finds no incident is answered
\* 404 and changes nothing.
BeginContain(c, key, terms) ==
    /\ HasActive(key)
    /\ Starts(c, Request("contain", key, terms, Group(key)))
    /\ UNCHANGED <<vars, source, store, planeVars>>

BeginAssign(c, key, assignee) ==
    /\ HasActive(key)
    /\ Starts(c, Request("assign", key, assignee, Group(key)))
    /\ UNCHANGED <<vars, source, store, planeVars>>

\* DeployContainment: address and alerts are the client's, the control comes first, and
\* if it is refused nothing happens.  The alerts are a set: a client that lists one
\* twice has it acted on twice.
BeginDeploy(c, ip, terms, ids) ==
    /\ \E ctl \in ControlIds :
          /\ Plane!DeployRegister(ctl, terms.type, ip, terms.raw)
          /\ Starts(c, [Request("deploy", ip, terms, ids) EXCEPT !.seen = {ip}, !.controls = {ctl},
                                                                 !.pc = "install"])
    /\ UNCHANGED <<vars, source, store>>

AddressOf(id) == IF source[id] \in IPs THEN source[id] ELSE NoIP

\* What the handler reads as the address of the alert in hand: the memory store gave it
\* the record itself, Postgres a copy.
Address(r) == IF store = "memory" THEN AddressOf(r.at) ELSE r.ip

\* Every read after the first.
ReadAgain(r) == [r EXCEPT !.torn = IF Address(r) = r.ip THEN @ ELSE @ \cup {r.at}]

\* IncidentContain gets the next alert.  An address is read four times: is there one,
\* has it been met, note it as met, and deploy a control for it.
Look(c, id) ==
    /\ case[c].verb = "contain" /\ case[c].pc = "next" /\ id \in case[c].todo
    /\ Goes(c, [case[c] EXCEPT !.at = id, !.ip = AddressOf(id),
                               !.pc = IF AddressOf(id) = NoIP THEN "act" ELSE "check"])
    /\ UNCHANGED <<vars, source, store, planeVars>>

\* Mutant of IsMet: the request does not remember the addresses it has met.
IsMetNever(r) == FALSE

IsMet(r) == Address(r) \in r.seen

Check(c) ==
    /\ case[c].pc = "check"
    /\ Goes(c, [ReadAgain(case[c]) EXCEPT !.pc = IF IsMet(case[c]) THEN "act" ELSE "mark"])
    /\ UNCHANGED <<vars, source, store, planeVars>>

Mark(c) ==
    /\ case[c].pc = "mark"
    /\ Goes(c, [ReadAgain(case[c]) EXCEPT !.seen = @ \cup {Address(case[c])}, !.pc = "deploy"])
    /\ UNCHANGED <<vars, source, store, planeVars>>

\* A control that is refused passes the alert over.
DeployNext(c) ==
    LET r == case[c]
    IN /\ r.pc = "deploy"
       /\ \/ \E ctl \in ControlIds :
                /\ Plane!DeployRegister(ctl, r.arg.type, Address(r), r.arg.raw)
                /\ Goes(c, [ReadAgain(r) EXCEPT !.controls = @ \cup {ctl}, !.pc = "install"])
          \/ /\ ~Plane!ValidDeploy(r.arg.type, Address(r), r.arg.raw)
             /\ Goes(c, [ReadAgain(r) EXCEPT !.todo = @ \ {r.at}, !.at = NoAlert, !.ip = NoIP,
                                             !.pc = "next"])
             /\ UNCHANGED planeVars
       /\ UNCHANGED <<vars, source, store>>

Installed(c) == Goes(c, [case[c] EXCEPT !.pc = IF @ = "install" /\ case[c].verb = "contain" THEN "act"
                                               ELSE "next"])

\* Mutant of InstallNew: the edge is not told.
InstallNewNot(c) == case[c].pc = "install" /\ Installed(c) /\ UNCHANGED <<vars, source, store, planeVars>>

\* The edge learns of the control that was just deployed.
InstallNew(c) ==
    /\ case[c].pc = "install"
    /\ \E ctl \in case[c].controls : Plane!DeployInstall(ctl)
    /\ Installed(c)
    /\ UNCHANGED <<vars, source, store>>

\* actionForControl: an address block acknowledges, anything else mitigates, which
\* resolves the alert.
Asked(r) ==
    IF r.verb = "assign" THEN [verb |-> "assign", arg |-> r.arg]
    ELSE [verb |-> "action", arg |-> IF r.arg.type = "block_ip" THEN "acknowledge" ELSE "mitigate"]

\* Mutant of PassedOver: alerts resolved by now are left alone.
PassedOverIfResolved(r, id) == ~Exists(id) \/ ~IsActive(alerts[id].status)

\* A service call that fails is logged, and the loop goes on.
PassedOver(r, id) == ~Exists(id) \/ Refused(alerts[id], Asked(r))

\* The service call on one alert of the case.
Act(c, id) ==
    LET r == case[c]
    IN /\ \/ r.verb = "contain" /\ r.pc = "act" /\ id = r.at
          \/ r.verb # "contain" /\ r.pc = "next" /\ id \in r.todo
       /\ alerts' = IF PassedOver(r, id) THEN alerts ELSE [alerts EXCEPT ![id] = Apply(@, c, Asked(r))]
       /\ Goes(c, [r EXCEPT !.todo = @ \ {id}, !.at = NoAlert, !.ip = NoIP, !.pc = "next"])
       /\ UNCHANGED <<ingested, answered, toSeed, source, store, planeVars>>

\* A request on an incident answers with the incident as it is now and the controls
\* on its address.  An incident without an active alert is none any more: the handler
\* dereferences nil, and the client gets an error for work that is done.
Answer(c) ==
    LET r == case[c]
        alive == r.verb = "deploy" \/ HasActive(r.key)
    IN /\ r.pc = "next" /\ r.todo = {}
       /\ Goes(c, [r EXCEPT !.pc = IF alive THEN "ok" ELSE "error"])
       /\ answered' = IF alive THEN answered \cup {c} ELSE answered
       /\ IF alive /\ r.verb # "deploy" /\ r.key \in IPs THEN Plane!ListContainment(r.key)
                                                         ELSE UNCHANGED planeVars
       /\ UNCHANGED <<alerts, ingested, toSeed, source, store>>

SystemNext ==
    \/ \E key \in Keys, from \in CaseKeys : IngestFrom(key, from)
    \/ \E seed \in Seeds, id \in AlertIds, from \in CaseKeys : SeedFrom(seed, id, from)
    \/ \E id \in AlertIds, op \in Ops \ CaseOps, req \in Requests : Console(id, op, req)
    \/ \E c \in CaseOps, key \in CaseKeys :
          \/ \E terms \in Terms : BeginContain(c, key, terms)
          \/ \E assignee \in Analysts : BeginAssign(c, key, assignee)
    \/ \E c \in CaseOps, ip \in IPs, terms \in Terms, ids \in SUBSET AlertIds :
          case[c] = NoCase /\ BeginDeploy(c, ip, terms, ids)
    \/ \E c \in CaseOps : /\ case[c] # NoCase
                          /\ \/ \E id \in AlertIds : Look(c, id) \/ Act(c, id)
                             \/ Check(c) \/ Mark(c) \/ DeployNext(c) \/ InstallNew(c)
                             \/ Answer(c)

SystemSpec == SystemInit /\ [][SystemNext]_systemVars

-----------------------------------------------------------------------------
Answered(c) == case[c] # NoCase /\ case[c].pc \in {"ok", "error"}

Unlogged(c) == {id \in case[c].group : ~InTrail(c, id)}

Refusing(c) == case[c].arg.type = "unknown" \/ ~Plane!ValidDuration(case[c].arg.raw)

\* The alerts a merge moved to another address while the handler was reading it: only
\* a store that hands out its own records lets that happen.
MovedUnder(c) == IF store = "memory" THEN case[c].torn ELSE {}

\* A contained case is worked off whole, whatever detection, the console and other
\* handlers do to its alerts meanwhile and even if the answer is an error: every alert
\* it had is acted on (IncidentContain).  Only an alert that is moved under the handler
\* may be passed over, for its address may be gone when the control is deployed.  If
\* the control is refused, as many alerts are passed over as addresses were met, one
\* for each unless one was moved.  Assigning a case leaves out only resolved alerts.
CaseIsWorkedOff ==
    \A c \in CaseOps : Answered(c) =>
        CASE case[c].verb = "contain" /\ ~Refusing(c) -> Unlogged(c) \subseteq MovedUnder(c)
          [] case[c].verb = "contain" /\ Refusing(c) ->
                 MovedUnder(c) = {} => Cardinality(Unlogged(c)) = Cardinality(case[c].seen)
          [] case[c].verb = "assign" ->
                 \A id \in Unlogged(c) : ~IsActive(alerts[id].status)
          [] OTHER -> TRUE

\* A request on a case acts on an alert at most once and never on another case's
\* alerts, and deploys nothing if its control is refused.  If no alert is moved under
\* it, it deploys one control for each address it meets.
OncePerAlertAndAddress ==
    \A c \in CaseOps : case[c] # NoCase =>
        /\ \A id \in AlertIds : InTrail(c, id) =>
              /\ id \in case[c].group
              /\ Cardinality({i \in 1 .. Len(alerts[id].trail) : alerts[id].trail[i].op = c}) = 1
        /\ case[c].verb = "assign" \/ Refusing(c) => case[c].controls = {}
        /\ MovedUnder(c) = {} =>
              /\ \A d, e \in case[c].controls : items[d].ip = items[e].ip => d = e
              /\ case[c].verb # "assign" /\ ~Refusing(c) /\ case[c].pc # "deploy" =>
                    {items[ctl].ip : ctl \in case[c].controls} = case[c].seen

\* Once a request that blocks addresses has been answered, the edge turns away every
\* address it has deployed a control for, and if no alert was moved under it that is
\* every address it met, unless the client asked for a time that is already over
\* (revoking controls is ControlPlane's subject).
CaseIsEnforced ==
    \A c \in CaseOps :
        Answered(c) /\ case[c].verb # "assign" /\ case[c].arg.type = "block_ip" /\ ~Refusing(c) =>
            /\ \A ctl \in case[c].controls :
                  ~Plane!Past(items[ctl].expires) => Plane!Verdict(items[ctl].ip, FALSE) = "deny"
            /\ MovedUnder(c) = {} =>
                  case[c].seen \subseteq {items[ctl].ip : ctl \in case[c].controls}

\* The most advanced status of an alert that is still active.
MostAdvanced(statuses) ==
    IF "IN_PROGRESS" \in statuses THEN "IN_PROGRESS"
    ELSE IF "ASSIGNED" \in statuses THEN "ASSIGNED"
    ELSE IF "OPEN" \in statuses THEN "OPEN" ELSE ""

\* The status shown for an incident is the most advanced one among its active alerts,
\* in whatever order the store lists them (buildIncident goes over the list once).
StatusRollsUp ==
    \A key \in CaseKeys : HasActive(key) =>
        \A order \in SetToSeqs(Group(key)) :
            /\ IncidentStatus(order) = MostAdvanced({alerts[id].status : id \in Group(key)})
            /\ IncidentStatus(order) # ""
=============================================================================
