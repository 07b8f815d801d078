---------------------------- MODULE MemoryTriage ----------------------------
(***************************************************************************)
(* The alert service over store/memory.go.  Get, List and FindOpen hand    *)
(* out the stored pointer, so there is one record per alert and everybody  *)
(* changes it in place, field by field: requests with no lock at all, the  *)
(* pipeline under Service.mu, which no request takes.  The store's own     *)
(* lock covers its map and its list of alerts, and nothing in an alert.    *)
(*                                                                         *)
(* A step reads or writes one field.  Resolution stands for ResolvedAt,    *)
(* responded for the nil test and the write of RespondedAt (a response is  *)
(* never taken back, so the pair needs no steps of its own).  Strings and  *)
(* slices are several words long and Go may show half a write: a torn      *)
(* status is no "RESOLVED", which reads as the status before it, and a     *)
(* torn trail takes two requests on one alert, of which no more is claimed *)
(* here than that they may lose things.                                    *)
(***************************************************************************)
EXTENDS AlertModel, FiniteSets

CONSTANTS AlertIds,     \* identities newID can draw
          Ops,          \* console requests, each on its own goroutine
          SeedOp,       \* the identity under which SeedDemo logs
          Seeds,        \* the demo history
          NoAlert,      \* an identity no alert has yet
          NoCall,       \* a request that is not running
          NoHit,        \* no batch is in Ingest
          MaxBatches    \* bound: detection batches in a behaviour

AllOps == Ops \cup {SeedOp}

ASSUME SeedOpAssumption == SeedOp \notin Ops
ASSUME SeedsAssumption ==
    Seeds \subseteq [key : Keys, assignee : Analysts \cup {Nobody},
                     resolution : Resolutions \ {"none"}]
ASSUME NoAlertAssumption == NoAlert \notin AlertIds \cup Alert(AllOps)

VARIABLES heap,        \* what the pointers lead to: identity -> alert or NoAlert
          created,     \* MemoryStore.created: identities, oldest first
          call,        \* the console requests in progress
          answered,    \* requests answered with success: request -> alert
          hit,         \* the batch Service.Ingest is working on
          ingested,    \* batches the detection engine has emitted
          toSeed,      \* demo alerts SeedDemo has still to create
          overlapped   \* history: alerts two requests worked on at one time

vars == <<heap, created, call, answered, hit, ingested, toSeed, overlapped>>

Exists(id) == heap[id] # NoAlert

\* A request past its checks: the alert as it was then, the statuses and the
\* trail it has read since, and what it has still to do.
Steps == {"from", "assignee", "open?", "assigned", "status", "resolution", "responded",
          "to", "trail", "log", "update"}

Calls == [id : AlertIds, req : Requests, base : Alert(AllOps), from : Statuses, to : Statuses,
          seen : Seq(Entry(AllOps)), todo : Seq(Steps)]

Hits == [key : Keys, at : Nat, pc : {"scan", "merge", "create"}]

ASSUME NoCallAssumption == NoCall \notin Calls
ASSUME NoHitAssumption == NoHit \notin Hits

TypeOK ==
    /\ heap \in [AlertIds -> Alert(AllOps) \cup {NoAlert}]
    /\ created \in Seq(AlertIds)
    /\ call \in [Ops -> Calls \cup {NoCall}]
    /\ answered \in [Ops -> AlertIds \cup {NoAlert}]
    /\ hit \in Hits \cup {NoHit}
    /\ ingested \in Nat
    /\ toSeed \subseteq Seeds
    /\ overlapped \subseteq AlertIds

Init ==
    /\ heap = [id \in AlertIds |-> NoAlert]
    /\ created = <<>>
    /\ call = [op \in Ops |-> NoCall]
    /\ answered = [op \in Ops |-> NoAlert]
    /\ hit = NoHit
    /\ ingested = 0
    /\ toSeed \in {{}, Seeds}
    /\ overlapped = {}

-----------------------------------------------------------------------------
(* Console requests.                                                       *)

Running(op) == call[op] # NoCall

RunningOn(id) == {op \in Ops : Running(op) /\ call[op].id = id}

\* The fields each request writes, in the order of the code.
Writes(req) ==
    CASE req.verb = "assign" -> <<"assignee", "open?">>
      [] req.verb = "status" -> <<"status">>
      [] req.verb = "action" /\ req.arg \in Acknowledging -> <<"responded">>
      [] req.verb = "action" /\ req.arg \in Resolving -> <<"status", "resolution", "responded">>
      [] OTHER -> <<>>

\* Get and the checks on what it points to.  A refused request changes nothing.
Begin(op, id, req) ==
    /\ ~Running(op) /\ answered[op] = NoAlert
    /\ Exists(id)
    /\ ~Refused(heap[id], req)
    /\ call' = [call EXCEPT ![op] =
          [id |-> id, req |-> req, base |-> heap[id],
           from |-> heap[id].status, to |-> heap[id].status, seen |-> <<>>,
           todo |-> <<"from">> \o Writes(req) \o <<"to", "trail", "log", "update">>]]
    /\ overlapped' = IF RunningOn(id) = {} THEN overlapped ELSE overlapped \cup {id}
    /\ UNCHANGED <<heap, created, answered, hit, ingested, toSeed>>

At(op, steps) == Running(op) /\ Head(call[op].todo) \in steps

\* The alert op works on, and the step done with the call left as c.
Mine(op) == heap[call[op].id]

Advance(op, c) ==
    /\ call' = [call EXCEPT ![op] = [c EXCEPT !.todo = Tail(@)]]
    /\ UNCHANGED <<created, answered, hit, ingested, toSeed, overlapped>>

ReadFrom(op) ==
    /\ At(op, {"from"})
    /\ Advance(op, [call[op] EXCEPT !.from = Mine(op).status])
    /\ UNCHANGED heap

\* if a.Status == StatusOpen: the write that follows is a step of its own.
TestOpen(op) ==
    /\ At(op, {"open?"})
    /\ Advance(op, [call[op] EXCEPT !.todo =
          IF Mine(op).status = "OPEN" THEN <<@[1], "assigned">> \o Tail(@) ELSE @])
    /\ UNCHANGED heap

\* What a request writes into a field.
Written(a, req, field) ==
    CASE field = "assignee" -> [a EXCEPT !.assignee = req.arg]
      [] field = "assigned" -> [a EXCEPT !.status = "ASSIGNED"]
      [] field = "status" -> [a EXCEPT !.status = IF req.verb = "status" THEN req.arg ELSE "RESOLVED"]
      [] field = "resolution" ->
             [a EXCEPT !.resolution = IF req.arg = "mitigate" THEN "mitigated" ELSE "false_positive"]
      [] field = "responded" -> [a EXCEPT !.responded = TRUE]

SetField(op) ==
    /\ At(op, {"assignee", "assigned", "status", "resolution", "responded"})
    /\ heap' = [heap EXCEPT ![call[op].id] = Written(@, call[op].req, Head(call[op].todo))]
    /\ Advance(op, call[op])

\* The last argument of appendAction, read before it is called: SetStatus logs
\* the status it was asked for, the others the one they find.
ReadTo(op) ==
    /\ At(op, {"to"})
    /\ Advance(op, [call[op] EXCEPT !.to =
          IF call[op].req.verb = "status" THEN call[op].req.arg ELSE Mine(op).status])
    /\ UNCHANGED heap

\* appendAction: read the trail, write it back one entry longer.
ReadTrail(op) ==
    /\ At(op, {"trail"})
    /\ Advance(op, [call[op] EXCEPT !.seen = Mine(op).trail])
    /\ UNCHANGED heap

Logged(op) ==
    [op |-> op,
     act |-> CASE call[op].req.verb = "assign" -> "assign"
               [] call[op].req.verb = "status" -> "start"
               [] OTHER -> call[op].req.arg,
     from |-> call[op].from,
     to |-> call[op].to]

\* Mutant of WriteTrail: the entry says where the status has got to, twice.
WriteTrailFromNow(op) ==
    /\ At(op, {"log"})
    /\ heap' = [heap EXCEPT ![call[op].id].trail =
          Append(call[op].seen, [Logged(op) EXCEPT !.from = Mine(op).status])]
    /\ Advance(op, call[op])

WriteTrail(op) ==
    /\ At(op, {"log"})
    /\ heap' = [heap EXCEPT ![call[op].id].trail = Append(call[op].seen, Logged(op))]
    /\ Advance(op, call[op])

\* Whoever scans the list of alerts holds the store's lock for reading.
Scanning == hit # NoHit /\ hit.pc = "scan"

\* Update puts back the pointer that is there, and the request is answered.
Update(op) ==
    /\ At(op, {"update"})
    /\ ~Scanning
    /\ call' = [call EXCEPT ![op] = NoCall]
    /\ answered' = [answered EXCEPT ![op] = call[op].id]
    /\ UNCHANGED <<heap, created, hit, ingested, toSeed, overlapped>>

-----------------------------------------------------------------------------
(* The pipeline.                                                           *)

IngestBegin(key) ==
    /\ hit = NoHit
    /\ ingested < MaxBatches
    /\ ingested' = ingested + 1
    /\ hit' = [key |-> key, at |-> 1, pc |-> "scan"]
    /\ UNCHANGED <<heap, created, call, answered, toSeed, overlapped>>

Candidate == heap[created[hit.at]]

\* Mutant of FindOpen: the status is not looked at.
FindAny ==
    /\ Scanning
    /\ hit' = CASE hit.at > Len(created) -> [hit EXCEPT !.pc = "create"]
                [] hit.at <= Len(created) /\ Candidate.key = hit.key -> [hit EXCEPT !.pc = "merge"]
                [] OTHER -> [hit EXCEPT !.at = @ + 1]
    /\ UNCHANGED <<heap, created, call, answered, ingested, toSeed, overlapped>>

\* FindOpen: the oldest open alert of the key, looked for one by one.
FindOpen ==
    /\ Scanning
    /\ hit' = CASE hit.at > Len(created) -> [hit EXCEPT !.pc = "create"]
                [] hit.at <= Len(created) /\ Candidate.key = hit.key /\ IsActive(Candidate.status) ->
                       [hit EXCEPT !.pc = "merge"]
                [] OTHER -> [hit EXCEPT !.at = @ + 1]
    /\ UNCHANGED <<heap, created, call, answered, ingested, toSeed, overlapped>>

\* Mutant of IngestMerge: an alert resolved in the meantime is left alone.
IngestMergeIfActive ==
    /\ hit # NoHit /\ hit.pc = "merge"
    /\ heap' = [heap EXCEPT ![created[hit.at]] = IF IsActive(@.status) THEN Merge(@, ingested) ELSE @]
    /\ hit' = NoHit
    /\ UNCHANGED <<created, call, answered, ingested, toSeed, overlapped>>

\* Merge into what was found, whatever its status is by now.
IngestMerge ==
    /\ hit # NoHit /\ hit.pc = "merge"
    /\ heap' = [heap EXCEPT ![created[hit.at]] = Merge(@, ingested)]
    /\ hit' = NoHit
    /\ UNCHANGED <<created, call, answered, ingested, toSeed, overlapped>>

CreateAlert(id, a) ==
    /\ ~Exists(id)
    /\ heap' = [heap EXCEPT ![id] = a]
    /\ created' = Append(created, id)
    /\ UNCHANGED <<call, answered, ingested, overlapped>>

IngestCreate ==
    /\ hit # NoHit /\ hit.pc = "create"
    /\ \E id \in AlertIds : CreateAlert(id, NewAlert(hit.key, ingested))
    /\ hit' = NoHit
    /\ UNCHANGED toSeed

-----------------------------------------------------------------------------
(* The contract, and the state of it this state stands for.  A request that *)
(* resolves takes effect when it writes the status, any other when it has   *)
(* passed its checks; a batch when its alert is found, or created.          *)

Effective(op) ==
    /\ Running(op)
    /\ ~ /\ call[op].req.arg \in Resolving
         /\ \E i \in 1 .. Len(call[op].todo) : call[op].todo[i] = "status"

AbsAlerts ==
    [id \in AlertIds |->
        LET done == {op \in RunningOn(id) : Effective(op)}
            a == IF done = {} THEN heap[id]
                 ELSE LET op == CHOOSE x \in done : TRUE
                      IN [Apply(call[op].base, op, call[op].req) EXCEPT !.evidence = heap[id].evidence]
        IN IF hit # NoHit /\ hit.pc = "merge" /\ created[hit.at] = id
           THEN Merge(a, ingested) ELSE a]

AbsIngested == IF hit # NoHit /\ hit.pc # "merge" THEN ingested - 1 ELSE ingested

AbsAnswered == {op \in Ops : answered[op] # NoAlert \/ Effective(op)}

Contract == INSTANCE AlertTriage
            WITH alerts <- AbsAlerts, ingested <- AbsIngested, answered <- AbsAnswered

SeedDemo(seed, id) ==
    /\ ~Scanning
    /\ seed \in toSeed
    /\ CreateAlert(id, Contract!SeedAlert(seed))
    /\ toSeed' = toSeed \ {seed}
    /\ UNCHANGED hit

Next ==
    \/ \E op \in Ops : \/ \E id \in AlertIds, req \in Requests : Begin(op, id, req)
                       \/ ReadFrom(op)
                       \/ TestOpen(op)
                       \/ SetField(op)
                       \/ ReadTo(op)
                       \/ ReadTrail(op)
                       \/ WriteTrail(op)
                       \/ Update(op)
    \/ \E key \in Keys : IngestBegin(key)
    \/ FindOpen
    \/ IngestMerge
    \/ IngestCreate
    \/ \E seed \in Seeds, id \in AlertIds : SeedDemo(seed, id)

Spec == Init /\ [][Next]_vars

-----------------------------------------------------------------------------
(* What the shared records still guarantee.                                *)

\* As long as no two requests work on one alert at the same time, nobody can
\* tell this store from one where every call takes effect in one step: the
\* pipeline may interleave with any request (Service.Ingest locks out no request).
ImplementsContract ==
    /\ Contract!Init
    /\ [][overlapped' = {} => Contract!Next \/ UNCHANGED Contract!vars]_vars

\* Once Ingest has returned its batch is evidence of an alert, however requests
\* overlap: no other goroutine writes EventIDs.  (PostgresTriage!BatchRecorded
\* fails where this holds.)
EvidenceKept ==
    hit = NoHit /\ ingested > 0 =>
        \E id \in AlertIds : Exists(id) /\ heap[id].evidence # <<>>
                             /\ heap[id].evidence[Len(heap[id].evidence)] = ingested

\* The harm of overlapping requests stays with the alert they overlapped on: any
\* other one, when at rest, is coherent and holds each request it answered once.
HarmIsLocal ==
    \A id \in AlertIds \ overlapped : Exists(id) /\ RunningOn(id) = {} =>
        /\ Coherent(heap[id])
        /\ \A op \in Ops : answered[op] = id =>
              Cardinality({i \in 1 .. Len(heap[id].trail) : heap[id].trail[i].op = op}) = 1
=============================================================================
