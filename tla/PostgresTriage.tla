--------------------------- MODULE PostgresTriage ---------------------------
(***************************************************************************)
(* The alert service over store/postgres.go.  Every call of the service is *)
(* a read of one row, a computation on the copy, and a write of the whole  *)
(* row back (Get or FindOpen, then Update or Create), two statements with  *)
(* no transaction or version check around them.  Handlers run on           *)
(* goroutines of their own; Service.Ingest runs on the one pipeline        *)
(* goroutine, and its mutex excludes nobody else.                          *)
(*                                                                         *)
(* The database is external: a statement takes effect at once, or fails    *)
(* with or without having taken effect.  Rows survive a crash of the       *)
(* process, the copies in flight do not.                                   *)
(***************************************************************************)
EXTENDS AlertModel, FiniteSets

CONSTANTS AlertIds,        \* identities newID can draw
          Ops,             \* console requests, each on its own goroutine
          Pipeline,        \* the pipeline goroutine
          NoAlert,         \* the row of an identity not in use
          NoJob,           \* a goroutine between statements
          UpdateAccepted,  \* does the server accept Update's statement? (see README:
                           \* it never refers to $1, so PostgreSQL cannot type it)
          MaxBatches,      \* bound: detection batches in a behaviour
          MaxFaults        \* bound: failing statements and crashes in a behaviour

ASSUME PipelineAssumption == Pipeline \notin Ops
ASSUME NoAlertAssumption == NoAlert \notin Alert(Ops)
ASSUME UpdateAcceptedAssumption == UpdateAccepted \in BOOLEAN

Workers == Ops \cup {Pipeline}

\* A copy being computed: the row it was read from (NoAlert for a new alert)
\* and what will be written.
Jobs == [id : AlertIds, base : Alert(Ops) \cup {NoAlert}, copy : Alert(Ops)]

ASSUME NoJobAssumption == NoJob \notin Jobs

VARIABLES rows,       \* the table: identity -> alert or NoAlert
          job,        \* what each goroutine has read and not yet written
          answer,     \* what each request was answered
          ingested,   \* batches the detection engine has emitted
          faults,     \* failing statements and crashes so far
          overwrote,  \* history: some write replaced a row it had not read
          missed      \* history: some FindOpen failed though the row was there

vars == <<rows, job, answer, ingested, faults, overwrote, missed>>

TypeOK ==
    /\ rows \in [AlertIds -> Alert(Ops) \cup {NoAlert}]
    /\ job \in [Workers -> Jobs \cup {NoJob}]
    /\ answer \in [Ops -> {"none", "ok", "error"}]
    /\ ingested \in Nat
    /\ faults \in Nat
    /\ overwrote \in BOOLEAN
    /\ missed \in BOOLEAN

Exists(id) == rows[id] # NoAlert

OpenFor(key) == {id \in AlertIds : Exists(id) /\ rows[id].key = key /\ IsActive(rows[id].status)}

\* FindOpen: the open row of the key that was seen last.
LastSeen(a) == a.evidence[Len(a.evidence)]

FindOpen(key) == {id \in OpenFor(key) : \A j \in OpenFor(key) : LastSeen(rows[j]) <= LastSeen(rows[id])}

-----------------------------------------------------------------------------
Init ==
    /\ rows = [id \in AlertIds |-> NoAlert]
    /\ job = [w \in Workers |-> NoJob]
    /\ answer = [op \in Ops |-> "none"]
    /\ ingested = 0
    /\ faults = 0
    /\ overwrote = FALSE
    /\ missed = FALSE

Fault == faults < MaxFaults /\ faults' = faults + 1
NoFault == UNCHANGED faults

Busy(w) == job[w] # NoJob
Start(w, id, base, copy) == job' = [job EXCEPT ![w] = [id |-> id, base |-> base, copy |-> copy]]
Finish(w) == job' = [job EXCEPT ![w] = NoJob]

\* Mutant of WriteBack: the update statement leaves out the actions column.
WriteBackWithoutActions(w) ==
    /\ LET id == job[w].id
       IN rows' = [rows EXCEPT ![id] = IF Exists(id) THEN [job[w].copy EXCEPT !.trail = rows[id].trail]
                                                     ELSE job[w].copy]
    /\ overwrote' = (overwrote \/ rows[job[w].id] # job[w].base)

\* The second statement of every call: the row becomes the copy, whatever the
\* row has become since it was read.
WriteBack(w) ==
    /\ rows' = [rows EXCEPT ![job[w].id] = job[w].copy]
    /\ overwrote' = (overwrote \/ rows[job[w].id] # job[w].base)

\* The server executes the statement: inserts always, updates if it accepts them.
Accepted(w) == job[w].base = NoAlert \/ UpdateAccepted

-----------------------------------------------------------------------------
(* Console requests.                                                       *)

Waiting(op) == answer[op] = "none" /\ ~Busy(op)

\* Mutant of Fetch: an alert that is resolved takes any request.
FetchUnchecked(op, id, req) ==
    /\ Waiting(op)
    /\ Exists(id)
    /\ ~RefusedButResolved(rows[id], req)
    /\ Start(op, id, rows[id], Apply(rows[id], op, req))
    /\ UNCHANGED <<rows, answer, ingested, faults, overwrote, missed>>

\* Get the row and compute the answer on the copy.
Fetch(op, id, req) ==
    /\ Waiting(op)
    /\ Exists(id)
    /\ ~Refused(rows[id], req)
    /\ Start(op, id, rows[id], Apply(rows[id], op, req))
    /\ UNCHANGED <<rows, answer, ingested, faults, overwrote, missed>>

\* No such row, a refused request, or a failing Get (which the code reports as
\* not found): an error answer, nothing changed.
Reject(op) ==
    /\ Waiting(op)
    /\ \/ NoFault /\ \E id \in AlertIds, req \in Requests : Exists(id) => Refused(rows[id], req)
       \/ Fault
    /\ answer' = [answer EXCEPT ![op] = "error"]
    /\ UNCHANGED <<rows, job, ingested, overwrote, missed>>

Save(op) ==
    /\ Busy(op)
    /\ Accepted(op)
    /\ WriteBack(op)
    /\ Finish(op)
    /\ answer' = [answer EXCEPT ![op] = "ok"]
    /\ UNCHANGED <<ingested, faults, missed>>

\* Mutant of SaveFails: the handler starts the request again.
SaveFailsAndRetries(op) ==
    /\ Busy(op)
    /\ \/ ~Accepted(op) /\ NoFault /\ UNCHANGED <<rows, overwrote>>
       \/ Fault /\ UNCHANGED <<rows, overwrote>>
       \/ Fault /\ Accepted(op) /\ WriteBack(op)
    /\ Finish(op)
    /\ UNCHANGED <<answer, ingested, missed>>

\* Update returns an error: the client is told so, whether or not the server had
\* already committed the statement.
SaveFails(op) ==
    /\ Busy(op)
    /\ \/ ~Accepted(op) /\ NoFault /\ UNCHANGED <<rows, overwrote>>
       \/ Fault /\ UNCHANGED <<rows, overwrote>>
       \/ Fault /\ Accepted(op) /\ WriteBack(op)
    /\ Finish(op)
    /\ answer' = [answer EXCEPT ![op] = "error"]
    /\ UNCHANGED <<ingested, missed>>

-----------------------------------------------------------------------------
(* Detection batches.                                                      *)

\* Mutant of IngestFind: nobody looks for an open alert.
IngestAlwaysCreates(key) ==
    /\ ~Busy(Pipeline)
    /\ ingested < MaxBatches
    /\ ingested' = ingested + 1
    /\ NoFault /\ UNCHANGED missed
    /\ \E id \in AlertIds : ~Exists(id) /\ Start(Pipeline, id, NoAlert, NewAlert(key, ingested'))
    /\ UNCHANGED <<rows, answer, overwrote>>

\* FindOpen, then the merged or the new alert.  A failing FindOpen is logged and
\* treated like one that found nothing.
IngestFind(key) ==
    /\ ~Busy(Pipeline)
    /\ ingested < MaxBatches
    /\ ingested' = ingested + 1
    /\ \/ /\ NoFault /\ UNCHANGED missed
          /\ \E id \in FindOpen(key) : Start(Pipeline, id, rows[id], Merge(rows[id], ingested'))
       \/ /\ \/ OpenFor(key) = {} /\ NoFault /\ UNCHANGED missed
             \/ OpenFor(key) # {} /\ Fault /\ missed' = TRUE
          /\ \E id \in AlertIds :
                ~Exists(id) /\ Start(Pipeline, id, NoAlert, NewAlert(key, ingested'))
    /\ UNCHANGED <<rows, answer, overwrote>>

IngestSave ==
    /\ Busy(Pipeline)
    /\ Accepted(Pipeline)
    /\ WriteBack(Pipeline)
    /\ Finish(Pipeline)
    /\ UNCHANGED <<answer, ingested, faults, missed>>

\* A failing Update or Create is only logged: the pipeline goes on.
IngestSaveFails ==
    /\ Busy(Pipeline)
    /\ \/ ~Accepted(Pipeline) /\ NoFault /\ UNCHANGED <<rows, overwrote>>
       \/ Fault /\ UNCHANGED <<rows, overwrote>>
       \/ Fault /\ Accepted(Pipeline) /\ WriteBack(Pipeline)
    /\ Finish(Pipeline)
    /\ UNCHANGED <<answer, ingested, missed>>

\* The process dies and comes back: rows stay, copies and connections are gone.
Crash ==
    /\ Fault
    /\ job' = [w \in Workers |-> NoJob]
    /\ answer' = [op \in Ops |-> IF Busy(op) THEN "error" ELSE answer[op]]
    /\ UNCHANGED <<rows, ingested, overwrote, missed>>

Next ==
    \/ \E op \in Ops : \/ \E id \in AlertIds, req \in Requests : Fetch(op, id, req)
                       \/ Reject(op)
                       \/ Save(op)
                       \/ SaveFails(op)
    \/ \E key \in Keys : IngestFind(key)
    \/ IngestSave
    \/ IngestSaveFails
    \/ Crash

Spec == Init /\ [][Next]_vars

-----------------------------------------------------------------------------
(* What survives every interleaving, failure and crash.                    *)

\* Rows and copies are always coherent: lost updates lose whole updates, they
\* never leave a row whose status, resolution and trail disagree.
RowsCoherent ==
    /\ \A id \in AlertIds : Exists(id) => Coherent(rows[id])
    /\ \A w \in Workers : Busy(w) => Coherent(job[w].copy)

\* A write replaces a row its goroutine did not read: the shape of every loss.
Raced(id) == \E w \in Workers : /\ Busy(w) /\ job[w].id = id
                                /\ job[w].base # rows[id]
                                /\ rows'[id] = job[w].copy

\* A row keeps its key for ever, and its history unless this very write replaces
\* a row that changed after it was read (postgres.go Update has no version check).
HistoryLostOnlyByRace ==
    [][\A id \in AlertIds : Exists(id) =>
          /\ rows'[id] # NoAlert
          /\ rows'[id].key = rows[id].key
          /\ LifecycleStep(rows[id], rows'[id]) \/ Raced(id)]_vars

\* Two open alerts for one key need a lookup that failed or a write that raced:
\* Service.Ingest alone never creates them, not even around a crash.
OneOpenPerKey == \A key \in Keys : \A i, j \in OpenFor(key) : i = j

DuplicateOnlyByFaultOrRace == missed \/ overwrote \/ OneOpenPerKey

\* A request answered with success is in the trail of a row, and stays there
\* across failures and restarts, unless a write raced.
InTrail(op, id) == Exists(id) /\ \E i \in 1 .. Len(rows[id].trail) : rows[id].trail[i].op = op

AnsweredIsDurable == overwrote \/ \A op \in Ops : answer[op] = "ok" => \E id \in AlertIds : InTrail(op, id)

\* No request takes effect twice, whatever it was answered: the code never
\* retries, and an error answer may hide a request that did take effect.
AtMostOnce ==
    \A op \in Ops : \A i, j \in AlertIds :
        InTrail(op, i) /\ InTrail(op, j) =>
            /\ i = j
            /\ \A m, n \in 1 .. Len(rows[i].trail) :
                  rows[i].trail[m].op = op /\ rows[i].trail[n].op = op => m = n

\* The contract, met at the writes: a batch counts once its row is written, and a
\* request has been carried out once it is in a trail, answered or not.
Contract == INSTANCE AlertTriage
            WITH alerts <- rows, ingested <- IF Busy(Pipeline) THEN ingested - 1 ELSE ingested,
                 answered <- {op \in Ops : \E id \in AlertIds : InTrail(op, id)},
                 toSeed <- {}, Seeds <- {}, SeedOp <- Pipeline

\* The row of a batch was not written: the statement failed, or the process died.
BatchLost ==
    /\ Busy(Pipeline) /\ job'[Pipeline] = NoJob
    /\ UNCHANGED rows
    /\ faults' > faults \/ ~UpdateAccepted

\* Up to the first overwritten row or failed lookup, the service over this store
\* does what calls that take effect in one step do, except that batches get lost:
\* requests of which a statement fails and crashes show no state of their own.
ImplementsContract ==
    /\ Contract!Init
    /\ [][~overwrote' /\ ~missed' => Contract!Next \/ BatchLost \/ UNCHANGED Contract!vars]_vars

-----------------------------------------------------------------------------
(* What the documentation says and this store does not deliver.            *)

\* "Repeated hits merge into the open alert": once Ingest has returned, its batch
\* is evidence of an alert.
BatchRecorded ==
    ~Busy(Pipeline) /\ ingested > 0 =>
        \E id \in AlertIds : Exists(id) /\ LastSeen(rows[id]) = ingested
=============================================================================
