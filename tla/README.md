# sentinel-api: a verification project

TLA+ models of the sentinel-api service (Go), model-checked with TLC and, for its core,
proved with TLAPS. Paths like `alerts/service.go` are relative to `src/internal/`.

Contents: [1 the system](#1-the-system), [2 the modules](#2-the-modules-and-the-code),
[3 the runs](#3-the-runs), [4 the proofs](#4-the-proofs),
[5 where code and documentation disagree](#5-where-code-and-documentation-disagree),
[6 what is left out](#6-what-is-left-out), [7 the plan](#7-the-plan).

## 1 The system

Raw log records (from `POST /ingest`, tailed files or a demo simulator) go through one
channel to one goroutine. It normalises each record, asks the **edge engine** whether a
deployed control blocks it, runs the **detection engine** on what passes, hands detections
to the **alert service**, and puts every event, blocked or not, into the **request log**
(a ring) and on the **stream** (a hub). HTTP handlers, each on its own goroutine, read and
change the same components meanwhile.

```
 /ingest (drops when full) --\                        +--> edge.Eval --blocked--+
 simulator, tailer (block) ---> chan raw (8192) --> pipeline goroutine          v
                                                      +--> detect.Process   Ring.Append
                                                      |      -> alerts.Ingest  Hub.Publish
 console: assign/status/action --> alerts.Service --> store (Postgres | memory)
 console: deploy/revoke/list ----> containment.Service, then edge.Install / edge.Remove
 console: requests, stream, summary --> Ring.Recent, Hub.Subscribe, edge counters
```

| component | state | operations | interacts with | what is hard | what makes it correct |
|---|---|---|---|---|---|
| alert service `alerts/` | none but the store; a mutex around `Ingest` only | Ingest, Assign, SetStatus, Action, SeedDemo; queries | called by the pipeline and by handlers; reads and writes the store | read-compute-write without a transaction; the mutex excludes no handler | one open alert per key; status, resolution and response follow from the audit trail; history only grows; what was answered is recorded |
| Postgres store `store/postgres.go` | table of alerts | Create, Get, Update, FindOpen; List, Counts, MTTR | external server | statements fail before or after they commit; crash between read and write; whole-row writes | a loss or a duplicate needs a failure or a race, and nothing else |
| memory store `store/memory.go` | map of pointers under a RWMutex | the same | shares `*Alert` with all callers | alerts are changed outside the lock, field by field, by requests and pipeline at once | as the atomic service until two requests overlap on an alert; the harm stays with that alert |
| containment registry `containment/` | controls under a mutex | Deploy, List, Revoke, Get, ParseDuration | first half of the handlers | lazy expiry; durations that overflow | ended controls stay ended |
| edge engine `edge/` | policies, token buckets under a mutex; atomic counters outside it | Install, Remove, Eval, counters | second half of the handlers; the pipeline | policies changing between events; buckets surviving policies; counters read one by one | controls in force are those that are live; rate bound; counters agree |
| containment and case handlers `server/analysis_handlers.go` | none | DeployContainment, RevokeContainment, ListContainment, IncidentContain, IncidentAssign | registry, then edge, then alerts | calls with nothing spanning them; a loop over a list of alerts taken once, some calls of which fail; an address read again and again from a shared record | what is deployed is enforced, what is revoked is released; a case is worked off whole, each alert and address once, but for an alert that is moved in the middle |
| request ring `requests/` | buffer, next slot, full flag | Append, Snapshot, Recent | pipeline writes, handlers page | wrap-around while a client pages | the last 4096 events in order; paging skips nothing |
| request hub `requests/` | subscribers' channels | Subscribe, unsubscribe, Publish | pipeline publishes, stream handlers receive | receiving needs no lock: it falls between two attempts of Publish | never blocks, never cuts anyone off, loses only the oldest |
| detection engine `detect/` | a window per rule and key | Process, Drain | the pipeline | pruning at the window's edge, diversity, batches that overlap | fires exactly when the whole history says so |
| pipeline `server/pipeline.go` | channel, current event, rate window, context | Start, Stop, Ingest, the loop | everything above | full channel; shutdown; event in hand | accepted events are processed once and in order |
| HTTP handlers `server/handlers.go` | none | Ingest, ListRequests, StreamRequests, Summary, Metrics, ... | all | batches cut off by a full channel | answers though the pipeline is slow |
| incident analysis `analysis/` | none | BuildChain, GroupIncidents | pure, over the alert list | a case can vanish, or alerts change case, between two calls | the status shown does not depend on the list's order |
| tailer `ingest/tail.go` | file offset, scanner | Start, Stop, the loop | reads what servers write; feeds the channel and blocks | lines written while the tailer starts or is at the end of the file, or only half written | a line becomes one event, in order, unless it was being written just then |
| simulator `ingest/simulator.go` | stop channel, random numbers | Start, Stop | feeds the channel and blocks | shared `rand.Rand` | |
| normaliser, event types, geo, config, logging | none | | | | |

`PROJECT.json` gives each component's status; its `hazards` list has every place in this
code that is hard to test, by line, with the properties that watch it.

## 2 The modules and the code

Every definition that models code is mapped to its lines in `PROJECT.json` ("map").
Conventions: identities drawn at random (`newID`) are a small set from which an unused one
is picked; a lock held over a whole operation makes it one action; an operation that locks
twice, or calls two components, is two actions; history variables are marked as such and no
guard reads them.

**`AlertModel`, `AlertTriage`, `PostgresTriage`: alerts.** `AlertModel` holds the pure
part of `alerts/service.go`: what `Merge`, `Assign`, `SetStatus` and `Action` make of the
record they were given, and what they refuse. `AlertTriage` is the contract: each service
call is one atomic step on a store. `PostgresTriage` splits the same calls at their store
calls. A worker (a request's goroutine, or the pipeline) reads a row (`Fetch`, `IngestFind`),
computes on its copy (`job`), and writes the whole row back (`Save`, `IngestSave`) whatever
the row has become. A statement may fail before or after the server committed it, and the
process may crash at any time: rows stay, copies go. `overwrote` and `missed` are history
variables that say whether some write raced, or some lookup failed. Abstractions: `key` is
the pair (RuleID, RuleKey); a detection batch is one number in place of its event IDs, so
`EvidenceCap` counts batches where the code counts 200 IDs; severity, counters, geo data
and texts decide nothing. `ImplementsContract` maps a state of `PostgresTriage` to one of
`AlertTriage`: the rows are the alerts, a request has been answered when its row is written,
and a batch whose statement failed or which a crash cut off is simply not merged (`BatchLost`,
the one step the contract does not have). Until a write has raced or a lookup failed, every
other step is a step of the contract or none.

**`MemoryTriage`: alerts, shared by pointer.** `store/memory.go` hands out the pointers it holds,
so there is one record per alert (`heap`), and a request is a list of single reads and writes of
its fields, in the order of the code (`Writes`, `SetField`, then the status for the log,
`ReadTo`, and the log, `ReadTrail` and `WriteTrail`). `FindOpen` goes over the list one alert at
a time under the store's read lock, which `Create` and `Update` wait for and field writes do not.
A batch is merged in one step: it writes only fields no request touches. `ImplementsContract`
says where each call takes effect: a request that resolves, when it writes the status; any other,
when it has passed its checks; a batch, when its alert is found or created. `overlapped` is the
history of alerts two requests worked on at one time, the only thing that breaks it. Strings and
slices are more than one word long, so Go may show half a write; a torn status is no
`"RESOLVED"`, which is all the code compares it with between two writes, so it reads as the
status before.

**`IncidentResponse`: cases**, on top of `AlertTriage` and an instance of `ControlPlane`. An
incident is no state but the alerts of one address (or asset), grouped anew from the store's list
on every request (`Group`, `HasActive`). `IncidentContain`, `IncidentAssign` and
`DeployContainment` take their list of alerts once and go through it call by call, passing over
what fails. `IncidentContain` reads an alert's address four times: is there one (`Look`), has it
been met (`Check`), note it as met (`Mark`), and deploy for it (`DeployNext`, then `InstallNew`
and `Act`). With the memory store these are reads of the shared record, with Postgres of the copy
`Get` made; which store the process has opened is the variable `store`. Meanwhile detection
merges, which overwrites an alert's address and so can move it to another case (`IngestFrom`);
the console acts; other deployments run. `MovedUnder` is the history of the alerts whose address
was another one at a later read; over Postgres it stays empty. `Answer` regroups: when no active
alert is left there is no incident, the code dereferences nil, and Fiber's recovery turns the
panic into an error for work that is done. The order of the store's list comes from fields that
are left out, so the loop may take the alerts in any order, and `StatusRollsUp` tries all orders.

*The constant `UpdateAccepted`.* `Update` (`store/postgres.go:68`) numbers its placeholders
`$2` to `$29` and passes 29 arguments, so `$1` is never referred to. PostgreSQL cannot
determine the type of such a parameter and refuses the statement. `UpdateAccepted = FALSE`
is the statement as written; `TRUE` is the statement that was evidently meant. The run
`postgres_merge_lost` checks the first, all others the second, since with the first nothing
is ever updated and nothing else could be learnt about the store. The theorems hold for both.

**`Clock`, `ContainmentRegistry`, `EdgePolicies`, `ControlPlane`: controls.** The registry
has `Deploy`, `List`, `Revoke` and the expiry, which is only written down when somebody
reads (`Resolve`). Durations are 64-bit in Go: `Nd` is multiplied without a range check,
modelled by `WrapDuration` on a small range. `EdgePolicies` is the policy table and the
verdict in the order of `Eval`. `ControlPlane` composes them as the handlers do: deploying
is `DeployRegister` then `DeployInstall`, revoking is `RevokeMark` then `RevokeRemove`, and
other handlers run in between.

**`EdgeEngine`: buckets and counters** over `EdgePolicies`. `Eval` takes a token under the
lock (`TakeToken`) and adds to `blocked`; `CountReason` adds to the reason afterwards;
`ReadBlocked` and `ReadReason` are a summary reading counter by counter. Tokens are whole
numbers and `Rate` is the refill per tick; the code's fractions are not modelled.

**`RequestPages`, `RequestLog`, `RequestRing`: the request log.** `RequestLog` is abstract:
the last `Capacity` events in order. `RequestRing` is the buffer with `next` and `full`; it
implements `RequestLog` with `log <- Snapshot`. `RequestPages` has what both share:
the page `Ring.Recent` returns, the cap `ListRequests` puts on the limit, and a client that
pages (external). `Page` is a set of positions of the log; `Recent` is the same function
written as the code has it, the filter's loop (`Filtered`) and then slice after slice. The
assumption `PageIsRecent` of `MCEvents` compares the two on every log that fits the
ring; `PagesAreRecent` proves them equal for all logs.

**`RequestHub`: the stream.** `Publish` is modelled attempt by attempt (`Offer`,
`DropOldest`, `OfferAgain`), since readers receive without the lock. Subscribing and leaving
wait for it.

**`DetectionWindows`: detection.** One window per rule and key, pruned, extended, tested.
Which rules an event matches is an input; `item` is what a rule's diversity check counts.

**`Pipeline`** composes the producers, the channel, the goroutine (`Take`, `Eval`, `Detect`,
`Log`, `Return`), operators who change the policies between its steps, and shutdown. It uses
`EdgePolicies` for verdicts. What detection does with an event, and whether a bucket has
a token, is a choice here, settled by `DetectionWindows` and `EdgeEngine`. `events` is the
counter behind `events_total`, `rate` the window behind `events_per_sec` with its 60 slots,
and `Counts` what `avg` sums.

**`Ingestion`** adds the tailed files to `Pipeline`: `Write` is a server that writes a line in
one go or in two pieces; `ReadMore`, `Scan` and `Reseek` are the loop of `tailFile` with what
`bufio.Scanner` does, which returns an unfinished line at the end of the file. A file may end
with half a line when the tailer starts (`HalfLine`), whose rest is then read as a line. The
tailer is a feed, so `Scan` is `Pipeline`'s `Read`, and it stands still while that event waits
for room. Pieces of lines are all that is kept of texts; a whole line yields an event, a fragment
may.

The `MC*` modules give the constants their small values. Definitions called "Mutant of X"
in the modules are plausible bugs of X; each property is shown to fail under one of them
(`PROJECT.json`, "mutants").

## 3 The runs

| run | asks | bounds, and why they are enough |
|---|---|---|
| `alert_triage` (`MCIncidentResponse`) | Do alert service and case handlers keep their promises when service calls are atomic? | 2 keys, one of which may come from two addresses or none; 2 alerts; one request on an alert, one on a case; 3 batches, evidence capped at 2; a seed; a block for ever and one for a time already past, a control that resolves, and one refused for each reason: a case that gains, loses or resolves an alert during the loop, up to two alerts at once. Both stores: an alert that is moved, or left without an address, between any two reads of the handler. Deadlock off: bounded inputs end. |
| `postgres_triage` | What survives races, failures and crashes? | 2 alerts, 2 requests and the pipeline: two racing requests, or one racing a merge; 2 faults: a lost answer followed by a crash. 3 batches. |
| `memory_triage` | What do shared records still guarantee? | 1 key, 3 alerts, 2 requests, 3 batches, a seed: two overlapping requests, a batch between any two of their steps, a merge into an alert that was resolved meanwhile and the alert that follows it. |
| `postgres_merge_lost` | Is a repeated hit recorded with the statement as written? | one key, no request, no fault: the shortest history with a merge. |
| `control_plane` | Do registry and edge agree? | 2 controls on one address, so that one can hide the other; time to 3; durations that are permanent, past, immediate, later, invalid, and 3 days of 2 ticks, which overflows the range -4..3. |
| `control_plane_revoke`, `control_plane_waf` | Is a revoked control released, a WAF rule enforced? | the same instance. |
| `edge_engine` | Do rate bound and counters hold? | 2 policies of all kinds on one address, with and without target and expiry; burst 2, rate 1, 2 ticks: emptied, refilled, capped; 2 blocked events: one counted while the other is. Deadlock is checked. |
| `events` (`MCEvents`) | Is the ring the log, and does paging skip nothing? Is the stream faithful and never in the way? Do the windows agree with the history? | The three share no state: a behaviour is about one of them, with the others at rest. Ring: 3 slots, 5 events: every slot position, wrapped around; pages of one, of the maximum and unlimited; a filter. Hub: channels of 2, 4 events, 2 streams: filled, dropped from, filled again. Windows: 2 rules of different length and diversity, 2 keys and no key, 3 events, time to 3: expiry of part of a window between two events. |
| `pipeline` (`MCPipeline`) | Is accepted work done once, and contained first? | one ingest request and one feed with three events on a channel of 2, so that it fills up; one address, one control that expires at 1, time to 2: denied, expired, released around each step. |
| `pipeline_rate` (`MCPipeline`) | Does the event rate fall to zero when traffic stops? | a window of 2 slots, time to 2, one event: the shortest idle time that should empty the window. |
| `tailing` (`MCIngestion`) | Is what a file gets read once? | one tailed file with up to 5 pieces of lines, which may end with half a line when the tailer starts, and one ingest request on a channel of 1: whole lines and halves before, at and after the end of the file, with the channel full or free. |

**What the runs show.** `alert_triage`: a key has one open alert, every alert's status,
resolution and response agree with its trail, nothing resolved is reopened, the newest batch is
evidence of an alert and no batch is evidence of two. Over Postgres a request on a case acts on
every alert the case had, at most once, and deploys one control for each address it met, whatever
happens meanwhile and even when the answer is an error; once it is answered those addresses are
blocked, unless the time asked for is over. If the control is refused (a bad type or duration),
exactly one alert per address is passed over and all others are still acknowledged or resolved,
although nothing was deployed. Over the memory store the same holds of a request under which no
alert was moved. If one was, that alert may be passed over because its address was gone, an
address may get two controls, or be noted as met and get none; still no alert is acted on twice
or outside the case, every other alert is acted on, and every control that was deployed is in
force. `memory_triage`: while no two requests overlap on an alert, the field-by-field store is
the atomic service, with the pipeline running freely; when two do, that alert may lose a log
entry or be reopened, but other alerts keep everything and no batch is ever lost (over Postgres
it may be). `postgres_triage`: over Postgres the rows stay coherent, but a row's history can be
overwritten, by exactly one kind of step (`HistoryLostOnlyByRace`), and two open alerts of a key
need a failed lookup or such a write. An answered request is durable unless a write raced, and no
request takes effect twice. Until a write races or a lookup fails, it implements the atomic
service but for batches lost to failures and crashes. `control_plane`: an IP block or rate limit
in the registry is enforced and a policy in force belongs to a live control, except for the
overlap that `control_plane_revoke` exhibits; a clean revocation is released. `edge_engine`: no
sequence of deployments lets an address have more than burst plus refill through its bucket, and
a summary misses at most the one event being counted. `events`: the ring holds the last events in
order and a client that pages through it sees all it should; no reader blocks a publication or is
cut off by one; the pruned windows lose nothing that counts. `tailing`: a line of a tailed file
is lost or torn only if it was being written when the tailer started, or between the scanner's
meeting the end of the file and the tailer's moving on, which lasts as long as the channel is
full if the file ended with half a line. `pipeline`: `accepted` is always `processed`, the event
in hand and the channel, in this order; an address denied before the edge sees its event never
contributes evidence, even if the event was queued first; alert evidence is in the request log or
in hand.

**Fairness.** Safety properties need none. `ControlPlane`: weak fairness of the second half of
the two handlers; nothing between their two calls blocks or returns. `RequestHub`: weak fairness
of the attempts of a running `Publish`; each is a `select` with a default. `Pipeline`: weak
fairness of the goroutine's steps, a running goroutine being scheduled, and of the ingest
handler's next item, a `select` with a default. That the goroutine's steps end takes for granted
that a call to Postgres in `Detect` returns: the code sets it no deadline, and while it hangs
`AcceptedIsLogged` waits. Nothing is assumed of operators, readers, feeds, clients or clocks.
After a shutdown the loop may take a waiting event or return, as Go's `select` picks either;
hence "unless cancelled" in `AcceptedIsLogged`.

`CHECK_DEADLOCK FALSE` stands where the bounded inputs run out and the system rests.

## 4 The proofs

Proved for every value of the constants that meets the named assumptions (`PROJECT.json`
lists the theorems).

- `AlertModelProofs`: lemmas about the pure operators: a new alert is coherent, merging and
  every accepted request keep an alert typed and coherent and make a `LifecycleStep` of it.
- `AlertTriageProofs`: `TypeOK`, `AlertsCoherent`, `OneOpenPerKey`, `NoHistoryRewritten`,
  `BatchesRecorded`. Every step is first shown to be a `StoreStep` (at most one alert is created
  or replaced by a sound successor); the invariants follow from that alone. The same five for
  `SystemSpec`, where case handlers take `StoreStep`s too, and on top of them
  `OncePerAlertAndAddress`, `CaseIsWorkedOff` and `CaseIsEnforced`, in full for requests under
  which no alert was moved and so always over Postgres. None of these is inductive; `SystemInv`
  adds `TrailsOf` (which alerts carry an entry of a request, step by step of its loop), `LeftOf`
  (what it passed over, and for which address, or because it was moved), `MeetsOf` (what it has
  read of the address in hand), `ControlsOf` (one control per address met, in the registry, and
  installed but for the one in hand) and `PlaneInv` (what the control plane keeps of a control
  nobody revokes: its policy stays where it is). `StatusRollsUp` is about a loop over a list of
  any length. The library's induction theorems cannot be used, but its theorem that the numbers
  are well-founded can: `RollingUp` looks at the first place where the loop would differ from
  `MostAdvanced`, and there is none. `CasesUseControlPlane` says that the system's steps on
  registry and edge are steps of `ControlPlane`, so that `LiveControlEnforced`,
  `EnforcedOnlyWhileLive` and `EndIsFinal` carry over; for this the module takes an instance
  (`Controls`) of `ControlPlaneProofs` and cites its lemmas.
- `PostgresTriageProofs`: `TypeOK`, `RowsCoherent`, `HistoryLostOnlyByRace`,
  `DuplicateOnlyByFaultOrRace`. `RowsCoherent` is not inductive: a copy in flight must be
  tied to the row it was read from. `IInv` adds `JobOK`: the copy is a sound successor of
  its base, and only the pipeline has copies without a base. For duplicates, `UniqueOpen`
  adds that while the pipeline holds a new alert of a key, no row of that key is open.
  `AtMostOnce` rests on `TrailsInv` (an entry of a request is in the row it names or in the
  copy it holds, and then not in the row the copy was read from), `AnsweredIsDurable` on
  `MeantInv` (what a copy will be when it is written). `ImplementsContract`: `Init` maps to
  `Init`, and each step, until a write races or a lookup fails, to a step of `AlertTriage`, to
  `BatchLost`, or to none; that `Ingest` creates only when there is nothing to merge into
  needs `FirstOpenInv`: what the pipeline holds is still the oldest open alert of its key.
- `MemoryTriageProofs`: `TypeOK`, `EvidenceKept`, `HarmIsLocal`, `ImplementsContract`. The
  inductive `MemoryInv` says what a request can still have to do (`Left`: which lists of steps it
  can be left with), and of an alert no two requests have met on that it is at rest and `Sound`,
  or one request is under way from a sound alert to the next (`Separate`): what it has written
  and read for its log entry is what the atomic service would have made of it, all else is as it
  was found (`Partial`). `ScanInv` adds that the alerts `FindOpen` has passed stay closed until
  its batch is recorded. For the refinement, `BaseIs` and `EffectIs` say what the contract sees
  of an alert with a request under way, and then each step is a step of `AlertTriage` or none.
- `ControlPlaneProofs`: `TypeOK`, `LiveControlEnforced`, `EnforcedOnlyWhileLive`,
  `EndIsFinal`. The inductive `Tied` says of every control which policy it has in each phase
  of its handlers, the overlapping revocation included.
- `EdgeEngineProofs`: `TypeOK`, `TokenBound`, `CountersAgree`, `SummaryAlmostComplete`. The
  strengthening adds that an unused bucket has let nothing through, and `ReadingBound`: what
  a summary read as `blocked` is covered by the reasons it has read and those it has still
  to read.
- `EventProofs`: the hub, the ring and the windows. *Hub*: `HubTypeOK`, `NobodyIsCutOff`,
  `HasNewest`, `StreamFaithful`, from `StreamOK`, one invariant per stream: what it received and
  what waits are increasing and account for every publication since it subscribed, and the room
  made by dropping is there until the second attempt. *Ring*: `TypeOK` together with `RingAgrees`
  (buffer, next slot and full flag agree: `RingStaysInOrder`), `PagesSkipNothing`, and
  `RingIsLog`, that buffer, slot and flag implement the last `Capacity` events. `RingInv` says
  which event lies in which slot; `PagingInv` that what the client has still to see lies behind
  its offset, which moves on by the page's size since `Newer` numbers the wanted events of a page
  without gaps (`PageBound`, `OneToOne`). `PagesAreRecent` says that `Recent` returns just the
  events of `Page`, in their order: by the first event after which it would not, the filter's
  list is the wanted events so far (`RunsList`); the k-th of L of them has L - k newer ones
  (`NewerAlong`), so that the two slices cut out what `Page` counts off. *Windows*:
  `WindowsTypeOK`, `WindowsAreExact`, `FiresExactly`: pruning drops what no later event can need,
  because time does not go back. That a window holds all recent hits and only matched ones
  (`WindowsBracket`) is what the next event needs; that it is exactly the period of its last
  event (`WindowsAreExact`) comes on top.
- `PipelineProofs`: `TailingIsFeeding`, that `Ingestion` implements `Pipeline`, so that what
  follows holds with tailed files too; `TypeOK`, `AcceptedAccounted`, `ContainedNotDetected`,
  `EvidenceIsLogged`, `LinesReadOnce`. The account follows from laws of concatenation. The next
  two rest on `Ordered`: producers number their events, so that an event is at one place only
  (channel, hand or log) and nothing already logged can become "not yet seen by the edge" again;
  a shielded event is denied until the edge has seen it and never on its way to detection
  afterwards. The sum of the rate window is the size of a finite set (`Counts`), to which each
  event adds one element (`Metered`): the window adds up to the number of events taken since the
  start (`RateNeverForgets`), so what `pipeline_rate` shows happens for any number of slots. For
  the tailed files `TailInv` says of each that it is line after line (`Lines`), that what the
  scanner has not returned is its end (`Unread`), that whatever follows the end once met is
  exposed (`Exposed`), and that all before it was delivered whole, once and in order, but for
  what is exposed (`Delivered`).

What is assumed: the named assumptions of the modules. They say that bounds are positive
numbers, that values standing for "none" (`NoAlert`, `NoCall`, `NoControl`, `Never`, ...) are
no values of their kind, and of what kind the parameters are (`Seeds`, `Terms`, `Limits`,
`Expiries`, durations; case requests are among the requests, tailed files among the feeds,
and no feed is a client). `PlaneAssumption` repeats those of `ControlPlane` for the instance in
`IncidentResponse`. TLC evaluates all of them. No set of identities is assumed to be finite.

The type invariants of `AlertTriage`, `PostgresTriage`, `MemoryTriage`, `ControlPlane`,
`EdgeEngine`, `Pipeline`, the hub, the windows and the composed system are proved and
therefore not checked by a run as well.

Only model-checked: liveness (`RevokedIsReleased`, `PublishReturns`, `IngestAnswers`,
`AcceptedIsLogged`), as the prover has no fairness reasoning, and the four disagreements of
section 5, which are counterexamples. Every safety invariant, action property and refinement
that a passing run checks is also a theorem.

## 5 Where code and documentation disagree

1. `Update` over Postgres is refused by the server, so no merge, assignment or resolution is
   stored (`store/postgres.go:68`; run `postgres_merge_lost`). That PostgreSQL rejects a
   statement with an untypable `$1` is a fact about the server, taken as given.
2. A revocation that overlaps the deployment of the same control leaves its policy at the
   edge for ever (`server/analysis_handlers.go:222`; run `control_plane_revoke`).
3. A WAF rule never matches: every deployed control has an address, and `Eval` looks WAF
   policies up under the empty one (`edge/edge.go:100`; run `control_plane_waf`).
4. The rate window behind `events_per_sec` never forgets: it moves by one slot for the first
   event of another second, however many have passed, adds to what the slot holds, and `avg` sums
   all slots whatever the time (`server/pipeline.go:81`; run `pipeline_rate`). A window of 60
   seconds (`newRateWindow(60)`) that was idle for as long should say zero.

## 6 What is left out

- Torn values. Go gives an unsynchronised read no meaning beyond the words it may return.
  `MemoryTriage` covers interleaved reads and writes of whole fields; what an encoder makes of
  a string or slice read half-written, in the memory store, the registry's `resolve` or the
  average of the rate window, is not modelled.
- Kill chains, indicators of compromise, SLA flags, asset and alert timelines: they format
  fields (techniques, user agents, deadlines, counts) that decide nothing and that no module
  keeps. Unit tests reach what is odd there: the chain looks techniques up by rule name
  (`analysis/analysis.go:124`), `containsFold` swaps its arguments (`:243`), and a resolved
  alert closes the clock for later ones of its source (`:446`).
- What the parsers make of a line. Some fragments make `parseNginxCombined` index past their
  end; the panic ends the process, and such a behaviour is a prefix of one that is modelled. It
  is not a cancellation, so the liveness properties are about a process that lives on. A
  line of more than a megabyte ends the tailing of its file. `Tailer.Stop` has no caller.
- Normalisation, event types, geo table, configuration, logging, SSE and JSON: stateless
  or pure I/O.
- The store's list limit of 500 alerts, negative offsets in `Recent` and `ListAlerts`: not
  reached by these instances, not in the client's vocabulary.
- `IncidentContain` and its siblings read their list of alerts (`BeginContain`), and regroup it
  for the answer (`Answer`), in one step each. Over the memory store the records of that list
  may change while they are grouped, and `buildIncident` reads an alert's status twice
  (`analysis/analysis.go:415`). `incidentContained` is modelled by the registry's `List` only.
- A failing `Get` in the loop of `IncidentContain`, which passes the alert over: alerts are never
  deleted, and what failing statements do is `PostgresTriage`'s subject.
- Which events a detection rule matches, and what the simulator generates.
- A `DeployContainment` that names an alert twice: the handler acts on it twice, while the
  model takes the client's list as a set.
- `detect.Drain`: nobody calls it.
- `containment.Get`: nobody calls it; it would mark one control as `List` marks all.
- Time and revocations in `IncidentResponse`: its clock stands still, so that a control there
  ends only if its duration does at once or overflows. `ControlPlane` has both.
- What no property forbids because the code does it: revoking a control that has expired but was
  never listed (`EndIsFinal` permits it); a positive number of days that overflows into the past
  (`EnforcedOnlyWhileLive` says that the edge follows suit); an empty bucket for a limit that is
  deployed anew (`TokenBound` is an upper bound); reopening an alert two requests overlap on in
  the memory store (`HarmIsLocal` says that no other alert suffers).
- Clocks that go back: Go compares monotonic readings.

## 7 The plan

Written in this order, core first: alerts (contract, then Postgres, then proofs), controls
(registry and edge composed, then proofs), edge engine, request log and hub, detection,
pipeline; then the shared records of the memory store and the refinements of the contract,
the cases, the rate window and the tailed files; then the proofs of what the runs check. What
remains:

1. `EdgeEngine` and `Pipeline`: that every outcome of the engine's `Reason` is one of the
   choices `Pipeline` leaves to `Eval`, and likewise for `DetectionWindows` and `Detect`.
2. `IncidentResponse`: the clock and revocations running along with requests on cases, so
   that what is deployed for a case also ends while the case is worked on.
