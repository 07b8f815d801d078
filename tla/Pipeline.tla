------------------------------ MODULE Pipeline ------------------------------
(***************************************************************************)
(* server/pipeline.go and what meets in it: producers of raw events, the   *)
(* raw channel, the one goroutine that takes events through edge, detection *)
(* and request log, operators who contain addresses meanwhile, and the     *)
(* shutdown of cmd/sentinel-api.                                           *)
(*                                                                         *)
(* The ingest handler (handlers.go Ingest) offers the items of a batch one *)
(* by one and drops an item when the channel is full.  The simulator and   *)
(* the file tailer block instead, holding the event they read.  What the   *)
(* edge decides is EdgePolicies' verdict, taken from EdgeEngine except for *)
(* the token buckets: a rate-limited event may pass or not.  What detection *)
(* makes of an event it was given is DetectionWindows' business: here it   *)
(* may or may not become evidence of an alert.                             *)
(***************************************************************************)
EXTENDS EdgePolicies, Sequences, FiniteSets

CONSTANTS Clients,   \* ingest requests
          Feeds,     \* simulator goroutines and tailed files
          RawDepth,  \* capacity of the raw channel (8192 in the code)
          RateSlots, \* slots of the rate window (60 in the code)
          NoEvent,   \* nothing in hand
          BatchSize, \* bound: items of an ingest request
          MaxFed,    \* bound: events read by all feeds
          Expiries   \* expiry times policies are installed with

ASSUME ProducersAssumption == Clients \cap Feeds = {} /\ RawDepth \in Nat \ {0}
ASSUME RateAssumption == RateSlots \in Nat \ {0}
ASSUME BoundsAssumption == BatchSize \in Nat /\ MaxFed \in Nat
ASSUME ExpiriesAssumption == Expiries \subseteq Int \cup {Never}

Event == [by : Clients \cup Feeds, n : Nat, ip : Sources]

ASSUME NoEventAssumption == NoEvent \notin Event

VARIABLES raw,        \* the raw channel
          left,       \* per ingest request: items it has still to offer
          accepted,   \* history: events sent to the channel, in order
          held,       \* per feed: the event it is blocked on, or NoEvent
          fed,        \* events read by feeds so far
          step,       \* the pipeline goroutine: at its "select", about to "eval",
                      \* "detect" or "log", or "stopped"
          cur,        \* the event it has in hand, or NoEvent
          processed,  \* history: events that went all the way to the request log
          evidence,   \* events that are evidence of an alert
          cancelled,  \* Pipeline.Stop was called
          events,     \* the counter of events taken
          rate,       \* the rate window: slot in use, last second, counts
          shielded    \* history: accepted events whose address was denied without a
                      \* break from some moment before the edge saw them

meter == <<events, rate>>
inputs == <<raw, left, accepted, held, fed>>
vars == <<now, policies, inputs, step, cur, processed, evidence, cancelled, meter, shielded>>

Elements(s) == {s[i] : i \in 1 .. Len(s)}

Slots == 0 .. RateSlots - 1

TypeOK ==
    /\ ClockTypeOK /\ PoliciesTypeOK
    /\ raw \in Seq(Event) /\ Len(raw) <= RawDepth
    /\ left \in [Clients -> Nat]
    /\ accepted \in Seq(Event)
    /\ held \in [Feeds -> Event \cup {NoEvent}]
    /\ fed \in Nat
    /\ step \in {"select", "eval", "detect", "log", "stopped"}
    /\ cur \in Event \cup {NoEvent}
    /\ processed \in Seq(Event)
    /\ evidence \in SUBSET Event
    /\ cancelled \in BOOLEAN
    /\ events \in Nat
    /\ rate \in [idx : Slots, last : Nat \cup {Never}, vals : [Slots -> Nat]]
    /\ shielded \in SUBSET Event

Init ==
    /\ ClockInit /\ PoliciesInit
    /\ raw = <<>>
    /\ left \in [Clients -> 0 .. BatchSize]
    /\ accepted = <<>>
    /\ held = [f \in Feeds |-> NoEvent]
    /\ fed = 0
    /\ step = "select"
    /\ cur = NoEvent
    /\ processed = <<>>
    /\ evidence = {}
    /\ cancelled = FALSE
    /\ events = 0
    /\ rate = [idx |-> 0, last |-> Never, vals |-> [i \in Slots |-> 0]]
    /\ shielded = {}

-----------------------------------------------------------------------------
(* Producers.                                                              *)

HasRoom == Len(raw) < RawDepth

Denied(ip) == Matches("deny", ip) # {}

Send(ev) ==
    /\ raw' = Append(raw, ev)
    /\ accepted' = Append(accepted, ev)
    /\ shielded' = IF Denied(ev.ip) THEN shielded \cup {ev} ELSE shielded

restOfSystem == <<now, policies, step, cur, processed, evidence, cancelled, meter>>

\* Mutant of Offer: the handler waits for room in the channel.
OfferBlocking(c, ip) ==
    /\ left[c] > 0
    /\ HasRoom
    /\ left' = [left EXCEPT ![c] = @ - 1]
    /\ Send([by |-> c, n |-> left[c], ip |-> ip])
    /\ UNCHANGED <<held, fed, restOfSystem>>

\* The next item of an ingest request: sent, or dropped if there is no room.
Offer(c, ip) ==
    /\ left[c] > 0
    /\ left' = [left EXCEPT ![c] = @ - 1]
    /\ IF HasRoom THEN Send([by |-> c, n |-> left[c], ip |-> ip])
                  ELSE UNCHANGED <<raw, accepted, shielded>>
    /\ UNCHANGED <<held, fed, restOfSystem>>

\* A feed reads an event and blocks on the channel until it is sent.
Read(f, ip) ==
    /\ held[f] = NoEvent
    /\ fed < MaxFed
    /\ fed' = fed + 1
    /\ held' = [held EXCEPT ![f] = [by |-> f, n |-> fed', ip |-> ip]]
    /\ UNCHANGED <<raw, left, accepted, shielded, restOfSystem>>

Emit(f) ==
    /\ held[f] # NoEvent
    /\ HasRoom
    /\ Send(held[f])
    /\ held' = [held EXCEPT ![f] = NoEvent]
    /\ UNCHANGED <<left, fed, restOfSystem>>

-----------------------------------------------------------------------------
(* The pipeline goroutine.                                                 *)

\* rateWindow.add: the first event of another second moves on by one slot, however
\* long the pipeline was idle, and goes on counting where that slot stood.
Add(r, t) ==
    LET idx == IF r.last \in {Never, t} THEN r.idx ELSE (r.idx + 1) % RateSlots
    IN [idx |-> idx, last |-> t, vals |-> [r.vals EXCEPT ![idx] = @ + 1]]

\* With the context cancelled and events waiting, select takes either branch.
Take ==
    /\ step = "select"
    /\ raw # <<>>
    /\ cur' = Head(raw)
    /\ raw' = Tail(raw)
    /\ step' = "eval"
    /\ events' = events + 1
    /\ rate' = Add(rate, now)
    /\ UNCHANGED <<now, policies, left, accepted, held, fed, processed, evidence, cancelled, shielded>>

Return ==
    /\ step = "select"
    /\ cancelled
    /\ step' = "stopped"
    /\ UNCHANGED <<now, policies, inputs, cur, processed, evidence, cancelled, meter, shielded>>

\* Mutants of Eval: a blocked event is dropped on the spot; the edge is asked after
\* detection, for the log only.
EvalDropsBlocked ==
    /\ step = "eval"
    /\ \E attack \in BOOLEAN :
          IF Verdict(cur.ip, attack) = "pass" THEN step' = "detect" /\ cur' = cur
                                              ELSE step' = "select" /\ cur' = NoEvent
    /\ UNCHANGED <<now, policies, inputs, processed, evidence, cancelled, meter, shielded>>

EvalTooLate ==
    /\ step = "eval"
    /\ step' = "detect"
    /\ UNCHANGED <<now, policies, inputs, cur, processed, evidence, cancelled, meter, shielded>>

\* A blocked event skips detection.
Eval ==
    /\ step = "eval"
    /\ \E attack \in BOOLEAN :
          step' \in CASE Verdict(cur.ip, attack) = "pass" -> {"detect"}
                      [] Verdict(cur.ip, attack) = "rate_limit" -> {"detect", "log"}
                      [] OTHER -> {"log"}
    /\ UNCHANGED <<now, policies, inputs, cur, processed, evidence, cancelled, meter, shielded>>

\* Detection may make the event evidence of an alert, now: the store already shows
\* it when the request log does not hold it yet.
Detect ==
    /\ step = "detect"
    /\ evidence' \in {evidence, evidence \cup {cur}}
    /\ step' = "log"
    /\ UNCHANGED <<now, policies, inputs, cur, processed, cancelled, meter, shielded>>

\* Mutant of Log: a cancelled pipeline drops the event it has in hand.
LogUnlessCancelled ==
    /\ step = "log"
    /\ processed' = IF cancelled THEN processed ELSE Append(processed, cur)
    /\ cur' = NoEvent
    /\ step' = "select"
    /\ UNCHANGED <<now, policies, inputs, evidence, cancelled, meter, shielded>>

\* Ring.Append and Hub.Publish (RequestRing, RequestHub), blocked events included.
Log ==
    /\ step = "log"
    /\ processed' = Append(processed, cur)
    /\ cur' = NoEvent
    /\ step' = "select"
    /\ UNCHANGED <<now, policies, inputs, evidence, cancelled, meter, shielded>>

-----------------------------------------------------------------------------
(* Operators, time, shutdown.                                              *)

\* Events not yet evaluated whose address is not denied any more lose the shield.
Unevaluated == Elements(raw) \cup (IF step = "eval" THEN {cur} ELSE {})

KeepShield ==
    shielded' = {e \in shielded \cup Unevaluated :
                    e \in Unevaluated => Denied(e.ip)'}

Contain(s, policy) ==
    /\ Install(s, policy)
    /\ UNCHANGED <<now, inputs, step, cur, processed, evidence, cancelled, meter>>
    /\ KeepShield

Release(s) ==
    /\ Remove(s)
    /\ UNCHANGED <<now, inputs, step, cur, processed, evidence, cancelled, meter>>
    /\ KeepShield

Tick ==
    /\ Advance
    /\ UNCHANGED <<policies, inputs, step, cur, processed, evidence, cancelled, meter>>
    /\ KeepShield

Stop == cancelled' = TRUE /\ UNCHANGED <<now, policies, inputs, step, cur, processed, evidence, meter, shielded>>

Goroutine == Take \/ Return \/ Eval \/ Detect \/ Log

Next ==
    \/ \E c \in Clients, ip \in Sources : Offer(c, ip)
    \/ \E f \in Feeds : Emit(f) \/ \E ip \in Sources : Read(f, ip)
    \/ Goroutine
    \/ \E s \in SourceIds :
          \/ Release(s)
          \/ \E k \in Kinds, t \in Sources, e \in Expiries :
                Contain(s, [kind |-> k, target |-> t, expires |-> e])
    \/ Tick
    \/ Stop

\* The pipeline goroutine and the ingest handlers run on; producers, operators and
\* the process owe nothing.
Fairness ==
    /\ WF_vars(Goroutine)
    /\ \A c \in Clients : WF_vars(\E ip \in Sources : Offer(c, ip))

Spec == Init /\ [][Next]_vars /\ Fairness

-----------------------------------------------------------------------------
\* What was accepted is processed once and in order, or waits: no event is lost,
\* doubled or overtaken between the channel and the request log, whatever is
\* contained or shut down meanwhile.
InHand == IF cur = NoEvent THEN <<>> ELSE <<cur>>

AcceptedAccounted == accepted = processed \o InHand \o raw

\* "Enforced on the live pipeline before detection": an event is never evidence
\* if its address was denied from before the edge saw it, queued or not, however
\* the policies changed before and after.
ContainedNotDetected == evidence \cap shielded = {}

\* Evidence of an alert is in the request log, or is the event in hand: at no other
\* time can an alert name an event the log has never held (Process before Append).
EvidenceIsLogged == evidence \subseteq Elements(processed) \cup {cur}

\* What rateWindow.avg sums, as a set: every slot's counts, one element each.
Counts(r) == UNION {{i} \X (1 .. r.vals[i]) : i \in Slots}

\* The window behind events_per_sec has one slot for each of the last RateSlots seconds
\* (newRateWindow(60), rateWindow): when no event came for as long as that, the rate is
\* zero.  The code does not keep this.
IdleRateIsZero == rate.last # Never /\ now - rate.last >= RateSlots => Counts(rate) = {}

\* An ingest request is answered though the pipeline has stopped or is slow.
IngestAnswers == \A c \in Clients : left[c] > 0 ~> left[c] = 0

\* As many events as were accepted reach the request log, unless the process is
\* shut down.
MaxAccepted == Cardinality(Clients) * BatchSize + MaxFed

AcceptedIsLogged ==
    \A i \in 1 .. MaxAccepted : Len(accepted) >= i ~> (Len(processed) >= i \/ cancelled)
=============================================================================
