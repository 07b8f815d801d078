----------------------------- MODULE RequestHub -----------------------------
(***************************************************************************)
(* requests/requests.go Hub with its two sides: the pipeline goroutine     *)
(* that publishes, and the stream handlers (handlers.go StreamRequests)    *)
(* that subscribe, receive and leave.  Publish holds the hub's lock over   *)
(* all its subscribers; receiving from a channel needs no lock, so it can  *)
(* happen between any two attempts of Publish.                             *)
(***************************************************************************)
EXTENDS Naturals, Sequences

CONSTANTS Streams,       \* stream requests
          NoStream,      \* nobody
          Depth,         \* capacity of a subscriber's channel (128 in the code)
          MaxPublished   \* bound: events published in a behaviour

ASSUME DepthAssumption == Depth \in Nat \ {0}
ASSUME NoStreamAssumption == NoStream \notin Streams

VARIABLES state,      \* of a stream: "new", "subscribed", "left", or "cut" off by Publish
          channel,    \* of a stream: the numbers of the events waiting in its channel
          received,   \* history: the events it has taken from the channel
          since,      \* history: how many events were published before it subscribed
          dropped,    \* history: how many events Publish has thrown away for it
          published,  \* number of events published
          todo,       \* subscribers the running Publish has still to serve
          serving,    \* the one among them whose channel was found full, or NoStream
          drained     \* has Publish made room in that channel?

streamVars == <<state, channel, received, since, dropped>>
publishVars == <<published, todo, serving, drained>>
hubVars == <<streamVars, publishVars>>

HubTypeOK ==
    /\ state \in [Streams -> {"new", "subscribed", "left", "cut"}]
    /\ channel \in [Streams -> Seq(Nat)]
    /\ received \in [Streams -> Seq(Nat)]
    /\ since \in [Streams -> Nat]
    /\ dropped \in [Streams -> Nat]
    /\ published \in Nat
    /\ todo \in SUBSET Streams
    /\ serving \in Streams \cup {NoStream}
    /\ drained \in BOOLEAN

Locked == todo # {}
HasRoom(s) == Len(channel[s]) < Depth

-----------------------------------------------------------------------------
HubInit ==
    /\ state = [s \in Streams |-> "new"]
    /\ channel = [s \in Streams |-> <<>>]
    /\ received = [s \in Streams |-> <<>>]
    /\ since = [s \in Streams |-> 0]
    /\ dropped = [s \in Streams |-> 0]
    /\ published = 0
    /\ todo = {}
    /\ serving = NoStream
    /\ drained = FALSE

Subscribe(s) ==
    /\ ~Locked
    /\ state[s] = "new"
    /\ state' = [state EXCEPT ![s] = "subscribed"]
    /\ since' = [since EXCEPT ![s] = published]
    /\ UNCHANGED <<channel, received, dropped, publishVars>>

\* The client is gone: the handler returns and its deferred close unsubscribes.
Leave(s) ==
    /\ ~Locked
    /\ state[s] = "subscribed"
    /\ state' = [state EXCEPT ![s] = "left"]
    /\ UNCHANGED <<channel, received, since, dropped, publishVars>>

Receive(s) ==
    /\ state[s] = "subscribed"
    /\ channel[s] # <<>>
    /\ received' = [received EXCEPT ![s] = Append(@, Head(channel[s]))]
    /\ channel' = [channel EXCEPT ![s] = Tail(@)]
    /\ UNCHANGED <<state, since, dropped, publishVars>>

Publish ==
    /\ ~Locked
    /\ published < MaxPublished
    /\ published' = published + 1
    /\ todo' = {s \in Streams : state[s] = "subscribed"}
    /\ UNCHANGED <<streamVars, serving, drained>>

Served(s) == todo' = todo \ {s} /\ serving' = NoStream /\ drained' = FALSE

\* Mutant of Send: the event goes in front of those waiting.
SendFirst(s) == channel' = [channel EXCEPT ![s] = <<published>> \o @]

Send(s) == channel' = [channel EXCEPT ![s] = Append(@, published)]

\* Mutant of Offer: a full channel makes Publish drop the event it has.
OfferOrDrop(s) ==
    /\ s \in todo /\ serving = NoStream
    /\ IF HasRoom(s) THEN Send(s) /\ UNCHANGED dropped
                     ELSE dropped' = [dropped EXCEPT ![s] = @ + 1] /\ UNCHANGED channel
    /\ Served(s)
    /\ UNCHANGED <<state, received, since, published>>

\* The first select of Publish, on the subscribers in any order.
Offer(s) ==
    /\ s \in todo /\ serving = NoStream
    /\ IF HasRoom(s) THEN Send(s) /\ Served(s)
                     ELSE serving' = s /\ UNCHANGED <<channel, todo, drained>>
    /\ UNCHANGED <<state, received, since, dropped, published>>

\* Mutants of DropOldest: nothing is dropped; it waits until the channel is empty.
DropNothing ==
    /\ serving # NoStream /\ ~drained
    /\ drained' = TRUE
    /\ UNCHANGED <<streamVars, published, todo, serving>>

AwaitReader ==
    /\ serving # NoStream /\ ~drained
    /\ channel[serving] = <<>>
    /\ drained' = TRUE
    /\ UNCHANGED <<streamVars, published, todo, serving>>

\* The second: the oldest waiting event goes, unless the reader has just emptied
\* the channel.
DropOldest ==
    /\ serving # NoStream /\ ~drained
    /\ IF channel[serving] # <<>>
       THEN /\ channel' = [channel EXCEPT ![serving] = Tail(@)]
            /\ dropped' = [dropped EXCEPT ![serving] = @ + 1]
       ELSE UNCHANGED <<channel, dropped>>
    /\ drained' = TRUE
    /\ UNCHANGED <<state, received, since, published, todo, serving>>

\* The third: if the channel is full again the subscriber is cut off.
OfferAgain ==
    /\ serving # NoStream /\ drained
    /\ IF HasRoom(serving)
       THEN Send(serving) /\ UNCHANGED state
       ELSE state' = [state EXCEPT ![serving] = "cut"] /\ UNCHANGED channel
    /\ Served(serving)
    /\ UNCHANGED <<received, since, dropped, published>>

PublishStep == (\E s \in Streams : Offer(s)) \/ DropOldest \/ OfferAgain

HubNext ==
    \/ \E s \in Streams : Subscribe(s) \/ Leave(s) \/ Receive(s)
    \/ Publish
    \/ PublishStep

\* A running Publish goes on; readers and clients owe nothing.
HubFairness == WF_hubVars(PublishStep)

HubSpec == HubInit /\ [][HubNext]_hubVars /\ HubFairness

-----------------------------------------------------------------------------
Stream(s) == received[s] \o channel[s]

\* The cut-off branch of Publish is never taken: with one publisher at a time the
\* room made by dropping an event is still there.  StreamRequests relies on it: it
\* would take a closed channel for an endless run of empty events.
NobodyIsCutOff == \A s \in Streams : state[s] # "cut"

\* Between two Publish calls a subscriber has the newest event, or has it
\* waiting: what a slow reader loses is old (the order of Publish's branches).
HasNewest ==
    ~Locked => \A s \in Streams : state[s] = "subscribed" /\ published > since[s] =>
                   Stream(s) # <<>> /\ Stream(s)[Len(Stream(s))] = published

\* A stream shows events of its own time, in order, none twice, and every event
\* since the subscription was received, is waiting, or was dropped to make room: a
\* reader that never lets its channel fill up misses nothing.
StreamFaithful ==
    \A s \in Streams :
        /\ \A i \in 1 .. Len(Stream(s)) :
              /\ Stream(s)[i] > (IF i = 1 THEN since[s] ELSE Stream(s)[i - 1])
              /\ Stream(s)[i] <= published
        /\ state[s] = "subscribed" =>
              published - since[s] = Len(Stream(s)) + dropped[s] + (IF s \in todo THEN 1 ELSE 0)

\* No reader can hold up the pipeline: Publish ends though nobody receives.
PublishReturns == Locked ~> ~Locked
=============================================================================
