------------------------------ MODULE MCEvents ------------------------------
(* The three components that keep what becomes of an event share no state,   *)
(* so one instance serves them all: a behaviour is about one of them, and    *)
(* the others are at rest.                                                   *)
(*   ring:    three slots written more than once over by two assets; pages   *)
(*            of one event, of two (the largest page served) and "no limit"  *)
(*   hub:     two streams with channels of two events, and four events: a    *)
(*            channel can fill up, lose events and fill up again             *)
(*   windows: two rules of different length, threshold and diversity over    *)
(*            two keys: one that needs two events, one that needs two events *)
(*            on different items                                             *)
EXTENDS RequestRing, RequestHub, DetectionWindows, TLC

CONSTANTS u, v, s1, s2, volume, spread, k1, k2, i1, i2

VARIABLE part  \* the component the behaviour is about

MCLimits == {0, 1, 5}

MCWindow == (volume :> 1) @@ (spread :> 2)
MCThreshold == (volume :> 2) @@ (spread :> 2)
MCDiversity == (volume :> 1) @@ (spread :> 2)

Logs == UNION {{[i \in 1 .. n |-> [n |-> i, asset |-> a[i]]] : a \in [1 .. n -> Assets]} : n \in 0 .. Capacity}

\* The page the model counts off is the page the slices of Ring.Recent cut out,
\* for every log the ring can hold, the offsets past its end among them.
ASSUME PageIsRecent ==
    \A s \in Logs, asset \in Assets \cup {AnyAsset}, limit \in -1 .. Capacity + 1, offset \in 0 .. Capacity + 1 :
        Lists(Recent(s, asset, limit, offset), s, Page(s, asset, limit, offset))

EventsInit ==
    /\ Init /\ HubInit /\ WindowsInit
    /\ part \in {"ring", "hub", "windows"}
    /\ part # "ring" => client = StartPaging(AnyAsset, 0)

EventsNext ==
    \/ part = "ring" /\ Next /\ UNCHANGED <<hubVars, windowVars, part>>
    \/ part = "hub" /\ HubNext /\ UNCHANGED <<vars, windowVars, part>>
    \/ part = "windows" /\ WindowsNext /\ UNCHANGED <<vars, hubVars, part>>

EventsSpec == EventsInit /\ [][EventsNext]_<<vars, hubVars, windowVars, part>> /\ HubFairness
=============================================================================
