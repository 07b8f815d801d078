---------------------------- MODULE RequestPages ----------------------------
(***************************************************************************)
(* Reading the request log page by page (handlers.go ListRequests over     *)
(* Ring.Recent), newest page first, while events keep arriving.  A log is  *)
(* a sequence of events here, oldest first; RequestLog and RequestRing     *)
(* each have theirs.  The client is external: the console pages by asking  *)
(* for what lies behind the events it was given.                           *)
(***************************************************************************)
EXTENDS Integers, Sequences, FiniteSets

CONSTANTS Capacity,  \* how many events the log holds (4096 in the code)
          Assets,    \* assets events come from
          AnyAsset,  \* the empty asset filter
          MaxPage,   \* the largest page ListRequests serves (500 in the code)
          Limits,    \* page sizes a client may ask for; none or negative: no limit
          MaxEvents  \* bound: events in a behaviour

ASSUME CapacityAssumption == Capacity \in Nat \ {0} /\ MaxPage \in Nat \ {0}
ASSUME LimitsAssumption == Limits \subseteq Int
ASSUME AnyAssetAssumption == AnyAsset \notin Assets

Event == [n : Nat, asset : Assets]

VARIABLES arrived,  \* number of events that ever arrived
          client    \* a client's paging: its filter, its page size, how far back it
                    \* has read (the next offset), what it has seen, and the number
                    \* of events that had arrived when it started

Paging == [asset : Assets \cup {AnyAsset}, limit : Limits, offset : Nat,
           seen : SUBSET Event, start : Nat]

PagesTypeOK ==
    /\ arrived \in Nat
    /\ client \in Paging

-----------------------------------------------------------------------------
LastOf(s, n) == IF Len(s) > n THEN SubSeq(s, Len(s) - n + 1, Len(s)) ELSE s

Wanted(asset, e) == asset \in {AnyAsset, e.asset}

\* How many of the wanted events are newer than the one at position i.
Newer(s, asset, i) == Cardinality({j \in i + 1 .. Len(s) : Wanted(asset, s[j])})

\* The slices of Ring.Recent as positions of the log: of the wanted events the
\* newest `offset' are skipped, and of the others the newest `limit' are returned.
Page(s, asset, limit, offset) ==
    {i \in 1 .. Len(s) : /\ Wanted(asset, s[i])
                         /\ Newer(s, asset, i) >= offset
                         /\ limit > 0 => Newer(s, asset, i) < offset + limit}

\* Ring.Recent filters the snapshot event by event.
Filtered(s, asset) ==
    LET upTo[i \in 0 .. Len(s)] ==
            IF i = 0 THEN <<>>
            ELSE IF Wanted(asset, s[i]) THEN Append(upTo[i - 1], s[i]) ELSE upTo[i - 1]
    IN upTo[Len(s)]

\* Ring.Recent as it is written, one slice after the other: the reference that
\* Page is compared with (MCEvents, EventProofs).
Recent(s, asset, limit, offset) ==
    LET all == Filtered(s, asset)
        rest == SubSeq(all, 1, Len(all) - (IF offset > Len(all) THEN Len(all) ELSE offset))
    IN IF limit > 0 THEN LastOf(rest, limit) ELSE rest

\* The list q goes through these positions of s, all of them and in their order.
Lists(q, s, positions) ==
    \E at \in [1 .. Len(q) -> positions] :
        /\ \A k \in 1 .. Len(q) : q[k] = s[at[k]]
        /\ \A k, l \in 1 .. Len(q) : k < l => at[k] < at[l]
        /\ \A i \in positions : \E k \in 1 .. Len(q) : at[k] = i

\* ListRequests caps the limit.
PageLimit(limit) == IF limit > MaxPage THEN MaxPage ELSE limit

-----------------------------------------------------------------------------
StartPaging(asset, limit) ==
    [asset |-> asset, limit |-> limit, offset |-> 0, seen |-> {}, start |-> arrived]

PagesInit ==
    /\ arrived = 0
    /\ client \in {StartPaging(asset, limit) : asset \in Assets \cup {AnyAsset}, limit \in Limits}

NewEvent(asset) == [n |-> arrived + 1, asset |-> asset]

\* Mutant of ReadPage: the client moves on by what it asked for.
ReadPageAsked(s) ==
    LET page == Page(s, client.asset, PageLimit(client.limit), client.offset)
    IN /\ page # {}
       /\ client' = [client EXCEPT !.offset = @ + client.limit, !.seen = @ \cup {s[i] : i \in page}]
       /\ UNCHANGED arrived

\* The client asks for the next page and moves on by what it was given.
ReadPage(s) ==
    LET page == Page(s, client.asset, PageLimit(client.limit), client.offset)
    IN /\ page # {}
       /\ client' = [client EXCEPT !.offset = @ + Cardinality(page),
                                   !.seen = @ \cup {s[i] : i \in page}]
       /\ UNCHANGED arrived

Restart(asset, limit) == client' = StartPaging(asset, limit) /\ UNCHANGED arrived

-----------------------------------------------------------------------------
\* Paging skips nothing: an event that had arrived when the client started, that
\* its filter wants and that is still held is either seen or further back than the
\* next offset.  Events that arrive meanwhile make the client see some twice.
SkippedNothing(s) ==
    \A i \in 1 .. Len(s) :
        Wanted(client.asset, s[i]) /\ s[i].n <= client.start =>
            s[i] \in client.seen \/ Newer(s, client.asset, i) >= client.offset
=============================================================================
