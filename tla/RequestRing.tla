---------------------------- MODULE RequestRing ----------------------------
(***************************************************************************)
(* requests/requests.go Ring: the request log as a buffer written round    *)
(* and round.  Append runs under the write lock and Snapshot under the     *)
(* read lock, so each is one step; Recent works on the copy.               *)
(***************************************************************************)
EXTENDS RequestPages

CONSTANT NoEvent  \* a slot not written yet

ASSUME NoEventAssumption == NoEvent \notin Event

VARIABLES buf,   \* Ring.buf, slots 0 to Capacity - 1
          next,  \* Ring.next, the slot to write
          full   \* Ring.full, every slot has been written

vars == <<buf, next, full, arrived, client>>

Slots == 0 .. Capacity - 1

TypeOK ==
    /\ buf \in [Slots -> Event \cup {NoEvent}]
    /\ next \in Slots
    /\ full \in BOOLEAN
    /\ PagesTypeOK

-----------------------------------------------------------------------------
Init ==
    /\ buf = [i \in Slots |-> NoEvent]
    /\ next = 0
    /\ full = FALSE
    /\ PagesInit

\* Mutants of RingAppend: the ring is never full; the slot does not wrap around.
RingAppendNeverFull(asset) ==
    /\ arrived < MaxEvents
    /\ arrived' = arrived + 1
    /\ buf' = [buf EXCEPT ![next] = NewEvent(asset)]
    /\ next' = (next + 1) % Capacity
    /\ UNCHANGED <<full, client>>

RingAppendPastEnd(asset) ==
    /\ arrived < MaxEvents
    /\ arrived' = arrived + 1
    /\ buf' = [buf EXCEPT ![next] = NewEvent(asset)]
    /\ next' = next + 1
    /\ full' = (full \/ next' = 0)
    /\ UNCHANGED client

RingAppend(asset) ==
    /\ arrived < MaxEvents
    /\ arrived' = arrived + 1
    /\ buf' = [buf EXCEPT ![next] = NewEvent(asset)]
    /\ next' = (next + 1) % Capacity
    /\ full' = (full \/ next' = 0)
    /\ UNCHANGED client

Held == IF full THEN Capacity ELSE next

Snapshot ==
    LET start == IF full THEN next ELSE 0
    IN [i \in 1 .. Held |-> buf[(start + i - 1) % Capacity]]

ListRequests == ReadPage(Snapshot) /\ UNCHANGED <<buf, next, full>>

Next ==
    \/ \E asset \in Assets : RingAppend(asset)
    \/ ListRequests
    \/ \E asset \in Assets \cup {AnyAsset}, limit \in Limits :
          Restart(asset, limit) /\ UNCHANGED <<buf, next, full>>

Spec == Init /\ [][Next]_vars
-----------------------------------------------------------------------------
\* The ring is the log: whatever wraps around, a snapshot is the last events in
\* the order they arrived (Ring.Append, Ring.Snapshot).
Log == INSTANCE RequestLog WITH log <- Snapshot

RingIsLog == Log!Spec

\* Nothing is skipped by a client paging through the ring (Ring.Recent).
PagesSkipNothing == SkippedNothing(Snapshot)
=============================================================================
