----------------------------- MODULE RequestLog -----------------------------
(***************************************************************************)
(* What the request log promises: the last Capacity events, in the order   *)
(* they arrived.                                                           *)
(***************************************************************************)
EXTENDS RequestPages

VARIABLE log  \* the events held, oldest first

vars == <<log, arrived, client>>

Init == log = <<>> /\ PagesInit

Log(asset) ==
    /\ arrived < MaxEvents
    /\ arrived' = arrived + 1
    /\ log' = LastOf(Append(log, NewEvent(asset)), Capacity)
    /\ UNCHANGED client

Next ==
    \/ \E asset \in Assets : Log(asset)
    \/ ReadPage(log) /\ UNCHANGED log
    \/ \E asset \in Assets \cup {AnyAsset}, limit \in Limits : Restart(asset, limit) /\ UNCHANGED log

Spec == Init /\ [][Next]_vars
=============================================================================
