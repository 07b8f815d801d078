----------------------------- MODULE AlertModel -----------------------------
(***************************************************************************)
(* One alert, and what alerts/service.go computes on it.  The operators    *)
(* are pure: each maps the record a handler read to the record it goes on  *)
(* to store.  How reading and storing interleave is the business of the    *)
(* modules that use them (AlertTriage, PostgresTriage).                    *)
(*                                                                         *)
(* Abstractions of the Alert struct.  `key' is the pair (RuleID, RuleKey)  *)
(* FindOpen searches by.  `resolution' also stands for ResolvedAt and      *)
(* `assignee' for AssignedAt: the code sets each pair together.            *)
(* `responded' says whether RespondedAt is set.  `trail' is Actions: an    *)
(* entry carries the identity of the request that wrote it (its actor and  *)
(* time) besides action, from and to.  `evidence' is EventIDs, one number  *)
(* per detection batch in place of the batch's event IDs; LastSeenAt is    *)
(* the time of its last batch.  Titles, severities, counters, geo data and *)
(* the Extra map decide nothing here and are left out.                     *)
(***************************************************************************)
EXTENDS Naturals, Sequences

CONSTANTS Keys,         \* detection keys: pairs of a rule and a rule key
          Analysts,     \* people an alert can be assigned to
          Nobody,       \* the empty assignee
          EvidenceCap   \* how many batches EventIDs holds (200 IDs in the code)

ASSUME NobodyAssumption == Nobody \notin Analysts
ASSUME EvidenceCapAssumption == EvidenceCap \in Nat \ {0}

Statuses == {"OPEN", "ASSIGNED", "IN_PROGRESS", "RESOLVED"}

IsActive(status) == status # "RESOLVED"

\* What the operator's console may ask for.  A status or an action outside
\* the vocabulary is refused by the default branches, as "RESOLVED" and
\* "unassign" below are.
Requests ==
    [verb : {"assign"}, arg : Analysts]
    \cup [verb : {"status"}, arg : Statuses]
    \cup [verb : {"action"}, arg : {"acknowledge", "mitigate", "false_positive",
                                    "comment", "unassign"}]

Resolutions == {"none", "mitigated", "false_positive", "no_action"}

Acknowledging == {"acknowledge"}  \* also investigate, respond, block_ip, whitelist
Resolving == {"mitigate", "false_positive"}  \* mitigate also stands for resolve

Entry(Ops) == [op : Ops, act : {"assign", "start"} \cup Acknowledging \cup Resolving \cup {"comment"},
               from : Statuses, to : Statuses]

Alert(Ops) == [key : Keys, status : Statuses, assignee : Analysts \cup {Nobody},
               responded : BOOLEAN, resolution : Resolutions,
               trail : Seq(Entry(Ops)), evidence : Seq(Nat)]

-----------------------------------------------------------------------------
(* Detection hits.                                                         *)

NewAlert(key, batch) ==
    [key |-> key, status |-> "OPEN", assignee |-> Nobody, responded |-> FALSE,
     resolution |-> "none", trail |-> <<>>, evidence |-> <<batch>>]

\* Mutant of Capped: the oldest events are kept, the new ones dropped.
CappedKeepsOldest(s) == IF Len(s) > EvidenceCap THEN SubSeq(s, 1, EvidenceCap) ELSE s

\* The code keeps the last 200 event IDs.
Capped(s) ==
    IF Len(s) > EvidenceCap THEN SubSeq(s, Len(s) - EvidenceCap + 1, Len(s)) ELSE s

Merge(a, batch) == [a EXCEPT !.evidence = Capped(Append(@, batch))]

-----------------------------------------------------------------------------
(* Requests of the console: what is refused, and what an accepted request  *)
(* makes of the alert.                                                     *)

\* Mutant of Refused: a resolved alert is not refused.
RefusedButResolved(a, req) ==
    \/ req.verb = "status" /\ req.arg = "RESOLVED"
    \/ req.verb = "status" /\ req.arg = "ASSIGNED" /\ a.assignee = Nobody
    \/ req.verb = "action" /\ req.arg = "unassign"

Refused(a, req) ==
    \/ req.verb \in {"assign", "status"} /\ ~IsActive(a.status)
    \/ req.verb = "status" /\ req.arg = "RESOLVED"
    \/ req.verb = "status" /\ req.arg = "ASSIGNED" /\ a.assignee = Nobody
    \/ req.verb = "action" /\ req.arg = "unassign"

AppendAction(a, op, act, from) ==
    [a EXCEPT !.trail = Append(@, [op |-> op, act |-> act, from |-> from, to |-> a.status])]

Assign(a, op, assignee) ==
    AppendAction([a EXCEPT !.assignee = assignee,
                           !.status = IF @ = "OPEN" THEN "ASSIGNED" ELSE @],
                 op, "assign", a.status)

SetStatus(a, op, status) ==
    AppendAction([a EXCEPT !.status = status], op, "start", a.status)

\* Mutant of Action: closing an alert does not count as a response.
ActionNoResponse(a, op, act) ==
    LET b == CASE act \in Acknowledging -> [a EXCEPT !.responded = TRUE]
               [] act = "mitigate" -> [a EXCEPT !.status = "RESOLVED", !.resolution = "mitigated"]
               [] act = "false_positive" ->
                      [a EXCEPT !.status = "RESOLVED", !.resolution = "false_positive"]
               [] OTHER -> a
    IN AppendAction(b, op, act, a.status)

Action(a, op, act) ==
    LET b == CASE act \in Acknowledging -> [a EXCEPT !.responded = TRUE]
               [] act = "mitigate" ->
                      [a EXCEPT !.status = "RESOLVED", !.resolution = "mitigated", !.responded = TRUE]
               [] act = "false_positive" ->
                      [a EXCEPT !.status = "RESOLVED", !.resolution = "false_positive", !.responded = TRUE]
               [] OTHER -> a
    IN AppendAction(b, op, act, a.status)

Apply(a, op, req) ==
    CASE req.verb = "assign" -> Assign(a, op, req.arg)
      [] req.verb = "status" -> SetStatus(a, op, req.arg)
      [] OTHER -> Action(a, op, req.arg)

-----------------------------------------------------------------------------
(* What one alert record must tell about itself, whoever wrote it.         *)

\* Each transition in the trail starts where the one before it ended, the
\* first one at OPEN, and none leaves RESOLVED.
ChainedTrail(t) ==
    /\ \A i \in 1 .. Len(t) : t[i].from = IF i = 1 THEN "OPEN" ELSE t[i - 1].to
    /\ \A i \in 1 .. Len(t) : ~IsActive(t[i].from) => ~IsActive(t[i].to)

\* The status is the one the trail leads to.
TrailStatus(t) == IF t = <<>> THEN "OPEN" ELSE t[Len(t)].to

Coherent(a) ==
    /\ ChainedTrail(a.trail)
    /\ a.status = TrailStatus(a.trail)
    /\ IsActive(a.status) <=> a.resolution = "none"
    /\ ~IsActive(a.status) => a.responded
    /\ a.status = "ASSIGNED" => a.assignee # Nobody

\* What a step may make of an alert: it keeps its key, is not reopened once it is
\* resolved, stays responded to, and its trail is only appended to.  Which
\* resolution it has may change: Action resolves a resolved alert once more.
LifecycleStep(a, b) ==
    /\ a.key = b.key
    /\ ~IsActive(a.status) => ~IsActive(b.status)
    /\ a.responded => b.responded
    /\ Len(a.trail) <= Len(b.trail)
    /\ \A i \in 1 .. Len(a.trail) : b.trail[i] = a.trail[i]
=============================================================================
