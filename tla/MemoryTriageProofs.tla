------------------------- MODULE MemoryTriageProofs -------------------------
(* What shared records guarantee, for any number of alerts, requests, seeds   *)
(* and batches.                                                               *)
EXTENDS MemoryTriage, AlertModelProofs, SequenceTheorems, FiniteSetTheorems

\* What a request can still have to do, by where it stands.
AtUpdate == <<"update">>
AtLog == <<"log", "update">>
AtTrail == <<"trail", "log", "update">>
AtTo == <<"to", "trail", "log", "update">>
AtAssigned == <<"assigned", "to", "trail", "log", "update">>
AtOpen == <<"open?", "to", "trail", "log", "update">>
AtAssignee == <<"assignee", "open?", "to", "trail", "log", "update">>
AtAssign == <<"from", "assignee", "open?", "to", "trail", "log", "update">>
AtResponded == <<"responded", "to", "trail", "log", "update">>
AtRespond == <<"from", "responded", "to", "trail", "log", "update">>
AtStatus == <<"status", "to", "trail", "log", "update">>
AtStart == <<"from", "status", "to", "trail", "log", "update">>
AtResolution == <<"resolution", "responded", "to", "trail", "log", "update">>
AtResolved == <<"status", "resolution", "responded", "to", "trail", "log", "update">>
AtResolve == <<"from", "status", "resolution", "responded", "to", "trail", "log", "update">>
AtComment == <<"from", "to", "trail", "log", "update">>

Left(req, todo) ==
    \/ todo \in {AtTo, AtTrail, AtLog, AtUpdate}
    \/ req.verb = "assign" /\ todo \in {AtAssign, AtAssignee, AtOpen, AtAssigned}
    \/ req.verb = "status" /\ todo \in {AtStart, AtStatus}
    \/ req.verb = "action" /\ \/ /\ req.arg \in Acknowledging
                                 /\ todo \in {AtRespond, AtResponded}
                              \/ /\ req.arg \in Resolving
                                 /\ todo \in {AtResolve, AtResolved, AtResolution, AtResponded}
                              \/ req.arg \notin Acknowledging \cup Resolving /\ todo = AtComment

Pending(todo) == {todo[i] : i \in 1 .. Len(todo)}

\* How far a request that has its alert to itself has got: what it has written is
\* what the atomic service would have made of the alert it found, and all else is
\* as it found it.
Partial(a, c, op) ==
    LET b == Apply(c.base, op, c.req)
        left == Pending(c.todo)
    IN /\ c.from = c.base.status
       /\ a.key = c.base.key
       /\ a.assignee = IF "assignee" \in left THEN c.base.assignee ELSE b.assignee
       /\ a.status = IF "open?" \in left \/ "assigned" \in left \/ "status" \in left
                      THEN c.base.status ELSE b.status
       /\ "assigned" \in left => c.base.status = "OPEN"
       /\ a.resolution = IF "resolution" \in left THEN c.base.resolution ELSE b.resolution
       /\ a.responded = IF "responded" \in left THEN c.base.responded ELSE b.responded
       /\ a.trail = IF "log" \in left THEN c.base.trail ELSE b.trail
       /\ "to" \notin left => c.to = b.status
       /\ "trail" \notin left => c.seen = c.base.trail

\* An alert at rest: coherent, with one entry of each request answered for it.
Sound(a, id) ==
    /\ Coherent(a)
    /\ \A op \in Ops : Once(a, op) /\ (Carries(a, op) <=> answered[op] = id)

\* As long as no two requests have met on an alert, it is at rest or one request
\* is part of the way from an alert at rest to the next.
Separate(id) ==
    /\ Exists(id) /\ RunningOn(id) = {} => Sound(heap[id], id)
    /\ \A op \in RunningOn(id) : /\ Partial(heap[id], call[op], op)
                                 /\ Sound(call[op].base, id)
                                 /\ RunningOn(id) = {op}

CallsInv ==
    \A op \in Ops : /\ answered[op] # NoAlert => Exists(answered[op])
                    /\ Running(op) => /\ answered[op] = NoAlert
                                      /\ Exists(call[op].id)
                                      /\ ~Refused(call[op].base, call[op].req)
                                      /\ Left(call[op].req, call[op].todo)

HitInv ==
    /\ \A k \in 1 .. Len(created) : Exists(created[k])
    /\ hit # NoHit => ingested > 0
    /\ hit # NoHit => hit.at > 0
    /\ hit # NoHit /\ hit.pc = "merge" => hit.at <= Len(created)

MemoryInv == TypeOK /\ CallsInv /\ HitInv /\ EvidenceKept /\ \A id \in AlertIds \ overlapped : Separate(id)

\* One step of what is left to do.
Shape(todo) ==
    /\ todo \in Seq(Steps) /\ todo # <<>> /\ Tail(todo) \in Seq(Steps)
    /\ Head(todo) \in Pending(todo)
    /\ Pending(Tail(todo)) = Pending(todo) \ {Head(todo)}

\* A list whose first step does not come again has a shape.
LEMMA ShapeLemma ==
    ASSUME NEW todo \in Seq(Steps), todo # <<>>, Head(todo) \notin Pending(Tail(todo))
    PROVE  Shape(todo) /\ Pending(todo) = {Head(todo)} \cup Pending(Tail(todo))
<1> DEFINE n == Len(todo)
           t == Tail(todo)
<1>1. /\ n \in Nat \ {0} /\ t \in Seq(Steps) /\ Len(t) = n - 1
      /\ \A i \in 1 .. n - 1 : t[i] = todo[i + 1]
      /\ Head(todo) = todo[1]
    OBVIOUS
<1> HIDE DEF n, t
<1>2. Pending(todo) = {Head(todo)} \cup Pending(t)
    <2>1. ASSUME NEW x \in Pending(todo) PROVE x \in {Head(todo)} \cup Pending(t)
        <3>1. PICK i \in 1 .. n : todo[i] = x
            BY DEF Pending, n
        <3>2. CASE i = 1
            BY <1>1, <3>1, <3>2
        <3>3. CASE i # 1
            <4>1. i - 1 \in 1 .. n - 1 /\ t[i - 1] = todo[i]
                BY <1>1, <3>1, <3>3
            <4> QED
                BY <1>1, <3>1, <4>1 DEF Pending
        <3> QED
            BY <3>2, <3>3
    <2>2. Head(todo) \in Pending(todo)
        BY <1>1 DEF Pending, n
    <2>3. ASSUME NEW x \in Pending(t) PROVE x \in Pending(todo)
        <3>1. PICK i \in 1 .. n - 1 : t[i] = x
            BY <1>1 DEF Pending
        <3>2. i + 1 \in 1 .. n /\ todo[i + 1] = x
            BY <1>1, <3>1
        <3> QED
            BY <3>2 DEF Pending, n
    <2> QED
        BY <2>1, <2>2, <2>3
<1> QED
    BY <1>1, <1>2 DEF Shape, t

\* What a list of things to do begins with, goes on with and contains.
Lists(todo, next, rest, left) ==
    Shape(todo) /\ Head(todo) = next /\ Tail(todo) = rest /\ Pending(todo) = left

\* A list with one more step in front.
LEMMA Longer ==
    ASSUME NEW todo \in Seq(Steps), todo # <<>>, NEW next, Head(todo) = next, NEW rest, Tail(todo) = rest,
           NEW left, next \notin Pending(rest), {next} \cup Pending(rest) = left
    PROVE  Lists(todo, next, rest, left)
BY ShapeLemma DEF Lists

\* Every list of steps a request can be left with, spelled out.
LEMMA Shapes ==
    /\ Lists(AtUpdate, "update", <<>>, {"update"})
    /\ Lists(AtLog, "log", AtUpdate, {"log", "update"})
    /\ Lists(AtTrail, "trail", AtLog, {"trail", "log", "update"})
    /\ Lists(AtTo, "to", AtTrail, {"to", "trail", "log", "update"})
    /\ Lists(AtAssigned, "assigned", AtTo, {"assigned", "to", "trail", "log", "update"})
    /\ Lists(AtOpen, "open?", AtTo, {"open?", "to", "trail", "log", "update"})
    /\ Lists(AtAssignee, "assignee", AtOpen, {"assignee", "open?", "to", "trail", "log", "update"})
    /\ Lists(AtAssign, "from", AtAssignee, {"from", "assignee", "open?", "to", "trail", "log", "update"})
    /\ Lists(AtResponded, "responded", AtTo, {"responded", "to", "trail", "log", "update"})
    /\ Lists(AtRespond, "from", AtResponded, {"from", "responded", "to", "trail", "log", "update"})
    /\ Lists(AtStatus, "status", AtTo, {"status", "to", "trail", "log", "update"})
    /\ Lists(AtStart, "from", AtStatus, {"from", "status", "to", "trail", "log", "update"})
    /\ Lists(AtResolution, "resolution", AtResponded, {"resolution", "responded", "to", "trail", "log", "update"})
    /\ Lists(AtResolved, "status", AtResolution, {"status", "resolution", "responded", "to", "trail", "log", "update"})
    /\ Lists(AtResolve, "from", AtResolved, {"from", "status", "resolution", "responded", "to", "trail", "log", "update"})
    /\ Lists(AtComment, "from", AtTo, {"from", "to", "trail", "log", "update"})
<1>0. Pending(<<>>) = {}
    BY DEF Pending
<1>1. Lists(AtUpdate, "update", <<>>, {"update"})
    <2>1. AtUpdate \in Seq(Steps) /\ AtUpdate # <<>> /\ Head(AtUpdate) = "update" /\ Tail(AtUpdate) = <<>>
        BY DEF Steps, AtUpdate
    <2>2. "update" \notin Pending(<<>>) /\ {"update"} \cup Pending(<<>>) = {"update"}
        BY <1>0 DEF Lists
    <2> QED
        BY <2>1, <2>2, Longer
<1>2. Lists(AtLog, "log", AtUpdate, {"log", "update"})
    <2>1. AtLog \in Seq(Steps) /\ AtLog # <<>> /\ Head(AtLog) = "log" /\ Tail(AtLog) = AtUpdate
        BY DEF Steps, AtLog, AtUpdate
    <2>2. "log" \notin Pending(AtUpdate) /\ {"log"} \cup Pending(AtUpdate) = {"log", "update"}
        BY <1>1 DEF Lists
    <2> QED
        BY <2>1, <2>2, Longer
<1>3. Lists(AtTrail, "trail", AtLog, {"trail", "log", "update"})
    <2>1. AtTrail \in Seq(Steps) /\ AtTrail # <<>> /\ Head(AtTrail) = "trail" /\ Tail(AtTrail) = AtLog
        BY DEF Steps, AtTrail, AtLog
    <2>2. "trail" \notin Pending(AtLog) /\ {"trail"} \cup Pending(AtLog) = {"trail", "log", "update"}
        BY <1>2 DEF Lists
    <2> QED
        BY <2>1, <2>2, Longer
<1>3a. Lists(AtTo, "to", AtTrail, {"to", "trail", "log", "update"})
    <2>1. AtTo \in Seq(Steps) /\ AtTo # <<>> /\ Head(AtTo) = "to" /\ Tail(AtTo) = AtTrail
        BY DEF Steps, AtTo, AtTrail
    <2>2. "to" \notin Pending(AtTrail) /\ {"to"} \cup Pending(AtTrail) = {"to", "trail", "log", "update"}
        BY <1>3 DEF Lists
    <2> QED
        BY <2>1, <2>2, Longer
<1>4. Lists(AtAssigned, "assigned", AtTo, {"assigned", "to", "trail", "log", "update"})
    <2>1. AtAssigned \in Seq(Steps) /\ AtAssigned # <<>> /\ Head(AtAssigned) = "assigned" /\ Tail(AtAssigned) = AtTo
        BY DEF Steps, AtAssigned, AtTo
    <2>2. "assigned" \notin Pending(AtTo) /\ {"assigned"} \cup Pending(AtTo) = {"assigned", "to", "trail", "log", "update"}
        BY <1>3a DEF Lists
    <2> QED
        BY <2>1, <2>2, Longer
<1>5. Lists(AtOpen, "open?", AtTo, {"open?", "to", "trail", "log", "update"})
    <2>1. AtOpen \in Seq(Steps) /\ AtOpen # <<>> /\ Head(AtOpen) = "open?" /\ Tail(AtOpen) = AtTo
        BY DEF Steps, AtOpen, AtTo
    <2>2. "open?" \notin Pending(AtTo) /\ {"open?"} \cup Pending(AtTo) = {"open?", "to", "trail", "log", "update"}
        BY <1>3a DEF Lists
    <2> QED
        BY <2>1, <2>2, Longer
<1>6. Lists(AtAssignee, "assignee", AtOpen, {"assignee", "open?", "to", "trail", "log", "update"})
    <2>1. AtAssignee \in Seq(Steps) /\ AtAssignee # <<>> /\ Head(AtAssignee) = "assignee" /\ Tail(AtAssignee) = AtOpen
        BY DEF Steps, AtAssignee, AtOpen
    <2>2. "assignee" \notin Pending(AtOpen) /\ {"assignee"} \cup Pending(AtOpen) = {"assignee", "open?", "to", "trail", "log", "update"}
        BY <1>5 DEF Lists
    <2> QED
        BY <2>1, <2>2, Longer
<1>7. Lists(AtAssign, "from", AtAssignee, {"from", "assignee", "open?", "to", "trail", "log", "update"})
    <2>1. AtAssign \in Seq(Steps) /\ AtAssign # <<>> /\ Head(AtAssign) = "from" /\ Tail(AtAssign) = AtAssignee
        BY DEF Steps, AtAssign, AtAssignee
    <2>2. "from" \notin Pending(AtAssignee) /\ {"from"} \cup Pending(AtAssignee) = {"from", "assignee", "open?", "to", "trail", "log", "update"}
        BY <1>6 DEF Lists
    <2> QED
        BY <2>1, <2>2, Longer
<1>8. Lists(AtResponded, "responded", AtTo, {"responded", "to", "trail", "log", "update"})
    <2>1. AtResponded \in Seq(Steps) /\ AtResponded # <<>> /\ Head(AtResponded) = "responded" /\ Tail(AtResponded) = AtTo
        BY DEF Steps, AtResponded, AtTo
    <2>2. "responded" \notin Pending(AtTo) /\ {"responded"} \cup Pending(AtTo) = {"responded", "to", "trail", "log", "update"}
        BY <1>3a DEF Lists
    <2> QED
        BY <2>1, <2>2, Longer
<1>9. Lists(AtRespond, "from", AtResponded, {"from", "responded", "to", "trail", "log", "update"})
    <2>1. AtRespond \in Seq(Steps) /\ AtRespond # <<>> /\ Head(AtRespond) = "from" /\ Tail(AtRespond) = AtResponded
        BY DEF Steps, AtRespond, AtResponded
    <2>2. "from" \notin Pending(AtResponded) /\ {"from"} \cup Pending(AtResponded) = {"from", "responded", "to", "trail", "log", "update"}
        BY <1>8 DEF Lists
    <2> QED
        BY <2>1, <2>2, Longer
<1>10. Lists(AtStatus, "status", AtTo, {"status", "to", "trail", "log", "update"})
    <2>1. AtStatus \in Seq(Steps) /\ AtStatus # <<>> /\ Head(AtStatus) = "status" /\ Tail(AtStatus) = AtTo
        BY DEF Steps, AtStatus, AtTo
    <2>2. "status" \notin Pending(AtTo) /\ {"status"} \cup Pending(AtTo) = {"status", "to", "trail", "log", "update"}
        BY <1>3a DEF Lists
    <2> QED
        BY <2>1, <2>2, Longer
<1>11. Lists(AtStart, "from", AtStatus, {"from", "status", "to", "trail", "log", "update"})
    <2>1. AtStart \in Seq(Steps) /\ AtStart # <<>> /\ Head(AtStart) = "from" /\ Tail(AtStart) = AtStatus
        BY DEF Steps, AtStart, AtStatus
    <2>2. "from" \notin Pending(AtStatus) /\ {"from"} \cup Pending(AtStatus) = {"from", "status", "to", "trail", "log", "update"}
        BY <1>10 DEF Lists
    <2> QED
        BY <2>1, <2>2, Longer
<1>12. Lists(AtResolution, "resolution", AtResponded, {"resolution", "responded", "to", "trail", "log", "update"})
    <2>1. AtResolution \in Seq(Steps) /\ AtResolution # <<>> /\ Head(AtResolution) = "resolution" /\ Tail(AtResolution) = AtResponded
        BY DEF Steps, AtResolution, AtResponded
    <2>2. "resolution" \notin Pending(AtResponded) /\ {"resolution"} \cup Pending(AtResponded) = {"resolution", "responded", "to", "trail", "log", "update"}
        BY <1>8 DEF Lists
    <2> QED
        BY <2>1, <2>2, Longer
<1>13. Lists(AtResolved, "status", AtResolution, {"status", "resolution", "responded", "to", "trail", "log", "update"})
    <2>1. AtResolved \in Seq(Steps) /\ AtResolved # <<>> /\ Head(AtResolved) = "status" /\ Tail(AtResolved) = AtResolution
        BY DEF Steps, AtResolved, AtResolution
    <2>2. "status" \notin Pending(AtResolution) /\ {"status"} \cup Pending(AtResolution) = {"status", "resolution", "responded", "to", "trail", "log", "update"}
        BY <1>12 DEF Lists
    <2> QED
        BY <2>1, <2>2, Longer
<1>14. Lists(AtResolve, "from", AtResolved, {"from", "status", "resolution", "responded", "to", "trail", "log", "update"})
    <2>1. AtResolve \in Seq(Steps) /\ AtResolve # <<>> /\ Head(AtResolve) = "from" /\ Tail(AtResolve) = AtResolved
        BY DEF Steps, AtResolve, AtResolved
    <2>2. "from" \notin Pending(AtResolved) /\ {"from"} \cup Pending(AtResolved) = {"from", "status", "resolution", "responded", "to", "trail", "log", "update"}
        BY <1>13 DEF Lists
    <2> QED
        BY <2>1, <2>2, Longer
<1>15. Lists(AtComment, "from", AtTo, {"from", "to", "trail", "log", "update"})
    <2>1. AtComment \in Seq(Steps) /\ AtComment # <<>> /\ Head(AtComment) = "from" /\ Tail(AtComment) = AtTo
        BY DEF Steps, AtComment, AtTo
    <2>2. "from" \notin Pending(AtTo) /\ {"from"} \cup Pending(AtTo) = {"from", "to", "trail", "log", "update"}
        BY <1>3a DEF Lists
    <2> QED
        BY <2>1, <2>2, Longer
<1> QED
    BY <1>1, <1>2, <1>3, <1>3a, <1>4, <1>5, <1>6, <1>7, <1>8, <1>9, <1>10, <1>11, <1>12, <1>13, <1>14, <1>15

\* What a request still has to do tells which request it is, and in which order.
Planned(req, todo) ==
    LET left == Pending(todo)
        next == Head(todo)
    IN /\ Shape(todo)
       /\ next # "update" => Left(req, Tail(todo))
       /\ next = "update" => left = {"update"}
       /\ next = "log" => left = {"log", "update"}
       /\ next = "trail" => left = {"trail", "log", "update"}
       /\ next = "to" => left = {"to", "trail", "log", "update"}
       /\ next \notin {"to", "trail", "log", "update"} => "to" \in left /\ "trail" \in left /\ "log" \in left
       /\ next = "open?" => todo = AtOpen
                            /\ left = {"open?", "to", "trail", "log", "update"}
       /\ "assignee" \in left \/ "open?" \in left \/ "assigned" \in left => req.verb = "assign"
       /\ "status" \in left => \/ req.verb = "status"
                               \/ req.verb = "action" /\ req.arg \in Resolving
       /\ "resolution" \in left => req.verb = "action" /\ req.arg \in Resolving
       /\ "responded" \in left => req.verb = "action" /\ req.arg \in Acknowledging \cup Resolving

\* What is left to do says what the request has asked for.
LEMMA TodoFacts ==
    ASSUME NEW req \in Requests, NEW todo, Left(req, todo)
    PROVE  Planned(req, todo)
<1>1. ASSUME todo = AtUpdate PROVE Planned(req, todo)
    <2>1. Lists(todo, "update", <<>>, {"update"})
        BY <1>1, Shapes
    <2> QED
        BY <1>1, <2>1 DEF Planned, Lists, Left
<1>2. ASSUME todo = AtLog PROVE Planned(req, todo)
    <2>1. Lists(todo, "log", AtUpdate, {"log", "update"})
        BY <1>2, Shapes
    <2> QED
        BY <1>2, <2>1 DEF Planned, Lists, Left
<1>3. ASSUME todo = AtTrail PROVE Planned(req, todo)
    <2>1. Lists(todo, "trail", AtLog, {"trail", "log", "update"})
        BY <1>3, Shapes
    <2> QED
        BY <1>3, <2>1 DEF Planned, Lists, Left
<1>3a. ASSUME todo = AtTo PROVE Planned(req, todo)
    <2>1. Lists(todo, "to", AtTrail, {"to", "trail", "log", "update"})
        BY <1>3a, Shapes
    <2> QED
        BY <1>3a, <2>1 DEF Planned, Lists, Left
<1>4. ASSUME todo = AtAssigned, req.verb = "assign" PROVE Planned(req, todo)
    <2>1. Lists(todo, "assigned", AtTo, {"assigned", "to", "trail", "log", "update"})
        BY <1>4, Shapes
    <2> QED
        BY <1>4, <2>1 DEF Planned, Lists, Left
<1>5. ASSUME todo = AtOpen, req.verb = "assign" PROVE Planned(req, todo)
    <2>1. Lists(todo, "open?", AtTo, {"open?", "to", "trail", "log", "update"})
        BY <1>5, Shapes
    <2> QED
        BY <1>5, <2>1 DEF Planned, Lists, Left
<1>6. ASSUME todo = AtAssignee, req.verb = "assign" PROVE Planned(req, todo)
    <2>1. Lists(todo, "assignee", AtOpen, {"assignee", "open?", "to", "trail", "log", "update"})
        BY <1>6, Shapes
    <2> QED
        BY <1>6, <2>1 DEF Planned, Lists, Left
<1>7. ASSUME todo = AtAssign, req.verb = "assign" PROVE Planned(req, todo)
    <2>1. Lists(todo, "from", AtAssignee, {"from", "assignee", "open?", "to", "trail", "log", "update"})
        BY <1>7, Shapes
    <2> QED
        BY <1>7, <2>1 DEF Planned, Lists, Left
<1>8. ASSUME todo = AtResponded, req.verb = "action", req.arg \in Acknowledging \cup Resolving PROVE Planned(req, todo)
    <2>1. Lists(todo, "responded", AtTo, {"responded", "to", "trail", "log", "update"})
        BY <1>8, Shapes
    <2> QED
        BY <1>8, <2>1 DEF Planned, Lists, Left
<1>9. ASSUME todo = AtRespond, req.verb = "action", req.arg \in Acknowledging PROVE Planned(req, todo)
    <2>1. Lists(todo, "from", AtResponded, {"from", "responded", "to", "trail", "log", "update"})
        BY <1>9, Shapes
    <2> QED
        BY <1>9, <2>1 DEF Planned, Lists, Left
<1>10. ASSUME todo = AtStatus, req.verb = "status" PROVE Planned(req, todo)
    <2>1. Lists(todo, "status", AtTo, {"status", "to", "trail", "log", "update"})
        BY <1>10, Shapes
    <2> QED
        BY <1>10, <2>1 DEF Planned, Lists, Left
<1>11. ASSUME todo = AtStart, req.verb = "status" PROVE Planned(req, todo)
    <2>1. Lists(todo, "from", AtStatus, {"from", "status", "to", "trail", "log", "update"})
        BY <1>11, Shapes
    <2> QED
        BY <1>11, <2>1 DEF Planned, Lists, Left
<1>12. ASSUME todo = AtResolution, req.verb = "action", req.arg \in Resolving PROVE Planned(req, todo)
    <2>1. Lists(todo, "resolution", AtResponded, {"resolution", "responded", "to", "trail", "log", "update"})
        BY <1>12, Shapes
    <2> QED
        BY <1>12, <2>1 DEF Planned, Lists, Left
<1>13. ASSUME todo = AtResolved, req.verb = "action", req.arg \in Resolving PROVE Planned(req, todo)
    <2>1. Lists(todo, "status", AtResolution, {"status", "resolution", "responded", "to", "trail", "log", "update"})
        BY <1>13, Shapes
    <2> QED
        BY <1>13, <2>1 DEF Planned, Lists, Left
<1>14. ASSUME todo = AtResolve, req.verb = "action", req.arg \in Resolving PROVE Planned(req, todo)
    <2>1. Lists(todo, "from", AtResolved, {"from", "status", "resolution", "responded", "to", "trail", "log", "update"})
        BY <1>14, Shapes
    <2> QED
        BY <1>14, <2>1 DEF Planned, Lists, Left
<1>15. ASSUME todo = AtComment, req.verb = "action", req.arg \notin Acknowledging \cup Resolving PROVE Planned(req, todo)
    <2>1. Lists(todo, "from", AtTo, {"from", "to", "trail", "log", "update"})
        BY <1>15, Shapes
    <2> QED
        BY <1>15, <2>1 DEF Planned, Lists, Left
<1> QED
    BY <1>1, <1>2, <1>3, <1>3a, <1>4, <1>5, <1>6, <1>7, <1>8, <1>9, <1>10, <1>11, <1>12, <1>13, <1>14, <1>15 DEF Left

\* A request that has not begun to write will set the status or leave it alone.
LEMMA FromFacts ==
    ASSUME NEW req \in Requests, NEW todo, Left(req, todo), Head(todo) = "from"
    PROVE  \/ "open?" \in Pending(todo) \/ "status" \in Pending(todo)
           \/ req.verb = "action" /\ req.arg \notin Resolving
<1>1. \/ todo \in {AtAssign, AtStart, AtResolve}
      \/ req.verb = "action" /\ req.arg \notin Resolving
    <2>1. Head(AtUpdate) # "from" /\ Head(AtLog) # "from" /\ Head(AtTrail) # "from" /\ Head(AtTo) # "from"
          /\ Head(AtAssignee) # "from" /\ Head(AtOpen) # "from" /\ Head(AtAssigned) # "from"
          /\ Head(AtStatus) # "from" /\ Head(AtResponded) # "from" /\ Head(AtResolved) # "from"
          /\ Head(AtResolution) # "from"
        BY Shapes DEF Lists
    <2> QED
        BY <2>1 DEF Left, Acknowledging, Resolving
<1>2. "open?" \in Pending(AtAssign) /\ "status" \in Pending(AtStart) /\ "status" \in Pending(AtResolve)
    BY Shapes DEF Lists
<1> QED
    BY <1>1, <1>2

-----------------------------------------------------------------------------
(* One step of one request, on one alert.                                   *)

\* What the atomic service makes of each field.
Effect(a, op, req, b) ==
    /\ b \in Alert(AllOps)
    /\ b.key = a.key /\ b.evidence = a.evidence
    /\ b.assignee = IF req.verb = "assign" THEN req.arg ELSE a.assignee
    /\ req.verb = "assign" => b.status = IF a.status = "OPEN" THEN "ASSIGNED" ELSE a.status
    /\ req.verb = "status" => b.status = req.arg
    /\ req.verb = "action" /\ req.arg \notin Resolving => b.status = a.status
    /\ req.verb = "action" /\ req.arg \in Resolving =>
          /\ b.status = "RESOLVED" /\ b.responded = TRUE
          /\ b.resolution = IF req.arg = "mitigate" THEN "mitigated" ELSE "false_positive"
    /\ req.verb # "action" \/ req.arg \notin Resolving => b.resolution = a.resolution
    /\ req.verb = "action" /\ req.arg \in Acknowledging => b.responded = TRUE
    /\ req.verb # "action" \/ req.arg \notin Acknowledging \cup Resolving => b.responded = a.responded
    /\ LET Entered(act) == [op |-> op, act |-> act, from |-> a.status, to |-> b.status]
       IN /\ req.verb = "assign" => b.trail = Append(a.trail, Entered("assign"))
          /\ req.verb = "status" => b.trail = Append(a.trail, Entered("start"))
          /\ req.verb = "action" => b.trail = Append(a.trail, Entered(req.arg))

\* What a request does to each field of the alert it was given.
LEMMA ApplyFields ==
    ASSUME NEW a \in Alert(AllOps), NEW op \in Ops, NEW req \in Requests, ~Refused(a, req)
    PROVE  Effect(a, op, req, Apply(a, op, req))
<1>0. Apply(a, op, req) \in Alert(AllOps) /\ op \in AllOps
    BY ApplyShape DEF AllOps
<1>1. CASE req.verb = "assign"
    BY <1>0, <1>1 DEF Effect, Resolving, Acknowledging, Apply, Assign, AppendAction, Alert
<1>2. CASE req.verb = "status"
    BY <1>0, <1>2 DEF Effect, Resolving, Acknowledging, Apply, SetStatus, AppendAction, Alert
<1>3. CASE req.verb = "action"
    <2> DEFINE act == req.arg
    <2>1. Apply(a, op, req) = Action(a, op, act)
        BY <1>3 DEF Apply
    <2>2. CASE act \in Acknowledging
        BY <1>0, <1>3, <2>1, <2>2 DEF Effect, Action, AppendAction, Alert, Acknowledging, Resolving
    <2>3. CASE act = "mitigate"
        BY <1>0, <1>3, <2>1, <2>3 DEF Effect, Action, AppendAction, Alert, Acknowledging, Resolving
    <2>4. CASE act = "false_positive"
        BY <1>0, <1>3, <2>1, <2>4 DEF Effect, Action, AppendAction, Alert, Acknowledging, Resolving
    <2>5. CASE act \notin Acknowledging \cup Resolving
        BY <1>0, <1>3, <2>1, <2>5 DEF Effect, Action, AppendAction, Alert, Acknowledging, Resolving
    <2> QED
        BY <2>2, <2>3, <2>4, <2>5 DEF Resolving
<1> QED
    BY <1>1, <1>2, <1>3 DEF Requests

Work(a, c, op) ==
    /\ a \in Alert(AllOps) /\ c \in Calls /\ op \in Ops
    /\ ~Refused(c.base, c.req) /\ Left(c.req, c.todo)

\* A step on alert and call that keeps what Partial says of them.
Moved(a, c, op, b, d) ==
    /\ Work(b, d, op)
    /\ d.id = c.id /\ d.req = c.req /\ d.base = c.base
    /\ b.key = a.key /\ b.evidence = a.evidence
    /\ Partial(a, c, op) => Partial(b, d, op)

\* The types of a request under way and of its alert.
LEMMA WorkFacts ==
    ASSUME NEW a, NEW c, NEW op, Work(a, c, op)
    PROVE  /\ c.id \in AlertIds /\ c.req \in Requests /\ c.base \in Alert(AllOps)
           /\ c.from \in Statuses /\ c.to \in Statuses
           /\ c.seen \in Seq(Entry(AllOps)) /\ c.todo \in Seq(Steps)
           /\ Planned(c.req, c.todo) /\ Shape(c.todo)
           /\ op \in AllOps
           /\ a.status \in Statuses /\ a.trail \in Seq(Entry(AllOps))
           /\ \A todo \in Seq(Steps) : [c EXCEPT !.todo = todo] \in Calls
           /\ \A todo \in Seq(Steps), from \in Statuses :
                 [[c EXCEPT !.from = from] EXCEPT !.todo = todo] \in Calls
           /\ \A todo \in Seq(Steps), to \in Statuses :
                 [[c EXCEPT !.to = to] EXCEPT !.todo = todo] \in Calls
           /\ \A todo \in Seq(Steps), seen \in Seq(Entry(AllOps)) :
                 [[c EXCEPT !.seen = seen] EXCEPT !.todo = todo] \in Calls
<1>1. c \in Calls /\ a \in Alert(AllOps) /\ op \in Ops /\ Left(c.req, c.todo)
    BY DEF Work
<1>2. c.req \in Requests /\ c.todo \in Seq(Steps)
    BY <1>1 DEF Calls
<1>3. Planned(c.req, c.todo)
    BY <1>1, <1>2, TodoFacts
<1> QED
    BY <1>1, <1>2, <1>3 DEF Calls, Planned, AllOps, Alert

\* Reading the status for the log entry moves a request on.
LEMMA FromMoves ==
    ASSUME NEW a, NEW c, NEW op, Work(a, c, op), Head(c.todo) = "from"
    PROVE  Moved(a, c, op, a, [[c EXCEPT !.from = a.status] EXCEPT !.todo = Tail(@)])
<1> DEFINE d == [[c EXCEPT !.from = a.status] EXCEPT !.todo = Tail(@)]
           b == Apply(c.base, op, c.req)
<1>1. /\ c \in Calls /\ c.req \in Requests /\ c.base \in Alert(AllOps) /\ op \in Ops
      /\ Planned(c.req, c.todo) /\ Shape(c.todo) /\ ~Refused(c.base, c.req) /\ Left(c.req, c.todo)
      /\ a.status \in Statuses
    BY WorkFacts DEF Work
<1>2. d \in Calls
    BY <1>1, WorkFacts DEF Shape, Calls
<1>3. /\ d.id = c.id /\ d.req = c.req /\ d.base = c.base /\ d.from = a.status /\ d.to = c.to
      /\ d.seen = c.seen /\ d.todo = Tail(c.todo) /\ Left(c.req, d.todo)
      /\ Pending(d.todo) = Pending(c.todo) \ {"from"} /\ "to" \in Pending(c.todo)
    BY <1>1 DEF Calls, Planned, Shape
<1> HIDE DEF d
<1>4. b.status = c.base.status \/ "open?" \in Pending(c.todo) \/ "status" \in Pending(c.todo)
    BY <1>1, FromFacts, ApplyFields DEF Effect
<1>5. ASSUME Partial(a, c, op) PROVE Partial(a, d, op)
    BY <1>3, <1>4, <1>5 DEF Partial
<1> QED
    BY <1>1, <1>2, <1>3, <1>5 DEF Moved, Work, d

\* r is p followed by q.
Joins(p, q, r) ==
    /\ r \in Seq(Steps) /\ Len(r) = Len(p) + Len(q)
    /\ \A i \in 1 .. Len(p) : r[i] = p[i]
    /\ \A i \in 1 .. Len(q) : r[Len(p) + i] = q[i]

\* Concatenation joins two lists.
LEMMA ConcatJoins ==
    ASSUME NEW p \in Seq(Steps), NEW q \in Seq(Steps)
    PROVE  Joins(p, q, p \o q)
<1> DEFINE r == p \o q
<1>1. /\ r \in Seq(Steps) /\ Len(r) = Len(p) + Len(q)
      /\ \A i \in 1 .. Len(p) + Len(q) : r[i] = IF i <= Len(p) THEN p[i] ELSE q[i - Len(p)]
    BY ConcatProperties, Zenon
<1> HIDE DEF r
<1>2. Len(p) \in Nat /\ Len(q) \in Nat
    OBVIOUS
<1>3. ASSUME NEW i \in 1 .. Len(q) PROVE r[Len(p) + i] = q[i]
    <2>1. Len(p) + i \in 1 .. Len(p) + Len(q) /\ ~(Len(p) + i <= Len(p)) /\ Len(p) + i - Len(p) = i
        BY <1>2
    <2> QED
        BY <1>1, <2>1
<1>4. \A i \in 1 .. Len(p) : r[i] = p[i]
    BY <1>1, <1>2
<1> QED
    BY <1>1, <1>3, <1>4 DEF Joins, r

\* The step that the test of the status puts in front of the rest.
OpenPair == <<"open?", "assigned">>

\* An open alert gets its status next.
LEMMA JoinOpen ==
    ASSUME NEW s, Joins(OpenPair, AtTo, s)
    PROVE  Tail(s) = AtAssigned
<1> DEFINE t == Tail(s)
<1>1. /\ Len(AtTo) = 4 /\ AtTo[1] = "to" /\ AtTo[2] = "trail" /\ AtTo[3] = "log" /\ AtTo[4] = "update"
      /\ Len(OpenPair) = 2 /\ OpenPair[2] = "assigned"
    BY DEF AtTo, OpenPair
<1>2. /\ s \in Seq(Steps) /\ Len(s) = 6
      /\ s[2] = "assigned" /\ s[2 + 1] = "to" /\ s[2 + 2] = "trail" /\ s[2 + 3] = "log"
      /\ s[2 + 4] = "update"
    <2>1. /\ s \in Seq(Steps) /\ Len(s) = 2 + 4 /\ \A i \in 1 .. 2 : s[i] = OpenPair[i]
          /\ \A i \in 1 .. 4 : s[2 + i] = AtTo[i]
        BY <1>1, Zenon DEF Joins
    <2> QED
        BY <1>1, <2>1
<1>3. /\ t \in Seq(Steps) /\ Len(t) = 5
      /\ t[1] = s[2] /\ t[2] = s[2 + 1] /\ t[3] = s[2 + 2] /\ t[4] = s[2 + 3]
      /\ t[5] = s[2 + 4]
    <2>1. s # <<>>
        BY <1>2
    <2>2. t \in Seq(Steps) /\ Len(t) = Len(s) - 1 /\ \A i \in 1 .. Len(s) - 1 : t[i] = s[i + 1]
        <3>1. s \in Seq(Steps)
            BY <1>2
        <3> QED
            BY <2>1, <3>1
    <2>3. Len(s) - 1 = 5
        BY <1>2
    <2> HIDE DEF t
    <2>4. t \in Seq(Steps) /\ Len(t) = 5 /\ \A i \in 1 .. 5 : t[i] = s[i + 1]
        BY <2>2, <2>3
    <2>5. t[1] = s[1 + 1] /\ t[2] = s[2 + 1] /\ t[3] = s[3 + 1] /\ t[4] = s[4 + 1] /\ t[5] = s[5 + 1]
        BY <2>4
    <2> QED
        BY <2>4, <2>5
<1> HIDE DEF t
<1>4. t[1] = "assigned" /\ t[2] = "to" /\ t[3] = "trail" /\ t[4] = "log" /\ t[5] = "update"
    BY <1>2, <1>3
<1>5. t = AtAssigned
    BY <1>3, <1>4 DEF AtAssigned
<1> QED
    BY <1>5 DEF t

\* Assigning an open alert goes on with its status, any other with the trail.
LEMMA JoinedOpen ==
    /\ Tail(AtOpen) = AtTo
    /\ Tail(<<AtOpen[1], "assigned">> \o Tail(AtOpen)) = AtAssigned
<1>1. Tail(AtOpen) = AtTo /\ <<AtOpen[1], "assigned">> = OpenPair
    BY DEF AtOpen, AtTo, OpenPair
<1>2. OpenPair \in Seq(Steps) /\ AtTo \in Seq(Steps)
    BY DEF Steps, OpenPair, AtTo
<1>3. Joins(OpenPair, AtTo, OpenPair \o AtTo)
    BY <1>2, ConcatJoins
<1>4. Tail(OpenPair \o AtTo) = AtAssigned
    BY <1>3, JoinOpen
<1> QED
    BY <1>1, <1>4

\* The test of the status moves a request on.
LEMMA OpenMoves ==
    ASSUME NEW a, NEW c, NEW op, Work(a, c, op), Head(c.todo) = "open?"
    PROVE  Moved(a, c, op, a,
                 [[c EXCEPT !.todo = IF a.status = "OPEN" THEN <<@[1], "assigned">> \o Tail(@) ELSE @]
                    EXCEPT !.todo = Tail(@)])
<1> DEFINE t == IF a.status = "OPEN" THEN AtAssigned ELSE AtTo
           d == [c EXCEPT !.todo = t]
           b == Apply(c.base, op, c.req)
<1>1. /\ c \in Calls /\ c.req \in Requests /\ c.base \in Alert(AllOps) /\ op \in Ops
      /\ Planned(c.req, c.todo) /\ Shape(c.todo) /\ ~Refused(c.base, c.req) /\ Left(c.req, c.todo)
      /\ a.status \in Statuses
    BY WorkFacts DEF Work
<1>2. c.todo = AtOpen /\ c.req.verb = "assign"
      /\ Pending(c.todo) = {"open?", "to", "trail", "log", "update"}
    BY <1>1 DEF Planned
<1>3. Tail(<<AtOpen[1], "assigned">> \o Tail(AtOpen)) = AtAssigned /\ Tail(AtOpen) = AtTo
    BY JoinedOpen
<1>4. [[c EXCEPT !.todo = IF a.status = "OPEN" THEN <<@[1], "assigned">> \o Tail(@) ELSE @]
         EXCEPT !.todo = Tail(@)] = d
    BY <1>1, <1>2, <1>3 DEF Calls
<1>5. t \in Seq(Steps) /\ Left(c.req, t)
      /\ Pending(t) = IF a.status = "OPEN" THEN {"assigned", "to", "trail", "log", "update"}
                      ELSE {"to", "trail", "log", "update"}
    BY <1>2, Shapes DEF Lists, Left, Shape
<1> HIDE DEF t
<1>6. d \in Calls /\ d.id = c.id /\ d.req = c.req /\ d.base = c.base /\ d.from = c.from
      /\ d.to = c.to /\ d.seen = c.seen /\ d.todo = t
    BY <1>1, <1>5 DEF Calls
<1> HIDE DEF d
<1>7. b.status = IF c.base.status = "OPEN" THEN "ASSIGNED" ELSE c.base.status
    BY <1>1, <1>2, ApplyFields DEF Effect
<1>8. ASSUME Partial(a, c, op) PROVE Partial(a, d, op)
    <2>1. a.status = c.base.status
        BY <1>2, <1>8 DEF Partial
    <2> QED
        BY <1>2, <1>5, <1>6, <1>7, <1>8, <2>1 DEF Partial
<1>9. Moved(a, c, op, a, d)
    BY <1>1, <1>5, <1>6, <1>8 DEF Moved, Work
<1> QED
    BY <1>4, <1>9

\* A request about to write ASSIGNED has nothing else to write but the trail.
LEMMA AssignedFacts ==
    ASSUME NEW req \in Requests, NEW todo, Left(req, todo), Head(todo) = "assigned"
    PROVE  Pending(todo) = {"assigned", "to", "trail", "log", "update"} /\ req.verb = "assign"
<1>1. todo = AtAssigned /\ req.verb = "assign"
    <2>1. Head(AtUpdate) # "assigned" /\ Head(AtLog) # "assigned" /\ Head(AtTrail) # "assigned" /\ Head(AtTo) # "assigned"
          /\ Head(AtAssignee) # "assigned" /\ Head(AtOpen) # "assigned" /\ Head(AtAssign) # "assigned"
          /\ Head(AtStatus) # "assigned" /\ Head(AtStart) # "assigned" /\ Head(AtRespond) # "assigned"
          /\ Head(AtResponded) # "assigned" /\ Head(AtResolve) # "assigned"
          /\ Head(AtResolved) # "assigned" /\ Head(AtResolution) # "assigned"
          /\ Head(AtComment) # "assigned"
        BY Shapes DEF Lists
    <2> QED
        BY <2>1 DEF Left
<1> QED
    BY <1>1, Shapes DEF Lists

Fields == {"assignee", "assigned", "status", "resolution", "responded"}

\* The write of a field moves a request on.
LEMMA FieldMoves ==
    ASSUME NEW a, NEW c, NEW op, Work(a, c, op), Head(c.todo) \in Fields
    PROVE  Moved(a, c, op, Written(a, c.req, Head(c.todo)), [c EXCEPT !.todo = Tail(@)])
<1> DEFINE next == Head(c.todo)
           d == [c EXCEPT !.todo = Tail(@)]
           w == Written(a, c.req, next)
           b == Apply(c.base, op, c.req)
           left == Pending(c.todo)
<1>1. /\ c \in Calls /\ c.req \in Requests /\ c.base \in Alert(AllOps) /\ op \in Ops
      /\ Planned(c.req, c.todo) /\ Shape(c.todo) /\ ~Refused(c.base, c.req) /\ Left(c.req, c.todo)
      /\ a \in Alert(AllOps) /\ next \in Fields
    BY WorkFacts DEF Work
<1>2. /\ d \in Calls /\ d.id = c.id /\ d.req = c.req /\ d.base = c.base /\ d.from = c.from
      /\ d.to = c.to /\ d.seen = c.seen /\ d.todo = Tail(c.todo)
    BY <1>1 DEF Shape, Calls
<1>3. /\ Left(c.req, d.todo) /\ Pending(d.todo) = left \ {next} /\ next \in left
      /\ "to" \in left /\ "trail" \in left /\ "log" \in left
      /\ "assignee" \in left \/ "open?" \in left \/ "assigned" \in left => c.req.verb = "assign"
      /\ "status" \in left => \/ c.req.verb = "status"
                              \/ c.req.verb = "action" /\ c.req.arg \in Resolving
      /\ "resolution" \in left => c.req.verb = "action" /\ c.req.arg \in Resolving
      /\ "responded" \in left => c.req.verb = "action" /\ c.req.arg \in Acknowledging \cup Resolving
      /\ next = "assigned" => left = {"assigned", "to", "trail", "log", "update"}
    BY <1>1, <1>2, AssignedFacts DEF Planned, Shape, Fields
<1> HIDE DEF d, left
<1>4. Effect(c.base, op, c.req, b)
    <2>1. c.base \in Alert(AllOps) /\ op \in Ops /\ c.req \in Requests /\ ~Refused(c.base, c.req)
        BY <1>1
    <2> QED
        BY <2>1, ApplyFields, Zenon
<1>5. ASSUME next = "assignee" PROVE w \in Alert(AllOps) /\ Moved(a, c, op, w, d)
    <2>1. w = [a EXCEPT !.assignee = c.req.arg]
        BY <1>5 DEF Written
    <2>2. c.req.arg \in Analysts
        BY <1>1, <1>3, <1>5 DEF Requests
    <2>3. /\ w \in Alert(AllOps) /\ w.key = a.key /\ w.evidence = a.evidence /\ w.assignee = c.req.arg
          /\ w.status = a.status /\ w.resolution = a.resolution /\ w.responded = a.responded
          /\ w.trail = a.trail
        BY <1>1, <2>1, <2>2 DEF Alert
    <2> HIDE DEF w, b, next
    <2>4. Partial(a, c, op) => Partial(w, d, op)
        BY <1>2, <1>3, <1>4, <1>5, <2>3, SMTT(30) DEF Partial, Effect, b, left
    <2> QED
        BY <1>1, <1>2, <1>3, <2>3, <2>4 DEF Moved, Work
<1>6. ASSUME next = "assigned" PROVE w \in Alert(AllOps) /\ Moved(a, c, op, w, d)
    <2>1. w = [a EXCEPT !.status = "ASSIGNED"]
        BY <1>6 DEF Written
    <2>2. /\ w \in Alert(AllOps) /\ w.key = a.key /\ w.evidence = a.evidence /\ w.assignee = a.assignee
          /\ w.status = "ASSIGNED" /\ w.resolution = a.resolution /\ w.responded = a.responded
          /\ w.trail = a.trail
        BY <1>1, <2>1 DEF Alert, Statuses
    <2> HIDE DEF w, b, next
    <2>3. Partial(a, c, op) => Partial(w, d, op)
        BY <1>2, <1>3, <1>4, <1>6, <2>2 DEF Partial, Effect, b, left
    <2> QED
        BY <1>1, <1>2, <1>3, <2>2, <2>3 DEF Moved, Work
<1>7. ASSUME next = "status" PROVE w \in Alert(AllOps) /\ Moved(a, c, op, w, d)
    <2> DEFINE status == IF c.req.verb = "status" THEN c.req.arg ELSE "RESOLVED"
    <2>1. w = [a EXCEPT !.status = status]
        BY <1>7 DEF Written
    <2>2. status \in Statuses
        BY <1>1, <1>3, <1>7 DEF Requests, Statuses
    <2> HIDE DEF status
    <2>3. /\ w \in Alert(AllOps) /\ w.key = a.key /\ w.evidence = a.evidence /\ w.assignee = a.assignee
          /\ w.status = status /\ w.resolution = a.resolution /\ w.responded = a.responded
          /\ w.trail = a.trail
        BY <1>1, <2>1, <2>2 DEF Alert
    <2>4. status = b.status
        BY <1>3, <1>4, <1>7 DEF status, Effect
    <2> HIDE DEF w, b, next
    <2>5. Partial(a, c, op) => Partial(w, d, op)
        BY <1>2, <1>3, <1>4, <1>7, <2>3, <2>4, SMTT(30) DEF Partial, Effect, b, left
    <2> QED
        BY <1>1, <1>2, <1>3, <2>3, <2>5 DEF Moved, Work
<1>8. ASSUME next = "resolution" PROVE w \in Alert(AllOps) /\ Moved(a, c, op, w, d)
    <2> DEFINE resolution == IF c.req.arg = "mitigate" THEN "mitigated" ELSE "false_positive"
    <2>1. w = [a EXCEPT !.resolution = resolution]
        BY <1>8 DEF Written
    <2>2. resolution \in Resolutions
        BY DEF Resolutions
    <2>3. resolution = b.resolution
        BY <1>3, <1>4, <1>8 DEF Effect
    <2> HIDE DEF resolution
    <2>4. /\ w \in Alert(AllOps) /\ w.key = a.key /\ w.evidence = a.evidence /\ w.assignee = a.assignee
          /\ w.status = a.status /\ w.resolution = resolution /\ w.responded = a.responded
          /\ w.trail = a.trail
        BY <1>1, <2>1, <2>2 DEF Alert
    <2> HIDE DEF w, b, next
    <2>5. Partial(a, c, op) => Partial(w, d, op)
        BY <1>2, <1>3, <1>4, <1>8, <2>3, <2>4, SMTT(30) DEF Partial, Effect, b, left
    <2> QED
        BY <1>1, <1>2, <1>3, <2>4, <2>5 DEF Moved, Work
<1>9. ASSUME next = "responded" PROVE w \in Alert(AllOps) /\ Moved(a, c, op, w, d)
    <2>1. w = [a EXCEPT !.responded = TRUE]
        BY <1>9 DEF Written
    <2>2. /\ w \in Alert(AllOps) /\ w.key = a.key /\ w.evidence = a.evidence /\ w.assignee = a.assignee
          /\ w.status = a.status /\ w.resolution = a.resolution /\ w.responded = TRUE
          /\ w.trail = a.trail
        BY <1>1, <2>1 DEF Alert
    <2>3. b.responded = TRUE
        BY <1>3, <1>4, <1>9 DEF Effect
    <2> HIDE DEF w, b, next
    <2>4. Partial(a, c, op) => Partial(w, d, op)
        BY <1>2, <1>3, <1>4, <1>9, <2>2, <2>3, ZenonT(30) DEF Partial, Effect, b, left
    <2> QED
        BY <1>1, <1>2, <1>3, <2>2, <2>4 DEF Moved, Work
<1> QED
    BY <1>1, <1>5, <1>6, <1>7, <1>8, <1>9 DEF Fields, d

\* Reading the status the entry will say it has got to moves a request on.
LEMMA ToMoves ==
    ASSUME NEW a, NEW c, NEW op, Work(a, c, op), Head(c.todo) = "to",
           NEW to, to = IF c.req.verb = "status" THEN c.req.arg ELSE a.status
    PROVE  Moved(a, c, op, a, [[c EXCEPT !.to = to] EXCEPT !.todo = Tail(@)])
<1> DEFINE d == [[c EXCEPT !.to = to] EXCEPT !.todo = Tail(@)]
           b == Apply(c.base, op, c.req)
<1>1. /\ c \in Calls /\ c.req \in Requests /\ c.base \in Alert(AllOps) /\ op \in Ops
      /\ Planned(c.req, c.todo) /\ Shape(c.todo) /\ ~Refused(c.base, c.req) /\ Left(c.req, c.todo)
      /\ a.status \in Statuses
    BY WorkFacts DEF Work
<1>2. to \in Statuses
    BY <1>1 DEF Requests, Statuses
<1>3. d \in Calls
    BY <1>1, <1>2, WorkFacts DEF Shape, Calls
<1>4. /\ d.id = c.id /\ d.req = c.req /\ d.base = c.base /\ d.from = c.from /\ d.to = to
      /\ d.seen = c.seen /\ d.todo = Tail(c.todo) /\ Left(c.req, d.todo)
      /\ Pending(c.todo) = {"to", "trail", "log", "update"} /\ Pending(d.todo) = {"trail", "log", "update"}
    BY <1>1 DEF Calls, Planned, Shape
<1> HIDE DEF d
<1>5. ASSUME Partial(a, c, op) PROVE Partial(a, d, op)
    <2>1. a.status = b.status
        BY <1>4, <1>5 DEF Partial
    <2>2. c.req.verb = "status" => b.status = c.req.arg
        <3>1. c.base \in Alert(AllOps) /\ op \in Ops /\ c.req \in Requests /\ ~Refused(c.base, c.req)
            BY <1>1
        <3>2. Effect(c.base, op, c.req, b)
            BY <3>1, ApplyFields, Zenon
        <3> QED
            BY <3>2 DEF Effect
    <2>3. to = b.status
        BY <2>1, <2>2
    <2> QED
        BY <1>4, <1>5, <2>3 DEF Partial
<1> QED
    BY <1>1, <1>3, <1>4, <1>5 DEF Moved, Work, d

\* Reading the trail moves a request on.
LEMMA ReadMoves ==
    ASSUME NEW a, NEW c, NEW op, Work(a, c, op), Head(c.todo) = "trail"
    PROVE  Moved(a, c, op, a, [[c EXCEPT !.seen = a.trail] EXCEPT !.todo = Tail(@)])
<1> DEFINE d == [[c EXCEPT !.seen = a.trail] EXCEPT !.todo = Tail(@)]
<1>1. /\ c \in Calls /\ c.req \in Requests /\ c.base \in Alert(AllOps) /\ op \in Ops
      /\ Planned(c.req, c.todo) /\ Shape(c.todo) /\ ~Refused(c.base, c.req) /\ Left(c.req, c.todo)
      /\ a.trail \in Seq(Entry(AllOps))
    BY WorkFacts DEF Work
<1>2. d \in Calls
    BY <1>1, WorkFacts DEF Shape, Calls
<1>3. /\ d.id = c.id /\ d.req = c.req /\ d.base = c.base /\ d.from = c.from /\ d.to = c.to
      /\ d.seen = a.trail /\ d.todo = Tail(c.todo) /\ Left(c.req, d.todo)
      /\ Pending(d.todo) = Pending(c.todo) \ {"trail"} /\ "log" \in Pending(c.todo)
      /\ "to" \notin Pending(c.todo)
    BY <1>1 DEF Calls, Planned, Shape
<1> HIDE DEF d
<1>4. Partial(a, c, op) => Partial(a, d, op)
    BY <1>3 DEF Partial
<1> QED
    BY <1>1, <1>2, <1>3, <1>4 DEF Moved, Work, d

\* What Logged says, of a call.
Log(c, op) ==
    [op |-> op,
     act |-> CASE c.req.verb = "assign" -> "assign"
               [] c.req.verb = "status" -> "start"
               [] OTHER -> c.req.arg,
     from |-> c.from,
     to |-> c.to]

\* Writing the trail back moves a request on.
LEMMA WriteMoves ==
    ASSUME NEW a, NEW c, NEW op, Work(a, c, op), Head(c.todo) = "log"
    PROVE  Moved(a, c, op, [a EXCEPT !.trail = Append(c.seen, Log(c, op))], [c EXCEPT !.todo = Tail(@)])
<1> DEFINE d == [c EXCEPT !.todo = Tail(@)]
           b == Apply(c.base, op, c.req)
           e == Log(c, op)
           t == Append(c.seen, e)
           w == [a EXCEPT !.trail = t]
<1>1. /\ c \in Calls /\ c.req \in Requests /\ c.base \in Alert(AllOps) /\ op \in Ops /\ op \in AllOps
      /\ Planned(c.req, c.todo) /\ Shape(c.todo) /\ ~Refused(c.base, c.req) /\ Left(c.req, c.todo)
      /\ a \in Alert(AllOps) /\ a.status \in Statuses /\ c.from \in Statuses /\ c.to \in Statuses
      /\ c.seen \in Seq(Entry(AllOps))
    BY WorkFacts DEF Work
<1>2. /\ d \in Calls /\ d.id = c.id /\ d.req = c.req /\ d.base = c.base /\ d.from = c.from
      /\ d.to = c.to /\ d.seen = c.seen /\ d.todo = Tail(c.todo)
    BY <1>1 DEF Shape, Calls
<1>3. /\ Left(c.req, d.todo) /\ Pending(c.todo) = {"log", "update"} /\ Pending(d.todo) = {"update"}
    BY <1>1, <1>2 DEF Planned, Shape
<1>4. /\ c.req.verb = "assign" => e = [op |-> op, act |-> "assign", from |-> c.from, to |-> c.to]
      /\ c.req.verb = "status" => e = [op |-> op, act |-> "start", from |-> c.from, to |-> c.to]
      /\ c.req.verb = "action" => e = [op |-> op, act |-> c.req.arg, from |-> c.from, to |-> c.to]
      /\ c.req.verb = "assign" \/ c.req.verb = "status" \/ c.req.verb = "action"
    BY <1>1 DEF Log, Requests
<1>5. e \in Entry(AllOps)
    <2>1. c.req.verb = "action" =>
             c.req.arg \in {"assign", "start"} \cup Acknowledging \cup Resolving \cup {"comment"}
        BY <1>1 DEF Requests, Refused, Acknowledging, Resolving
    <2> HIDE DEF e
    <2> QED
        BY <1>1, <1>4, <2>1 DEF Entry
<1> HIDE DEF e, d
<1>6. t \in Seq(Entry(AllOps))
    BY <1>1, <1>5
<1> HIDE DEF t
<1>7. /\ w \in Alert(AllOps) /\ w.key = a.key /\ w.evidence = a.evidence /\ w.assignee = a.assignee
      /\ w.status = a.status /\ w.resolution = a.resolution /\ w.responded = a.responded
      /\ w.trail = t
    BY <1>1, <1>6 DEF Alert
<1>8. Effect(c.base, op, c.req, b)
    <2>1. c.base \in Alert(AllOps) /\ op \in Ops /\ c.req \in Requests /\ ~Refused(c.base, c.req)
        BY <1>1
    <2> QED
        BY <2>1, ApplyFields, Zenon
<1> HIDE DEF w
<1>9. ASSUME Partial(a, c, op) PROVE Partial(w, d, op)
    <2>1. c.from = c.base.status /\ c.seen = c.base.trail /\ c.to = b.status
        BY <1>3, <1>9 DEF Partial
    <2> HIDE DEF b
    <2>2. t = b.trail
        BY <1>4, <1>8, <2>1 DEF t, Effect
    <2> QED
        BY <1>2, <1>3, <1>7, <1>9, <2>2 DEF Partial, b
<1> QED
    BY <1>1, <1>2, <1>3, <1>7, <1>9 DEF Moved, Work, w, t, d, e

-----------------------------------------------------------------------------
(* The store around that alert.                                             *)

\* A request at work has an alert and something left to do.
LEMMA WorkingFacts ==
    ASSUME MemoryInv, NEW op \in Ops, Running(op)
    PROVE  /\ call[op] \in Calls /\ call[op].id \in AlertIds /\ Mine(op) \in Alert(AllOps)
           /\ Exists(call[op].id)
           /\ Work(Mine(op), call[op], op)
           /\ op \in RunningOn(call[op].id)
           /\ answered[op] = NoAlert
<1>1. call[op] \in Calls
    BY DEF MemoryInv, TypeOK, Running
<1>2. call[op].id \in AlertIds /\ Exists(call[op].id) /\ Left(call[op].req, call[op].todo)
      /\ ~Refused(call[op].base, call[op].req) /\ answered[op] = NoAlert
    BY <1>1 DEF MemoryInv, CallsInv, Calls
<1>3. Mine(op) \in Alert(AllOps)
    BY <1>2 DEF MemoryInv, TypeOK, Exists, Mine
<1> QED
    BY <1>1, <1>2, <1>3 DEF Work, RunningOn

\* A step of one request is a matter of its own alert and its own call.
LEMMA RequestStep ==
    ASSUME MemoryInv, NEW op \in Ops, Running(op), NEW b, NEW d,
           Moved(Mine(op), call[op], op, b, d),
           heap' = [heap EXCEPT ![call[op].id] = b],
           call' = [call EXCEPT ![op] = d],
           UNCHANGED <<created, answered, hit, ingested, toSeed, overlapped>>
    PROVE  MemoryInv'
<1> DEFINE c == call[op]
           a == heap[c.id]
<1>1. /\ c \in Calls /\ c.id \in AlertIds /\ a \in Alert(AllOps) /\ a # NoAlert
      /\ op \in RunningOn(c.id) /\ answered[op] = NoAlert
    BY WorkingFacts DEF Exists, Mine
<1>2. /\ b \in Alert(AllOps) /\ d \in Calls /\ ~Refused(d.base, d.req) /\ Left(d.req, d.todo)
      /\ d.id = c.id /\ d.req = c.req /\ d.base = c.base /\ b.evidence = a.evidence
      /\ Partial(a, c, op) => Partial(b, d, op)
    BY DEF Moved, Work, Mine
<1>3. b # NoAlert /\ d # NoCall
    BY <1>2, NoAlertAssumption, NoCallAssumption
<1>4. /\ heap \in [AlertIds -> Alert(AllOps) \cup {NoAlert}]
      /\ call \in [Ops -> Calls \cup {NoCall}]
    BY DEF MemoryInv, TypeOK
<1> HIDE DEF c
<1>5. /\ heap'[c.id] = b /\ call'[op] = d
      /\ \A id \in AlertIds : id # c.id => heap'[id] = heap[id]
      /\ \A o \in Ops : o # op => call'[o] = call[o]
    BY <1>1, <1>4 DEF c
<1>6. /\ \A id \in AlertIds : heap'[id] # NoAlert <=> heap[id] # NoAlert
      /\ \A o \in Ops : /\ call'[o] # NoCall <=> call[o] # NoCall
                        /\ call[o] # NoCall => call'[o].id = call[o].id
      /\ \A id \in AlertIds : heap[id] # NoAlert => heap'[id].evidence = heap[id].evidence
    BY <1>1, <1>2, <1>3, <1>5 DEF c, Running
<1>7. TypeOK'
    BY <1>1, <1>2, <1>4 DEF MemoryInv, TypeOK, c
<1>8. CallsInv'
    <2>1. ASSUME NEW o \in Ops
          PROVE  /\ answered'[o] # NoAlert => heap'[answered'[o]] # NoAlert
                 /\ call'[o] # NoCall => /\ answered'[o] = NoAlert
                                         /\ heap'[call'[o].id] # NoAlert
                                         /\ ~Refused(call'[o].base, call'[o].req)
                                         /\ Left(call'[o].req, call'[o].todo)
        <3>1. answered[o] \in AlertIds \cup {NoAlert}
            BY DEF MemoryInv, TypeOK
        <3>2. answered'[o] # NoAlert => heap'[answered'[o]] # NoAlert
            BY <1>6, <3>1 DEF MemoryInv, CallsInv, Exists
        <3>3. ASSUME o = op
              PROVE  /\ answered'[o] = NoAlert /\ heap'[call'[o].id] # NoAlert
                     /\ ~Refused(call'[o].base, call'[o].req) /\ Left(call'[o].req, call'[o].todo)
            BY <1>1, <1>2, <1>3, <1>5, <3>3
        <3>4. ASSUME o # op, call'[o] # NoCall
              PROVE  /\ answered'[o] = NoAlert /\ heap'[call'[o].id] # NoAlert
                     /\ ~Refused(call'[o].base, call'[o].req) /\ Left(call'[o].req, call'[o].todo)
            <4>1. call'[o] = call[o] /\ Running(o)
                BY <1>5, <3>4 DEF Running
            <4>2. call[o].id \in AlertIds
                BY <4>1, WorkingFacts
            <4> QED
                BY <1>6, <4>1, <4>2 DEF MemoryInv, CallsInv, Exists
        <3> QED
            BY <3>2, <3>3, <3>4
    <2> QED
        BY <2>1 DEF CallsInv, Exists, Running
<1>9. HitInv'
    <2>1. \A k \in 1 .. Len(created) : created[k] \in AlertIds
        BY DEF MemoryInv, TypeOK
    <2> QED
        BY <1>6, <2>1 DEF MemoryInv, HitInv, Exists
<1>10. EvidenceKept'
    BY <1>6 DEF MemoryInv, EvidenceKept, Exists
<1>11. ASSUME NEW id \in AlertIds, id \notin overlapped'
       PROVE  Separate(id)'
    <2>1. Separate(id)
        BY <1>11 DEF MemoryInv
    <2>2. RunningOn(id)' = RunningOn(id)
        BY <1>6 DEF RunningOn, Running
    <2>3. ASSUME id = c.id PROVE Separate(id)'
        <3>1. RunningOn(id) = {op} /\ Partial(a, c, op) /\ Sound(c.base, id)
            BY <1>1, <2>1, <2>3 DEF Separate, c
        <3>2. Partial(b, d, op) /\ Sound(d.base, id)'
            BY <1>2, <3>1 DEF Sound
        <3> QED
            BY <1>5, <2>2, <2>3, <3>1, <3>2 DEF Separate
    <2>4. ASSUME id # c.id PROVE Separate(id)'
        <3>1. op \notin RunningOn(id) /\ heap'[id] = heap[id]
              /\ \A o \in RunningOn(id) : call'[o] = call[o]
            BY <1>5, <2>4 DEF RunningOn, c
        <3>2. \A x : Sound(x, id)' <=> Sound(x, id)
            BY DEF Sound
        <3> QED
            BY <2>1, <2>2, <3>1, <3>2 DEF Separate, Exists, Sound
    <2> QED
        BY <2>3, <2>4
<1> QED
    BY <1>7, <1>8, <1>9, <1>10, <1>11 DEF MemoryInv

\* Reading the status keeps the invariant,
LEMMA ReadFromStep ==
    ASSUME MemoryInv, NEW op \in Ops, ReadFrom(op)
    PROVE  MemoryInv'
<1> DEFINE c == call[op]
           d == [[c EXCEPT !.from = Mine(op).status] EXCEPT !.todo = Tail(@)]
<1>1. Running(op) /\ Head(c.todo) = "from" /\ UNCHANGED heap
      /\ call' = [call EXCEPT ![op] = d]
      /\ UNCHANGED <<created, answered, hit, ingested, toSeed, overlapped>>
    BY DEF ReadFrom, At, Advance
<1>2. Moved(Mine(op), c, op, Mine(op), d)
    BY <1>1, WorkingFacts, FromMoves
<1>3. heap' = [heap EXCEPT ![c.id] = Mine(op)]
    BY <1>1 DEF MemoryInv, TypeOK, Mine
<1> HIDE DEF c, d
<1> QED
    BY <1>1, <1>2, <1>3, RequestStep DEF c

\* so does testing it,
LEMMA TestOpenStep ==
    ASSUME MemoryInv, NEW op \in Ops, TestOpen(op)
    PROVE  MemoryInv'
<1> DEFINE c == call[op]
           a == Mine(op)
           d == [[c EXCEPT !.todo = IF a.status = "OPEN" THEN <<@[1], "assigned">> \o Tail(@) ELSE @]
                   EXCEPT !.todo = Tail(@)]
<1>1. Running(op) /\ Head(c.todo) = "open?" /\ UNCHANGED heap
      /\ call' = [call EXCEPT ![op] = d]
      /\ UNCHANGED <<created, answered, hit, ingested, toSeed, overlapped>>
    BY DEF TestOpen, At, Advance
<1>2. Moved(a, c, op, a, d)
    BY <1>1, WorkingFacts, OpenMoves
<1>3. heap' = [heap EXCEPT ![c.id] = a]
    BY <1>1 DEF MemoryInv, TypeOK, Mine
<1> HIDE DEF c, d
<1> QED
    BY <1>1, <1>2, <1>3, RequestStep DEF c

\* writing a field,
LEMMA SetFieldStep ==
    ASSUME MemoryInv, NEW op \in Ops, SetField(op)
    PROVE  MemoryInv'
<1> DEFINE c == call[op]
           b == Written(Mine(op), c.req, Head(c.todo))
           d == [c EXCEPT !.todo = Tail(@)]
<1>1. Running(op) /\ Head(c.todo) \in Fields
      /\ call' = [call EXCEPT ![op] = d]
      /\ UNCHANGED <<created, answered, hit, ingested, toSeed, overlapped>>
    BY DEF SetField, At, Advance, Fields
<1>2. Moved(Mine(op), c, op, b, d)
    BY <1>1, WorkingFacts, FieldMoves
<1>3. heap' = [heap EXCEPT ![c.id] = b]
    BY DEF SetField, Mine
<1> HIDE DEF c, d, b
<1> QED
    BY <1>1, <1>2, <1>3, RequestStep DEF c

\* reading it again,
LEMMA ReadToStep ==
    ASSUME MemoryInv, NEW op \in Ops, ReadTo(op)
    PROVE  MemoryInv'
<1> DEFINE c == call[op]
           to == IF c.req.verb = "status" THEN c.req.arg ELSE Mine(op).status
           d == [[c EXCEPT !.to = to] EXCEPT !.todo = Tail(@)]
<1>1. Running(op) /\ Head(c.todo) = "to" /\ UNCHANGED heap
      /\ call' = [call EXCEPT ![op] = d]
      /\ UNCHANGED <<created, answered, hit, ingested, toSeed, overlapped>>
    BY DEF ReadTo, At, Advance
<1>2. Moved(Mine(op), c, op, Mine(op), d)
    BY <1>1, WorkingFacts, ToMoves
<1>3. heap' = [heap EXCEPT ![c.id] = Mine(op)]
    BY <1>1 DEF MemoryInv, TypeOK, Mine
<1> HIDE DEF c, d
<1> QED
    BY <1>1, <1>2, <1>3, RequestStep DEF c

\* reading the trail,
LEMMA ReadTrailStep ==
    ASSUME MemoryInv, NEW op \in Ops, ReadTrail(op)
    PROVE  MemoryInv'
<1> DEFINE c == call[op]
           d == [[c EXCEPT !.seen = Mine(op).trail] EXCEPT !.todo = Tail(@)]
<1>1. Running(op) /\ Head(c.todo) = "trail" /\ UNCHANGED heap
      /\ call' = [call EXCEPT ![op] = d]
      /\ UNCHANGED <<created, answered, hit, ingested, toSeed, overlapped>>
    BY DEF ReadTrail, At, Advance
<1>2. Moved(Mine(op), c, op, Mine(op), d)
    BY <1>1, WorkingFacts, ReadMoves
<1>3. heap' = [heap EXCEPT ![c.id] = Mine(op)]
    BY <1>1 DEF MemoryInv, TypeOK, Mine
<1> HIDE DEF c, d
<1> QED
    BY <1>1, <1>2, <1>3, RequestStep DEF c

\* and writing it back.
LEMMA WriteTrailStep ==
    ASSUME MemoryInv, NEW op \in Ops, WriteTrail(op)
    PROVE  MemoryInv'
<1> DEFINE c == call[op]
           a == heap[c.id]
           b == [a EXCEPT !.trail = Append(c.seen, Log(c, op))]
           d == [c EXCEPT !.todo = Tail(@)]
<1>1. Running(op) /\ Head(c.todo) = "log"
      /\ call' = [call EXCEPT ![op] = d]
      /\ UNCHANGED <<created, answered, hit, ingested, toSeed, overlapped>>
    BY DEF WriteTrail, At, Advance
<1>2. Moved(a, c, op, b, d)
    BY <1>1, WorkingFacts, WriteMoves DEF Mine
<1>3. Logged(op) = Log(c, op)
    BY DEF Logged, Log
<1>4. heap' = [heap EXCEPT ![c.id] = b]
    BY <1>3 DEF WriteTrail
<1>5. Moved(Mine(op), call[op], op, b, d)
    BY <1>2 DEF Mine
<1> HIDE DEF c, d, b
<1> QED
    BY <1>1, <1>5, <1>4, RequestStep DEF c

-----------------------------------------------------------------------------
(* The first and the last step of a request.                                *)

\* What a request has to do: read the status, write its fields, write the trail.
Laid(s, w) ==
    /\ s \in Seq(Steps) /\ Len(s) = Len(w) + 5 /\ s[1] = "from"
    /\ \A i \in 1 .. Len(w) : s[i + 1] = w[i]
    /\ s[Len(w) + 2] = "to" /\ s[Len(w) + 3] = "trail" /\ s[Len(w) + 4] = "log" /\ s[Len(w) + 5] = "update"

\* The list a request starts with: the status, its writes, the trail.
LEMMA Joined ==
    ASSUME NEW w \in Seq(Steps), NEW f, f = <<"from">>, NEW g, Joins(f, w, g), NEW s, Joins(g, AtTo, s)
    PROVE  Laid(s, w)
<1> DEFINE n == Len(w)
<1>1. Len(AtTo) = 4 /\ AtTo[1] = "to" /\ AtTo[2] = "trail" /\ AtTo[3] = "log" /\ AtTo[4] = "update"
    BY DEF AtTo
<1>2. Len(f) = 1 /\ f[1] = "from" /\ n \in Nat
    OBVIOUS
<1> HIDE DEF n
<1>3. Len(g) = 1 + n /\ g[1] = "from" /\ \A i \in 1 .. n : g[1 + i] = w[i]
    BY <1>2 DEF Joins, n
<1>4. s \in Seq(Steps) /\ Len(s) = 1 + n + 4 /\ \A i \in 1 .. 1 + n : s[i] = g[i]
    BY <1>1, <1>3 DEF Joins
<1>5. s[1 + n + 1] = "to" /\ s[1 + n + 2] = "trail" /\ s[1 + n + 3] = "log" /\ s[1 + n + 4] = "update"
    BY <1>1, <1>3 DEF Joins
<1>6. s[1] = "from" /\ \A i \in 1 .. n : s[i + 1] = w[i]
    BY <1>2, <1>3, <1>4
<1>7. 1 + n + 1 = n + 2 /\ 1 + n + 2 = n + 3 /\ 1 + n + 3 = n + 4 /\ 1 + n + 4 = n + 5
    BY <1>2
<1> QED
    BY <1>4, <1>5, <1>6, <1>7 DEF Laid, n

\* A list of that length with these steps is one of the lists above.
LEMMA Spelled ==
    ASSUME NEW s \in Seq(Steps), s[1] = "from"
    PROVE  /\ /\ Len(s) = 7 /\ s[2] = "assignee" /\ s[3] = "open?" /\ s[4] = "to" /\ s[5] = "trail" /\ s[6] = "log"
              /\ s[7] = "update"
              => s = AtAssign
           /\ /\ Len(s) = 6 /\ s[2] = "status" /\ s[3] = "to" /\ s[4] = "trail" /\ s[5] = "log" /\ s[6] = "update"
              => s = AtStart
           /\ /\ Len(s) = 6 /\ s[2] = "responded" /\ s[3] = "to" /\ s[4] = "trail" /\ s[5] = "log" /\ s[6] = "update"
              => s = AtRespond
           /\ /\ Len(s) = 8 /\ s[2] = "status" /\ s[3] = "resolution" /\ s[4] = "responded"
              /\ s[5] = "to" /\ s[6] = "trail" /\ s[7] = "log" /\ s[8] = "update"
              => s = AtResolve
           /\ /\ Len(s) = 5 /\ s[2] = "to" /\ s[3] = "trail" /\ s[4] = "log" /\ s[5] = "update"
              => s = AtComment
BY DEF AtAssign, AtStart, AtRespond, AtResolve, AtComment

\* The writes of a request are steps.
LEMMA WritesTyped ==
    ASSUME NEW req \in Requests
    PROVE  Writes(req) \in Seq(Steps)
<1>1. /\ <<"assignee", "open?">> \in Seq(Steps) /\ <<"status">> \in Seq(Steps)
      /\ <<"responded">> \in Seq(Steps) /\ <<"status", "resolution", "responded">> \in Seq(Steps)
      /\ <<>> \in Seq(Steps)
    BY DEF Steps
<1> QED
    BY <1>1 DEF Writes, Requests

\* The list each kind of request starts with.
LEMMA Plans ==
    ASSUME NEW req \in Requests, NEW s, Laid(s, Writes(req))
    PROVE  s = IF req.verb = "assign" THEN AtAssign
               ELSE IF req.verb = "status" THEN AtStart
               ELSE IF req.arg \in Acknowledging THEN AtRespond
               ELSE IF req.arg \in Resolving THEN AtResolve
               ELSE AtComment
<1> DEFINE w == Writes(req)
<1>1. /\ req.verb = "assign" => w = <<"assignee", "open?">>
      /\ req.verb = "status" => w = <<"status">>
      /\ req.verb = "action" /\ req.arg \in Acknowledging => w = <<"responded">>
      /\ req.verb = "action" /\ req.arg \in Resolving => w = <<"status", "resolution", "responded">>
      /\ req.verb = "action" /\ req.arg \notin Acknowledging \cup Resolving => w = <<>>
      /\ req.verb = "assign" \/ req.verb = "status" \/ req.verb = "action"
      /\ req.arg \in Resolving => req.arg \notin Acknowledging
    BY DEF Writes, Requests, Acknowledging, Resolving
<1> HIDE DEF w
<1>2. Laid(s, w)
    BY DEF w
<1>3. /\ s \in Seq(Steps) /\ Len(s) = Len(w) + 5 /\ s[1] = "from"
      /\ \A i \in 1 .. Len(w) : s[i + 1] = w[i]
      /\ s[Len(w) + 2] = "to" /\ s[Len(w) + 3] = "trail" /\ s[Len(w) + 4] = "log" /\ s[Len(w) + 5] = "update"
    BY <1>2 DEF Laid
<1>4. ASSUME req.verb = "assign" PROVE s = AtAssign
    <2>1. Len(w) = 2 /\ w[1] = "assignee" /\ w[2] = "open?"
        BY <1>1, <1>4
    <2>2. Len(s) = 7 /\ s[2] = "assignee" /\ s[3] = "open?" /\ s[4] = "to" /\ s[5] = "trail" /\ s[6] = "log" /\ s[7] = "update"
        BY <1>3, <2>1
    <2> QED
        BY <1>3, <2>2, Spelled
<1>5. ASSUME req.verb = "status" PROVE s = AtStart
    <2>1. Len(w) = 1 /\ w[1] = "status"
        BY <1>1, <1>5
    <2>2. Len(s) = 6 /\ s[2] = "status" /\ s[3] = "to" /\ s[4] = "trail" /\ s[5] = "log" /\ s[6] = "update"
        BY <1>3, <2>1
    <2> QED
        BY <1>3, <2>2, Spelled
<1>6. ASSUME req.verb = "action", req.arg \in Acknowledging PROVE s = AtRespond
    <2>1. Len(w) = 1 /\ w[1] = "responded"
        BY <1>1, <1>6
    <2>2. Len(s) = 6 /\ s[2] = "responded" /\ s[3] = "to" /\ s[4] = "trail" /\ s[5] = "log" /\ s[6] = "update"
        BY <1>3, <2>1
    <2> QED
        BY <1>3, <2>2, Spelled
<1>7. ASSUME req.verb = "action", req.arg \in Resolving PROVE s = AtResolve
    <2>1. Len(w) = 3 /\ w[1] = "status" /\ w[2] = "resolution" /\ w[3] = "responded"
        BY <1>1, <1>7
    <2>2. Len(s) = 8 /\ s[2] = "status" /\ s[3] = "resolution" /\ s[4] = "responded"
          /\ s[5] = "to" /\ s[6] = "trail" /\ s[7] = "log" /\ s[8] = "update"
        BY <1>3, <2>1
    <2> QED
        BY <1>3, <2>2, Spelled
<1>8. ASSUME req.verb = "action", req.arg \notin Acknowledging \cup Resolving PROVE s = AtComment
    <2>1. Len(w) = 0
        BY <1>1, <1>8
    <2>2. Len(s) = 5 /\ s[2] = "to" /\ s[3] = "trail" /\ s[4] = "log" /\ s[5] = "update"
        BY <1>3, <2>1
    <2> QED
        BY <1>3, <2>2, Spelled
<1> QED
    BY <1>1, <1>4, <1>5, <1>6, <1>7, <1>8

\* A request that has not begun has everything left to do.
LEMMA PlanFacts ==
    ASSUME NEW req \in Requests, NEW s, Laid(s, Writes(req)),
           NEW left, left = Pending(s)
    PROVE  /\ s \in Seq(Steps) /\ Left(req, s)
           /\ "to" \in left /\ "trail" \in left /\ "log" \in left /\ "assigned" \notin left
           /\ "assignee" \notin left => req.verb # "assign"
           /\ "open?" \notin left /\ "status" \notin left =>
                 req.verb = "action" /\ req.arg \notin Resolving
           /\ "resolution" \notin left => req.verb # "action" \/ req.arg \notin Resolving
           /\ "responded" \notin left => req.verb # "action" \/ req.arg \notin Acknowledging \cup Resolving
<1>0. s \in Seq(Steps)
    BY DEF Laid
<1>1. req.verb = "assign" \/ req.verb = "status" \/ req.verb = "action"
    BY DEF Requests
<1>2. ASSUME req.verb = "assign"
      PROVE  Left(req, s) /\ left = {"from", "assignee", "open?", "to", "trail", "log", "update"}
    <2>1. s = AtAssign
        BY <1>2, Plans
    <2> QED
        BY <1>2, <2>1, Shapes DEF Lists, Left
<1>3. ASSUME req.verb = "status"
      PROVE  Left(req, s) /\ left = {"from", "status", "to", "trail", "log", "update"}
    <2>1. s = AtStart
        BY <1>3, Plans
    <2> QED
        BY <1>3, <2>1, Shapes DEF Lists, Left
<1>4. ASSUME req.verb = "action", req.arg \in Acknowledging
      PROVE  Left(req, s) /\ left = {"from", "responded", "to", "trail", "log", "update"}
    <2>1. s = AtRespond
        BY <1>4, Plans
    <2> QED
        BY <1>4, <2>1, Shapes DEF Lists, Left
<1>5. ASSUME req.verb = "action", req.arg \in Resolving
      PROVE  Left(req, s) /\ left = {"from", "status", "resolution", "responded", "to", "trail", "log", "update"}
    <2>1. s = AtResolve
        BY <1>5, Plans DEF Resolving, Acknowledging
    <2> QED
        BY <1>5, <2>1, Shapes DEF Lists, Left
<1>6. ASSUME req.verb = "action", req.arg \notin Acknowledging \cup Resolving
      PROVE  Left(req, s) /\ left = {"from", "to", "trail", "log", "update"}
    <2>1. s = AtComment
        BY <1>6, Plans
    <2> QED
        BY <1>6, <2>1, Shapes DEF Lists, Left
<1>7. req.arg \in Resolving => req.arg \notin Acknowledging
    BY DEF Resolving, Acknowledging
<1> QED
    BY <1>0, <1>1, <1>2, <1>3, <1>4, <1>5, <1>6, <1>7

\* A request that has not begun has written nothing.
LEMMA BeginMoves ==
    ASSUME NEW a \in Alert(AllOps), NEW op \in Ops, NEW id \in AlertIds, NEW req \in Requests,
           ~Refused(a, req), NEW s, Laid(s, Writes(req)),
           NEW c, c = [id |-> id, req |-> req, base |-> a, from |-> a.status, to |-> a.status,
                    seen |-> <<>>, todo |-> s]
    PROVE  Work(a, c, op) /\ Partial(a, c, op)
<1> DEFINE left == Pending(s)
           b == Apply(a, op, req)
<1>1. /\ s \in Seq(Steps) /\ Left(req, s)
      /\ "to" \in left /\ "trail" \in left /\ "log" \in left /\ "assigned" \notin left
      /\ "assignee" \notin left => req.verb # "assign"
      /\ "open?" \notin left /\ "status" \notin left => req.verb = "action" /\ req.arg \notin Resolving
      /\ "resolution" \notin left => req.verb # "action" \/ req.arg \notin Resolving
      /\ "responded" \notin left => req.verb # "action" \/ req.arg \notin Acknowledging \cup Resolving
    BY PlanFacts
<1>2. /\ c.id = id /\ c.req = req /\ c.base = a /\ c.from = a.status /\ c.to = a.status /\ c.seen = <<>> /\ c.todo = s
    OBVIOUS
<1>3. c \in Calls
    BY <1>1 DEF Calls, Alert
<1> HIDE DEF left, b
<1>4. Effect(a, op, req, b)
    BY ApplyFields DEF b
<1>5. Partial(a, c, op)
    BY <1>1, <1>2, <1>4 DEF Partial, Effect, left, b
<1> QED
    BY <1>1, <1>2, <1>3, <1>5 DEF Work

\* The steps of a request, in order.
LEMMA LaidOut ==
    ASSUME NEW req \in Requests
    PROVE  Laid(<<"from">> \o Writes(req) \o <<"to", "trail", "log", "update">>, Writes(req))
<1> DEFINE s == <<"from">> \o Writes(req) \o <<"to", "trail", "log", "update">>
<1> DEFINE f == <<"from">>
           w == Writes(req)
<1>1. f \in Seq(Steps) /\ w \in Seq(Steps) /\ AtTo \in Seq(Steps)
    BY WritesTyped DEF Steps, AtTo
<1>2. s = f \o w \o AtTo
    BY DEF AtTo
<1>3. f = <<"from">>
    OBVIOUS
<1> HIDE DEF f, w, s
<1>4. Joins(f, w, f \o w)
    BY <1>1, ConcatJoins
<1>5. f \o w \in Seq(Steps)
    BY <1>4 DEF Joins
<1>6. Joins(f \o w, AtTo, f \o w \o AtTo)
    BY <1>1, <1>5, ConcatJoins
<1>7. Laid(s, w)
    BY <1>1, <1>2, <1>3, <1>4, <1>6, Joined
<1> QED
    BY <1>7 DEF s, w

\* The start of a request keeps the invariant.
LEMMA BeginStep ==
    ASSUME MemoryInv, NEW op \in Ops, NEW id \in AlertIds, NEW req \in Requests, Begin(op, id, req)
    PROVE  MemoryInv'
<1> DEFINE s == <<"from">> \o Writes(req) \o <<"to", "trail", "log", "update">>
           c == [id |-> id, req |-> req, base |-> heap[id], from |-> heap[id].status,
                 to |-> heap[id].status, seen |-> <<>>, todo |-> s]
<1>1. /\ ~Running(op) /\ answered[op] = NoAlert /\ Exists(id) /\ ~Refused(heap[id], req)
      /\ call' = [call EXCEPT ![op] = c]
      /\ overlapped' = IF RunningOn(id) = {} THEN overlapped ELSE overlapped \cup {id}
      /\ UNCHANGED <<heap, created, answered, hit, ingested, toSeed>>
    BY DEF Begin
<1>2. Laid(s, Writes(req))
    BY LaidOut
<1>3. heap[id] \in Alert(AllOps)
    BY <1>1 DEF MemoryInv, TypeOK, Exists
<1> HIDE DEF s
<1>4. /\ Work(heap[id], c, op) /\ Partial(heap[id], c, op)
      /\ c.id = id /\ c.base = heap[id] /\ c.req = req
    BY <1>1, <1>2, <1>3, BeginMoves
<1> HIDE DEF c
<1>5. c \in Calls /\ ~Refused(c.base, c.req) /\ Left(c.req, c.todo) /\ c # NoCall
    BY <1>4, NoCallAssumption DEF Work
<1>6. call'[op] = c /\ \A o \in Ops : o # op => call'[o] = call[o]
    BY <1>1 DEF MemoryInv, TypeOK
<1>7. TypeOK'
    BY <1>1, <1>5 DEF MemoryInv, TypeOK
<1>8. CallsInv'
    <2>1. ASSUME NEW o \in Ops
          PROVE  /\ answered'[o] # NoAlert => heap'[answered'[o]] # NoAlert
                 /\ call'[o] # NoCall => /\ answered'[o] = NoAlert
                                         /\ heap'[call'[o].id] # NoAlert
                                         /\ ~Refused(call'[o].base, call'[o].req)
                                         /\ Left(call'[o].req, call'[o].todo)
        <3>1. answered'[o] # NoAlert => heap'[answered'[o]] # NoAlert
            BY <1>1 DEF MemoryInv, CallsInv, Exists
        <3>2. ASSUME o = op
              PROVE  /\ answered'[o] = NoAlert /\ heap'[call'[o].id] # NoAlert
                     /\ ~Refused(call'[o].base, call'[o].req) /\ Left(call'[o].req, call'[o].todo)
            BY <1>1, <1>4, <1>5, <1>6, <3>2 DEF Exists
        <3>3. ASSUME o # op, call'[o] # NoCall
              PROVE  /\ answered'[o] = NoAlert /\ heap'[call'[o].id] # NoAlert
                     /\ ~Refused(call'[o].base, call'[o].req) /\ Left(call'[o].req, call'[o].todo)
            <4>1. call'[o] = call[o] /\ Running(o)
                BY <1>6, <3>3 DEF Running
            <4> QED
                BY <1>1, <4>1 DEF MemoryInv, CallsInv, Exists
        <3> QED
            BY <3>1, <3>2, <3>3
    <2> QED
        BY <2>1 DEF CallsInv, Exists, Running
<1>9. HitInv' /\ EvidenceKept'
    BY <1>1 DEF MemoryInv, HitInv, EvidenceKept, Exists
<1>10. ASSUME NEW i \in AlertIds, i \notin overlapped' PROVE Separate(i)'
    <2>1. i \notin overlapped /\ Separate(i) /\ (i = id => RunningOn(i) = {})
        BY <1>1, <1>10 DEF MemoryInv
    <2>2. \A x : Sound(x, i)' <=> Sound(x, i)
        BY <1>1 DEF Sound
    <2>3. ASSUME i = id PROVE Separate(i)'
        <3>1. RunningOn(i)' = {op}
            BY <1>4, <1>5, <1>6, <2>1, <2>3 DEF RunningOn, Running
        <3>2. Sound(heap[i], i)
            BY <1>1, <2>1, <2>3 DEF Separate
        <3>3. heap'[i] = heap[i] /\ call'[op] = c /\ Sound(heap[i], i)'
            BY <1>1, <1>6, <3>2 DEF Sound
        <3>4. Partial(heap[i], call[op], op)' /\ Sound(call[op].base, i)'
            BY <1>4, <2>3, <3>3 DEF Sound
        <3> QED
            BY <3>1, <3>4 DEF Separate
    <2>4. ASSUME i # id PROVE Separate(i)'
        <3>1. RunningOn(i)' = RunningOn(i) /\ \A o \in RunningOn(i) : call'[o] = call[o]
            BY <1>1, <1>4, <1>5, <1>6, <2>4 DEF RunningOn, Running
        <3> QED
            BY <1>1, <2>1, <3>1 DEF Separate, Exists, Sound
    <2> QED
        BY <2>3, <2>4
<1> QED
    BY <1>7, <1>8, <1>9, <1>10 DEF MemoryInv

\* Alerts that differ in their evidence only.
Alike(a, b) ==
    /\ a.key = b.key /\ a.status = b.status /\ a.assignee = b.assignee
    /\ a.responded = b.responded /\ a.resolution = b.resolution /\ a.trail = b.trail

\* Alerts that differ in their evidence only are alike to the invariant.
LEMMA AlikeFacts ==
    ASSUME NEW a, NEW b, Alike(a, b)
    PROVE  /\ Coherent(a) <=> Coherent(b)
           /\ \A o : (Once(a, o) <=> Once(b, o)) /\ (Carries(a, o) <=> Carries(b, o))
           /\ \A id : Sound(a, id) <=> Sound(b, id)
           /\ \A c, o : Partial(a, c, o) <=> Partial(b, c, o)
<1>1. Coherent(a) <=> Coherent(b)
    BY DEF Alike, Coherent
<1>2. \A o : (Once(a, o) <=> Once(b, o)) /\ (Carries(a, o) <=> Carries(b, o))
    BY DEF Alike, Once, Carries
<1>3. \A id : Sound(a, id) <=> Sound(b, id)
    BY <1>1, <1>2 DEF Sound
<1>4. \A c, o : Partial(a, c, o) <=> Partial(b, c, o)
    BY DEF Alike, Partial
<1> QED
    BY <1>1, <1>2, <1>3, <1>4

\* A request with nothing left to write has made of the alert what the atomic
\* service makes of it.
LEMMA LastMove ==
    ASSUME NEW a, NEW c, NEW op, Work(a, c, op), Head(c.todo) = "update", Partial(a, c, op)
    PROVE  Alike(a, Apply(c.base, op, c.req))
<1>1. Pending(c.todo) = {"update"} /\ c.base \in Alert(AllOps) /\ c.req \in Requests /\ op \in Ops
      /\ ~Refused(c.base, c.req)
    BY WorkFacts DEF Planned, Work
<1>2. Apply(c.base, op, c.req).key = c.base.key
    BY <1>1, ApplySound DEF AllOps
<1> QED
    BY <1>1, <1>2 DEF Partial, Alike

\* The end of a request keeps the invariant.
LEMMA UpdateStep ==
    ASSUME MemoryInv, NEW op \in Ops, Update(op)
    PROVE  MemoryInv'
<1> DEFINE c == call[op]
           a == Mine(op)
           b == Apply(c.base, op, c.req)
<1>1. /\ Running(op) /\ Head(c.todo) = "update"
      /\ call' = [call EXCEPT ![op] = NoCall]
      /\ answered' = [answered EXCEPT ![op] = c.id]
      /\ UNCHANGED <<heap, created, hit, ingested, toSeed, overlapped>>
    BY DEF Update, At
<1>2. /\ c \in Calls /\ c.id \in AlertIds /\ c.req \in Requests /\ c.base \in Alert(AllOps)
      /\ Exists(c.id) /\ Work(a, c, op) /\ op \in RunningOn(c.id)
      /\ answered[op] = NoAlert /\ ~Refused(c.base, c.req) /\ op \in AllOps
    BY <1>1, WorkingFacts, WorkFacts DEF Work
<1>3. /\ call'[op] = NoCall /\ answered'[op] = c.id
      /\ \A o \in Ops : o # op => call'[o] = call[o] /\ answered'[o] = answered[o]
    BY <1>1 DEF MemoryInv, TypeOK
<1>4. NoAlert \notin AlertIds
    BY NoAlertAssumption
<1> HIDE DEF c, a, b
<1>5. TypeOK'
    BY <1>1, <1>2 DEF MemoryInv, TypeOK
<1>6. CallsInv'
    <2>1. ASSUME NEW o \in Ops
          PROVE  /\ answered'[o] # NoAlert => heap'[answered'[o]] # NoAlert
                 /\ call'[o] # NoCall => /\ answered'[o] = NoAlert
                                         /\ heap'[call'[o].id] # NoAlert
                                         /\ ~Refused(call'[o].base, call'[o].req)
                                         /\ Left(call'[o].req, call'[o].todo)
        BY <1>1, <1>2, <1>3 DEF MemoryInv, CallsInv, Exists, Running
    <2> QED
        BY <2>1 DEF CallsInv, Exists, Running
<1>7. HitInv' /\ EvidenceKept'
    BY <1>1 DEF MemoryInv, HitInv, EvidenceKept, Exists
<1>8. ASSUME NEW i \in AlertIds, i \notin overlapped' PROVE Separate(i)'
    <2>1. i \notin overlapped /\ Separate(i)
        BY <1>1, <1>8 DEF MemoryInv
    <2>2. ASSUME i = c.id PROVE Separate(i)'
        <3>1. RunningOn(i) = {op} /\ Partial(heap[i], c, op) /\ Sound(c.base, i)
            BY <1>2, <2>1, <2>2 DEF Separate, c
        <3>2. RunningOn(i)' = {}
            BY <1>3, <3>1 DEF RunningOn, Running
        <3>3. heap[i] = a
            BY <2>2 DEF a, Mine, c
        <3>4. Alike(a, b)
            BY <1>1, <1>2, <3>1, <3>3, LastMove DEF b
        <3>5. Coherent(b)
            BY <1>2, <3>1, ApplySound DEF Sound, b
        <3>6. \A o : /\ Carries(b, o) <=> Carries(c.base, o) \/ o = op
                     /\ Once(c.base, o) /\ ~(o = op /\ Carries(c.base, o)) => Once(b, o)
            BY <1>2, ApplyCarries DEF b
        <3>7. \A o \in Ops : Once(b, o) /\ (Carries(b, o) <=> answered'[o] = i)
            BY <1>2, <1>3, <1>4, <2>2, <3>1, <3>6 DEF Sound
        <3>8. Coherent(a) /\ \A o \in Ops : Once(a, o) /\ (Carries(a, o) <=> answered'[o] = i)
            BY <3>4, <3>5, <3>7, AlikeFacts
        <3>9. heap'[i] = a
            BY <1>1, <3>3
        <3>10. Sound(heap[i], i)'
            BY <3>8, <3>9 DEF Sound
        <3> QED
            BY <3>2, <3>10 DEF Separate
    <2>3. ASSUME i # c.id PROVE Separate(i)'
        <3>1. RunningOn(i)' = RunningOn(i) /\ \A o \in RunningOn(i) : call'[o] = call[o]
            BY <1>1, <1>2, <1>3, <2>3 DEF RunningOn, Running, c
        <3>2. \A o \in Ops : answered'[o] = i <=> answered[o] = i
            BY <1>2, <1>3, <1>4, <2>3
        <3>3. \A x : Sound(x, i)' <=> Sound(x, i)
            BY <3>2 DEF Sound
        <3> QED
            BY <1>1, <2>1, <3>1, <3>2 DEF Separate, Exists, Sound
    <2> QED
        BY <2>2, <2>3
<1> QED
    BY <1>5, <1>6, <1>7, <1>8 DEF MemoryInv

-----------------------------------------------------------------------------
(* Steps of the pipeline.                                                   *)

\* A step that touches neither an alert nor a request.
LEMMA ScanStep ==
    ASSUME MemoryInv, UNCHANGED <<heap, created, call, answered, toSeed, overlapped>>,
           hit' \in Hits, ingested' \in Nat, ingested' > 0, hit'.at > 0,
           hit'.pc = "merge" => hit'.at <= Len(created)
    PROVE  MemoryInv'
<1>1. TypeOK'
    BY DEF MemoryInv, TypeOK
<1>2. CallsInv'
    BY DEF MemoryInv, CallsInv, Exists, Running
<1>3. hit' # NoHit
    BY NoHitAssumption
<1>4. HitInv' /\ EvidenceKept'
    BY <1>3 DEF MemoryInv, HitInv, EvidenceKept, Exists
<1>5. ASSUME NEW i \in AlertIds, i \notin overlapped' PROVE Separate(i)'
    BY <1>5 DEF MemoryInv, Separate, Exists, RunningOn, Running, Sound
<1> QED
    BY <1>1, <1>2, <1>4, <1>5 DEF MemoryInv

\* A new batch keeps the invariant.
LEMMA IngestBeginStep ==
    ASSUME MemoryInv, NEW key \in Keys, IngestBegin(key)
    PROVE  MemoryInv'
<1>1. hit' = [key |-> key, at |-> 1, pc |-> "scan"] /\ ingested' = ingested + 1
      /\ UNCHANGED <<heap, created, call, answered, toSeed, overlapped>>
    BY DEF IngestBegin
<1>2. hit' \in Hits /\ hit'.at > 0 /\ hit'.pc # "merge" /\ ingested' \in Nat /\ ingested' > 0
    BY <1>1 DEF Hits, MemoryInv, TypeOK
<1> QED
    BY <1>1, <1>2, ScanStep

\* Looking for the open alert keeps the invariant.
LEMMA FindOpenStep ==
    ASSUME MemoryInv, FindOpen
    PROVE  MemoryInv'
<1>1. /\ hit # NoHit /\ hit \in Hits /\ hit.at \in Nat \ {0} /\ ingested \in Nat \ {0}
      /\ Len(created) \in Nat
    BY DEF FindOpen, Scanning, MemoryInv, TypeOK, HitInv, Hits
<1>2. /\ \/ hit' = [hit EXCEPT !.pc = "create"]
         \/ hit.at <= Len(created) /\ hit' = [hit EXCEPT !.pc = "merge"]
         \/ hit' = [hit EXCEPT !.at = @ + 1] /\ hit.pc = "scan"
      /\ UNCHANGED <<heap, created, call, answered, ingested, toSeed, overlapped>>
    BY DEF FindOpen, Scanning
<1>3. hit' \in Hits /\ hit'.at > 0 /\ (hit'.pc = "merge" => hit'.at <= Len(created))
    BY <1>1, <1>2 DEF Hits
<1> QED
    BY <1>1, <1>2, <1>3, ScanStep

\* Merging puts the batch last (Alert.Merge keeps the newest event IDs).
LEMMA MergeNewest ==
    ASSUME NEW Os, NEW a \in Alert(Os), NEW batch \in Nat
    PROVE  /\ Merge(a, batch) \in Alert(Os) /\ Alike(a, Merge(a, batch))
           /\ Merge(a, batch).evidence # <<>>
           /\ Merge(a, batch).evidence[Len(Merge(a, batch).evidence)] = batch
<1> DEFINE s == a.evidence
           t == Append(s, batch)
           n == Len(s)
<1>1. s \in Seq(Nat) /\ n \in Nat
    BY DEF Alert
<1>2. t \in Seq(Nat) /\ Len(t) = n + 1 /\ t[n + 1] = batch
    BY <1>1
<1>3. Merge(a, batch).evidence = Capped(t) /\ Alike(a, Merge(a, batch))
    BY DEF Merge, Alert, Alike
<1> HIDE DEF t, s, n
<1>4. Capped(t) # <<>> /\ Capped(t)[Len(Capped(t))] = batch
    <2>1. CASE Len(t) > EvidenceCap
        <3>1. Len(Capped(t)) = EvidenceCap /\ Capped(t)[EvidenceCap] = t[n + 1] /\ EvidenceCap > 0
            BY <2>1, <1>1, <1>2, EvidenceCapAssumption DEF Capped
        <3> QED
            BY <3>1, <1>2, EvidenceCapAssumption
    <2>2. CASE ~(Len(t) > EvidenceCap)
        BY <2>2, <1>1, <1>2 DEF Capped
    <2> QED
        BY <2>1, <2>2
<1> QED
    BY <1>3, <1>4, MergeSound

\* Merging a batch, whatever requests are under way, keeps the invariant.
LEMMA IngestMergeStep ==
    ASSUME MemoryInv, IngestMerge
    PROVE  MemoryInv'
<1> DEFINE j == created[hit.at]
           a == heap[j]
           m == Merge(a, ingested)
<1>1. /\ heap' = [heap EXCEPT ![j] = m] /\ hit' = NoHit /\ hit # NoHit /\ hit.pc = "merge"
      /\ UNCHANGED <<created, call, answered, ingested, toSeed, overlapped>>
    BY DEF IngestMerge
<1>2. hit \in Hits /\ hit.at \in 1 .. Len(created)
    BY <1>1 DEF MemoryInv, TypeOK, HitInv, Hits
<1>3. j \in AlertIds /\ a # NoAlert /\ a \in Alert(AllOps) /\ ingested \in Nat
    BY <1>2 DEF MemoryInv, TypeOK, HitInv, Exists
<1>4. /\ m \in Alert(AllOps) /\ Alike(a, m) /\ m # NoAlert
      /\ m.evidence # <<>> /\ m.evidence[Len(m.evidence)] = ingested
    BY <1>3, MergeNewest, NoAlertAssumption
<1> HIDE DEF j, m
<1>5. /\ heap \in [AlertIds -> Alert(AllOps) \cup {NoAlert}]
      /\ heap'[j] = m /\ \A i \in AlertIds : i # j => heap'[i] = heap[i]
    BY <1>1, <1>3 DEF MemoryInv, TypeOK
<1>6. /\ \A i \in AlertIds : heap'[i] # NoAlert <=> heap[i] # NoAlert
      /\ \A i \in AlertIds : heap[i] # NoAlert => Alike(heap[i], heap'[i])
    BY <1>3, <1>4, <1>5 DEF Alike
<1>7. TypeOK'
    BY <1>1, <1>3, <1>4, <1>5 DEF MemoryInv, TypeOK
<1>8. CallsInv'
    <2>1. \A o \in Ops : call[o] # NoCall => call[o].id \in AlertIds
        BY WorkingFacts DEF Running
    <2>2. \A o \in Ops : answered[o] \in AlertIds \cup {NoAlert}
        BY DEF MemoryInv, TypeOK
    <2> QED
        BY <1>1, <1>6, <2>1, <2>2 DEF MemoryInv, CallsInv, Exists, Running
<1>9. HitInv'
    <2>1. \A k \in 1 .. Len(created) : created[k] \in AlertIds
        BY DEF MemoryInv, TypeOK
    <2> QED
        BY <1>1, <1>6, <2>1 DEF MemoryInv, HitInv, Exists
<1>10. EvidenceKept'
    BY <1>1, <1>3, <1>4, <1>5 DEF EvidenceKept, Exists
<1>11. ASSUME NEW i \in AlertIds, i \notin overlapped' PROVE Separate(i)'
    <2>1. Separate(i)
        BY <1>1, <1>11 DEF MemoryInv
    <2>2. RunningOn(i)' = RunningOn(i)
        BY <1>1 DEF RunningOn, Running
    <2>3. \A o \in RunningOn(i) : heap[i] # NoAlert
        BY DEF RunningOn, MemoryInv, CallsInv, Exists
    <2>4. heap[i] # NoAlert => /\ \A x : Sound(heap[i], x) <=> Sound(heap'[i], x)
                               /\ \A c, o : Partial(heap[i], c, o) <=> Partial(heap'[i], c, o)
        BY <1>6, AlikeFacts
    <2>5. \A x : Sound(x, i)' <=> Sound(x, i)
        BY <1>1 DEF Sound
    <2>6. Exists(i)' /\ RunningOn(i)' = {} => Sound(heap[i], i)'
        <3>1. ASSUME heap'[i] # NoAlert, RunningOn(i) = {} PROVE Sound(heap'[i], i)
            BY <1>6, <2>1, <2>4, <3>1 DEF Separate, Exists
        <3> QED
            BY <1>1, <2>2, <3>1 DEF Exists, Sound
    <2>7. ASSUME NEW o \in RunningOn(i)
          PROVE  Partial(heap'[i], call[o], o) /\ Sound(call[o].base, i) /\ RunningOn(i) = {o}
        BY <2>1, <2>3, <2>4 DEF Separate
    <2> QED
        BY <1>1, <2>2, <2>6, <2>7 DEF Separate, Sound
<1> QED
    BY <1>7, <1>8, <1>9, <1>10, <1>11 DEF MemoryInv

\* A new alert is nobody's business yet.
LEMMA CreateStep ==
    ASSUME MemoryInv, NEW id \in AlertIds, NEW a \in Alert(AllOps), CreateAlert(id, a), Coherent(a),
           \A o \in Ops : Once(a, o) /\ ~Carries(a, o),
           hit' \in Hits \cup {NoHit}, toSeed' \subseteq Seeds,
           hit' = NoHit \/ hit' = hit, EvidenceKept'
    PROVE  MemoryInv'
<1>1. /\ ~Exists(id) /\ heap' = [heap EXCEPT ![id] = a] /\ created' = Append(created, id)
      /\ UNCHANGED <<call, answered, ingested, overlapped>>
    BY DEF CreateAlert
<1>2. a # NoAlert /\ NoAlert \notin AlertIds
    BY NoAlertAssumption
<1>3. /\ heap \in [AlertIds -> Alert(AllOps) \cup {NoAlert}] /\ created \in Seq(AlertIds)
      /\ heap'[id] = a /\ \A i \in AlertIds : i # id => heap'[i] = heap[i]
    BY <1>1 DEF MemoryInv, TypeOK
<1>4. \A i \in AlertIds : heap[i] # NoAlert => heap'[i] = heap[i] /\ heap'[i] # NoAlert
    BY <1>1, <1>3 DEF Exists
<1>5. /\ Len(created) \in Nat /\ Len(created') = Len(created) + 1
      /\ \A k \in 1 .. Len(created) : created'[k] = created[k] /\ created[k] \in AlertIds
      /\ created'[Len(created) + 1] = id
    BY <1>1, <1>3
<1>6. TypeOK'
    BY <1>1, <1>3 DEF MemoryInv, TypeOK
<1>7. CallsInv'
    <2>1. \A o \in Ops : call[o] # NoCall => call[o].id \in AlertIds
        BY WorkingFacts DEF Running
    <2>2. \A o \in Ops : answered[o] \in AlertIds \cup {NoAlert}
        BY DEF MemoryInv, TypeOK
    <2> QED
        BY <1>1, <1>4, <2>1, <2>2 DEF MemoryInv, CallsInv, Exists, Running
<1>8. HitInv'
    <2>1. ASSUME NEW k \in 1 .. Len(created') PROVE heap'[created'[k]] # NoAlert
        <3>1. k \in 1 .. Len(created) \/ k = Len(created) + 1
            BY <1>5
        <3>2. ASSUME k \in 1 .. Len(created) PROVE heap'[created'[k]] # NoAlert
            <4>1. heap[created[k]] # NoAlert
                BY <3>2 DEF MemoryInv, HitInv, Exists
            <4> QED
                BY <1>4, <1>5, <3>2, <4>1
        <3> QED
            BY <1>2, <1>3, <1>5, <3>1, <3>2
    <2>2. hit' # NoHit => hit' = hit /\ hit \in Hits
        BY DEF MemoryInv, TypeOK
    <2>3. hit' # NoHit => /\ ingested' > 0 /\ hit'.at > 0
                          /\ hit'.pc = "merge" => hit'.at <= Len(created')
        BY <1>1, <1>5, <2>2 DEF MemoryInv, HitInv, Hits
    <2> QED
        BY <2>1, <2>3 DEF HitInv, Exists
<1>9. ASSUME NEW i \in AlertIds, i \notin overlapped' PROVE Separate(i)'
    <2>1. Separate(i)
        BY <1>1, <1>9 DEF MemoryInv
    <2>2. RunningOn(i)' = RunningOn(i)
        BY <1>1 DEF RunningOn, Running
    <2>3. ASSUME i = id PROVE Separate(i)'
        <3>1. RunningOn(i) = {}
            BY <1>1, <2>3 DEF RunningOn, MemoryInv, CallsInv
        <3>2. \A o \in Ops : answered[o] # i
            BY <1>1, <1>2, <2>3 DEF MemoryInv, CallsInv, Exists
        <3>3. Sound(a, i)
            BY <3>2 DEF Sound
        <3> QED
            BY <1>1, <1>3, <2>2, <2>3, <3>1, <3>3 DEF Separate, Sound
    <2>4. ASSUME i # id PROVE Separate(i)'
        BY <1>1, <1>3, <2>1, <2>2, <2>4 DEF Separate, Exists, Sound
    <2> QED
        BY <2>3, <2>4
<1> QED
    BY <1>6, <1>7, <1>8, <1>9 DEF MemoryInv

\* Creating an alert for a batch keeps the invariant.
LEMMA IngestCreateStep ==
    ASSUME MemoryInv, IngestCreate
    PROVE  MemoryInv'
<1>1. PICK id \in AlertIds : CreateAlert(id, NewAlert(hit.key, ingested))
    BY DEF IngestCreate
<1>2. hit # NoHit /\ hit' = NoHit /\ UNCHANGED toSeed
    BY DEF IngestCreate
<1> DEFINE a == NewAlert(hit.key, ingested)
<1>3. hit.key \in Keys /\ ingested \in Nat
    BY <1>2 DEF MemoryInv, TypeOK, Hits
<1>4. a \in Alert(AllOps) /\ Coherent(a)
    BY <1>3, NewAlertSound
<1>5. a.trail = <<>> /\ a.evidence = <<ingested>>
    BY DEF NewAlert
<1> HIDE DEF a
<1>6. \A o \in Ops : Once(a, o) /\ ~Carries(a, o)
    BY <1>5 DEF Once, Carries
<1>7. EvidenceKept'
    <2>1. heap' = [heap EXCEPT ![id] = a] /\ ingested' = ingested
        BY <1>1 DEF CreateAlert, a
    <2>2. heap'[id] = a
        BY <2>1 DEF MemoryInv, TypeOK
    <2>3. a # NoAlert
        BY <1>4, NoAlertAssumption
    <2>4. a.evidence # <<>> /\ a.evidence[Len(a.evidence)] = ingested
        BY <1>5
    <2> QED
        BY <2>1, <2>2, <2>3, <2>4 DEF EvidenceKept, Exists
<1>8. toSeed' \subseteq Seeds
    BY <1>2 DEF MemoryInv, TypeOK
<1>9. CreateAlert(id, a)
    BY <1>1 DEF a
<1> QED
    BY <1>2, <1>4, <1>6, <1>7, <1>8, <1>9, CreateStep

\* Creating a demo alert keeps the invariant.
LEMMA SeedDemoStep ==
    ASSUME MemoryInv, NEW seed \in Seeds, NEW id \in AlertIds, SeedDemo(seed, id)
    PROVE  MemoryInv'
<1> DEFINE a == Contract!SeedAlert(seed)
           e == [op |-> SeedOp, act |-> "mitigate", from |-> "OPEN", to |-> "RESOLVED"]
<1>1. CreateAlert(id, a) /\ hit' = hit /\ toSeed' \subseteq Seeds
    BY DEF SeedDemo, MemoryInv, TypeOK
<1>2. seed.key \in Keys /\ seed.assignee \in Analysts \cup {Nobody}
      /\ seed.resolution \in Resolutions \ {"none"}
    BY SeedsAssumption
<1>3. e \in Entry(AllOps)
    BY DEF Entry, AllOps, Statuses, Acknowledging, Resolving
<1>4. a = [key |-> seed.key, status |-> "RESOLVED", assignee |-> seed.assignee, responded |-> TRUE,
           resolution |-> seed.resolution, evidence |-> <<>>, trail |-> <<e>>]
    BY DEF Contract!SeedAlert
<1>5. e.op = SeedOp /\ e.from = "OPEN" /\ e.to = "RESOLVED"
    OBVIOUS
<1> HIDE DEF a, e
<1>6. <<e>> \in Seq(Entry(AllOps)) /\ Len(<<e>>) = 1 /\ <<e>>[1] = e
    BY <1>3
<1>7. a \in Alert(AllOps)
    BY <1>2, <1>4, <1>6 DEF Alert, Statuses
<1>8. /\ a.status = "RESOLVED" /\ a.responded = TRUE /\ a.resolution = seed.resolution /\ a.trail = <<e>>
    BY <1>4
<1>9. Coherent(a)
    BY <1>2, <1>5, <1>6, <1>8 DEF Coherent, ChainedTrail, TrailStatus, IsActive
<1>10. \A o \in Ops : Once(a, o) /\ ~Carries(a, o)
    BY <1>5, <1>6, <1>8, SeedOpAssumption DEF Once, Carries
<1>11. EvidenceKept'
    <2>1. heap' = [heap EXCEPT ![id] = a] /\ ~Exists(id) /\ UNCHANGED ingested
        BY <1>1 DEF CreateAlert
    <2>2. \A i \in AlertIds : heap[i] # NoAlert => heap'[i] = heap[i]
        BY <2>1 DEF MemoryInv, TypeOK, Exists
    <2> QED
        BY <1>1, <2>1, <2>2 DEF MemoryInv, EvidenceKept, Exists
<1>12. hit' \in Hits \cup {NoHit}
    BY <1>1 DEF MemoryInv, TypeOK
<1> QED
    BY <1>1, <1>7, <1>9, <1>10, <1>11, <1>12, CreateStep

-----------------------------------------------------------------------------
(* The invariant, and what it implies.                                      *)

\* The inductive invariant: types, what requests and batches in progress point
\* to, the evidence, and for every alert no two requests have met on, that it is
\* at rest or on its way from one rest to the next.
THEOREM MemoryInvariant == Spec => []MemoryInv
<1>1. Init => MemoryInv
    <2> SUFFICES ASSUME Init PROVE MemoryInv
        OBVIOUS
    <2> USE DEF Init
    <2>1. TypeOK
        BY DEF TypeOK
    <2>2. CallsInv
        BY DEF CallsInv, Running
    <2>3. HitInv /\ EvidenceKept
        BY DEF HitInv, EvidenceKept
    <2>4. \A id \in AlertIds : Separate(id)
        BY DEF Separate, Exists, RunningOn, Running
    <2> QED
        BY <2>1, <2>2, <2>3, <2>4 DEF MemoryInv
<1>2. MemoryInv /\ [Next]_vars => MemoryInv'
    <2> SUFFICES ASSUME MemoryInv, [Next]_vars PROVE MemoryInv'
        OBVIOUS
    <2>1. ASSUME NEW op \in Ops, NEW id \in AlertIds, NEW req \in Requests, Begin(op, id, req)
          PROVE  MemoryInv'
        BY <2>1, BeginStep
    <2>2. ASSUME NEW op \in Ops, ReadFrom(op) PROVE MemoryInv'
        BY <2>2, ReadFromStep
    <2>3. ASSUME NEW op \in Ops, TestOpen(op) PROVE MemoryInv'
        BY <2>3, TestOpenStep
    <2>4. ASSUME NEW op \in Ops, SetField(op) PROVE MemoryInv'
        BY <2>4, SetFieldStep
    <2>4a. ASSUME NEW op \in Ops, ReadTo(op) PROVE MemoryInv'
        BY <2>4a, ReadToStep
    <2>5. ASSUME NEW op \in Ops, ReadTrail(op) PROVE MemoryInv'
        BY <2>5, ReadTrailStep
    <2>6. ASSUME NEW op \in Ops, WriteTrail(op) PROVE MemoryInv'
        BY <2>6, WriteTrailStep
    <2>7. ASSUME NEW op \in Ops, Update(op) PROVE MemoryInv'
        BY <2>7, UpdateStep
    <2>8. ASSUME NEW key \in Keys, IngestBegin(key) PROVE MemoryInv'
        BY <2>8, IngestBeginStep
    <2>9. CASE FindOpen
        BY <2>9, FindOpenStep
    <2>10. CASE IngestMerge
        BY <2>10, IngestMergeStep
    <2>11. CASE IngestCreate
        BY <2>11, IngestCreateStep
    <2>12. ASSUME NEW seed \in Seeds, NEW id \in AlertIds, SeedDemo(seed, id) PROVE MemoryInv'
        BY <2>12, SeedDemoStep
    <2>13. CASE UNCHANGED vars
        <3>1. TypeOK' /\ CallsInv' /\ HitInv' /\ EvidenceKept'
            BY <2>13 DEF vars, MemoryInv, TypeOK, CallsInv, HitInv, EvidenceKept, Exists, Running
        <3>2. ASSUME NEW id \in AlertIds, id \notin overlapped' PROVE Separate(id)'
            BY <2>13, <3>2 DEF vars, MemoryInv, Separate, Exists, RunningOn, Running, Sound
        <3> QED
            BY <3>1, <3>2 DEF MemoryInv
    <2> QED
        BY <2>1, <2>2, <2>3, <2>4, <2>5, <2>4a, <2>6, <2>7, <2>8, <2>9, <2>10, <2>11, <2>12, <2>13 DEF Next
<1> QED
    BY <1>1, <1>2, PTL DEF Spec

\* Every pointer, call, batch and history variable keeps its type
\* (store/memory.go, service.go).
THEOREM TypeCorrect == Spec => []TypeOK
<1>1. MemoryInv => TypeOK
    BY DEF MemoryInv
<1> QED
    BY <1>1, MemoryInvariant, PTL

\* However requests overlap, the last batch Ingest returned from is the newest
\* evidence of some alert: no other goroutine writes EventIDs.
THEOREM EvidenceIsKept == Spec => []EvidenceKept
<1>1. MemoryInv => EvidenceKept
    BY DEF MemoryInv
<1> QED
    BY <1>1, MemoryInvariant, PTL

\* An alert on which no two requests have met is coherent whenever it is at rest,
\* and each request answered for it is in its trail exactly once, whatever has
\* become of the other alerts.
THEOREM HarmStaysLocal == Spec => []HarmIsLocal
<1>1. MemoryInv => HarmIsLocal
    <2> SUFFICES ASSUME MemoryInv, NEW id \in AlertIds \ overlapped, Exists(id), RunningOn(id) = {}
                 PROVE  /\ Coherent(heap[id])
                        /\ \A op \in Ops : answered[op] = id =>
                              Cardinality({i \in 1 .. Len(heap[id].trail) : heap[id].trail[i].op = op}) = 1
        BY DEF HarmIsLocal
    <2>1. Sound(heap[id], id)
        BY DEF MemoryInv, Separate
    <2>2. ASSUME NEW op \in Ops, answered[op] = id
          PROVE  Cardinality({i \in 1 .. Len(heap[id].trail) : heap[id].trail[i].op = op}) = 1
        <3> DEFINE S == {i \in 1 .. Len(heap[id].trail) : heap[id].trail[i].op = op}
        <3>1. Once(heap[id], op) /\ Carries(heap[id], op)
            BY <2>1, <2>2 DEF Sound
        <3>2. PICK i \in 1 .. Len(heap[id].trail) : heap[id].trail[i].op = op
            BY <3>1 DEF Carries
        <3>3. S = {i}
            BY <3>1, <3>2 DEF Once
        <3> QED
            BY <3>3, FS_Singleton
    <2> QED
        BY <2>1, <2>2 DEF Sound
<1> QED
    BY <1>1, MemoryInvariant, PTL

-----------------------------------------------------------------------------
(* Where FindOpen has been.                                                 *)

\* The list of alerts is complete, and as long as no requests have overlapped the
\* alerts a scan has passed stay closed to its key until its batch is recorded.
ScanInv ==
    /\ \A id \in AlertIds : Exists(id) => \E k \in 1 .. Len(created) : created[k] = id
    /\ hit # NoHit => ingested - 1 < MaxBatches
    /\ overlapped = {} /\ hit # NoHit =>
          \A k \in 1 .. Len(created) : \/ hit.pc # "create" /\ k >= hit.at
                                       \/ heap[created[k]].key # hit.key
                                       \/ ~IsActive(heap[created[k]].status)

\* A request that has its alert to itself never reopens it.
LEMMA FieldCloses ==
    ASSUME NEW a, NEW c, NEW op, Work(a, c, op), Head(c.todo) \in Fields, Partial(a, c, op),
           IsActive(Written(a, c.req, Head(c.todo)).status)
    PROVE  IsActive(a.status)
<1> DEFINE next == Head(c.todo)
           w == Written(a, c.req, next)
           left == Pending(c.todo)
<1>1. /\ c.req \in Requests /\ c.base \in Alert(AllOps) /\ Planned(c.req, c.todo) /\ next \in left
      /\ ~Refused(c.base, c.req) /\ Left(c.req, c.todo) /\ a \in Alert(AllOps) /\ next \in Fields
    BY WorkFacts DEF Work, Shape
<1>2. next = "assignee" => w = [a EXCEPT !.assignee = c.req.arg]
    BY DEF Written
<1>3. next = "resolution" =>
         w = [a EXCEPT !.resolution = IF c.req.arg = "mitigate" THEN "mitigated" ELSE "false_positive"]
    BY DEF Written
<1>4. next = "responded" => w = [a EXCEPT !.responded = TRUE]
    BY DEF Written
<1>5. next = "status" =>
         w = [a EXCEPT !.status = IF c.req.verb = "status" THEN c.req.arg ELSE "RESOLVED"]
    BY DEF Written
<1>6. next = "assigned" => a.status = "OPEN"
    BY <1>1 DEF Partial
<1>7. ASSUME next = "status" PROVE IsActive(a.status)
    <2>1. w.status = IF c.req.verb = "status" THEN c.req.arg ELSE "RESOLVED"
        BY <1>1, <1>5, <1>7 DEF Alert
    <2>2. c.req.verb = "status"
        BY <2>1 DEF IsActive
    <2>3. IsActive(c.base.status)
        BY <1>1, <2>2 DEF Refused
    <2> QED
        BY <1>1, <1>7, <2>3 DEF Partial
<1>8. ASSUME next \in {"assignee", "resolution", "responded"} PROVE w.status = a.status
    BY <1>1, <1>2, <1>3, <1>4, <1>8 DEF Alert
<1> QED
    BY <1>1, <1>6, <1>7, <1>8 DEF Fields, IsActive

\* While no alert is reopened and no batch moves, those passed stay closed.
LEMMA ScanKept ==
    ASSUME MemoryInv, ScanInv, UNCHANGED <<created, hit, ingested>>,
           overlapped' = {} => overlapped = {},
           \A i \in AlertIds :
              /\ heap'[i] # NoAlert => heap[i] # NoAlert
              /\ heap[i] # NoAlert => heap'[i].key = heap[i].key
              /\ heap[i] # NoAlert /\ overlapped' = {} =>
                    (IsActive(heap'[i].status) => IsActive(heap[i].status))
    PROVE  ScanInv'
<1>1. \A k \in 1 .. Len(created) : created[k] \in AlertIds /\ heap[created[k]] # NoAlert
    BY DEF MemoryInv, TypeOK, HitInv, Exists
<1> QED
    BY <1>1 DEF ScanInv, Exists

\* Until two overlap, a request that writes a field or the trail reopens nothing.
LEMMA RequestScan ==
    ASSUME MemoryInv, ScanInv, NEW op \in Ops, SetField(op) \/ WriteTrail(op)
    PROVE  ScanInv'
<1> DEFINE c == call[op]
           a == heap[c.id]
           b == heap'[c.id]
<1>1. /\ Running(op) /\ UNCHANGED <<created, hit, ingested, overlapped>>
    BY DEF SetField, WriteTrail, At, Advance
<1>2. /\ c \in Calls /\ c.id \in AlertIds /\ a \in Alert(AllOps) /\ a # NoAlert /\ Work(a, c, op)
      /\ op \in RunningOn(c.id)
      /\ heap \in [AlertIds -> Alert(AllOps) \cup {NoAlert}]
    BY <1>1, WorkingFacts DEF Mine, Exists, MemoryInv, TypeOK
<1> HIDE DEF c
<1>3. overlapped = {} => Partial(a, c, op)
    BY <1>2 DEF MemoryInv, Separate, c
<1>4. ASSUME SetField(op)
      PROVE  /\ b.key = a.key /\ \A i \in AlertIds : i # c.id => heap'[i] = heap[i]
             /\ overlapped = {} => (IsActive(b.status) => IsActive(a.status))
    <2> DEFINE w == Written(a, c.req, Head(c.todo))
    <2>1. heap' = [heap EXCEPT ![c.id] = w] /\ Head(c.todo) \in Fields
        BY <1>4 DEF SetField, At, Fields, c
    <2>2. b = w /\ \A i \in AlertIds : i # c.id => heap'[i] = heap[i]
        BY <1>2, <2>1
    <2>3. w.key = a.key
        BY <1>2, <2>1, FieldMoves DEF Moved
    <2>4. overlapped = {} => (IsActive(w.status) => IsActive(a.status))
        BY <1>2, <1>3, <2>1, FieldCloses
    <2> QED
        BY <2>2, <2>3, <2>4
<1>5. ASSUME WriteTrail(op)
      PROVE  /\ b.key = a.key /\ \A i \in AlertIds : i # c.id => heap'[i] = heap[i]
             /\ b.status = a.status
    <2> DEFINE t == Append(c.seen, Logged(op))
    <2>1. heap' = [heap EXCEPT ![c.id].trail = t]
        BY <1>5 DEF WriteTrail, c
    <2> HIDE DEF t
    <2>2. b = [a EXCEPT !.trail = t] /\ \A i \in AlertIds : i # c.id => heap'[i] = heap[i]
        BY <1>2, <2>1
    <2> HIDE DEF b, a
    <2> QED
        BY <1>2, <2>2 DEF Alert
<1>6. /\ b.key = a.key /\ \A i \in AlertIds : i # c.id => heap'[i] = heap[i]
      /\ overlapped = {} => (IsActive(b.status) => IsActive(a.status))
    BY <1>4, <1>5
<1> QED
    BY <1>1, <1>2, <1>6, ScanKept

\* A new alert comes behind those FindOpen has passed.
LEMMA CreateScan ==
    ASSUME MemoryInv, ScanInv, NEW id \in AlertIds, NEW a, CreateAlert(id, a),
           hit' = NoHit \/ (hit' = hit /\ ~IsActive(a.status) /\ ~Scanning)
    PROVE  ScanInv'
<1>1. /\ ~Exists(id) /\ heap' = [heap EXCEPT ![id] = a] /\ created' = Append(created, id)
      /\ UNCHANGED <<ingested, overlapped>>
    BY DEF CreateAlert
<1>2. /\ created \in Seq(AlertIds)
      /\ heap'[id] = a /\ \A i \in AlertIds : i # id => heap'[i] = heap[i]
    BY <1>1 DEF MemoryInv, TypeOK
<1>3. /\ Len(created) \in Nat /\ Len(created') = Len(created) + 1
      /\ \A k \in 1 .. Len(created) : created'[k] = created[k] /\ created[k] \in AlertIds
                                      /\ created[k] # id
      /\ created'[Len(created) + 1] = id
      /\ \A k \in 1 .. Len(created') : k \in 1 .. Len(created) \/ k = Len(created) + 1
      /\ \A k \in 1 .. Len(created) : k \in 1 .. Len(created')
      /\ Len(created) + 1 \in 1 .. Len(created')
    BY <1>1, <1>2 DEF MemoryInv, HitInv
<1>4. ASSUME NEW i \in AlertIds, heap'[i] # NoAlert PROVE \E k \in 1 .. Len(created') : created'[k] = i
    <2>1. CASE i = id
        BY <1>3, <2>1
    <2>2. CASE i # id
        <3>1. PICK k \in 1 .. Len(created) : created[k] = i
            BY <1>2, <1>4, <2>2 DEF ScanInv, Exists
        <3> QED
            BY <1>3, <3>1
    <2> QED
        BY <2>1, <2>2
<1>5. ASSUME overlapped' = {}, hit' # NoHit, NEW k \in 1 .. Len(created')
      PROVE  \/ hit'.pc # "create" /\ k >= hit'.at
             \/ heap'[created'[k]].key # hit'.key
             \/ ~IsActive(heap'[created'[k]].status)
    <2>1. CASE k \in 1 .. Len(created)
        <3>1. created'[k] = created[k] /\ heap'[created'[k]] = heap[created[k]]
            BY <1>2, <1>3, <2>1
        <3> QED
            BY <1>1, <1>5, <2>1, <3>1 DEF ScanInv
    <2>2. CASE k = Len(created) + 1
        BY <1>2, <1>3, <1>5, <2>2
    <2> QED
        BY <1>3, <2>1, <2>2
<1>6. hit' # NoHit => ingested' - 1 < MaxBatches
    BY <1>1 DEF ScanInv
<1> QED
    BY <1>4, <1>5, <1>6 DEF ScanInv, Exists

\* FindOpen passes only alerts that are closed or of another key.
LEMMA FindOpenScan ==
    ASSUME MemoryInv, ScanInv, FindOpen
    PROVE  ScanInv'
<1>1. /\ hit # NoHit /\ hit \in Hits /\ hit.pc = "scan" /\ hit.at \in Nat \ {0} /\ Len(created) \in Nat
    BY DEF FindOpen, Scanning, MemoryInv, TypeOK, HitInv, Hits
<1>2. /\ \/ hit.at > Len(created) /\ hit' = [hit EXCEPT !.pc = "create"]
         \/ hit' = [hit EXCEPT !.pc = "merge"]
         \/ /\ hit' = [hit EXCEPT !.at = @ + 1]
            /\ hit.at <= Len(created)
            /\ heap[created[hit.at]].key # hit.key \/ ~IsActive(heap[created[hit.at]].status)
      /\ UNCHANGED <<heap, created, call, answered, ingested, toSeed, overlapped>>
    BY <1>1 DEF FindOpen, Scanning, Candidate
<1>3. hit' \in Hits /\ hit' # NoHit /\ hit'.key = hit.key
    BY <1>1, <1>2, NoHitAssumption DEF Hits
<1>4. ASSUME overlapped = {}, NEW k \in 1 .. Len(created)
      PROVE  \/ hit'.pc # "create" /\ k >= hit'.at
             \/ heap[created[k]].key # hit.key
             \/ ~IsActive(heap[created[k]].status)
    <2>1. \/ k >= hit.at
          \/ heap[created[k]].key # hit.key
          \/ ~IsActive(heap[created[k]].status)
        BY <1>1, <1>4 DEF ScanInv
    <2>2. CASE hit.at > Len(created) /\ hit' = [hit EXCEPT !.pc = "create"]
        BY <1>1, <2>1, <2>2
    <2>3. CASE hit' = [hit EXCEPT !.pc = "merge"]
        <3>1. hit'.pc = "merge" /\ hit'.at = hit.at
            BY <1>1, <2>3 DEF Hits
        <3> QED
            BY <2>1, <3>1
    <2>4. CASE /\ hit' = [hit EXCEPT !.at = @ + 1] /\ hit.at <= Len(created)
               /\ heap[created[hit.at]].key # hit.key \/ ~IsActive(heap[created[hit.at]].status)
        <3>1. hit'.pc = "scan" /\ hit'.at = hit.at + 1
            BY <1>1, <2>4 DEF Hits
        <3>2. k = hit.at \/ k < hit.at \/ k >= hit.at + 1
            BY <1>1
        <3> QED
            BY <1>1, <2>1, <2>4, <3>1, <3>2
    <2> QED
        BY <1>2, <2>2, <2>3, <2>4
<1> QED
    BY <1>1, <1>2, <1>3, <1>4 DEF ScanInv, Exists

\* The alerts FindOpen has passed stay closed until it is done.
LEMMA ScanInvariant == Spec => []ScanInv
<1>1. Init => ScanInv
    BY DEF Init, ScanInv, Exists
<1>2. MemoryInv /\ ScanInv /\ [Next]_vars => ScanInv'
    <2> SUFFICES ASSUME MemoryInv, ScanInv, [Next]_vars PROVE ScanInv'
        OBVIOUS
    <2>1. ASSUME UNCHANGED <<heap, created, hit, ingested>>, overlapped' = {} => overlapped = {}
          PROVE  ScanInv'
        BY <2>1, ScanKept
    <2>2. ASSUME NEW op \in Ops, NEW id \in AlertIds, NEW req \in Requests, Begin(op, id, req)
          PROVE  ScanInv'
        BY <2>1, <2>2 DEF Begin
    <2>3. ASSUME NEW op \in Ops, ReadFrom(op) \/ TestOpen(op) \/ ReadTo(op) \/ ReadTrail(op) \/ Update(op)
          PROVE  ScanInv'
        BY <2>1, <2>3 DEF ReadFrom, TestOpen, ReadTo, ReadTrail, Update, Advance
    <2>4. ASSUME NEW op \in Ops, SetField(op) \/ WriteTrail(op) PROVE ScanInv'
        BY <2>4, RequestScan
    <2>5. ASSUME NEW key \in Keys, IngestBegin(key) PROVE ScanInv'
        <3>1. /\ hit' = [key |-> key, at |-> 1, pc |-> "scan"]
              /\ ingested \in Nat /\ ingested < MaxBatches /\ ingested' = ingested + 1
              /\ UNCHANGED <<heap, created, call, answered, toSeed, overlapped>>
            BY <2>5 DEF IngestBegin, MemoryInv, TypeOK
        <3>2. hit'.at = 1 /\ hit'.pc = "scan"
            BY <3>1
        <3>3. ingested' - 1 < MaxBatches /\ \A k \in 1 .. Len(created) : k >= hit'.at
            BY <3>1, <3>2
        <3> QED
            BY <3>1, <3>2, <3>3 DEF ScanInv, Exists
    <2>6. CASE FindOpen
        BY <2>6, FindOpenScan
    <2>7. CASE IngestMerge
        <3> DEFINE j == created[hit.at]
                   m == Merge(heap[j], ingested)
        <3>1. heap' = [heap EXCEPT ![j] = m] /\ hit' = NoHit /\ UNCHANGED <<created, ingested>>
              /\ hit.at \in 1 .. Len(created)
            BY <2>7 DEF IngestMerge, MemoryInv, TypeOK, HitInv, Hits
        <3>2. heap[j] # NoAlert
            BY <3>1 DEF MemoryInv, HitInv, Exists
        <3>3. \A i \in AlertIds : heap'[i] # NoAlert => heap[i] # NoAlert
            BY <3>1, <3>2 DEF MemoryInv, TypeOK
        <3> QED
            BY <3>1, <3>3 DEF ScanInv, Exists
    <2>8. CASE IngestCreate
        <3> DEFINE a == NewAlert(hit.key, ingested)
        <3>1. PICK id \in AlertIds : CreateAlert(id, a)
            BY <2>8 DEF IngestCreate
        <3>2. hit' = NoHit
            BY <2>8 DEF IngestCreate
        <3>3. hit' = NoHit \/ (hit' = hit /\ ~IsActive(a.status) /\ ~Scanning)
            BY <3>2
        <3> HIDE DEF a
        <3> QED
            BY <3>1, <3>3, CreateScan
    <2>9. ASSUME NEW seed \in Seeds, NEW id \in AlertIds, SeedDemo(seed, id) PROVE ScanInv'
        <3>1. Contract!SeedAlert(seed).status = "RESOLVED"
            BY DEF Contract!SeedAlert
        <3> QED
            BY <2>9, <3>1, CreateScan DEF SeedDemo, IsActive
    <2>10. CASE UNCHANGED vars
        BY <2>1, <2>10 DEF vars
    <2> QED
        BY <2>2, <2>3, <2>4, <2>5, <2>6, <2>7, <2>8, <2>9, <2>10 DEF Next
<1> QED
    BY <1>1, <1>2, MemoryInvariant, PTL DEF Spec

-----------------------------------------------------------------------------
(* The contract.                                                            *)

\* The alert as the contract sees it, before the batch on its way to it.
Base(id) ==
    LET done == {op \in RunningOn(id) : Effective(op)}
    IN IF done = {} THEN heap[id]
       ELSE LET op == CHOOSE x \in done : TRUE
            IN [Apply(call[op].base, op, call[op].req) EXCEPT !.evidence = heap[id].evidence]

Merging(id) == hit # NoHit /\ hit.pc = "merge" /\ created[hit.at] = id

Seen(id) == IF Merging(id) THEN Merge(Base(id), ingested) ELSE Base(id)

\* The store the contract sees, alert by alert.
LEMMA AlertsAreSeen == AbsAlerts = [id \in AlertIds |-> Seen(id)]
BY DEF AbsAlerts, Seen, Base, Merging

\* Two alerts that are alike and have the same evidence are the same.
LEMMA SameAlert ==
    ASSUME NEW Os, NEW a \in Alert(Os), NEW b \in Alert(Os), Alike(a, b), a.evidence = b.evidence
    PROVE  a = b
BY DEF Alert, Alike

\* A request decides alike about alerts that are alike.
LEMMA ApplyAlike ==
    ASSUME NEW a \in Alert(AllOps), NEW b \in Alert(AllOps), Alike(a, b),
           NEW op \in Ops, NEW req \in Requests, ~Refused(a, req)
    PROVE  /\ ~Refused(b, req)
           /\ Apply(a, op, req) \in Alert(AllOps) /\ Apply(a, op, req).evidence = a.evidence
           /\ Apply(b, op, req) \in Alert(AllOps) /\ Apply(b, op, req).evidence = b.evidence
           /\ Alike(Apply(a, op, req), Apply(b, op, req))
<1>1. ~Refused(b, req)
    BY DEF Refused, Alike
<1> DEFINE x == Apply(a, op, req)
           y == Apply(b, op, req)
<1>2. Effect(a, op, req, x) /\ Effect(b, op, req, y)
    BY <1>1, ApplyFields
<1> HIDE DEF x, y
<1>3. req.verb = "assign" \/ req.verb = "status" \/ req.verb = "action"
    BY DEF Requests
<1>4. x.key = y.key /\ x.assignee = y.assignee /\ x.status = y.status
    BY <1>2, <1>3 DEF Effect, Alike
<1>5. x.responded = y.responded /\ x.resolution = y.resolution
    BY <1>2, <1>3 DEF Effect, Alike
<1>6. x.trail = y.trail
    <2>1. ASSUME req.verb = "assign" PROVE x.trail = y.trail
        <3> DEFINE Entered(z) == [op |-> op, act |-> "assign", from |-> a.status, to |-> z]
        <3>1. x.trail = Append(a.trail, Entered(x.status))
            BY <1>2, <2>1, SMTT(30) DEF Effect
        <3>2. y.trail = Append(a.trail, Entered(x.status))
            BY <1>2, <1>4, <2>1, SMTT(30) DEF Effect, Alike
        <3> QED
            BY <3>1, <3>2
    <2>2. ASSUME req.verb = "status" PROVE x.trail = y.trail
        BY <1>2, <1>4, <2>2, SMTT(30) DEF Effect, Alike
    <2>3. ASSUME req.verb = "action" PROVE x.trail = y.trail
        BY <1>2, <1>4, <2>3, SMTT(30) DEF Effect, Alike
    <2> QED
        BY <1>3, <2>1, <2>2, <2>3
<1> QED
    BY <1>1, <1>2, <1>4, <1>5, <1>6 DEF Effect, Alike, x, y

\* Merging and applying a request commute.
LEMMA MergeCommutes ==
    ASSUME NEW a \in Alert(AllOps), NEW op \in Ops, NEW req \in Requests, ~Refused(a, req), NEW n \in Nat
    PROVE  /\ Merge(a, n) \in Alert(AllOps) /\ ~Refused(Merge(a, n), req)
           /\ Apply(Merge(a, n), op, req) = Merge(Apply(a, op, req), n)
<1> DEFINE m == Merge(a, n)
           x == Apply(a, op, req)
           y == Apply(m, op, req)
           z == Merge(x, n)
<1>1. m \in Alert(AllOps) /\ Alike(a, m) /\ m.evidence = Capped(Append(a.evidence, n))
    BY MergeNewest DEF Merge, Alert
<1> HIDE DEF m
<1>2. ~Refused(m, req) /\ x \in Alert(AllOps) /\ x.evidence = a.evidence
      /\ y \in Alert(AllOps) /\ y.evidence = m.evidence /\ Alike(x, y)
    BY <1>1, ApplyAlike
<1> HIDE DEF x, y
<1>3. z \in Alert(AllOps) /\ Alike(x, z) /\ z.evidence = Capped(Append(x.evidence, n))
    BY <1>2, MergeNewest DEF Merge, Alert
<1> HIDE DEF z
<1>4. Alike(y, z) /\ y.evidence = z.evidence
    BY <1>1, <1>2, <1>3 DEF Alike
<1>5. y = z
    BY <1>2, <1>3, <1>4, SameAlert
<1> QED
    BY <1>1, <1>2, <1>5 DEF m, x, y, z

\* A request has taken effect unless it still has to write that it resolves.
EffectIs ==
    \A op \in Ops : Running(op) =>
        (Effective(op) <=> ~(call[op].req.verb = "action" /\ "status" \in Pending(call[op].todo)))

\* Where each request stands, as its list of steps tells.
LEMMA EffectLemma == MemoryInv => EffectIs
<1> SUFFICES ASSUME MemoryInv, NEW op \in Ops, Running(op)
             PROVE  Effective(op) <=> ~(call[op].req.verb = "action" /\ "status" \in Pending(call[op].todo))
    BY DEF EffectIs
<1> DEFINE c == call[op]
<1>1. c.req \in Requests /\ Planned(c.req, c.todo)
    BY WorkingFacts, WorkFacts
<1>2. Effective(op) <=> ~(c.req.arg \in Resolving /\ "status" \in Pending(c.todo))
    BY DEF Effective, Pending
<1> HIDE DEF c
<1>3. "status" \in Pending(c.todo) =>
         c.req.verb = "status" \/ (c.req.verb = "action" /\ c.req.arg \in Resolving)
    BY <1>1 DEF Planned
<1>4. c.req.verb = "status" => c.req.arg \notin Resolving
    BY <1>1 DEF Requests, Statuses, Resolving
<1> QED
    BY <1>2, <1>3, <1>4 DEF c

\* What the contract sees of an alert no two requests have met on.
BaseIs ==
    \A id \in AlertIds :
        /\ heap[id] = NoAlert => Base(id) = NoAlert
        /\ (\A op \in RunningOn(id) : ~Effective(op)) => Base(id) = heap[id]
        /\ heap[id] # NoAlert =>
              /\ Base(id) \in Alert(AllOps)
              /\ Base(id).evidence = heap[id].evidence /\ Base(id).key = heap[id].key
              /\ IsActive(Base(id).status) <=> IsActive(heap[id].status)
              /\ \A op \in RunningOn(id) :
                    Effective(op) => Alike(Base(id), Apply(call[op].base, op, call[op].req))

\* The alert of a request that has taken effect is as open as it will be left.
LEMMA EffectiveStatus ==
    ASSUME NEW a, NEW c, NEW op, Work(a, c, op), Partial(a, c, op),
           ~(c.req.verb = "action" /\ "status" \in Pending(c.todo))
    PROVE  IsActive(Apply(c.base, op, c.req).status) <=> IsActive(a.status)
<1> DEFINE b == Apply(c.base, op, c.req)
           left == Pending(c.todo)
<1>1. /\ c.req \in Requests /\ c.base \in Alert(AllOps) /\ op \in Ops /\ Planned(c.req, c.todo)
      /\ ~Refused(c.base, c.req)
    BY WorkFacts DEF Work
<1>2. Effect(c.base, op, c.req, b)
    <2>1. c.base \in Alert(AllOps) /\ op \in Ops /\ c.req \in Requests /\ ~Refused(c.base, c.req)
        BY <1>1
    <2> QED
        BY <2>1, ApplyFields, Zenon
<1>3. /\ "assignee" \in left \/ "open?" \in left \/ "assigned" \in left => c.req.verb = "assign"
      /\ "status" \in left => c.req.verb = "status"
    BY <1>1 DEF Planned
<1> HIDE DEF b, left
<1>4. CASE "open?" \in left \/ "assigned" \in left
    <2>1. IsActive(c.base.status) /\ a.status = c.base.status
        BY <1>1, <1>3, <1>4 DEF Refused, Partial, left
    <2> QED
        BY <1>2, <1>3, <1>4, <2>1 DEF Effect, IsActive, b
<1>5. CASE "status" \in left
    <2>1. IsActive(c.base.status) /\ a.status = c.base.status /\ c.req.arg # "RESOLVED"
        BY <1>1, <1>3, <1>5 DEF Refused, Partial, left
    <2> QED
        BY <1>2, <1>3, <1>5, <2>1 DEF Effect, IsActive, b
<1>6. CASE ~("open?" \in left \/ "assigned" \in left \/ "status" \in left)
    BY <1>6 DEF Partial, left, b
<1> QED
    BY <1>4, <1>5, <1>6

\* Until two requests overlap, an alert is seen as its request left or will leave it.
LEMMA BaseLemma == MemoryInv /\ overlapped = {} => BaseIs
<1> SUFFICES ASSUME MemoryInv, overlapped = {}, NEW id \in AlertIds
             PROVE  /\ heap[id] = NoAlert => Base(id) = NoAlert
                    /\ (\A op \in RunningOn(id) : ~Effective(op)) => Base(id) = heap[id]
                    /\ heap[id] # NoAlert =>
                          /\ Base(id) \in Alert(AllOps)
                          /\ Base(id).evidence = heap[id].evidence /\ Base(id).key = heap[id].key
                          /\ IsActive(Base(id).status) <=> IsActive(heap[id].status)
                          /\ \A op \in RunningOn(id) :
                                Effective(op) => Alike(Base(id), Apply(call[op].base, op, call[op].req))
    BY DEF BaseIs
<1> DEFINE done == {op \in RunningOn(id) : Effective(op)}
<1>1. CASE done = {}
    <2>1. Base(id) = heap[id]
        BY <1>1 DEF Base
    <2>2. \A op \in RunningOn(id) : ~Effective(op)
        BY <1>1
    <2>3. heap[id] # NoAlert => heap[id] \in Alert(AllOps)
        BY DEF MemoryInv, TypeOK
    <2> QED
        BY <2>1, <2>2, <2>3
<1>2. CASE done # {}
    <2>1. PICK op \in RunningOn(id) : Effective(op)
        BY <1>2
    <2>2. Separate(id) /\ op \in Ops /\ Running(op) /\ call[op].id = id
        BY <2>1 DEF MemoryInv, RunningOn
    <2>3. RunningOn(id) = {op} /\ Partial(heap[id], call[op], op)
        BY <2>1, <2>2 DEF Separate
    <2>4. done = {op}
        BY <2>1, <2>3
    <2> DEFINE c == call[op]
               x == Apply(c.base, op, c.req)
    <2>5. Base(id) = [x EXCEPT !.evidence = heap[id].evidence]
        <3>1. (CHOOSE y \in {op} : TRUE) = op
            OBVIOUS
        <3>2. Base(id) = LET o == CHOOSE y \in done : TRUE
                         IN [Apply(call[o].base, o, call[o].req) EXCEPT !.evidence = heap[id].evidence]
            BY <1>2 DEF Base
        <3> HIDE DEF done
        <3> QED
            BY <2>4, <3>1, <3>2
    <2>6. /\ Work(heap[id], c, op) /\ heap[id] \in Alert(AllOps) /\ heap[id] # NoAlert
          /\ c.base \in Alert(AllOps) /\ c.req \in Requests /\ ~Refused(c.base, c.req)
        BY <2>2, WorkingFacts, WorkFacts DEF Mine, Exists, Work
    <2>7. x \in Alert(AllOps) /\ x.key = c.base.key
        BY <2>2, <2>6, ApplySound DEF AllOps
    <2>8. ~(c.req.verb = "action" /\ "status" \in Pending(c.todo))
        BY <2>1, <2>2, EffectLemma DEF EffectIs
    <2>9. IsActive(x.status) <=> IsActive(heap[id].status)
        BY <2>3, <2>6, <2>8, EffectiveStatus
    <2>10. c.base.key = heap[id].key
        BY <2>3 DEF Partial
    <2> HIDE DEF x, c
    <2>11. /\ Base(id) \in Alert(AllOps) /\ Base(id).evidence = heap[id].evidence
           /\ Alike(Base(id), x)
        BY <2>5, <2>6, <2>7 DEF Alert, Alike
    <2>12. Base(id).key = heap[id].key /\ (IsActive(Base(id).status) <=> IsActive(heap[id].status))
        BY <2>7, <2>9, <2>10, <2>11 DEF Alike
    <2> QED
        BY <2>1, <2>3, <2>6, <2>11, <2>12 DEF x, c
<1> QED
    BY <1>1, <1>2

\* The same after a step,
LEMMA BaseNext == MemoryInv' /\ (overlapped = {})' => BaseIs'
<1>1. MemoryInv /\ overlapped = {} => BaseIs
    BY BaseLemma
<1> QED
    BY <1>1, PTL

\* and for where each request stands.
LEMMA EffectNext == MemoryInv' => EffectIs'
<1>1. MemoryInv => EffectIs
    BY EffectLemma
<1> QED
    BY <1>1, PTL

\* A step that leaves the requests on an alert where they were, to the contract, and
\* the alert too unless one of them has taken effect, leaves what the contract sees.
LEMMA BaseKept ==
    ASSUME BaseIs, BaseIs', NEW i \in AlertIds,
           heap'[i] # NoAlert <=> heap[i] # NoAlert,
           heap[i] # NoAlert => heap'[i].evidence = heap[i].evidence,
           RunningOn(i)' = RunningOn(i),
           \A o \in RunningOn(i) : /\ Effective(o)' <=> Effective(o)
                                   /\ call'[o].base = call[o].base /\ call'[o].req = call[o].req,
           (\A o \in RunningOn(i) : ~Effective(o)) => heap'[i] = heap[i]
    PROVE  Base(i)' = Base(i)
<1>1. CASE heap[i] = NoAlert
    BY <1>1 DEF BaseIs
<1>2. CASE \A o \in RunningOn(i) : ~Effective(o)
    BY <1>2 DEF BaseIs
<1>3. CASE heap[i] # NoAlert /\ ~(\A o \in RunningOn(i) : ~Effective(o))
    <2>1. PICK o \in RunningOn(i) : Effective(o)
        BY <1>3
    <2> DEFINE x == Apply(call[o].base, o, call[o].req)
    <2>2. Alike(Base(i), x) /\ Base(i) \in Alert(AllOps) /\ Base(i).evidence = heap[i].evidence
        BY <1>3, <2>1 DEF BaseIs
    <2>3. /\ Alike(Base(i)', Apply(call'[o].base, o, call'[o].req)) /\ Base(i)' \in Alert(AllOps)
          /\ Base(i)'.evidence = heap'[i].evidence
        BY <1>3, <2>1 DEF BaseIs
    <2>4. Alike(Base(i)', x)
        BY <2>1, <2>3
    <2> HIDE DEF x
    <2>5. Alike(Base(i)', Base(i)) /\ Base(i)'.evidence = Base(i).evidence
        BY <1>3, <2>2, <2>3, <2>4 DEF Alike
    <2> QED
        BY <2>2, <2>3, <2>5, SameAlert
<1> QED
    BY <1>1, <1>2, <1>3

ContractStep == Contract!Next \/ UNCHANGED Contract!vars

\* Store and contract share the model of an alert.
LEMMA SameModel ==
    /\ Contract!Requests = Requests
    /\ \A a, req : Contract!Refused(a, req) = Refused(a, req)
    /\ \A a, op, req : Contract!Apply(a, op, req) = Apply(a, op, req)
    /\ \A a, batch : Contract!Merge(a, batch) = Merge(a, batch)
    /\ \A key, batch : Contract!NewAlert(key, batch) = NewAlert(key, batch)
    /\ \A status : Contract!IsActive(status) = IsActive(status)
<1>1. Contract!Requests = Requests
    BY DEF Contract!Requests, Requests, Contract!Statuses, Statuses
<1>2. ASSUME NEW a, NEW req PROVE Contract!Refused(a, req) = Refused(a, req)
    BY DEF Contract!Refused, Refused, Contract!IsActive, IsActive
<1>3. ASSUME NEW a, NEW op, NEW req PROVE Contract!Apply(a, op, req) = Apply(a, op, req)
    BY DEF Contract!Apply, Apply, Contract!Assign, Assign, Contract!SetStatus, SetStatus,
           Contract!Action, Action, Contract!AppendAction, AppendAction,
           Contract!Acknowledging, Acknowledging
<1>4. ASSUME NEW a, NEW batch PROVE Contract!Merge(a, batch) = Merge(a, batch)
    BY DEF Contract!Merge, Merge, Contract!Capped, Capped
<1>5. ASSUME NEW key, NEW batch PROVE Contract!NewAlert(key, batch) = NewAlert(key, batch)
    BY DEF Contract!NewAlert, NewAlert
<1>6. \A status : Contract!IsActive(status) = IsActive(status)
    BY DEF Contract!IsActive, IsActive
<1> QED
    BY <1>1, <1>2, <1>3, <1>4, <1>5, <1>6

\* A step the contract does not see.
LEMMA UnseenStep ==
    ASSUME \A i \in AlertIds : Seen(i)' = Seen(i),
           \A o \in Ops : o \in AbsAnswered' <=> o \in AbsAnswered,
           UNCHANGED <<AbsIngested, toSeed>>
    PROVE  ContractStep
<1>1. AbsAlerts = [i \in AlertIds |-> Seen(i)] /\ AbsAlerts' = [i \in AlertIds |-> Seen(i)']
    BY AlertsAreSeen DEF AbsAlerts, Seen, Base, Merging
<1>2. AbsAlerts' = AbsAlerts
    BY <1>1
<1>3. AbsAnswered' = AbsAnswered
    <2>1. AbsAnswered \subseteq Ops /\ AbsAnswered' \subseteq Ops
        BY DEF AbsAnswered
    <2> QED
        BY <2>1
<1> QED
    BY <1>2, <1>3 DEF ContractStep, Contract!vars

\* A step that the contract sees as a change of one alert.
LEMMA SeenStep ==
    ASSUME NEW id \in AlertIds, NEW a, Seen(id)' = a,
           \A i \in AlertIds : i # id => Seen(i)' = Seen(i)
    PROVE  AbsAlerts' = [AbsAlerts EXCEPT ![id] = a] /\ \A i \in AlertIds : AbsAlerts[i] = Seen(i)
<1>1. AbsAlerts = [i \in AlertIds |-> Seen(i)] /\ AbsAlerts' = [i \in AlertIds |-> Seen(i)']
    BY AlertsAreSeen DEF AbsAlerts, Seen, Base, Merging
<1> QED
    BY <1>1

\* A request takes effect on the alert as the contract sees it.
LEMMA HandleStep ==
    ASSUME NEW op \in Ops, NEW id \in AlertIds, NEW req \in Requests,
           Base(id) \in Alert(AllOps), ~Refused(Base(id), req),
           Base(id)' = Apply(Base(id), op, req),
           \A i \in AlertIds : i # id => Base(i)' = Base(i),
           ingested \in Nat, UNCHANGED <<hit, created, ingested, toSeed>>,
           op \notin AbsAnswered, \A o \in Ops : o \in AbsAnswered' <=> o \in AbsAnswered \/ o = op
    PROVE  ContractStep
<1>1. UNCHANGED AbsIngested /\ \A i \in AlertIds : Merging(i)' <=> Merging(i)
    BY DEF AbsIngested, Merging
<1>2. \A i \in AlertIds : i # id => Seen(i)' = Seen(i)
    BY <1>1 DEF Seen
<1>3. /\ Seen(id) \in Alert(AllOps) /\ ~Refused(Seen(id), req)
      /\ Seen(id)' = Apply(Seen(id), op, req)
    <2>1. CASE Merging(id)
        <3>1. Seen(id) = Merge(Base(id), ingested) /\ Seen(id)' = Merge(Base(id)', ingested)
            BY <1>1, <2>1 DEF Seen
        <3> QED
            BY <3>1, MergeCommutes
    <2>2. CASE ~Merging(id)
        <3>1. Seen(id) = Base(id) /\ Seen(id)' = Base(id)'
            BY <1>1, <2>2 DEF Seen
        <3> QED
            BY <3>1
    <2> QED
        BY <2>1, <2>2
<1>4. /\ AbsAlerts' = [AbsAlerts EXCEPT ![id] = Apply(Seen(id), op, req)]
      /\ AbsAlerts[id] = Seen(id)
    BY <1>2, <1>3, SeenStep
<1>5. AbsAnswered' = AbsAnswered \cup {op}
    <2>1. AbsAnswered \subseteq Ops /\ AbsAnswered' \subseteq Ops
        BY DEF AbsAnswered
    <2> QED
        BY <2>1
<1>6. Seen(id) # NoAlert
    BY <1>3, NoAlertAssumption
<1>7. AbsAlerts' = [AbsAlerts EXCEPT ![id] = Contract!Apply(@, op, req)]
    BY <1>4, SameModel
<1>8. Contract!Exists(id) /\ ~Contract!Refused(AbsAlerts[id], req)
    BY <1>3, <1>4, <1>6, SameModel DEF Contract!Exists
<1>9. Contract!Handle(id, op, req)
    BY <1>1, <1>5, <1>7, <1>8 DEF Contract!Handle
<1>10. req \in Contract!Requests
    BY SameModel
<1> QED
    BY <1>9, <1>10 DEF ContractStep, Contract!Next

\* A step of a request that takes no effect, or has taken it.
LEMMA RequestUnseen ==
    ASSUME MemoryInv, BaseIs, BaseIs', NEW op \in Ops, Running(op), NEW b, NEW d,
           Moved(Mine(op), call[op], op, b, d),
           heap' = [heap EXCEPT ![call[op].id] = b],
           call' = [call EXCEPT ![op] = d],
           UNCHANGED <<created, answered, hit, ingested, toSeed, overlapped>>,
           Effective(op)' <=> Effective(op),
           Effective(op) \/ b = Mine(op)
    PROVE  ContractStep
<1> DEFINE c == call[op]
           a == heap[c.id]
<1>1. /\ c \in Calls /\ c.id \in AlertIds /\ a \in Alert(AllOps) /\ a # NoAlert
      /\ op \in RunningOn(c.id)
    BY WorkingFacts DEF Exists, Mine
<1>2. /\ b \in Alert(AllOps) /\ d \in Calls /\ b # NoAlert /\ d # NoCall
      /\ d.id = c.id /\ d.req = c.req /\ d.base = c.base /\ b.evidence = a.evidence
    BY NoAlertAssumption, NoCallAssumption DEF Moved, Work, Mine
<1>3. /\ heap \in [AlertIds -> Alert(AllOps) \cup {NoAlert}]
      /\ call \in [Ops -> Calls \cup {NoCall}]
    BY DEF MemoryInv, TypeOK
<1> HIDE DEF c
<1>4. /\ heap'[c.id] = b /\ call'[op] = d
      /\ \A id \in AlertIds : id # c.id => heap'[id] = heap[id]
      /\ \A o \in Ops : o # op => call'[o] = call[o]
    BY <1>1, <1>3 DEF c
<1>5. \A o \in Ops : /\ Effective(o)' <=> Effective(o)
                     /\ call'[o] # NoCall <=> call[o] # NoCall
                     /\ call[o] # NoCall => /\ call'[o].id = call[o].id
                                            /\ call'[o].base = call[o].base
                                            /\ call'[o].req = call[o].req
    <2>1. ASSUME NEW o \in Ops, o # op PROVE Effective(o)' <=> Effective(o)
        BY <1>4, <2>1 DEF Effective, Running
    <2> QED
        BY <1>1, <1>2, <1>4, <2>1 DEF c, Running
<1>6. ASSUME NEW i \in AlertIds PROVE Base(i)' = Base(i)
    <2>1. RunningOn(i)' = RunningOn(i)
        BY <1>5 DEF RunningOn, Running
    <2>2. \A o \in RunningOn(i) : /\ Effective(o)' <=> Effective(o)
                                  /\ call'[o].base = call[o].base /\ call'[o].req = call[o].req
        BY <1>5 DEF RunningOn, Running
    <2>3. heap'[i] # NoAlert <=> heap[i] # NoAlert
        BY <1>1, <1>2, <1>4
    <2>4. heap[i] # NoAlert => heap'[i].evidence = heap[i].evidence
        BY <1>1, <1>2, <1>4
    <2>5. (\A o \in RunningOn(i) : ~Effective(o)) => heap'[i] = heap[i]
        BY <1>1, <1>4 DEF Mine, c
    <2> QED
        BY <2>1, <2>2, <2>3, <2>4, <2>5, BaseKept
<1>7. UNCHANGED AbsIngested /\ \A i \in AlertIds : Merging(i)' <=> Merging(i)
    BY DEF AbsIngested, Merging
<1>8. \A i \in AlertIds : Seen(i)' = Seen(i)
    BY <1>6, <1>7 DEF Seen
<1>9. \A o \in Ops : o \in AbsAnswered' <=> o \in AbsAnswered
    BY <1>5 DEF AbsAnswered
<1> QED
    BY <1>7, <1>8, <1>9, UnseenStep

\* A request of the contract's console that resolves has still to read the status
\* or is about to write it.
LEMMA ResolveFacts ==
    ASSUME NEW req \in Requests, NEW todo, Left(req, todo), req.verb = "action", "status" \in Pending(todo)
    PROVE  /\ Head(todo) = "from" \/ Head(todo) = "status"
           /\ Head(todo) = "status" =>
                 /\ req.arg \in Resolving
                 /\ Pending(todo) = {"status", "resolution", "responded", "to", "trail", "log", "update"}
<1>1. "status" \notin Pending(AtTo) /\ "status" \notin Pending(AtTrail)
      /\ "status" \notin Pending(AtLog) /\ "status" \notin Pending(AtUpdate)
    BY Shapes DEF Lists
<1>2. "status" \notin Pending(AtRespond) /\ "status" \notin Pending(AtResponded)
      /\ "status" \notin Pending(AtResolution) /\ "status" \notin Pending(AtComment)
    BY Shapes DEF Lists
<1>3. req.arg \in Resolving /\ (todo = AtResolve \/ todo = AtResolved)
    BY <1>1, <1>2 DEF Left
<1>4. Head(AtResolve) = "from" /\ Head(AtResolved) = "status"
      /\ Pending(AtResolved) = {"status", "resolution", "responded", "to", "trail", "log", "update"}
    BY Shapes DEF Lists
<1> QED
    BY <1>3, <1>4

\* A step that leaves open whether the status is still to be written.
LEMMA EffectKept ==
    ASSUME EffectIs, EffectIs', NEW op \in Ops, Running(op), NEW d, d # NoCall, call'[op] = d,
           d.req = call[op].req,
           "status" \in Pending(d.todo) <=> "status" \in Pending(call[op].todo)
    PROVE  Effective(op)' <=> Effective(op)
<1>1. Running(op)'
    BY DEF Running
<1>2. Effective(op)' <=> ~(d.req.verb = "action" /\ "status" \in Pending(d.todo))
    BY <1>1 DEF EffectIs
<1>3. Effective(op) <=> ~(call[op].req.verb = "action" /\ "status" \in Pending(call[op].todo))
    BY DEF EffectIs
<1> QED
    BY <1>2, <1>3

\* Reading the status is not seen.
LEMMA ReadFromUnseen ==
    ASSUME MemoryInv, BaseIs, BaseIs', EffectIs, EffectIs', NEW op \in Ops, ReadFrom(op)
    PROVE  ContractStep
<1> DEFINE c == call[op]
           d == [[c EXCEPT !.from = Mine(op).status] EXCEPT !.todo = Tail(@)]
<1>1. Running(op) /\ Head(c.todo) = "from" /\ UNCHANGED heap
      /\ call' = [call EXCEPT ![op] = d]
      /\ UNCHANGED <<created, answered, hit, ingested, toSeed, overlapped>>
    BY DEF ReadFrom, At, Advance
<1>2. Moved(Mine(op), c, op, Mine(op), d)
    BY <1>1, WorkingFacts, FromMoves
<1>3. heap' = [heap EXCEPT ![c.id] = Mine(op)]
    BY <1>1 DEF MemoryInv, TypeOK, Mine
<1>4. c \in Calls /\ Shape(c.todo)
    BY <1>1, WorkingFacts, WorkFacts
<1>5. d.todo = Tail(c.todo)
    BY <1>4 DEF Calls
<1>6. call'[op] = d
    BY <1>1 DEF MemoryInv, TypeOK
<1> HIDE DEF c, d
<1>7. d # NoCall /\ d.req = c.req
    BY <1>2, NoCallAssumption DEF Moved, Work
<1>8. "status" \in Pending(d.todo) <=> "status" \in Pending(c.todo)
    BY <1>1, <1>4, <1>5 DEF Shape
<1>9. Effective(op)' <=> Effective(op)
    BY <1>1, <1>6, <1>7, <1>8, EffectKept DEF c
<1> QED
    BY <1>1, <1>2, <1>3, <1>9, RequestUnseen DEF c

\* Testing the status is not seen.
LEMMA TestOpenUnseen ==
    ASSUME MemoryInv, BaseIs, BaseIs', EffectIs, EffectIs', NEW op \in Ops, TestOpen(op)
    PROVE  ContractStep
<1> DEFINE c == call[op]
           a == Mine(op)
           d == [[c EXCEPT !.todo = IF a.status = "OPEN" THEN <<@[1], "assigned">> \o Tail(@) ELSE @]
                   EXCEPT !.todo = Tail(@)]
<1>1. Running(op) /\ Head(c.todo) = "open?" /\ UNCHANGED heap
      /\ call' = [call EXCEPT ![op] = d]
      /\ UNCHANGED <<created, answered, hit, ingested, toSeed, overlapped>>
    BY DEF TestOpen, At, Advance
<1>2. Moved(a, c, op, a, d)
    BY <1>1, WorkingFacts, OpenMoves
<1>3. heap' = [heap EXCEPT ![c.id] = a]
    BY <1>1 DEF MemoryInv, TypeOK, Mine
<1>4. c \in Calls /\ Planned(c.req, c.todo)
    BY <1>1, WorkingFacts, WorkFacts
<1>5. call'[op] = d
    BY <1>1 DEF MemoryInv, TypeOK
<1> HIDE DEF c, d
<1>6. d # NoCall /\ d.req = c.req
    BY <1>2, NoCallAssumption DEF Moved, Work
<1>7. c.req.verb = "assign"
    BY <1>1, <1>4 DEF Planned
<1>8. Running(op)'
    BY <1>5, <1>6 DEF Running
<1>9. Effective(op)' /\ Effective(op)
    BY <1>1, <1>5, <1>6, <1>7, <1>8 DEF EffectIs, c
<1> QED
    BY <1>1, <1>2, <1>3, <1>9, RequestUnseen DEF c

\* Reading it again is not seen.
LEMMA ReadToUnseen ==
    ASSUME MemoryInv, BaseIs, BaseIs', EffectIs, EffectIs', NEW op \in Ops, ReadTo(op)
    PROVE  ContractStep
<1> DEFINE c == call[op]
           to == IF c.req.verb = "status" THEN c.req.arg ELSE Mine(op).status
           d == [[c EXCEPT !.to = to] EXCEPT !.todo = Tail(@)]
<1>1. Running(op) /\ Head(c.todo) = "to" /\ UNCHANGED heap
      /\ call' = [call EXCEPT ![op] = d]
      /\ UNCHANGED <<created, answered, hit, ingested, toSeed, overlapped>>
    BY DEF ReadTo, At, Advance
<1>2. Moved(Mine(op), c, op, Mine(op), d)
    BY <1>1, WorkingFacts, ToMoves
<1>3. heap' = [heap EXCEPT ![c.id] = Mine(op)]
    BY <1>1 DEF MemoryInv, TypeOK, Mine
<1>4. c \in Calls /\ Shape(c.todo)
    BY <1>1, WorkingFacts, WorkFacts
<1>5. d.todo = Tail(c.todo)
    BY <1>4 DEF Calls
<1>6. call'[op] = d
    BY <1>1 DEF MemoryInv, TypeOK
<1> HIDE DEF c, d
<1>7. d # NoCall /\ d.req = c.req
    BY <1>2, NoCallAssumption DEF Moved, Work
<1>8. "status" \in Pending(d.todo) <=> "status" \in Pending(c.todo)
    BY <1>1, <1>4, <1>5 DEF Shape
<1>9. Effective(op)' <=> Effective(op)
    BY <1>1, <1>6, <1>7, <1>8, EffectKept DEF c
<1> QED
    BY <1>1, <1>2, <1>3, <1>9, RequestUnseen DEF c

\* Reading the trail is not seen.
LEMMA ReadTrailUnseen ==
    ASSUME MemoryInv, BaseIs, BaseIs', EffectIs, EffectIs', NEW op \in Ops, ReadTrail(op)
    PROVE  ContractStep
<1> DEFINE c == call[op]
           d == [[c EXCEPT !.seen = Mine(op).trail] EXCEPT !.todo = Tail(@)]
<1>1. Running(op) /\ Head(c.todo) = "trail" /\ UNCHANGED heap
      /\ call' = [call EXCEPT ![op] = d]
      /\ UNCHANGED <<created, answered, hit, ingested, toSeed, overlapped>>
    BY DEF ReadTrail, At, Advance
<1>2. Moved(Mine(op), c, op, Mine(op), d)
    BY <1>1, WorkingFacts, ReadMoves
<1>3. heap' = [heap EXCEPT ![c.id] = Mine(op)]
    BY <1>1 DEF MemoryInv, TypeOK, Mine
<1>4. c \in Calls /\ Shape(c.todo)
    BY <1>1, WorkingFacts, WorkFacts
<1>5. d.todo = Tail(c.todo)
    BY <1>4 DEF Calls
<1>6. call'[op] = d
    BY <1>1 DEF MemoryInv, TypeOK
<1> HIDE DEF c, d
<1>7. d # NoCall /\ d.req = c.req
    BY <1>2, NoCallAssumption DEF Moved, Work
<1>8. "status" \in Pending(d.todo) <=> "status" \in Pending(c.todo)
    BY <1>1, <1>4, <1>5 DEF Shape
<1>9. Effective(op)' <=> Effective(op)
    BY <1>1, <1>6, <1>7, <1>8, EffectKept DEF c
<1> QED
    BY <1>1, <1>2, <1>3, <1>9, RequestUnseen DEF c

\* Writing the trail back is not seen: its entry was there from the effect on.
LEMMA WriteTrailUnseen ==
    ASSUME MemoryInv, BaseIs, BaseIs', EffectIs, EffectIs', NEW op \in Ops, WriteTrail(op)
    PROVE  ContractStep
<1> DEFINE c == call[op]
           b == [Mine(op) EXCEPT !.trail = Append(c.seen, Logged(op))]
           d == [c EXCEPT !.todo = Tail(@)]
<1>1. Running(op) /\ Head(c.todo) = "log"
      /\ call' = [call EXCEPT ![op] = d]
      /\ UNCHANGED <<created, answered, hit, ingested, toSeed, overlapped>>
    BY DEF WriteTrail, At, Advance
<1>2. Moved(Mine(op), c, op, b, d)
    <2>1. Logged(op) = Log(c, op)
        BY DEF Logged, Log
    <2> QED
        BY <1>1, <2>1, WorkingFacts, WriteMoves
<1>3. heap' = [heap EXCEPT ![c.id] = b]
    BY DEF WriteTrail, Mine
<1>4. c \in Calls /\ Planned(c.req, c.todo) /\ Shape(c.todo)
    BY <1>1, WorkingFacts, WorkFacts
<1>5. d.todo = Tail(c.todo)
    BY <1>4 DEF Calls
<1>6. call'[op] = d
    BY <1>1 DEF MemoryInv, TypeOK
<1> HIDE DEF c, d, b
<1>7. d # NoCall /\ d.req = c.req
    BY <1>2, NoCallAssumption DEF Moved, Work
<1>8. "status" \in Pending(d.todo) <=> "status" \in Pending(c.todo)
    BY <1>1, <1>4, <1>5 DEF Shape
<1>9. Effective(op)' <=> Effective(op)
    BY <1>1, <1>6, <1>7, <1>8, EffectKept DEF c
<1>10. Effective(op)
    BY <1>1, <1>4 DEF EffectIs, Planned, c
<1> QED
    BY <1>1, <1>2, <1>3, <1>9, <1>10, RequestUnseen DEF c

\* A field written after the request has taken effect, or before anybody can tell.
LEMMA SetFieldUnseen ==
    ASSUME MemoryInv, BaseIs, BaseIs', EffectIs, EffectIs', NEW op \in Ops, SetField(op),
           call[op].req.verb # "action" \/ Head(call[op].todo) # "status"
    PROVE  ContractStep
<1> DEFINE c == call[op]
           b == Written(Mine(op), c.req, Head(c.todo))
           d == [c EXCEPT !.todo = Tail(@)]
<1>1. Running(op) /\ Head(c.todo) \in Fields
      /\ call' = [call EXCEPT ![op] = d]
      /\ UNCHANGED <<created, answered, hit, ingested, toSeed, overlapped>>
    BY DEF SetField, At, Advance, Fields
<1>2. Moved(Mine(op), c, op, b, d)
    BY <1>1, WorkingFacts, FieldMoves
<1>3. heap' = [heap EXCEPT ![c.id] = b]
    BY DEF SetField, Mine
<1>4. c \in Calls /\ c.req \in Requests /\ Shape(c.todo) /\ Left(c.req, c.todo)
    BY <1>1, WorkingFacts, WorkFacts DEF Work
<1>5. d.todo = Tail(c.todo)
    BY <1>4 DEF Calls
<1>6. call'[op] = d
    BY <1>1 DEF MemoryInv, TypeOK
<1>7. c.req.verb # "action" \/ Head(c.todo) # "status"
    OBVIOUS
<1>8. "status" \in Pending(c.todo) => c.req.verb # "action"
    BY <1>1, <1>4, <1>7, ResolveFacts DEF Fields
<1> HIDE DEF c, d, b
<1>9. d # NoCall /\ d.req = c.req
    BY <1>2, NoCallAssumption DEF Moved, Work
<1>10. Effective(op)
    BY <1>1, <1>8 DEF EffectIs, c
<1>11. Effective(op)'
    <2>1. Running(op)'
        BY <1>6, <1>9 DEF Running
    <2>2. "status" \in Pending(d.todo) => "status" \in Pending(c.todo)
        BY <1>4, <1>5 DEF Shape
    <2> QED
        BY <1>6, <1>8, <1>9, <2>1, <2>2 DEF EffectIs
<1> QED
    BY <1>1, <1>2, <1>3, <1>10, <1>11, RequestUnseen DEF c

\* An alert the request does not work on.
LEMMA OthersKept ==
    ASSUME BaseIs, BaseIs', NEW op \in Ops, NEW i \in AlertIds, heap'[i] = heap[i],
           \A o \in Ops : o # op => call'[o] = call[o],
           op \notin RunningOn(i), op \notin RunningOn(i)'
    PROVE  Base(i)' = Base(i)
<1>1. RunningOn(i)' = RunningOn(i)
    BY DEF RunningOn, Running
<1>2. \A o \in RunningOn(i) : /\ Effective(o)' <=> Effective(o)
                              /\ call'[o].base = call[o].base /\ call'[o].req = call[o].req
    <2>1. ASSUME NEW o \in RunningOn(i) PROVE call'[o] = call[o]
        BY DEF RunningOn
    <2> QED
        BY <2>1 DEF Effective, Running
<1> QED
    BY <1>1, <1>2, BaseKept

\* Writing RESOLVED is what the contract sees of a request that resolves.
LEMMA ResolveHandled ==
    ASSUME MemoryInv, overlapped = {}, BaseIs, BaseIs', EffectIs, EffectIs', NEW op \in Ops, SetField(op),
           call[op].req.verb = "action", Head(call[op].todo) = "status"
    PROVE  ContractStep
<1> DEFINE c == call[op]
           a == Mine(op)
           b == Written(a, c.req, Head(c.todo))
           d == [c EXCEPT !.todo = Tail(@)]
<1>1. Running(op) /\ Head(c.todo) = "status" /\ c.req.verb = "action"
      /\ call' = [call EXCEPT ![op] = d]
      /\ UNCHANGED <<created, answered, hit, ingested, toSeed, overlapped>>
    BY DEF SetField, At, Advance
<1>2. Moved(a, c, op, b, d)
    BY <1>1, WorkingFacts, FieldMoves DEF Fields
<1>3. heap' = [heap EXCEPT ![c.id] = b]
    BY DEF SetField, Mine
<1>4. /\ c \in Calls /\ c.id \in AlertIds /\ c.req \in Requests /\ c.base \in Alert(AllOps)
      /\ a \in Alert(AllOps) /\ a # NoAlert
      /\ Shape(c.todo) /\ Left(c.req, c.todo) /\ ~Refused(c.base, c.req) /\ answered[op] = NoAlert
    BY <1>1, WorkingFacts, WorkFacts DEF Work, Mine, Exists
<1>0. PICK id \in AlertIds : id = c.id /\ a = heap[id] /\ op \in RunningOn(id)
    BY <1>1, <1>4 DEF Mine, RunningOn
<1>5. d.todo = Tail(c.todo)
    BY <1>4 DEF Calls
<1>6. /\ call'[op] = d /\ heap'[id] = b
      /\ \A o \in Ops : o # op => call'[o] = call[o]
      /\ \A i \in AlertIds : i # id => heap'[i] = heap[i]
    BY <1>0, <1>1, <1>3, <1>4 DEF MemoryInv, TypeOK
<1> HIDE DEF c, d, a, b
<1>7. /\ d \in Calls /\ d # NoCall /\ d.req = c.req /\ d.base = c.base /\ d.id = id
      /\ b.evidence = a.evidence /\ b \in Alert(AllOps) /\ b # NoAlert
    BY <1>0, <1>2, NoCallAssumption, NoAlertAssumption DEF Moved, Work
<1>8. "status" \in Pending(c.todo)
    BY <1>1, <1>4 DEF Shape
<1>9. /\ Pending(c.todo) = {"status", "resolution", "responded", "to", "trail", "log", "update"}
      /\ c.req.arg \in Resolving
    BY <1>1, <1>4, <1>8, ResolveFacts
<1>10. RunningOn(id) = {op} /\ Partial(a, c, op)
    BY <1>0 DEF MemoryInv, Separate, c
<1>11. Alike(c.base, a)
    <2> DEFINE x == Apply(c.base, op, c.req)
    <2>1. Effect(c.base, op, c.req, x)
        BY <1>4, ApplyFields
    <2> HIDE DEF x
    <2>2. x.assignee = c.base.assignee
        BY <1>1, <2>1 DEF Effect
    <2> QED
        BY <1>9, <1>10, <2>2 DEF Partial, Alike, x
<1>12. ~Effective(op)
    BY <1>1, <1>8 DEF EffectIs, c
<1>13. Base(id) = a
    BY <1>0, <1>10, <1>12 DEF BaseIs
<1>14. Running(op)' /\ op \in RunningOn(id)'
    BY <1>6, <1>7 DEF Running, RunningOn
<1>15. Effective(op)'
    <2>1. "status" \notin Pending(d.todo)
        BY <1>1, <1>4, <1>5 DEF Shape
    <2> QED
        BY <1>6, <1>14, <2>1 DEF EffectIs
<1>16. /\ Base(id)' \in Alert(AllOps) /\ Base(id)'.evidence = a.evidence
       /\ Alike(Base(id)', Apply(c.base, op, c.req))
    BY <1>6, <1>7, <1>14, <1>15 DEF BaseIs
<1>17. /\ ~Refused(a, c.req) /\ Apply(a, op, c.req) \in Alert(AllOps)
       /\ Apply(a, op, c.req).evidence = a.evidence
       /\ Alike(Apply(c.base, op, c.req), Apply(a, op, c.req))
    BY <1>4, <1>11, ApplyAlike
<1>18. Base(id)' = Apply(a, op, c.req)
    <2>1. Alike(Base(id)', Apply(a, op, c.req))
        BY <1>16, <1>17 DEF Alike
    <2> QED
        BY <1>16, <1>17, <2>1, SameAlert
<1>19. \A i \in AlertIds : i # id => Base(i)' = Base(i)
    <2>1. ASSUME NEW i \in AlertIds, i # id PROVE Base(i)' = Base(i)
        <3>1. op \notin RunningOn(i) /\ op \notin RunningOn(i)'
            BY <1>0, <1>6, <1>7, <2>1 DEF RunningOn, c
        <3> QED
            BY <1>6, <2>1, <3>1, OthersKept
    <2> QED
        BY <2>1
<1>20. /\ op \notin AbsAnswered
       /\ \A o \in Ops : o \in AbsAnswered' <=> o \in AbsAnswered \/ o = op
    <2>1. \A o \in Ops : o # op => (Effective(o)' <=> Effective(o))
        BY <1>6 DEF Effective, Running
    <2> QED
        BY <1>1, <1>4, <1>12, <1>15, <2>1 DEF AbsAnswered
<1>21. ingested \in Nat
    BY DEF MemoryInv, TypeOK
<1> QED
    BY <1>0, <1>1, <1>4, <1>13, <1>17, <1>18, <1>19, <1>20, <1>21, HandleStep

\* A request that does not resolve is seen when it has passed its checks.
LEMMA BeginSeen ==
    ASSUME MemoryInv, overlapped' = {}, BaseIs, BaseIs',
           NEW op \in Ops, NEW id \in AlertIds, NEW req \in Requests, Begin(op, id, req)
    PROVE  ContractStep
<1> DEFINE s == <<"from">> \o Writes(req) \o <<"to", "trail", "log", "update">>
           a == heap[id]
           c == [id |-> id, req |-> req, base |-> a, from |-> a.status, to |-> a.status,
                 seen |-> <<>>, todo |-> s]
<1>1. /\ ~Running(op) /\ answered[op] = NoAlert /\ Exists(id) /\ ~Refused(a, req)
      /\ call' = [call EXCEPT ![op] = c]
      /\ overlapped' = IF RunningOn(id) = {} THEN overlapped ELSE overlapped \cup {id}
      /\ UNCHANGED <<heap, created, answered, hit, ingested, toSeed>>
    BY DEF Begin
<1>2. Laid(s, Writes(req))
    BY LaidOut
<1>3. a \in Alert(AllOps) /\ a # NoAlert
    BY <1>1 DEF MemoryInv, TypeOK, Exists
<1> HIDE DEF s
<1>4. c.id = id /\ c.req = req /\ c.base = a /\ Work(a, c, op)
    BY <1>1, <1>2, <1>3, BeginMoves
<1>5. call'[op] = c /\ \A o \in Ops : o # op => call'[o] = call[o]
    BY <1>1 DEF MemoryInv, TypeOK
<1> HIDE DEF c
<1>6. c # NoCall
    BY <1>4, NoCallAssumption DEF Work
<1>7. RunningOn(id) = {}
    BY <1>1
<1>8. Base(id) = a
    BY <1>7 DEF BaseIs
<1>9. \A i \in AlertIds : i # id => Base(i)' = Base(i)
    <2>1. ASSUME NEW i \in AlertIds, i # id PROVE Base(i)' = Base(i)
        <3>1. op \notin RunningOn(i) /\ op \notin RunningOn(i)'
            BY <1>1, <1>4, <1>5, <2>1 DEF RunningOn
        <3> QED
            BY <1>1, <1>5, <3>1, OthersKept
    <2> QED
        BY <2>1
<1>10. RunningOn(id)' = {op} /\ Running(op)'
    BY <1>4, <1>5, <1>6, <1>7 DEF RunningOn, Running
<1>11. /\ op \notin AbsAnswered
       /\ \A o \in Ops : o # op => (o \in AbsAnswered' <=> o \in AbsAnswered)
       /\ op \in AbsAnswered' <=> Effective(op)'
    <2>1. \A o \in Ops : o # op => (Effective(o)' <=> Effective(o))
        BY <1>5 DEF Effective, Running
    <2>2. ~Effective(op)
        BY <1>1 DEF Effective
    <2> QED
        BY <1>1, <2>1, <2>2 DEF AbsAnswered
<1>12. ingested \in Nat
    BY DEF MemoryInv, TypeOK
<1> HIDE DEF a
<1>13. CASE Effective(op)'
    <2>1. /\ Base(id)' \in Alert(AllOps) /\ Base(id)'.evidence = a.evidence
          /\ Alike(Base(id)', Apply(a, op, req))
        BY <1>1, <1>3, <1>4, <1>5, <1>10, <1>13 DEF BaseIs, a
    <2>2. Alike(a, a)
        BY DEF Alike
    <2>3. Apply(a, op, req) \in Alert(AllOps) /\ Apply(a, op, req).evidence = a.evidence
        BY <1>1, <1>3, <2>2, ApplyAlike
    <2>4. Base(id)' = Apply(a, op, req)
        BY <2>1, <2>3, SameAlert
    <2>5. \A o \in Ops : o \in AbsAnswered' <=> o \in AbsAnswered \/ o = op
        BY <1>11, <1>13
    <2> QED
        BY <1>1, <1>3, <1>8, <1>9, <1>11, <1>12, <2>4, <2>5, HandleStep
<1>14. CASE ~Effective(op)'
    <2>1. Base(id)' = a
        BY <1>1, <1>10, <1>14 DEF BaseIs, a
    <2>2. \A i \in AlertIds : Base(i)' = Base(i)
        BY <1>8, <1>9, <2>1
    <2>3. UNCHANGED AbsIngested /\ \A i \in AlertIds : Seen(i)' = Seen(i)
        BY <1>1, <2>2 DEF AbsIngested, Seen, Merging
    <2>4. \A o \in Ops : o \in AbsAnswered' <=> o \in AbsAnswered
        BY <1>11, <1>14
    <2> QED
        BY <1>1, <2>3, <2>4, UnseenStep
<1> QED
    BY <1>13, <1>14

\* A request has been seen long before it is answered.
LEMMA UpdateUnseen ==
    ASSUME MemoryInv, overlapped = {}, BaseIs, BaseIs', EffectIs, NEW op \in Ops, Update(op)
    PROVE  ContractStep
<1> DEFINE c == call[op]
           a == Mine(op)
<1>1. /\ Running(op) /\ Head(c.todo) = "update"
      /\ call' = [call EXCEPT ![op] = NoCall]
      /\ answered' = [answered EXCEPT ![op] = c.id]
      /\ UNCHANGED <<heap, created, hit, ingested, toSeed, overlapped>>
    BY DEF Update, At
<1>2. /\ c \in Calls /\ c.id \in AlertIds /\ c.req \in Requests /\ c.base \in Alert(AllOps)
      /\ a \in Alert(AllOps) /\ Exists(c.id) /\ Work(a, c, op) /\ Planned(c.req, c.todo)
    BY <1>1, WorkingFacts, WorkFacts DEF Work
<1>3. PICK id \in AlertIds : id = c.id /\ a = heap[id] /\ op \in RunningOn(id)
    BY <1>1, <1>2 DEF Mine, RunningOn
<1>4. /\ call'[op] = NoCall /\ answered'[op] = id
      /\ \A o \in Ops : o # op => call'[o] = call[o] /\ answered'[o] = answered[o]
    BY <1>1, <1>3 DEF MemoryInv, TypeOK
<1> HIDE DEF c, a
<1>5. RunningOn(id) = {op} /\ Partial(a, c, op) /\ a # NoAlert
    BY <1>2, <1>3 DEF MemoryInv, Separate, c, Exists
<1>6. Effective(op) /\ ~Effective(op)'
    BY <1>1, <1>2, <1>4 DEF EffectIs, Planned, c, Effective, Running
<1>7. /\ Base(id) \in Alert(AllOps) /\ Base(id).evidence = a.evidence
      /\ Alike(Base(id), Apply(c.base, op, c.req))
    BY <1>3, <1>5, <1>6 DEF BaseIs, c
<1>8. Alike(a, Apply(c.base, op, c.req))
    BY <1>1, <1>2, <1>5, LastMove
<1>9. Base(id) = a
    <2>1. Alike(Base(id), a)
        BY <1>7, <1>8 DEF Alike
    <2> QED
        BY <1>2, <1>7, <2>1, SameAlert
<1>10. RunningOn(id)' = {}
    BY <1>4, <1>5 DEF RunningOn, Running
<1>11. Base(id)' = a
    BY <1>1, <1>3, <1>10 DEF BaseIs
<1>12. \A i \in AlertIds : Base(i)' = Base(i)
    <2>1. ASSUME NEW i \in AlertIds, i # id PROVE Base(i)' = Base(i)
        <3>1. op \notin RunningOn(i) /\ op \notin RunningOn(i)'
            BY <1>3, <1>4, <2>1 DEF RunningOn, Running, c
        <3> QED
            BY <1>1, <1>4, <3>1, OthersKept
    <2> QED
        BY <1>9, <1>11, <2>1
<1>13. UNCHANGED AbsIngested /\ \A i \in AlertIds : Seen(i)' = Seen(i)
    BY <1>1, <1>12 DEF AbsIngested, Seen, Merging
<1>14. \A o \in Ops : o \in AbsAnswered' <=> o \in AbsAnswered
    <2>1. \A o \in Ops : o # op => (Effective(o)' <=> Effective(o))
        BY <1>4 DEF Effective, Running
    <2> QED
        BY <1>4, <1>6, <2>1, NoAlertAssumption DEF AbsAnswered
<1> QED
    BY <1>1, <1>13, <1>14, UnseenStep

\* What the contract sees before the batch, where neither alert nor request changed.
LEMMA BaseUnchanged ==
    ASSUME NEW i \in AlertIds, heap'[i] = heap[i], UNCHANGED call
    PROVE  Base(i)' = Base(i)
<1>1. RunningOn(i)' = RunningOn(i) /\ \A o \in Ops : Effective(o)' <=> Effective(o)
    BY DEF RunningOn, Running, Effective
<1>2. {op \in RunningOn(i) : Effective(op)}' = {op \in RunningOn(i) : Effective(op)}
    BY <1>1 DEF RunningOn
<1> QED
    BY <1>2 DEF Base

\* What is answered depends on the requests alone.
LEMMA AnsweredUnchanged ==
    ASSUME UNCHANGED <<call, answered>>
    PROVE  AbsAnswered' = AbsAnswered
BY DEF AbsAnswered, Effective, Running

\* The batch is not seen before FindOpen has found an alert, or none.
LEMMA IngestBeginUnseen ==
    ASSUME MemoryInv, NEW key \in Keys, IngestBegin(key)
    PROVE  ContractStep
<1>1. /\ hit = NoHit /\ hit' = [key |-> key, at |-> 1, pc |-> "scan"] /\ ingested' = ingested + 1
      /\ UNCHANGED <<heap, created, call, answered, toSeed, overlapped>>
    BY DEF IngestBegin
<1>2. hit' \in Hits /\ hit'.pc = "scan" /\ ingested \in Nat
    BY <1>1 DEF Hits, MemoryInv, TypeOK
<1>3. hit' # NoHit
    BY <1>2, NoHitAssumption
<1>4. AbsIngested' = AbsIngested
    BY <1>1, <1>2, <1>3 DEF AbsIngested
<1>5. \A i \in AlertIds : Seen(i)' = Seen(i)
    BY <1>1, <1>2, BaseUnchanged DEF Seen, Merging
<1>6. AbsAnswered' = AbsAnswered
    BY <1>1, AnsweredUnchanged
<1> QED
    BY <1>1, <1>4, <1>5, <1>6, UnseenStep

\* Finding the alert is what the contract sees of a batch that merges.
LEMMA FindOpenSeen ==
    ASSUME MemoryInv, ScanInv, BaseIs, FindOpen
    PROVE  ContractStep
<1>1. /\ \/ hit' = [hit EXCEPT !.pc = "create"]
         \/ hit' = [hit EXCEPT !.at = @ + 1]
         \/ /\ hit.at <= Len(created) /\ Candidate.key = hit.key /\ IsActive(Candidate.status)
            /\ hit' = [hit EXCEPT !.pc = "merge"]
      /\ hit # NoHit /\ hit.pc = "scan"
      /\ UNCHANGED <<heap, created, call, answered, ingested, toSeed, overlapped>>
    BY DEF FindOpen, Scanning
<1>2. hit \in Hits /\ hit.at \in Nat \ {0} /\ ingested \in Nat \ {0} /\ Len(created) \in Nat
    BY <1>1 DEF MemoryInv, TypeOK, HitInv, Hits
<1>3. hit' \in Hits /\ hit' # NoHit
    <2>1. hit' \in Hits
        BY <1>1, <1>2 DEF Hits
    <2> QED
        BY <2>1, NoHitAssumption
<1>4. \A i \in AlertIds : Base(i)' = Base(i) /\ Seen(i) = Base(i)
    BY <1>1, BaseUnchanged DEF Seen, Merging
<1>5. AbsIngested = ingested - 1 /\ AbsAnswered' = AbsAnswered
    BY <1>1, AnsweredUnchanged DEF AbsIngested
<1>6. CASE hit'.pc # "merge"
    <2>1. AbsIngested' = ingested - 1 /\ \A i \in AlertIds : Seen(i)' = Base(i)'
        BY <1>1, <1>3, <1>6 DEF AbsIngested, Seen, Merging
    <2> QED
        BY <1>1, <1>4, <1>5, <2>1, UnseenStep
<1>7. CASE hit'.pc = "merge"
    <2>1. /\ hit.at <= Len(created) /\ Candidate.key = hit.key /\ IsActive(Candidate.status)
          /\ hit'.at = hit.at /\ hit.at \in 1 .. Len(created)
        BY <1>1, <1>2, <1>7 DEF Hits
    <2>2. PICK j \in AlertIds : j = created[hit.at] /\ heap[j] # NoAlert /\ heap[j] \in Alert(AllOps)
        BY <2>1 DEF MemoryInv, TypeOK, HitInv, Exists
    <2>3. heap[j].key = hit.key /\ IsActive(heap[j].status)
        BY <2>1, <2>2 DEF Candidate
    <2>4. Merging(j)' /\ \A i \in AlertIds : i # j => ~Merging(i)'
        BY <1>1, <1>3, <1>7, <2>1, <2>2 DEF Merging
    <2>5. Seen(j)' = Merge(Base(j), ingested) /\ \A i \in AlertIds : i # j => Seen(i)' = Seen(i)
        BY <1>1, <1>4, <2>4 DEF Seen
    <2>6. /\ Base(j) \in Alert(AllOps) /\ Base(j).key = hit.key /\ IsActive(Base(j).status)
          /\ Base(j) # NoAlert
        BY <2>2, <2>3, NoAlertAssumption DEF BaseIs
    <2>7. /\ AbsAlerts' = [AbsAlerts EXCEPT ![j] = Merge(Base(j), ingested)]
          /\ AbsAlerts[j] = Base(j)
        BY <1>4, <2>5, SeenStep
    <2>8. j \in Contract!OpenFor(hit.key)
        BY <2>6, <2>7, SameModel DEF Contract!OpenFor, Contract!Exists
    <2>9. AbsIngested' = ingested /\ AbsIngested' = AbsIngested + 1 /\ AbsIngested < MaxBatches
        BY <1>1, <1>2, <1>5, <1>7 DEF AbsIngested, ScanInv
    <2>10. AbsAlerts' = [AbsAlerts EXCEPT ![j] = Contract!Merge(@, AbsIngested')]
        BY <2>7, <2>9, SameModel
    <2>11. Contract!Ingest(hit.key)
        BY <1>1, <1>5, <2>8, <2>9, <2>10 DEF Contract!Ingest
    <2>12. hit.key \in Keys
        BY <1>2 DEF Hits
    <2> QED
        BY <2>11, <2>12 DEF ContractStep, Contract!Next
<1> QED
    BY <1>6, <1>7

\* The merge itself has been seen already.
LEMMA IngestMergeUnseen ==
    ASSUME MemoryInv, BaseIs, BaseIs', IngestMerge
    PROVE  ContractStep
<1>1. PICK j \in AlertIds : j = created[hit.at] /\ heap[j] # NoAlert /\ heap[j] \in Alert(AllOps)
    <2>1. hit # NoHit /\ hit.pc = "merge"
        BY DEF IngestMerge
    <2>2. hit \in Hits /\ hit.at \in 1 .. Len(created)
        BY <2>1 DEF MemoryInv, TypeOK, HitInv, Hits
    <2> QED
        BY <2>2 DEF MemoryInv, TypeOK, HitInv, Exists
<1> DEFINE m == Merge(heap[j], ingested)
<1>2. /\ heap' = [heap EXCEPT ![j] = m] /\ hit' = NoHit /\ hit # NoHit /\ hit.pc = "merge"
      /\ UNCHANGED <<created, call, answered, ingested, toSeed, overlapped>>
    BY <1>1 DEF IngestMerge
<1>3. ingested \in Nat /\ heap'[j] = m /\ \A i \in AlertIds : i # j => heap'[i] = heap[i]
    BY <1>2 DEF MemoryInv, TypeOK
<1>4. m \in Alert(AllOps) /\ m # NoAlert
    BY <1>1, <1>3, MergeNewest, NoAlertAssumption
<1>5. m.evidence = Capped(Append(heap[j].evidence, ingested))
    BY <1>1 DEF Merge, Alert
<1> HIDE DEF m
<1>6. RunningOn(j)' = RunningOn(j) /\ \A o \in Ops : Effective(o)' <=> Effective(o)
    BY <1>2 DEF RunningOn, Running, Effective
<1>7. Base(j)' = Merge(Base(j), ingested)
    <2>1. CASE \A o \in RunningOn(j) : ~Effective(o)
        <3>1. Base(j) = heap[j]
            BY <2>1 DEF BaseIs
        <3>2. \A o \in RunningOn(j)' : ~Effective(o)'
            BY <1>6, <2>1 DEF RunningOn
        <3>3. Base(j)' = heap'[j]
            BY <3>2 DEF BaseIs
        <3> QED
            BY <1>3, <3>1, <3>3 DEF m
    <2>2. CASE ~ \A o \in RunningOn(j) : ~Effective(o)
        <3>1. PICK o \in RunningOn(j) : Effective(o)
            BY <2>2
        <3>2. o \in Ops /\ o \in RunningOn(j)' /\ Effective(o)'
            BY <1>6, <3>1 DEF RunningOn
        <3> DEFINE x == Apply(call[o].base, o, call[o].req)
                   z == Merge(Base(j), ingested)
        <3>3. Base(j) \in Alert(AllOps) /\ Base(j).evidence = heap[j].evidence /\ Alike(Base(j), x)
            BY <1>1, <3>1 DEF BaseIs
        <3>4. Base(j)' \in Alert(AllOps) /\ Base(j)'.evidence = m.evidence /\ Alike(Base(j)', x)
            BY <1>2, <1>3, <1>4, <3>2 DEF BaseIs
        <3>5. z \in Alert(AllOps) /\ Alike(Base(j), z)
            BY <1>3, <3>3, MergeNewest
        <3>6. z.evidence = Capped(Append(Base(j).evidence, ingested))
            BY <3>3 DEF Merge, Alert
        <3> HIDE DEF x, z
        <3>7. z.evidence = m.evidence
            BY <1>5, <3>3, <3>6
        <3>8. Alike(Base(j)', z) /\ Base(j)'.evidence = z.evidence
            BY <3>3, <3>4, <3>5, <3>7 DEF Alike
        <3>9. Base(j)' = z
            BY <3>4, <3>5, <3>8, SameAlert
        <3> QED
            BY <3>9 DEF z
    <2> QED
        BY <2>1, <2>2
<1>8. \A i \in AlertIds : i # j => Base(i)' = Base(i)
    BY <1>2, <1>3, BaseUnchanged
<1>9. Merging(j) /\ \A i \in AlertIds : ~Merging(i)' /\ (i # j => ~Merging(i))
    BY <1>1, <1>2 DEF Merging
<1>10. \A i \in AlertIds : Seen(i)' = Seen(i)
    BY <1>7, <1>8, <1>9 DEF Seen
<1>11. AbsIngested' = AbsIngested /\ AbsAnswered' = AbsAnswered
    BY <1>2, AnsweredUnchanged DEF AbsIngested
<1> QED
    BY <1>2, <1>10, <1>11, UnseenStep

\* A new alert is new to the contract.
LEMMA CreatedSeen ==
    ASSUME MemoryInv, BaseIs, BaseIs', NEW id \in AlertIds, NEW a, CreateAlert(id, a)
    PROVE  /\ heap[id] = NoAlert /\ Base(id) = NoAlert /\ Base(id)' = a
           /\ \A i \in AlertIds : i # id => Base(i)' = Base(i)
           /\ AbsAnswered' = AbsAnswered
           /\ UNCHANGED <<call, answered, ingested, overlapped>>
           /\ created' = Append(created, id)
<1>1. /\ ~Exists(id) /\ heap' = [heap EXCEPT ![id] = a] /\ created' = Append(created, id)
      /\ UNCHANGED <<call, answered, ingested, overlapped>>
    BY DEF CreateAlert
<1>2. heap[id] = NoAlert /\ heap'[id] = a /\ \A i \in AlertIds : i # id => heap'[i] = heap[i]
    BY <1>1 DEF MemoryInv, TypeOK, Exists
<1>3. RunningOn(id) = {}
    BY <1>1 DEF MemoryInv, CallsInv, RunningOn
<1>4. RunningOn(id)' = {}
    BY <1>1, <1>3 DEF RunningOn, Running
<1>5. Base(id) = NoAlert /\ Base(id)' = a
    BY <1>2, <1>4 DEF BaseIs
<1>6. \A i \in AlertIds : i # id => Base(i)' = Base(i)
    BY <1>1, <1>2, BaseUnchanged
<1>7. AbsAnswered' = AbsAnswered
    BY <1>1, AnsweredUnchanged
<1> QED
    BY <1>1, <1>2, <1>5, <1>6, <1>7

\* A batch that opens an alert: none of its key was open when FindOpen had looked.
LEMMA IngestCreateSeen ==
    ASSUME MemoryInv, ScanInv, overlapped = {}, BaseIs, BaseIs', IngestCreate
    PROVE  ContractStep
<1>1. PICK id \in AlertIds : CreateAlert(id, NewAlert(hit.key, ingested))
    BY DEF IngestCreate
<1>2. hit # NoHit /\ hit.pc = "create" /\ hit' = NoHit /\ UNCHANGED toSeed
    BY DEF IngestCreate
<1>3. hit \in Hits /\ hit.key \in Keys /\ ingested \in Nat
    BY <1>2 DEF MemoryInv, TypeOK, Hits
<1> DEFINE a == NewAlert(hit.key, ingested)
<1>4. /\ Base(id) = NoAlert /\ Base(id)' = a
      /\ \A i \in AlertIds : i # id => Base(i)' = Base(i)
      /\ AbsAnswered' = AbsAnswered /\ ingested' = ingested
    BY <1>1, CreatedSeen
<1> HIDE DEF a
<1>5. \A i \in AlertIds : Seen(i) = Base(i) /\ Seen(i)' = Base(i)'
    BY <1>2 DEF Seen, Merging
<1>6. AbsAlerts' = [AbsAlerts EXCEPT ![id] = a] /\ \A i \in AlertIds : AbsAlerts[i] = Base(i)
    <2>1. Seen(id)' = a /\ \A i \in AlertIds : i # id => Seen(i)' = Seen(i)
        BY <1>4, <1>5
    <2>2. AbsAlerts' = [AbsAlerts EXCEPT ![id] = a] /\ \A i \in AlertIds : AbsAlerts[i] = Seen(i)
        BY <2>1, SeenStep
    <2> QED
        BY <1>5, <2>2
<1>7. AbsIngested' = AbsIngested + 1 /\ AbsIngested' = ingested /\ AbsIngested < MaxBatches
    BY <1>2, <1>3, <1>4 DEF AbsIngested, ScanInv
<1>8. Contract!OpenFor(hit.key) = {}
    <2>1. ASSUME NEW i \in AlertIds, Base(i) # NoAlert, Base(i).key = hit.key, IsActive(Base(i).status)
          PROVE  FALSE
        <3>1. heap[i] # NoAlert
            BY <2>1 DEF BaseIs
        <3>2. heap[i].key = hit.key /\ IsActive(heap[i].status)
            BY <2>1, <3>1 DEF BaseIs
        <3>3. PICK k \in 1 .. Len(created) : created[k] = i
            BY <3>1 DEF ScanInv, Exists
        <3> QED
            BY <1>2, <3>2, <3>3 DEF ScanInv
    <2> QED
        BY <1>6, <2>1, SameModel DEF Contract!OpenFor, Contract!Exists
<1>9. /\ ~Contract!Exists(id)
      /\ AbsAlerts' = [AbsAlerts EXCEPT ![id] = Contract!NewAlert(hit.key, AbsIngested')]
    BY <1>4, <1>6, <1>7, SameModel DEF Contract!Exists, a
<1>10. Contract!Ingest(hit.key)
    BY <1>2, <1>4, <1>7, <1>8, <1>9 DEF Contract!Ingest
<1> QED
    BY <1>3, <1>10 DEF ContractStep, Contract!Next

\* Creating a demo alert is that step of the contract.
LEMMA SeedDemoSeen ==
    ASSUME MemoryInv, BaseIs, BaseIs', NEW seed \in Seeds, NEW id \in AlertIds, SeedDemo(seed, id)
    PROVE  ContractStep
<1> DEFINE a == Contract!SeedAlert(seed)
<1>1. /\ seed \in toSeed /\ CreateAlert(id, a) /\ toSeed' = toSeed \ {seed} /\ UNCHANGED hit
    BY DEF SeedDemo
<1> HIDE DEF a
<1>2. /\ heap[id] = NoAlert /\ Base(id) = NoAlert /\ Base(id)' = a
      /\ \A i \in AlertIds : i # id => Base(i)' = Base(i)
      /\ AbsAnswered' = AbsAnswered /\ ingested' = ingested /\ created' = Append(created, id)
    BY <1>1, CreatedSeen
<1>3. AbsIngested' = AbsIngested
    BY <1>1, <1>2 DEF AbsIngested
<1>4. ~Merging(id) /\ \A i \in AlertIds : Merging(i)' <=> Merging(i)
    <2>1. CASE hit # NoHit /\ hit.pc = "merge"
        <3>1. hit \in Hits /\ hit.at \in 1 .. Len(created) /\ created \in Seq(AlertIds)
            BY <2>1 DEF MemoryInv, TypeOK, HitInv, Hits
        <3>2. created'[hit.at] = created[hit.at]
            BY <1>2, <3>1
        <3>3. created[hit.at] # id
            BY <1>2, <3>1 DEF MemoryInv, HitInv, Exists
        <3> QED
            BY <1>1, <3>2, <3>3 DEF Merging
    <2>2. CASE ~(hit # NoHit /\ hit.pc = "merge")
        BY <1>1, <2>2 DEF Merging
    <2> QED
        BY <2>1, <2>2
<1>5. /\ Seen(id) = NoAlert /\ Seen(id)' = a
      /\ \A i \in AlertIds : i # id => Seen(i)' = Seen(i)
    BY <1>2, <1>4 DEF Seen
<1>6. AbsAlerts' = [AbsAlerts EXCEPT ![id] = a] /\ AbsAlerts[id] = NoAlert
    BY <1>5, SeenStep
<1>7. Contract!SeedDemo(seed, id)
    BY <1>1, <1>2, <1>3, <1>6 DEF Contract!SeedDemo, Contract!Exists, a
<1> QED
    BY <1>7 DEF ContractStep, Contract!Next

\* As long as no two requests have met on an alert, every step is one of the
\* contract's, or one it does not see.
LEMMA NextIsContract ==
    ASSUME MemoryInv, ScanInv, overlapped = {}, overlapped' = {}, BaseIs, BaseIs', EffectIs, EffectIs', Next
    PROVE  ContractStep
<1>1. ASSUME NEW op \in Ops, NEW id \in AlertIds, NEW req \in Requests, Begin(op, id, req)
      PROVE  ContractStep
    BY <1>1, BeginSeen
<1>2. ASSUME NEW op \in Ops, ReadFrom(op) PROVE ContractStep
    BY <1>2, ReadFromUnseen
<1>3. ASSUME NEW op \in Ops, TestOpen(op) PROVE ContractStep
    BY <1>3, TestOpenUnseen
<1>4. ASSUME NEW op \in Ops, SetField(op) PROVE ContractStep
    BY <1>4, SetFieldUnseen, ResolveHandled
<1>4a. ASSUME NEW op \in Ops, ReadTo(op) PROVE ContractStep
    BY <1>4a, ReadToUnseen
<1>5. ASSUME NEW op \in Ops, ReadTrail(op) PROVE ContractStep
    BY <1>5, ReadTrailUnseen
<1>6. ASSUME NEW op \in Ops, WriteTrail(op) PROVE ContractStep
    BY <1>6, WriteTrailUnseen
<1>7. ASSUME NEW op \in Ops, Update(op) PROVE ContractStep
    BY <1>7, UpdateUnseen
<1>8. ASSUME NEW key \in Keys, IngestBegin(key) PROVE ContractStep
    BY <1>8, IngestBeginUnseen
<1>9. ASSUME FindOpen PROVE ContractStep
    BY <1>9, FindOpenSeen
<1>10. ASSUME IngestMerge PROVE ContractStep
    BY <1>10, IngestMergeUnseen
<1>11. ASSUME IngestCreate PROVE ContractStep
    BY <1>11, IngestCreateSeen
<1>12. ASSUME NEW seed \in Seeds, NEW id \in AlertIds, SeedDemo(seed, id) PROVE ContractStep
    BY <1>12, SeedDemoSeen
<1> QED
    BY <1>1, <1>2, <1>3, <1>4, <1>4a, <1>5, <1>6, <1>7, <1>8, <1>9, <1>10, <1>11, <1>12 DEF Next

\* Overlaps are never forgotten.
LEMMA OverlapsStay ==
    ASSUME [Next]_vars, overlapped' = {}
    PROVE  overlapped = {}
<1>1. CASE UNCHANGED vars
    BY <1>1 DEF vars
<1>2. ASSUME NEW op \in Ops, NEW id \in AlertIds, NEW req \in Requests, Begin(op, id, req)
      PROVE  overlapped = {}
    BY <1>2 DEF Begin
<1>3. ASSUME NEW op \in Ops, \/ ReadFrom(op) \/ TestOpen(op) \/ SetField(op)
                             \/ ReadTo(op) \/ ReadTrail(op) \/ WriteTrail(op) \/ Update(op)
      PROVE  UNCHANGED overlapped
    BY <1>3 DEF ReadFrom, TestOpen, SetField, ReadTo, ReadTrail, WriteTrail, Update, Advance
<1>4. ASSUME \/ \E key \in Keys : IngestBegin(key)
             \/ FindOpen \/ IngestMerge \/ IngestCreate
             \/ \E seed \in Seeds, id \in AlertIds : SeedDemo(seed, id)
      PROVE  UNCHANGED overlapped
    BY <1>4 DEF IngestBegin, FindOpen, IngestMerge, IngestCreate, SeedDemo, CreateAlert
<1> QED
    BY <1>1, <1>2, <1>3, <1>4 DEF Next

\* The store of shared records implements the contract of the alert service: as long
\* as no two requests have worked on one alert at a time, nobody can tell the field
\* by field writes of requests and pipeline from calls that take effect in one step.
THEOREM MemoryImplementsContract == Spec => ImplementsContract
<1>1. Init => Contract!Init
    <2> SUFFICES ASSUME Init PROVE Contract!Init
        OBVIOUS
    <2>1. /\ heap = [id \in AlertIds |-> NoAlert] /\ call = [op \in Ops |-> NoCall]
          /\ answered = [op \in Ops |-> NoAlert] /\ hit = NoHit /\ ingested = 0
          /\ toSeed \in {{}, Seeds}
        BY DEF Init
    <2>2. \A i \in AlertIds : Seen(i) = NoAlert
        BY <2>1 DEF Seen, Merging, Base, RunningOn, Running
    <2>3. AbsAlerts = [i \in AlertIds |-> NoAlert]
        BY <2>2, AlertsAreSeen
    <2>4. AbsIngested = 0 /\ AbsAnswered = {}
        BY <2>1 DEF AbsIngested, AbsAnswered, Effective, Running
    <2> QED
        BY <2>1, <2>3, <2>4 DEF Contract!Init
<1>2. MemoryInv /\ MemoryInv' /\ ScanInv /\ [Next]_vars => [overlapped' = {} => ContractStep]_vars
    <2> SUFFICES ASSUME MemoryInv, MemoryInv', ScanInv, Next, overlapped' = {}
                 PROVE  ContractStep
        OBVIOUS
    <2>1. overlapped = {}
        BY OverlapsStay
    <2>2. BaseIs /\ EffectIs
        BY <2>1, BaseLemma, EffectLemma
    <2>3. BaseIs' /\ EffectIs'
        BY BaseNext, EffectNext
    <2> QED
        BY <2>1, <2>2, <2>3, NextIsContract
<1> QED
    BY <1>1, <1>2, MemoryInvariant, ScanInvariant, PTL DEF Spec, ImplementsContract, ContractStep
=============================================================================
