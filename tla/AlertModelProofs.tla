-------------------------- MODULE AlertModelProofs --------------------------
(* What the handlers' computations on one alert preserve, whatever store the *)
(* alert came from.                                                          *)
EXTENDS AlertModel, TLAPS

\* A new alert is well formed and coherent (Service.Ingest, create branch).
LEMMA NewAlertSound ==
    ASSUME NEW Ops, NEW key \in Keys, NEW batch \in Nat
    PROVE  /\ NewAlert(key, batch) \in Alert(Ops)
           /\ Coherent(NewAlert(key, batch))
BY DEF NewAlert, Alert, Coherent, ChainedTrail, TrailStatus, Statuses, Resolutions, IsActive

\* Capping the evidence leaves a sequence of batches.
LEMMA CappedTyped ==
    ASSUME NEW s \in Seq(Nat)
    PROVE  Capped(s) \in Seq(Nat)
BY EvidenceCapAssumption DEF Capped

\* Merging touches the evidence only (Alert.Merge).
LEMMA MergeSound ==
    ASSUME NEW Ops, NEW a \in Alert(Ops), NEW batch \in Nat
    PROVE  /\ Merge(a, batch) \in Alert(Ops)
           /\ Merge(a, batch).key = a.key
           /\ Merge(a, batch).status = a.status
           /\ Coherent(a) => Coherent(Merge(a, batch))
           /\ LifecycleStep(a, Merge(a, batch))
<1>a. Append(a.evidence, batch) \in Seq(Nat)
    BY DEF Alert
<1>1. Capped(Append(a.evidence, batch)) \in Seq(Nat)
    BY <1>a, CappedTyped
<1> DEFINE m == Merge(a, batch)
<1>2. /\ m \in Alert(Ops)
      /\ m.key = a.key /\ m.status = a.status /\ m.assignee = a.assignee
      /\ m.responded = a.responded /\ m.resolution = a.resolution /\ m.trail = a.trail
    BY <1>1 DEF Merge, Alert
<1>3. Len(a.trail) \in Nat
    BY DEF Alert
<1> QED
    BY <1>2, <1>3 DEF Coherent, LifecycleStep

\* Every request writes one trail entry of its own, from the status it read to
\* the one it leaves (appendAction is the last step of each handler).
LEMMA ApplyShape ==
    ASSUME NEW Ops, NEW a \in Alert(Ops), NEW op \in Ops, NEW req \in Requests,
           ~Refused(a, req)
    PROVE  LET b == Apply(a, op, req)
           IN /\ b \in Alert(Ops)
              /\ b.key = a.key
              /\ b.evidence = a.evidence
              /\ \E e \in Entry(Ops) : /\ b.trail = Append(a.trail, e)
                                       /\ e.op = op /\ e.from = a.status /\ e.to = b.status
              /\ ~IsActive(a.status) => ~IsActive(b.status)
              /\ a.responded => b.responded
              /\ Coherent(a) => /\ IsActive(b.status) <=> b.resolution = "none"
                                /\ ~IsActive(b.status) => b.responded
                                /\ b.status = "ASSIGNED" => b.assignee # Nobody
<1> DEFINE b == Apply(a, op, req)
           Written(act) == [op |-> op, act |-> act, from |-> a.status, to |-> b.status]
           Keeps(act) == /\ b = [a EXCEPT !.status = b.status, !.assignee = b.assignee,
                                          !.responded = b.responded, !.resolution = b.resolution,
                                          !.trail = Append(a.trail, Written(act))]
                         /\ Written(act) \in Entry(Ops)
                         /\ b.status \in Statuses /\ b.assignee \in Analysts \cup {Nobody}
                         /\ b.responded \in BOOLEAN /\ b.resolution \in Resolutions
           Sane == /\ ~IsActive(a.status) => ~IsActive(b.status)
                   /\ a.responded => b.responded
                   /\ Coherent(a) => /\ IsActive(b.status) <=> b.resolution = "none"
                                     /\ ~IsActive(b.status) => b.responded
                                     /\ b.status = "ASSIGNED" => b.assignee # Nobody
<1>0. /\ a.key \in Keys /\ a.status \in Statuses /\ a.assignee \in Analysts \cup {Nobody}
      /\ a.responded \in BOOLEAN /\ a.resolution \in Resolutions
      /\ a.trail \in Seq(Entry(Ops)) /\ a.evidence \in Seq(Nat)
      /\ DOMAIN a = {"key", "status", "assignee", "responded", "resolution", "trail", "evidence"}
    BY DEF Alert
<1>1. ASSUME NEW act, Keeps(act)
      PROVE  /\ b \in Alert(Ops)
             /\ b.key = a.key
             /\ b.evidence = a.evidence
             /\ \E e \in Entry(Ops) : /\ b.trail = Append(a.trail, e)
                                      /\ e.op = op /\ e.from = a.status /\ e.to = b.status
    <2> DEFINE t == Append(a.trail, Written(act))
    <2>1. t \in Seq(Entry(Ops))
        BY <1>0, <1>1
    <2>2. b.key = a.key /\ b.evidence = a.evidence /\ b.trail = t
        BY <1>0, <1>1
    <2>3. b \in Alert(Ops)
        <3> HIDE DEF t, b
        <3>1. b = [a EXCEPT !.status = b.status, !.assignee = b.assignee,
                            !.responded = b.responded, !.resolution = b.resolution, !.trail = t]
            BY <1>1 DEF t
        <3> QED
            BY <3>1, <2>1, <1>0, <1>1 DEF Alert
    <2> QED
        BY <2>2, <2>3, <1>1
<1>2. CASE req.verb = "assign"
    <2>1. b = [a EXCEPT !.assignee = req.arg,
                        !.status = IF a.status = "OPEN" THEN "ASSIGNED" ELSE a.status,
                        !.trail = Append(a.trail, Written("assign"))]
        BY <1>2, <1>0 DEF Apply, Assign, AppendAction, Alert
    <2>2. req.arg \in Analysts /\ IsActive(a.status)
        BY <1>2 DEF Requests, Refused
    <2> HIDE DEF b
    <2>3. /\ b.status = (IF a.status = "OPEN" THEN "ASSIGNED" ELSE a.status)
          /\ b.assignee = req.arg /\ b.responded = a.responded /\ b.resolution = a.resolution
        BY <2>1, <1>0
    <2>4. Keeps("assign")
        BY <2>1, <2>2, <2>3, <1>0 DEF Entry, Statuses
    <2>5. Sane
        BY <2>2, <2>3, NobodyAssumption DEF Coherent, IsActive
    <2> QED
        BY <2>4, <2>5, <1>1 DEF b
<1>3. CASE req.verb = "status"
    <2>1. b = [a EXCEPT !.status = req.arg, !.trail = Append(a.trail, Written("start"))]
        BY <1>3, <1>0 DEF Apply, SetStatus, AppendAction, Alert
    <2>2. /\ req.arg \in Statuses \ {"RESOLVED"}
          /\ IsActive(a.status)
          /\ req.arg = "ASSIGNED" => a.assignee # Nobody
        BY <1>3 DEF Requests, Refused
    <2> HIDE DEF b
    <2>3. /\ b.status = req.arg /\ b.assignee = a.assignee
          /\ b.responded = a.responded /\ b.resolution = a.resolution
        BY <2>1, <1>0
    <2>4. Keeps("start")
        BY <2>1, <2>2, <2>3, <1>0 DEF Entry
    <2>5. Sane
        BY <2>2, <2>3 DEF Coherent, IsActive
    <2> QED
        BY <2>4, <2>5, <1>1 DEF b
<1>4. CASE req.verb = "action"
    <2>1. req.arg \in {"acknowledge", "mitigate", "false_positive", "comment"}
        BY <1>4 DEF Requests, Refused
    <2>2. CASE req.arg = "acknowledge"
        <3>1. b = [a EXCEPT !.responded = TRUE, !.trail = Append(a.trail, Written("acknowledge"))]
            BY <1>4, <2>2, <1>0 DEF Apply, Action, AppendAction, Acknowledging, Alert
        <3> HIDE DEF b
        <3>2. /\ b.status = a.status /\ b.assignee = a.assignee
              /\ b.responded = TRUE /\ b.resolution = a.resolution
            BY <3>1, <1>0
        <3>3. Keeps("acknowledge")
            BY <3>1, <3>2, <1>0 DEF Entry, Acknowledging
        <3>4. Sane
            BY <3>2 DEF Coherent
        <3> QED
            BY <3>3, <3>4, <1>1 DEF b
    <2>3. CASE req.arg \in Resolving
        <3> DEFINE res == IF req.arg = "mitigate" THEN "mitigated" ELSE "false_positive"
        <3>1. b = [a EXCEPT !.status = "RESOLVED", !.responded = TRUE, !.resolution = res,
                            !.trail = Append(a.trail, Written(req.arg))]
            BY <1>4, <2>3, <1>0 DEF Apply, Action, AppendAction, Acknowledging, Resolving, Alert
        <3> HIDE DEF b
        <3>2. /\ b.status = "RESOLVED" /\ b.assignee = a.assignee
              /\ b.responded = TRUE /\ b.resolution = res
            BY <3>1, <1>0
        <3>3. Keeps(req.arg)
            BY <3>1, <3>2, <2>3, <1>0 DEF Entry, Resolving, Statuses, Resolutions
        <3>4. Sane
            BY <3>2 DEF Coherent, IsActive
        <3> QED
            BY <3>3, <3>4, <1>1 DEF b
    <2>4. CASE req.arg = "comment"
        <3>1. b = [a EXCEPT !.trail = Append(a.trail, Written("comment"))]
            BY <1>4, <2>4, <1>0 DEF Apply, Action, AppendAction, Acknowledging, Alert
        <3> HIDE DEF b
        <3>2. /\ b.status = a.status /\ b.assignee = a.assignee
              /\ b.responded = a.responded /\ b.resolution = a.resolution
            BY <3>1, <1>0
        <3>3. Keeps("comment")
            BY <3>1, <3>2, <1>0 DEF Entry
        <3>4. Sane
            BY <3>2 DEF Coherent
        <3> QED
            BY <3>3, <3>4, <1>1 DEF b
    <2> QED
        BY <2>1, <2>2, <2>3, <2>4 DEF Resolving
<1> QED
    BY <1>2, <1>3, <1>4 DEF Requests

\* An accepted request takes a coherent alert to a coherent one and keeps its
\* history (Service.Assign, SetStatus, Action).
LEMMA ApplySound ==
    ASSUME NEW Ops, NEW a \in Alert(Ops), NEW op \in Ops, NEW req \in Requests,
           ~Refused(a, req)
    PROVE  /\ Apply(a, op, req) \in Alert(Ops)
           /\ Apply(a, op, req).key = a.key
           /\ IsActive(Apply(a, op, req).status) => IsActive(a.status)
           /\ Coherent(a) => Coherent(Apply(a, op, req))
           /\ LifecycleStep(a, Apply(a, op, req))
<1> DEFINE b == Apply(a, op, req)
<1>1. PICK e \in Entry(Ops) : b.trail = Append(a.trail, e) /\ e.from = a.status /\ e.to = b.status
    BY ApplyShape
<1>2. a.trail \in Seq(Entry(Ops)) /\ Len(a.trail) \in Nat
    BY DEF Alert
<1>3. /\ Len(b.trail) = Len(a.trail) + 1
      /\ b.trail[Len(b.trail)] = e
      /\ \A i \in 1 .. Len(a.trail) : b.trail[i] = a.trail[i]
    BY <1>1, <1>2
<1>4. LifecycleStep(a, b)
    BY <1>2, <1>3, ApplyShape DEF LifecycleStep
<1>5. ASSUME Coherent(a) PROVE Coherent(b)
    <2>1. b.status = TrailStatus(b.trail)
        BY <1>1, <1>2, <1>3 DEF TrailStatus
    <2>2. a.status = IF Len(a.trail) = 0 THEN "OPEN" ELSE a.trail[Len(a.trail)].to
        BY <1>5, <1>2 DEF Coherent, TrailStatus
    <2>3. ASSUME NEW i \in 1 .. Len(b.trail)
          PROVE  /\ b.trail[i].from = IF i = 1 THEN "OPEN" ELSE b.trail[i - 1].to
                 /\ ~IsActive(b.trail[i].from) => ~IsActive(b.trail[i].to)
        <3>1. CASE i = Len(b.trail)
            <4>1. b.trail[i].from = a.status /\ b.trail[i].to = b.status
                BY <3>1, <1>1, <1>3
            <4>2. a.status = IF i = 1 THEN "OPEN" ELSE b.trail[i - 1].to
                BY <3>1, <2>2, <1>2, <1>3
            <4> QED
                BY <4>1, <4>2, ApplyShape
        <3>2. CASE i \in 1 .. Len(a.trail)
            <4>1. b.trail[i] = a.trail[i] /\ (i # 1 => b.trail[i - 1] = a.trail[i - 1])
                BY <3>2, <1>2, <1>3
            <4> QED
                BY <4>1, <3>2, <1>5 DEF Coherent, ChainedTrail
        <3> QED
            BY <3>1, <3>2, <1>2, <1>3
    <2> QED
        BY <2>1, <2>3, <1>5, ApplyShape DEF Coherent, ChainedTrail
<1> QED
    BY <1>4, <1>5, ApplyShape

-----------------------------------------------------------------------------
(* Whose entries a trail holds.                                            *)

Carries(a, op) == \E i \in 1 .. Len(a.trail) : a.trail[i].op = op

Once(a, op) ==
    \A m, n \in 1 .. Len(a.trail) : a.trail[m].op = op /\ a.trail[n].op = op => m = n

\* A request adds its one entry to the trail and nobody else's.
LEMMA ApplyCarries ==
    ASSUME NEW Ops, NEW a \in Alert(Ops), NEW op \in Ops, NEW req \in Requests,
           ~Refused(a, req)
    PROVE  \A o : /\ Carries(Apply(a, op, req), o) <=> Carries(a, o) \/ o = op
                  /\ Once(a, o) /\ ~(o = op /\ Carries(a, o)) => Once(Apply(a, op, req), o)
<1> DEFINE b == Apply(a, op, req)
<1>1. PICK e \in Entry(Ops) : b.trail = Append(a.trail, e) /\ e.op = op
    BY ApplyShape
<1>2. a.trail \in Seq(Entry(Ops)) /\ Len(a.trail) \in Nat
    BY DEF Alert
<1> DEFINE n == Len(a.trail)
<1>3. /\ 1 .. Len(b.trail) = 1 .. n \cup {n + 1} /\ n + 1 \notin 1 .. n
      /\ b.trail[n + 1].op = op
      /\ \A i \in 1 .. n : b.trail[i].op = a.trail[i].op
    BY <1>1, <1>2
<1> HIDE DEF b, n
<1>4. ASSUME NEW o PROVE Carries(b, o) <=> Carries(a, o) \/ o = op
    BY <1>3 DEF Carries, n
<1>5. ASSUME NEW o, Once(a, o), ~(o = op /\ Carries(a, o)),
             NEW i \in 1 .. Len(b.trail), NEW j \in 1 .. Len(b.trail),
             b.trail[i].op = o, b.trail[j].op = o
      PROVE  i = j
    <2>1. o # op => i \in 1 .. n /\ j \in 1 .. n
        BY <1>3, <1>5
    <2>2. o = op => i = n + 1 /\ j = n + 1
        BY <1>3, <1>5 DEF Carries, n
    <2> QED
        BY <1>3, <1>5, <2>1, <2>2 DEF Once, n
<1> QED
    BY <1>4, <1>5 DEF b, Once

\* Merging leaves the trail alone, and a new alert has an empty one.
LEMMA MergeCarries ==
    ASSUME NEW Ops, NEW a \in Alert(Ops), NEW key, NEW batch
    PROVE  \A o : /\ Carries(Merge(a, batch), o) <=> Carries(a, o)
                  /\ Once(a, o) => Once(Merge(a, batch), o)
                  /\ ~Carries(NewAlert(key, batch), o)
                  /\ Once(NewAlert(key, batch), o)
<1>1. Merge(a, batch).trail = a.trail
    BY DEF Merge, Alert
<1>2. NewAlert(key, batch).trail = <<>>
    BY DEF NewAlert
<1> QED
    BY <1>1, <1>2 DEF Carries, Once

-----------------------------------------------------------------------------
(* What batches an alert is evidence of.                                   *)

Batches(a) == {a.evidence[i] : i \in 1 .. Len(a.evidence)}

\* Merging adds the batch to the evidence and may drop old ones, never the new one
\* (Alert.Merge keeps the last 200 event IDs).
LEMMA MergeBatches ==
    ASSUME NEW Ops, NEW a \in Alert(Ops), NEW batch \in Nat
    PROVE  /\ Batches(Merge(a, batch)) \subseteq Batches(a) \cup {batch}
           /\ batch \in Batches(Merge(a, batch))
<1> DEFINE s == a.evidence
           t == Append(s, batch)
           n == Len(s)
<1>1. s \in Seq(Nat) /\ n \in Nat
    BY DEF Alert
<1>2. /\ t \in Seq(Nat) /\ Len(t) = n + 1 /\ t[n + 1] = batch
      /\ \A i \in 1 .. n : t[i] = s[i]
    BY <1>1
<1>3. Merge(a, batch).evidence = Capped(t)
    BY DEF Merge, Alert
<1> HIDE DEF t, s, n
<1>4. \A i \in 1 .. Len(Capped(t)) : \E j \in 1 .. n + 1 : Capped(t)[i] = t[j]
    <2>1. CASE Len(t) > EvidenceCap
        <3> DEFINE from == n + 1 - EvidenceCap
        <3>1. EvidenceCap \in Nat /\ from \in 1 .. n + 1
            BY <2>1, <1>1, <1>2, EvidenceCapAssumption
        <3>2. /\ Capped(t) = SubSeq(t, from + 1, n + 1)
              /\ Len(Capped(t)) = EvidenceCap
              /\ \A i \in 1 .. EvidenceCap : Capped(t)[i] = t[from + i]
            BY <2>1, <1>1, <1>2, <3>1, EvidenceCapAssumption DEF Capped
        <3>3. \A i \in 1 .. EvidenceCap : from + i \in 1 .. n + 1
            BY <1>1, <3>1
        <3> HIDE DEF from
        <3> QED
            BY <3>2, <3>3
    <2>2. CASE ~(Len(t) > EvidenceCap)
        <3>1. Capped(t) = t
            BY <2>2 DEF Capped
        <3> QED
            BY <1>2, <3>1
    <2> QED
        BY <2>1, <2>2
<1>5. \E i \in 1 .. Len(Capped(t)) : Capped(t)[i] = batch
    <2>1. CASE Len(t) > EvidenceCap
        <3>1. /\ Len(Capped(t)) = EvidenceCap
              /\ Capped(t)[EvidenceCap] = t[n + 1]
            BY <2>1, <1>1, <1>2, EvidenceCapAssumption DEF Capped
        <3> QED
            BY <3>1, <1>2, EvidenceCapAssumption
    <2>2. CASE ~(Len(t) > EvidenceCap)
        BY <2>2, <1>1, <1>2 DEF Capped
    <2> QED
        BY <2>1, <2>2
<1>6. \A j \in 1 .. n + 1 : t[j] \in Batches(a) \cup {batch}
    <2>1. Batches(a) = {s[i] : i \in 1 .. n}
        BY DEF Batches, s, n
    <2>2. \A j \in 1 .. n + 1 : j \in 1 .. n \/ j = n + 1
        BY <1>1
    <2> QED
        BY <1>2, <2>1, <2>2
<1> DEFINE c == Capped(t)
<1>7. Batches(Merge(a, batch)) = {c[i] : i \in 1 .. Len(c)}
    BY <1>3, Zenon DEF Batches
<1> HIDE DEF c
<1>8. \A i \in 1 .. Len(c) : c[i] \in Batches(a) \cup {batch}
    BY <1>4, <1>6, Zenon DEF c
<1>9. batch \in {c[i] : i \in 1 .. Len(c)}
    BY <1>5, Zenon DEF c
<1> QED
    BY <1>7, <1>8, <1>9, Zenon

\* No request touches the evidence.
LEMMA ApplyBatches ==
    ASSUME NEW Ops, NEW a \in Alert(Ops), NEW op \in Ops, NEW req \in Requests,
           ~Refused(a, req)
    PROVE  Batches(Apply(a, op, req)) = Batches(a)
BY ApplyShape DEF Batches
=============================================================================
