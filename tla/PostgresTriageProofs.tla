------------------------ MODULE PostgresTriageProofs ------------------------
(* What the Postgres store keeps, for any number of concurrent requests,     *)
(* keys, failures and crashes.                                               *)
EXTENDS PostgresTriage, AlertModelProofs

-----------------------------------------------------------------------------
(* The inductive invariant.                                                *)

\* What a copy computed from base may be: coherent, of the same key, a
\* lifecycle step away from base, and active only if base is.
Computed(base, copy) ==
    /\ Coherent(base) => Coherent(copy)
    /\ copy.key = base.key
    /\ IsActive(copy.status) => IsActive(base.status)
    /\ LifecycleStep(base, copy)

\* A copy in flight belongs to a row of its key, and only the pipeline inserts.
JobOK(w) ==
    Busy(w) =>
        /\ Coherent(job[w].copy)
        /\ job[w].base # NoAlert =>
              /\ Exists(job[w].id)
              /\ rows[job[w].id].key = job[w].base.key
              /\ Computed(job[w].base, job[w].copy)
        /\ job[w].base = NoAlert => w = Pipeline /\ ~Exists(job[w].id)

IInv ==
    /\ TypeOK
    /\ \A id \in AlertIds : Exists(id) => Coherent(rows[id])
    /\ \A w \in Workers : JobOK(w)

\* While no lookup failed and no write raced, a new alert in flight is the first
\* open one of its key.
UniqueOpen ==
    /\ OneOpenPerKey
    /\ Busy(Pipeline) /\ job[Pipeline].base = NoAlert => OpenFor(job[Pipeline].copy.key) = {}

FirstOpenInv == missed \/ overwrote \/ UniqueOpen

-----------------------------------------------------------------------------
(* The three kinds of steps Next is made of.                               *)

\* A goroutine reads and computes.
Reads(w, j) ==
    /\ ~Busy(w)
    /\ j \in Jobs
    /\ job' = [job EXCEPT ![w] = j]
    /\ UNCHANGED <<rows, overwrote>>
    /\ \/ /\ j.base # NoAlert /\ Exists(j.id) /\ j.base = rows[j.id]
          /\ Computed(j.base, j.copy)
          /\ missed' = missed
       \/ /\ w = Pipeline /\ j.base = NoAlert /\ ~Exists(j.id) /\ Coherent(j.copy)
          /\ IsActive(j.copy.status)
          /\ missed' = TRUE \/ (missed' = missed /\ OpenFor(j.copy.key) = {})

\* A goroutine writes what it computed.
Writes(w) == Busy(w) /\ WriteBack(w) /\ Finish(w) /\ missed' = missed

\* Copies are forgotten.
Drops ==
    /\ \A w \in Workers : job'[w] \in {job[w], NoJob}
    /\ UNCHANGED <<rows, overwrote, missed>>

StoreStep ==
    \/ \E w \in Workers : \/ \E j \in Jobs : Reads(w, j)
                          \/ Writes(w)
    \/ Drops

\* Every step reads a row, writes one, or forgets copies.
LEMMA NextIsStoreStep == IInv /\ [Next]_vars => StoreStep /\ TypeOK'
<1> SUFFICES ASSUME IInv, [Next]_vars PROVE StoreStep /\ TypeOK'
    OBVIOUS
<1>0. TypeOK /\ NoAlert \notin Alert(Ops) /\ NoJob \notin Jobs /\ Pipeline \in Workers
    BY NoAlertAssumption, NoJobAssumption DEF IInv, Workers
<1>a. ASSUME NEW w \in Workers, NEW j \in Jobs, job' = [job EXCEPT ![w] = j]
      PROVE  job' \in [Workers -> Jobs \cup {NoJob}]
    BY <1>0, <1>a DEF TypeOK
<1>b. ASSUME NEW w \in Workers, Finish(w)
      PROVE  /\ job' \in [Workers -> Jobs \cup {NoJob}]
             /\ \A v \in Workers : job'[v] \in {job[v], NoJob}
    BY <1>0, <1>b DEF Finish, TypeOK
<1>c. ASSUME NEW w \in Workers, Busy(w), WriteBack(w)
      PROVE  rows' \in [AlertIds -> Alert(Ops) \cup {NoAlert}] /\ overwrote' \in BOOLEAN
    BY <1>0, <1>c DEF WriteBack, TypeOK, Busy, Jobs
<1>d. ASSUME Fault \/ NoFault PROVE faults' \in Nat
    BY <1>0, <1>d DEF Fault, NoFault, TypeOK
<1>1. ASSUME NEW op \in Ops, NEW id \in AlertIds, NEW req \in Requests, Fetch(op, id, req)
      PROVE  StoreStep /\ TypeOK'
    <2> DEFINE b == Apply(rows[id], op, req)
               j == [id |-> id, base |-> rows[id], copy |-> b]
    <2>1. rows[id] \in Alert(Ops) /\ ~Refused(rows[id], req) /\ rows[id] # NoAlert
        BY <1>1, <1>0 DEF Fetch, Exists, TypeOK
    <2>2. /\ b \in Alert(Ops) /\ b.key = rows[id].key
          /\ IsActive(b.status) => IsActive(rows[id].status)
          /\ Coherent(rows[id]) => Coherent(b)
          /\ LifecycleStep(rows[id], b)
        BY <2>1, ApplySound
    <2>3. job' = [job EXCEPT ![op] = j]
        BY <1>1 DEF Fetch, Start
    <2> HIDE DEF b
    <2>4. j \in Jobs /\ Computed(j.base, j.copy)
        BY <2>1, <2>2 DEF Jobs, Computed
    <2>5. Reads(op, j)
        BY <1>1, <2>1, <2>3, <2>4 DEF Fetch, Waiting, Reads, Exists
    <2>6. op \in Workers
        BY DEF Workers
    <2> QED
        BY <1>1, <1>0, <1>a, <2>3, <2>4, <2>5, <2>6 DEF Fetch, StoreStep, TypeOK
<1>2. ASSUME NEW op \in Ops, Reject(op) PROVE StoreStep /\ TypeOK'
    <2>1. answer' \in [Ops -> {"none", "ok", "error"}]
        BY <1>2, <1>0 DEF Reject, TypeOK
    <2>2. Drops
        BY <1>2 DEF Reject, Drops
    <2> QED
        BY <1>2, <1>0, <1>d, <2>1, <2>2 DEF Reject, StoreStep, TypeOK
<1>3. ASSUME NEW op \in Ops, Save(op) \/ SaveFails(op) PROVE StoreStep /\ TypeOK'
    <2>1. op \in Workers /\ Busy(op) /\ Finish(op) /\ (Fault \/ NoFault)
          /\ (WriteBack(op) \/ UNCHANGED <<rows, overwrote>>)
          /\ UNCHANGED <<ingested, missed>>
        BY <1>3 DEF Save, SaveFails, Workers, NoFault
    <2>2. answer' \in [Ops -> {"none", "ok", "error"}]
        BY <1>3, <1>0 DEF Save, SaveFails, TypeOK
    <2>3. StoreStep
        BY <2>1, <1>b DEF StoreStep, Writes, Drops
    <2> QED
        BY <2>1, <2>2, <2>3, <1>0, <1>b, <1>c, <1>d DEF TypeOK
<1>4. ASSUME NEW key \in Keys, IngestFind(key) PROVE StoreStep /\ TypeOK'
    <2>1. ingested' \in Nat /\ (Fault \/ NoFault) /\ UNCHANGED <<rows, answer, overwrote>>
          /\ missed' \in BOOLEAN /\ ~Busy(Pipeline)
        <3>1. missed \in BOOLEAN /\ ingested \in Nat
            BY <1>0 DEF TypeOK
        <3>2. (Fault \/ NoFault) /\ (missed' = missed \/ missed' = TRUE)
            BY <1>4 DEF IngestFind
        <3>3. /\ ~Busy(Pipeline) /\ ingested' = ingested + 1
              /\ UNCHANGED <<rows, answer, overwrote>>
            BY <1>4 DEF IngestFind
        <3>4. missed' \in BOOLEAN
            BY <3>1, <3>2
        <3> QED
            BY <3>1, <3>2, <3>3, <3>4
    <2>2. CASE /\ missed' = missed
               /\ \E id \in FindOpen(key) :
                     Start(Pipeline, id, rows[id], Merge(rows[id], ingested'))
        <3>1. PICK id \in FindOpen(key) : Start(Pipeline, id, rows[id], Merge(rows[id], ingested'))
            BY <2>2
        <3>2. id \in AlertIds /\ Exists(id) /\ rows[id] \in Alert(Ops)
            BY <3>1, <1>0 DEF FindOpen, OpenFor, Exists, TypeOK
        <3> DEFINE m == Merge(rows[id], ingested')
                   j == [id |-> id, base |-> rows[id], copy |-> m]
        <3>3. /\ m \in Alert(Ops) /\ m.key = rows[id].key /\ m.status = rows[id].status
              /\ Coherent(rows[id]) => Coherent(m)
              /\ LifecycleStep(rows[id], m)
            BY <3>2, <2>1, MergeSound
        <3>4. job' = [job EXCEPT ![Pipeline] = j]
            BY <3>1 DEF Start
        <3> HIDE DEF m
        <3>5. j \in Jobs /\ Computed(j.base, j.copy)
            BY <3>2, <3>3 DEF Jobs, Computed
        <3>6. Reads(Pipeline, j)
            BY <2>1, <2>2, <3>2, <3>4, <3>5 DEF Reads, Exists
        <3> QED
            BY <1>0, <1>a, <1>d, <2>1, <3>4, <3>5, <3>6 DEF StoreStep, TypeOK
    <2>3. CASE /\ missed' = TRUE \/ (missed' = missed /\ OpenFor(key) = {})
               /\ \E id \in AlertIds :
                     ~Exists(id) /\ Start(Pipeline, id, NoAlert, NewAlert(key, ingested'))
        <3>1. PICK id \in AlertIds :
                 ~Exists(id) /\ Start(Pipeline, id, NoAlert, NewAlert(key, ingested'))
            BY <2>3
        <3> DEFINE n == NewAlert(key, ingested')
                   j == [id |-> id, base |-> NoAlert, copy |-> n]
        <3>2. n \in Alert(Ops) /\ Coherent(n) /\ n.key = key /\ IsActive(n.status)
            BY <2>1, NewAlertSound DEF NewAlert, IsActive
        <3>3. job' = [job EXCEPT ![Pipeline] = j]
            BY <3>1 DEF Start
        <3> HIDE DEF n
        <3>4. j \in Jobs
            BY <3>2 DEF Jobs
        <3>5. Reads(Pipeline, j)
            BY <2>1, <2>3, <3>1, <3>2, <3>3, <3>4 DEF Reads
        <3> QED
            BY <1>0, <1>a, <1>d, <2>1, <3>3, <3>4, <3>5 DEF StoreStep, TypeOK
    <2> QED
        BY <1>4, <2>2, <2>3, Zenon DEF IngestFind
<1>5. ASSUME IngestSave \/ IngestSaveFails PROVE StoreStep /\ TypeOK'
    <2>1. Busy(Pipeline) /\ Finish(Pipeline) /\ (Fault \/ NoFault)
          /\ (WriteBack(Pipeline) \/ UNCHANGED <<rows, overwrote>>)
          /\ UNCHANGED <<answer, ingested, missed>>
        BY <1>5 DEF IngestSave, IngestSaveFails, NoFault
    <2>2. StoreStep
        BY <2>1, <1>0, <1>b DEF StoreStep, Writes, Drops
    <2> QED
        BY <2>1, <2>2, <1>0, <1>b, <1>c, <1>d DEF TypeOK
<1>6. ASSUME Crash PROVE StoreStep /\ TypeOK'
    BY <1>6, <1>0, <1>d DEF Crash, StoreStep, Drops, TypeOK, Workers
<1>7. CASE UNCHANGED vars
    BY <1>7, <1>0 DEF vars, StoreStep, Drops, TypeOK
<1> QED
    BY <1>1, <1>2, <1>3, <1>4, <1>5, <1>6, <1>7 DEF Next

\* The inductive invariant holds at the start,
LEMMA IInvInit == Init => IInv
<1> SUFFICES ASSUME Init PROVE IInv
    OBVIOUS
<1>1. TypeOK
    BY DEF Init, TypeOK
<1>2. \A id \in AlertIds : ~Exists(id)
    BY DEF Init, Exists
<1>3. \A w \in Workers : ~Busy(w)
    BY DEF Init, Busy
<1> QED
    BY <1>1, <1>2, <1>3 DEF IInv, JobOK

\* and every step of requests, pipeline, server and crash keeps it.
LEMMA IInvStep == IInv /\ [Next]_vars => IInv'
<1> SUFFICES ASSUME IInv, StoreStep, TypeOK' PROVE IInv'
    BY NextIsStoreStep
<1>0. TypeOK /\ NoAlert \notin Alert(Ops) /\ NoJob \notin Jobs
    BY NoAlertAssumption, NoJobAssumption DEF IInv
<1>1. ASSUME NEW w \in Workers, NEW j \in Jobs, Reads(w, j) PROVE IInv'
    <2>1. \A id \in AlertIds : Exists(id)' => Coherent(rows[id])'
        BY <1>1 DEF Reads, IInv, Exists
    <2>2. ASSUME NEW v \in Workers PROVE JobOK(v)'
        <3>1. CASE v = w
            <4>1. job'[w] = j /\ Busy(w)'
                BY <1>1, <1>0 DEF Reads, TypeOK, Busy
            <4>2. Coherent(j.copy)
                BY <1>1 DEF Reads, Computed, IInv, Jobs
            <4> QED
                BY <1>1, <3>1, <4>1, <4>2 DEF Reads, JobOK, Exists
        <3>2. CASE v # w
            <4>1. job'[v] = job[v]
                BY <1>1, <1>0, <3>2 DEF Reads, TypeOK
            <4> QED
                BY <1>1, <4>1 DEF Reads, IInv, JobOK, Busy, Exists
        <3> QED
            BY <3>1, <3>2
    <2> QED
        BY <2>1, <2>2 DEF IInv
<1>2. ASSUME NEW w \in Workers, Writes(w) PROVE IInv'
    <2> DEFINE id == job[w].id
               copy == job[w].copy
    <2>1. /\ job[w] \in Jobs /\ id \in AlertIds /\ copy \in Alert(Ops)
          /\ Coherent(copy)
          /\ rows' = [rows EXCEPT ![id] = copy]
          /\ \A v \in Workers : job'[v] = IF v = w THEN NoJob ELSE job[v]
        BY <1>2, <1>0 DEF Writes, WriteBack, Finish, Busy, IInv, JobOK, TypeOK, Jobs
    <2>2. Exists(id) => copy.key = rows[id].key
        BY <1>2 DEF Writes, IInv, JobOK, Computed
    <2> HIDE DEF id, copy
    <2>3. \A i \in AlertIds : Exists(i)' => Coherent(rows[i])'
        BY <2>1, <1>0 DEF IInv, Exists, TypeOK
    <2>4. \A i \in AlertIds : Exists(i) => Exists(i)' /\ rows'[i].key = rows[i].key
        BY <2>1, <2>2, <1>0 DEF Exists, TypeOK
    <2>5. ASSUME NEW v \in Workers, Busy(v)' PROVE JobOK(v)'
        <3>1. v # w /\ job'[v] = job[v] /\ Busy(v) /\ job[v] \in Jobs
            BY <2>1, <2>5, <1>0 DEF Busy, TypeOK
        <3>2. CASE job[v].base # NoAlert
            BY <3>1, <3>2, <2>4 DEF JobOK, IInv, Jobs
        <3>3. CASE job[v].base = NoAlert
            <4>1. v = Pipeline /\ ~Exists(job[v].id) /\ w # Pipeline
                BY <3>1, <3>3 DEF IInv, JobOK
            <4>2. Exists(id)
                BY <4>1, <1>2 DEF id, Writes, IInv, JobOK
            <4>3. ~Exists(job[v].id)'
                BY <4>1, <4>2, <2>1, <3>1, <1>0 DEF Exists, TypeOK, Jobs
            <4> QED
                BY <3>1, <3>3, <4>1, <4>3 DEF JobOK, IInv
        <3> QED
            BY <3>2, <3>3
    <2> QED
        BY <2>3, <2>5 DEF IInv, JobOK
<1>3. ASSUME Drops PROVE IInv'
    <2>1. ASSUME NEW v \in Workers PROVE JobOK(v)'
        BY <1>3 DEF Drops, IInv, JobOK, Busy, Exists
    <2> QED
        BY <1>3, <2>1 DEF Drops, IInv, Exists
<1> QED
    BY <1>1, <1>2, <1>3 DEF StoreStep

\* So it holds for ever.
LEMMA Inductive == Spec => []IInv
BY IInvInit, IInvStep, PTL DEF Spec

-----------------------------------------------------------------------------
\* The table, the copies in flight and the answers are of the right kind.
THEOREM TypeCorrect == Spec => []TypeOK
<1>1. IInv => TypeOK
    BY DEF IInv
<1> QED
    BY <1>1, Inductive, PTL

\* No interleaving, failure or crash leaves a row that contradicts its trail.
THEOREM RowsStayCoherent == Spec => []RowsCoherent
<1>1. IInv => RowsCoherent
    BY DEF IInv, RowsCoherent, JobOK
<1> QED
    BY <1>1, Inductive, PTL

\* A row loses history only in a step that writes over a row that has changed
\* since it was read.
THEOREM HistoryNeedsARace == Spec => HistoryLostOnlyByRace
<1> DEFINE Kept == \A id \in AlertIds : Exists(id) =>
                      /\ rows'[id] # NoAlert
                      /\ rows'[id].key = rows[id].key
                      /\ LifecycleStep(rows[id], rows'[id]) \/ Raced(id)
<1>1. IInv /\ [Next]_vars => [Kept]_vars
    <2> SUFFICES ASSUME IInv, StoreStep, NEW i \in AlertIds, Exists(i)
                 PROVE  /\ rows'[i] # NoAlert
                        /\ rows'[i].key = rows[i].key
                        /\ LifecycleStep(rows[i], rows'[i]) \/ Raced(i)
        BY NextIsStoreStep
    <2>0. rows[i] \in Alert(Ops) /\ NoAlert \notin Alert(Ops) /\ TypeOK
        BY NoAlertAssumption DEF IInv, TypeOK, Exists
    <2>1. LifecycleStep(rows[i], rows[i])
        <3>1. Len(rows[i].trail) \in Nat
            BY <2>0 DEF Alert
        <3> QED
            BY <3>1 DEF LifecycleStep
    <2>2. CASE rows' = rows
        BY <2>0, <2>1, <2>2
    <2>3. ASSUME NEW w \in Workers, Writes(w)
          PROVE  /\ rows'[i] # NoAlert
                 /\ rows'[i].key = rows[i].key
                 /\ LifecycleStep(rows[i], rows'[i]) \/ Raced(i)
        <3>1. job[w] \in Jobs /\ rows' = [rows EXCEPT ![job[w].id] = job[w].copy]
            BY <2>0, <2>3 DEF Writes, Busy, WriteBack, TypeOK
        <3>2. CASE job[w].id # i
            BY <2>0, <2>1, <3>1, <3>2 DEF TypeOK
        <3>3. CASE job[w].id = i
            <4>1. rows'[i] = job[w].copy /\ job[w].copy \in Alert(Ops)
                BY <2>0, <3>1, <3>3 DEF TypeOK, Jobs
            <4>2. /\ Busy(w) /\ job[w].base # NoAlert
                  /\ rows[i].key = job[w].base.key
                  /\ Computed(job[w].base, job[w].copy)
                BY <2>3, <3>3 DEF Writes, IInv, JobOK
            <4> QED
                BY <2>0, <4>1, <4>2, <3>3 DEF Computed, Raced
        <3> QED
            BY <3>2, <3>3
    <2> QED
        BY <2>2, <2>3 DEF StoreStep, Reads, Drops
<1> QED
    BY <1>1, Inductive, PTL DEF Spec, HistoryLostOnlyByRace

\* Until a write races or a lookup fails, a new alert in flight is the first of its key.
LEMMA FirstOpenHolds == Spec => []FirstOpenInv
<1>1. Init => FirstOpenInv
    BY DEF Init, FirstOpenInv, UniqueOpen, OneOpenPerKey, OpenFor, Exists, Busy, Workers
<1>2. IInv /\ FirstOpenInv /\ [Next]_vars => FirstOpenInv'
    <2> SUFFICES ASSUME IInv, FirstOpenInv, StoreStep, TypeOK', ~missed', ~overwrote'
                 PROVE  UniqueOpen'
        BY NextIsStoreStep DEF FirstOpenInv
    <2>0. TypeOK /\ NoAlert \notin Alert(Ops) /\ NoJob \notin Jobs /\ Pipeline \in Workers
        BY NoAlertAssumption, NoJobAssumption DEF IInv, Workers
    <2>1. ASSUME NEW w \in Workers, NEW j \in Jobs, Reads(w, j) PROVE UniqueOpen'
        <3>1. missed' = missed /\ overwrote' = overwrote /\ rows' = rows
            BY <2>1, <2>0 DEF Reads, TypeOK
        <3>2. UniqueOpen /\ \A key \in Keys : OpenFor(key)' = OpenFor(key)
            BY <3>1 DEF FirstOpenInv, OpenFor, Exists
        <3>3. OneOpenPerKey'
            BY <3>2 DEF UniqueOpen, OneOpenPerKey
        <3>4. ASSUME Busy(Pipeline)', (job[Pipeline].base = NoAlert)'
              PROVE  OpenFor(job[Pipeline].copy.key)' = {}
            <4>1. CASE w = Pipeline
                <5>1. job'[Pipeline] = j
                    BY <4>1, <2>0, <2>1 DEF Reads, TypeOK
                <5>2. OpenFor(j.copy.key) = {}
                    BY <5>1, <2>1, <3>4 DEF Reads
                <5> QED
                    BY <5>1, <5>2, <3>1 DEF OpenFor, Exists
            <4>2. CASE w # Pipeline
                <5>1. job'[Pipeline] = job[Pipeline]
                    BY <4>2, <2>0, <2>1 DEF Reads, TypeOK
                <5> QED
                    BY <5>1, <3>1, <3>2, <3>4 DEF UniqueOpen, Busy, OpenFor, Exists
            <4> QED
                BY <4>1, <4>2
        <3> QED
            BY <3>3, <3>4 DEF UniqueOpen
    <2>2. ASSUME NEW w \in Workers, Writes(w) PROVE UniqueOpen'
        <3> DEFINE id == job[w].id
                   copy == job[w].copy
        <3>1. /\ job[w] \in Jobs /\ id \in AlertIds /\ copy \in Alert(Ops)
              /\ rows' = [rows EXCEPT ![id] = copy]
              /\ \A v \in Workers : job'[v] = IF v = w THEN NoJob ELSE job[v]
              /\ missed' = missed /\ ~overwrote /\ rows[id] = job[w].base
            <4>1. Busy(w) /\ WriteBack(w) /\ Finish(w) /\ missed' = missed
                BY <2>2 DEF Writes
            <4>2. job[w] \in Jobs /\ id \in AlertIds /\ copy \in Alert(Ops)
                BY <4>1, <2>0 DEF Busy, TypeOK, Jobs
            <4>3. \A v \in Workers : job'[v] = IF v = w THEN NoJob ELSE job[v]
                BY <4>1, <2>0 DEF Finish, TypeOK
            <4> QED
                BY <4>1, <4>2, <4>3, <2>0 DEF WriteBack, TypeOK
        <3>2. UniqueOpen /\ JobOK(w) /\ Busy(w)
            BY <3>1, <2>2 DEF FirstOpenInv, Writes, IInv
        <3>3. CASE job[w].base = NoAlert
            <4>1. w = Pipeline /\ OpenFor(copy.key) = {}
                BY <3>2, <3>3 DEF JobOK, UniqueOpen
            <4> HIDE DEF id, copy
            <4>2. \A key \in Keys : OpenFor(key)' \subseteq
                     OpenFor(key) \cup (IF key = copy.key THEN {id} ELSE {})
                BY <3>1, <2>0 DEF OpenFor, Exists, TypeOK
            <4>3. OneOpenPerKey'
                BY <4>1, <4>2, <3>2 DEF UniqueOpen, OneOpenPerKey
            <4>4. ~Busy(Pipeline)'
                BY <4>1, <3>1, <2>0 DEF Busy
            <4> QED
                BY <4>3, <4>4 DEF UniqueOpen
        <3>4. CASE job[w].base # NoAlert
            <4>1. /\ Exists(id) /\ copy.key = rows[id].key
                  /\ IsActive(copy.status) => IsActive(rows[id].status)
                BY <3>1, <3>2, <3>4 DEF JobOK, Computed
            <4> HIDE DEF id, copy
            <4>2. \A key : OpenFor(key)' \subseteq OpenFor(key)
                BY <3>1, <4>1, <2>0 DEF OpenFor, Exists, TypeOK
            <4>3. OneOpenPerKey'
                BY <4>2, <3>2 DEF UniqueOpen, OneOpenPerKey
            <4>4. ASSUME Busy(Pipeline)', (job[Pipeline].base = NoAlert)'
                  PROVE  OpenFor(job[Pipeline].copy.key)' = {}
                <5>1. job'[Pipeline] = job[Pipeline]
                    BY <4>4, <3>1, <2>0 DEF Busy
                <5>2. OpenFor(job[Pipeline].copy.key) = {}
                    BY <5>1, <4>4, <3>2 DEF UniqueOpen, Busy
                <5> QED
                    BY <5>1, <5>2, <4>2
            <4> QED
                BY <4>3, <4>4 DEF UniqueOpen
        <3> QED
            BY <3>3, <3>4
    <2>3. ASSUME Drops PROVE UniqueOpen'
        <3>1. UniqueOpen
            BY <2>3 DEF FirstOpenInv, Drops
        <3>2. job'[Pipeline] \in {job[Pipeline], NoJob}
            BY <2>0, <2>3 DEF Drops
        <3> QED
            BY <2>3, <3>1, <3>2 DEF Drops, UniqueOpen, OneOpenPerKey, OpenFor, Exists, Busy
    <2> QED
        BY <2>1, <2>2, <2>3 DEF StoreStep
<1> QED
    BY <1>1, <1>2, Inductive, PTL DEF Spec

\* While no lookup fails and no write races, repeated hits merge: a key has one
\* open alert, across crashes too.
THEOREM DuplicateNeedsFaultOrRace == Spec => []DuplicateOnlyByFaultOrRace
<1>1. FirstOpenInv => DuplicateOnlyByFaultOrRace
    BY DEF FirstOpenInv, UniqueOpen, DuplicateOnlyByFaultOrRace
<1> QED
    BY <1>1, FirstOpenHolds, PTL

-----------------------------------------------------------------------------
(* Whose entries the trails hold.  IInv does not tell: it relates a copy to   *)
(* its base, but a request's entry may be in a row, in its own copy, or in a  *)
(* copy another goroutine made of that row.                                   *)

\* Everything that is, or may be written as, the row of an identity.
Records(id) ==
    ({rows[id]} \ {NoAlert}) \cup {job[w].copy : w \in {v \in Workers : Busy(v) /\ job[v].id = id}}

\* A request that has not been answered has left no entry but in its own copy.
Untold(op) ==
    answer[op] = "none" =>
        /\ \A id \in AlertIds : Exists(id) => ~Carries(rows[id], op)
        /\ \A w \in Workers \ {op} : Busy(w) => ~Carries(job[w].copy, op)

\* All entries of a request are one entry, in records of one identity.
OneHome(op) ==
    \A i, j \in AlertIds : \A a \in Records(i), b \in Records(j) :
        Carries(a, op) /\ Carries(b, op) => i = j

TrailsInv ==
    \A op \in Ops : /\ Busy(op) => answer[op] = "none"
                    /\ Untold(op)
                    /\ \A i \in AlertIds : \A a \in Records(i) : Once(a, op)
                    /\ OneHome(op)

\* Computing a copy keeps this if the copy has, but for the request's own, only
\* entries of the row it is a copy of.
LEMMA StartKeepsTrails ==
    ASSUME IInv, TrailsInv, NEW w \in Workers, NEW id \in AlertIds, NEW base, NEW c \in Alert(Ops),
           ~Busy(w), Start(w, id, base, c), UNCHANGED <<rows, answer>>,
           w \in Ops => answer[w] = "none",
           \A o \in Ops : Carries(c, o) => o = w \/ (Exists(id) /\ Carries(rows[id], o)),
           \A o \in Ops : Once(c, o)
    PROVE  TrailsInv'
<1> DEFINE j == [id |-> id, base |-> base, copy |-> c]
<1>0. TypeOK
    BY DEF IInv
<1>1. \A v \in Workers : job'[v] = IF v = w THEN j ELSE job[v]
    BY <1>0 DEF Start, TypeOK
<1>2. ASSUME NEW i \in AlertIds, NEW a \in Records(i)'
      PROVE  a \in Records(i) \/ (i = id /\ a = c)
    BY <1>1 DEF Records, Busy
<1>3. ASSUME NEW o \in Ops, Carries(c, o), o # w
      PROVE  rows[id] \in Records(id) /\ Carries(rows[id], o)
    BY <1>3 DEF Records, Exists
<1>4. ASSUME NEW o \in Ops PROVE Untold(o)'
    <2> SUFFICES ASSUME answer[o] = "none"
                 PROVE  /\ \A i \in AlertIds : Exists(i)' => ~Carries(rows[i], o)
                        /\ \A v \in Workers \ {o} : Busy(v)' => ~Carries(job'[v].copy, o)
        BY DEF Untold, Carries
    <2>1. /\ \A i \in AlertIds : Exists(i) => ~Carries(rows[i], o)
          /\ \A v \in Workers \ {o} : Busy(v) => ~Carries(job[v].copy, o)
        BY DEF TrailsInv, Untold
    <2> QED
        BY <1>1, <2>1 DEF Exists, Busy
<1>5. ASSUME NEW o \in Ops PROVE OneHome(o)'
    <2> SUFFICES ASSUME NEW i \in AlertIds, NEW k \in AlertIds,
                        NEW a \in Records(i)', NEW b \in Records(k)', Carries(a, o), Carries(b, o)
                 PROVE  i = k
        BY DEF OneHome, Carries
    <2>1. CASE o = w
        <3>1. answer[o] = "none" /\ ~Busy(o)
            BY <2>1
        <3>2. \A x \in AlertIds : \A y \in Records(x) : ~Carries(y, o)
            BY <3>1 DEF TrailsInv, Untold, Records, Exists
        <3> QED
            BY <1>2, <3>2
    <2>2. CASE o # w
        <3>1. \E x \in Records(i) : Carries(x, o)
            BY <1>2, <1>3, <2>2
        <3>2. \E x \in Records(k) : Carries(x, o)
            BY <1>2, <1>3, <2>2
        <3> QED
            BY <3>1, <3>2 DEF TrailsInv, OneHome
    <2> QED
        BY <2>1, <2>2
<1>6. ASSUME NEW o \in Ops, NEW i \in AlertIds, NEW a \in Records(i)' PROVE Once(a, o)
    BY <1>2 DEF TrailsInv
<1>7. ASSUME NEW o \in Ops, Busy(o)' PROVE answer'[o] = "none"
    BY <1>1, <1>7 DEF TrailsInv, Busy, Workers
<1> QED
    BY <1>4, <1>5, <1>6, <1>7 DEF TrailsInv, Once

\* Writing a copy, or giving it up, adds no record.
LEMMA FinishKeepsTrails ==
    ASSUME IInv, TrailsInv, NEW w \in Workers, Busy(w), Finish(w), WriteBack(w) \/ rows' = rows,
           \A o \in Ops \ {w} : answer'[o] = answer[o],
           w \in Ops => answer'[w] # "none"
    PROVE  TrailsInv'
<1>0. TypeOK /\ NoAlert \notin Alert(Ops)
    BY NoAlertAssumption DEF IInv
<1> DEFINE id == job[w].id
           c == job[w].copy
<1>1. id \in AlertIds /\ c \in Alert(Ops)
    BY <1>0 DEF TypeOK, Busy, Jobs
<1>2. /\ \A v \in Workers : job'[v] = IF v = w THEN NoJob ELSE job[v]
      /\ \A i \in AlertIds : rows'[i] = rows[i] \/ (i = id /\ rows'[i] = c)
    BY <1>0 DEF Finish, WriteBack, TypeOK
<1>3. c \in Records(id)
    BY DEF Records
<1>4. \A i \in AlertIds : \A a \in Records(i)' : a \in Records(i)
    <2> SUFFICES ASSUME NEW i \in AlertIds, NEW a \in Records(i)' PROVE a \in Records(i)
        OBVIOUS
    <2>1. CASE a = rows'[i] /\ a # NoAlert
        BY <1>2, <1>3, <2>1 DEF Records
    <2>2. CASE \E v \in Workers : Busy(v)' /\ job'[v].id = i /\ a = job'[v].copy
        BY <1>2, <2>2 DEF Records, Busy
    <2> QED
        BY <2>1, <2>2 DEF Records
<1> HIDE DEF id, c
<1>5. ASSUME NEW o \in Ops PROVE Untold(o)'
    <2> SUFFICES ASSUME answer'[o] = "none"
                 PROVE  /\ \A i \in AlertIds : Exists(i)' => ~Carries(rows'[i], o)
                        /\ \A v \in Workers \ {o} : Busy(v)' => ~Carries(job'[v].copy, o)
        BY DEF Untold, Carries
    <2>1. o # w /\ answer[o] = "none"
        OBVIOUS
    <2>2. /\ \A i \in AlertIds : Exists(i) => ~Carries(rows[i], o)
          /\ \A v \in Workers \ {o} : Busy(v) => ~Carries(job[v].copy, o)
        BY <2>1 DEF TrailsInv, Untold
    <2>3. ~Carries(c, o)
        BY <2>1, <2>2 DEF c
    <2> QED
        BY <1>2, <2>2, <2>3 DEF Exists, Busy
<1>6. ASSUME NEW o \in Ops PROVE OneHome(o)' /\ \A i \in AlertIds : \A a \in Records(i)' : Once(a, o)
    BY <1>4 DEF TrailsInv, OneHome, Carries
<1>7. ASSUME NEW o \in Ops, Busy(o)' PROVE answer'[o] = "none"
    BY <1>2, <1>7 DEF TrailsInv, Busy, Workers
<1> QED
    BY <1>5, <1>6, <1>7 DEF TrailsInv, Once

\* No step gives a request a second entry.
LEMMA TrailsStep == IInv /\ TrailsInv /\ [Next]_vars => TrailsInv'
<1> SUFFICES ASSUME IInv, TrailsInv, [Next]_vars PROVE TrailsInv'
    OBVIOUS
<1>0. TypeOK /\ Pipeline \in Workers /\ Pipeline \notin Ops /\ Ops \subseteq Workers
    BY PipelineAssumption DEF IInv, Workers
<1>1. ASSUME NEW op \in Ops, NEW id \in AlertIds, NEW req \in Requests, Fetch(op, id, req)
      PROVE  TrailsInv'
    <2> DEFINE c == Apply(rows[id], op, req)
    <2>1. /\ Exists(id) /\ rows[id] \in Alert(Ops) /\ ~Refused(rows[id], req)
          /\ answer[op] = "none" /\ ~Busy(op) /\ Start(op, id, rows[id], c)
          /\ UNCHANGED <<rows, answer>>
        BY <1>0, <1>1 DEF Fetch, Waiting, Exists, TypeOK
    <2>2. c \in Alert(Ops)
        BY <2>1, ApplySound
    <2>3. ~Carries(rows[id], op) /\ \A o \in Ops : Once(rows[id], o)
        BY <2>1 DEF TrailsInv, Untold, Records, Exists
    <2>4. \A o : /\ Carries(c, o) <=> Carries(rows[id], o) \/ o = op
                 /\ Once(rows[id], o) /\ ~(o = op /\ Carries(rows[id], o)) => Once(c, o)
        BY <2>1, ApplyCarries
    <2> HIDE DEF c
    <2> QED
        BY <1>0, <2>1, <2>2, <2>3, <2>4, StartKeepsTrails
<1>2. ASSUME NEW key \in Keys, IngestFind(key) PROVE TrailsInv'
    <2>1. ~Busy(Pipeline) /\ UNCHANGED <<rows, answer>> /\ ingested' \in Nat
        BY <1>0, <1>2 DEF IngestFind, TypeOK
    <2>2. ASSUME NEW id \in FindOpen(key), Start(Pipeline, id, rows[id], Merge(rows[id], ingested'))
          PROVE  TrailsInv'
        <3> DEFINE c == Merge(rows[id], ingested')
        <3>1. id \in AlertIds /\ Exists(id) /\ rows[id] \in Alert(Ops)
            BY <1>0 DEF FindOpen, OpenFor, Exists, TypeOK
        <3>2. c \in Alert(Ops)
            BY <2>1, <3>1, MergeSound
        <3>3. \A o : /\ Carries(c, o) <=> Carries(rows[id], o)
                     /\ Once(rows[id], o) => Once(c, o)
            BY <3>1, MergeCarries
        <3>4. \A o \in Ops : Once(rows[id], o)
            BY <3>1 DEF TrailsInv, Records, Exists
        <3> HIDE DEF c
        <3>5. Start(Pipeline, id, rows[id], c)
            BY <2>2 DEF c
        <3> QED
            BY <1>0, <2>1, <3>1, <3>2, <3>3, <3>4, <3>5, StartKeepsTrails
    <2>3. ASSUME NEW id \in AlertIds, Start(Pipeline, id, NoAlert, NewAlert(key, ingested'))
          PROVE  TrailsInv'
        <3> DEFINE c == NewAlert(key, ingested')
        <3>1. c \in Alert(Ops)
            BY <2>1, NewAlertSound
        <3>2. \A o \in Ops : ~Carries(c, o) /\ Once(c, o)
            <4>1. \A a \in Alert(Ops) : \A o : ~Carries(c, o) /\ Once(c, o)
                BY MergeCarries
            <4> QED
                BY <3>1, <4>1
        <3> HIDE DEF c
        <3>3. Start(Pipeline, id, NoAlert, c)
            BY <2>3 DEF c
        <3> QED
            BY <1>0, <2>1, <3>1, <3>2, <3>3, StartKeepsTrails
    <2> QED
        BY <1>2, <2>2, <2>3 DEF IngestFind
<1>3. ASSUME NEW op \in Ops, Save(op) \/ SaveFails(op) PROVE TrailsInv'
    <2>1. /\ Busy(op) /\ Finish(op)
          /\ WriteBack(op) \/ rows' = rows
          /\ \A o \in Ops \ {op} : answer'[o] = answer[o]
          /\ answer'[op] # "none"
        BY <1>0, <1>3 DEF Save, SaveFails, TypeOK
    <2> QED
        BY <1>0, <2>1, FinishKeepsTrails
<1>4. ASSUME IngestSave \/ IngestSaveFails PROVE TrailsInv'
    <2>1. /\ Busy(Pipeline) /\ Finish(Pipeline) /\ answer' = answer
          /\ WriteBack(Pipeline) \/ rows' = rows
        BY <1>4 DEF IngestSave, IngestSaveFails
    <2> QED
        BY <1>0, <2>1, FinishKeepsTrails
<1>5. ASSUME NEW op \in Ops, Reject(op) PROVE TrailsInv'
    <2>1. /\ rows' = rows /\ job' = job /\ ~Busy(op)
          /\ \A o \in Ops : answer'[o] = IF o = op THEN "error" ELSE answer[o]
        BY <1>0, <1>5 DEF Reject, Waiting, TypeOK
    <2> QED
        BY <2>1 DEF TrailsInv, Untold, OneHome, Records, Busy, Exists, Carries, Once
<1>6. ASSUME Crash PROVE TrailsInv'
    <2>1. /\ rows' = rows /\ \A w \in Workers : ~Busy(w)'
          /\ \A o \in Ops : answer'[o] = IF Busy(o) THEN "error" ELSE answer[o]
        BY <1>6 DEF Crash, Busy
    <2>2. \A i \in AlertIds : \A a \in Records(i)' : a \in Records(i)
        BY <2>1 DEF Records
    <2> QED
        BY <1>0, <2>1, <2>2 DEF TrailsInv, Untold, OneHome, Exists, Carries, Once
<1>7. CASE UNCHANGED vars
    <2>1. rows' = rows /\ job' = job /\ answer' = answer
        BY <1>7 DEF vars
    <2> QED
        BY <2>1 DEF TrailsInv, Untold, OneHome, Records, Busy, Exists, Carries, Once
<1> QED
    BY <1>1, <1>2, <1>3, <1>4, <1>5, <1>6, <1>7 DEF Next

\* So a request has one entry at most, for ever.
LEMMA TrailsHold == Spec => []TrailsInv
<1>1. Init => TrailsInv
    BY DEF Init, TrailsInv, Untold, OneHome, Records, Busy, Exists, Workers
<1> QED
    BY <1>1, TrailsStep, Inductive, PTL DEF Spec

\* No request takes effect twice or on two alerts, however its statements fail.
THEOREM NoRequestTwice == Spec => []AtMostOnce
<1>1. TrailsInv => AtMostOnce
    <2> SUFFICES ASSUME TrailsInv, NEW op \in Ops, NEW i \in AlertIds, NEW j \in AlertIds,
                        InTrail(op, i), InTrail(op, j)
                 PROVE  i = j /\ Once(rows[i], op)
        BY DEF AtMostOnce, Once
    <2>1. /\ rows[i] \in Records(i) /\ Carries(rows[i], op)
          /\ rows[j] \in Records(j) /\ Carries(rows[j], op)
        BY DEF InTrail, Records, Exists, Carries
    <2> QED
        BY <2>1 DEF TrailsInv, OneHome
<1> QED
    BY <1>1, TrailsHold, PTL

-----------------------------------------------------------------------------
(* What the copies in flight are: IInv says that a copy is a sound successor  *)
(* of its base, which is not enough to know whose, or which batch is in it.   *)

\* A request's copy is what the service makes of its base, and the pipeline's
\* holds the newest batch.
Meant(w) ==
    Busy(w) =>
        /\ w \in Ops =>
              /\ job[w].base # NoAlert
              /\ \E req \in Requests : /\ ~Refused(job[w].base, req)
                                       /\ job[w].copy = Apply(job[w].base, w, req)
        /\ w = Pipeline =>
              /\ ingested - 1 \in Nat /\ ingested - 1 < MaxBatches
              /\ \/ /\ job[w].base # NoAlert /\ IsActive(job[w].base.status)
                    /\ job[w].copy = Merge(job[w].base, ingested)
                 \/ /\ job[w].base = NoAlert
                    /\ \E key \in Keys : job[w].copy = NewAlert(key, ingested)

MeantInv == \A w \in Workers : Meant(w)

\* Every step keeps what a copy will be when it is written.
LEMMA MeantStep == IInv /\ MeantInv /\ [Next]_vars => MeantInv'
<1> SUFFICES ASSUME IInv, MeantInv, [Next]_vars, NEW w \in Workers, Busy(w)' PROVE Meant(w)'
    BY DEF MeantInv, Meant
<1>0. TypeOK /\ Pipeline \in Workers /\ Pipeline \notin Ops /\ Ops \subseteq Workers
      /\ NoAlert \notin Alert(Ops)
    BY PipelineAssumption, NoAlertAssumption DEF IInv, Workers
<1>a. ASSUME job'[w] = job[w], w = Pipeline => ingested' = ingested PROVE Meant(w)'
    BY <1>0, <1>a DEF MeantInv, Meant, Busy
<1>1. ASSUME NEW op \in Ops, NEW id \in AlertIds, NEW req \in Requests, Fetch(op, id, req)
      PROVE  Meant(w)'
    <2> DEFINE j == [id |-> id, base |-> rows[id], copy |-> Apply(rows[id], op, req)]
    <2>1. ~Refused(rows[id], req) /\ rows[id] # NoAlert /\ ingested' = ingested
          /\ job'[w] = IF w = op THEN j ELSE job[w]
        BY <1>0, <1>1 DEF Fetch, Start, Exists, TypeOK
    <2>2. CASE w = op
        BY <1>0, <2>1, <2>2 DEF Meant
    <2> QED
        BY <1>a, <2>1, <2>2
<1>2. ASSUME NEW key \in Keys, IngestFind(key) PROVE Meant(w)'
    <2>1. ingested' = ingested + 1 /\ ingested \in Nat /\ ingested < MaxBatches
        BY <1>0, <1>2 DEF IngestFind, TypeOK
    <2>2. ASSUME NEW id \in FindOpen(key), Start(Pipeline, id, rows[id], Merge(rows[id], ingested'))
          PROVE  Meant(w)'
        <3>1. rows[id] # NoAlert /\ IsActive(rows[id].status)
            BY DEF FindOpen, OpenFor, Exists
        <3> DEFINE j == [id |-> id, base |-> rows[id], copy |-> Merge(rows[id], ingested')]
        <3>2. job'[w] = IF w = Pipeline THEN j ELSE job[w]
            BY <1>0, <2>2 DEF Start, TypeOK
        <3>3. CASE w = Pipeline
            BY <1>0, <2>1, <3>1, <3>2, <3>3 DEF Meant
        <3> QED
            BY <1>a, <3>2, <3>3
    <2>3. ASSUME NEW id \in AlertIds, Start(Pipeline, id, NoAlert, NewAlert(key, ingested'))
          PROVE  Meant(w)'
        <3> DEFINE j == [id |-> id, base |-> NoAlert, copy |-> NewAlert(key, ingested')]
        <3>1. job'[w] = IF w = Pipeline THEN j ELSE job[w]
            BY <1>0, <2>3 DEF Start, TypeOK
        <3>2. CASE w = Pipeline
            BY <1>0, <2>1, <3>1, <3>2 DEF Meant
        <3> QED
            BY <1>a, <3>1, <3>2
    <2> QED
        BY <1>2, <2>2, <2>3 DEF IngestFind
<1>3. ASSUME NEW v \in Workers, Finish(v), ingested' = ingested PROVE Meant(w)'
    BY <1>0, <1>3, <1>a DEF Finish, TypeOK, Busy
<1>4. CASE \E op \in Ops : Reject(op) \/ Save(op) \/ SaveFails(op)
    <2>1. ASSUME NEW op \in Ops, Reject(op) PROVE Meant(w)'
        BY <1>a, <2>1 DEF Reject
    <2>2. ASSUME NEW op \in Ops, Save(op) \/ SaveFails(op) PROVE Meant(w)'
        BY <1>0, <1>3, <2>2 DEF Save, SaveFails
    <2> QED
        BY <1>4, <2>1, <2>2
<1>5. CASE IngestSave \/ IngestSaveFails
    BY <1>0, <1>3, <1>5 DEF IngestSave, IngestSaveFails
<1>6. CASE Crash
    BY <1>6 DEF Crash, Busy
<1>7. CASE UNCHANGED vars
    BY <1>7, <1>a DEF vars
<1> QED
    BY <1>1, <1>2, <1>4, <1>5, <1>6, <1>7 DEF Next

\* So it is known of every copy, for ever.
LEMMA MeantHolds == Spec => []MeantInv
<1>1. Init => MeantInv
    BY DEF Init, MeantInv, Meant, Busy
<1> QED
    BY <1>1, MeantStep, Inductive, PTL DEF Spec

\* As long as no write races, every write extends the row it replaces.
LEMMA CleanWriteExtends ==
    ASSUME IInv, [Next]_vars, ~overwrote', NEW i \in AlertIds, Exists(i)
    PROVE  /\ ~overwrote
           /\ Exists(i)'
           /\ LifecycleStep(rows[i], rows'[i])
<1>0. /\ TypeOK /\ TypeOK' /\ StoreStep /\ NoAlert \notin Alert(Ops)
      /\ rows[i] \in Alert(Ops)
    BY NoAlertAssumption, NextIsStoreStep DEF IInv, TypeOK, Exists
<1>1. LifecycleStep(rows[i], rows[i])
    BY <1>0 DEF Alert, LifecycleStep
<1>2. CASE UNCHANGED <<rows, overwrote>>
    BY <1>0, <1>1, <1>2 DEF Exists
<1>3. ASSUME NEW w \in Workers, Writes(w)
      PROVE  ~overwrote /\ Exists(i)' /\ LifecycleStep(rows[i], rows'[i])
    <2>1. /\ job[w] \in Jobs /\ rows' = [rows EXCEPT ![job[w].id] = job[w].copy]
          /\ ~overwrote /\ rows[job[w].id] = job[w].base /\ JobOK(w) /\ Busy(w)
        BY <1>0, <1>3 DEF Writes, Busy, WriteBack, TypeOK, IInv
    <2>2. CASE job[w].id = i
        <3>1. Computed(rows[i], job[w].copy) /\ job[w].copy \in Alert(Ops)
            BY <2>1, <2>2 DEF JobOK, Exists, Jobs
        <3> QED
            BY <1>0, <2>1, <2>2, <3>1 DEF Computed, Exists, TypeOK
    <2>3. CASE job[w].id # i
        BY <1>0, <1>1, <2>1, <2>3 DEF Exists, TypeOK
    <2> QED
        BY <2>2, <2>3
<1> QED
    BY <1>0, <1>2, <1>3 DEF StoreStep, Reads, Drops

\* A request answered with success stays in a trail unless a write races: its
\* own write puts it there, and every clean write extends what it replaces.
THEOREM AnswersAreDurable == Spec => []AnsweredIsDurable
<1>1. Init => AnsweredIsDurable
    BY DEF Init, AnsweredIsDurable
<1>2. IInv /\ MeantInv /\ AnsweredIsDurable /\ [Next]_vars => AnsweredIsDurable'
    <2> SUFFICES ASSUME IInv, MeantInv, AnsweredIsDurable, [Next]_vars, ~overwrote',
                        NEW op \in Ops, answer'[op] = "ok"
                 PROVE  \E id \in AlertIds : InTrail(op, id)'
        BY DEF AnsweredIsDurable
    <2>0. TypeOK /\ TypeOK' /\ NoAlert \notin Alert(Ops) /\ op \in Workers /\ NoJob \notin Jobs
        BY NextIsStoreStep, NoAlertAssumption, NoJobAssumption DEF IInv, Workers
    <2>1. CASE answer[op] = "ok"
        <3>1. ~overwrote
            <4>1. CASE UNCHANGED overwrote
                BY <4>1
            <4>2. CASE \E w \in Workers : WriteBack(w)
                BY <2>0, <4>2 DEF WriteBack, TypeOK
            <4> QED
                BY <4>1, <4>2, NextIsStoreStep DEF StoreStep, Reads, Writes, Drops
        <3>2. PICK id \in AlertIds : InTrail(op, id)
            BY <2>1, <3>1 DEF AnsweredIsDurable
        <3>3. Exists(id)' /\ LifecycleStep(rows[id], rows'[id]) /\ rows[id] \in Alert(Ops)
              /\ rows'[id] \in Alert(Ops)
            BY <2>0, <3>2, CleanWriteExtends DEF InTrail, Exists, TypeOK
        <3>4. Len(rows[id].trail) \in Nat /\ Len(rows'[id].trail) \in Nat
            BY <3>3 DEF Alert
        <3>5. PICK i \in 1 .. Len(rows[id].trail) : rows[id].trail[i].op = op
            BY <3>2 DEF InTrail
        <3>6. i \in 1 .. Len(rows'[id].trail) /\ rows'[id].trail[i] = rows[id].trail[i]
            BY <3>3, <3>4 DEF LifecycleStep
        <3> QED
            BY <3>3, <3>5, <3>6 DEF InTrail
    <2>2. CASE answer[op] # "ok"
        <3>1. Save(op)
            <4>1. \A o \in Ops : Save(o) => o = op
                BY <2>0, <2>2 DEF Save, TypeOK
            <4>2. ~UNCHANGED answer
                BY <2>2
            <4>3. \A o \in Ops : ~Reject(o) /\ ~SaveFails(o)
                BY <2>0, <2>2 DEF Reject, SaveFails, TypeOK
            <4>4. ~Crash
                BY <2>2 DEF Crash
            <4> QED
                BY <4>1, <4>2, <4>3, <4>4 DEF Next, vars, Fetch, IngestFind, IngestSave, IngestSaveFails
        <3> DEFINE id == job[op].id
        <3>2. /\ Busy(op) /\ job[op] \in Jobs /\ id \in AlertIds
              /\ rows'[id] = job[op].copy
            BY <2>0, <3>1 DEF Save, Busy, WriteBack, TypeOK, Jobs
        <3>3. Carries(job[op].copy, op)
            <4>1. PICK req \in Requests : /\ ~Refused(job[op].base, req)
                                          /\ job[op].copy = Apply(job[op].base, op, req)
                BY <2>0, <3>2 DEF MeantInv, Meant
            <4>2. job[op].base \in Alert(Ops)
                BY <2>0, <3>2 DEF MeantInv, Meant, Jobs
            <4> QED
                BY <4>1, <4>2, ApplyCarries
        <3>4. job[op].copy \in Alert(Ops)
            BY <3>2 DEF Jobs
        <3> QED
            BY <2>0, <3>2, <3>3, <3>4 DEF InTrail, Carries, Exists
    <2> QED
        BY <2>1, <2>2
<1> QED
    BY <1>1, <1>2, Inductive, MeantHolds, PTL DEF Spec

-----------------------------------------------------------------------------
(* The refinement of AlertTriage.                                          *)

InAnyTrail(op) == \E id \in AlertIds : InTrail(op, id)

AbsIngested == IF Busy(Pipeline) THEN ingested - 1 ELSE ingested

ContractStep == Contract!Next \/ BatchLost \/ UNCHANGED Contract!vars

\* The contract computes with the same operators of AlertModel.
LEMMA SameModel ==
    /\ Contract!Requests = Requests
    /\ \A a, req : Contract!Refused(a, req) = Refused(a, req)
    /\ \A a, op, req : Contract!Apply(a, op, req) = Apply(a, op, req)
    /\ \A a, batch : Contract!Merge(a, batch) = Merge(a, batch)
    /\ \A key, batch : Contract!NewAlert(key, batch) = NewAlert(key, batch)
    /\ \A id : Contract!Exists(id) = Exists(id)
    /\ \A key : Contract!OpenFor(key) = OpenFor(key)
<1>1. Contract!Requests = Requests
    BY DEF Contract!Requests, Requests, Contract!Statuses, Statuses
<1>2. ASSUME NEW a, NEW req PROVE Contract!Refused(a, req) = Refused(a, req)
    BY DEF Contract!Refused, Refused, Contract!IsActive, IsActive
<1>3. ASSUME NEW a, NEW op, NEW req PROVE Contract!Apply(a, op, req) = Apply(a, op, req)
    BY DEF Contract!Apply, Apply, Contract!Assign, Assign, Contract!SetStatus, SetStatus,
           Contract!Action, Action, Contract!AppendAction, AppendAction,
           Contract!Acknowledging, Acknowledging
<1>4. ASSUME NEW a, NEW batch PROVE Contract!Merge(a, batch) = Merge(a, batch)
    BY DEF Contract!Merge, Merge, Contract!Capped, Capped
<1>5. ASSUME NEW key, NEW batch PROVE Contract!NewAlert(key, batch) = NewAlert(key, batch)
    BY DEF Contract!NewAlert, NewAlert
<1>6. /\ \A id : Contract!Exists(id) = Exists(id)
      /\ \A key : Contract!OpenFor(key) = OpenFor(key)
    BY DEF Contract!Exists, Exists, Contract!OpenFor, OpenFor, Contract!IsActive, IsActive
<1> QED
    BY <1>1, <1>2, <1>3, <1>4, <1>5, <1>6

\* A request takes effect when its row is written, whatever it is answered.
LEMMA WriteIsHandle ==
    ASSUME IInv, TrailsInv, MeantInv, TypeOK', ~overwrote',
           NEW op \in Ops, Busy(op), WriteBack(op), Finish(op), UNCHANGED ingested
    PROVE  Contract!Next
<1> DEFINE id == job[op].id
<1>0. /\ TypeOK /\ NoAlert \notin Alert(Ops) /\ op \in Workers /\ op # Pipeline
      /\ job[op] \in Jobs /\ id \in AlertIds
    BY NoAlertAssumption, PipelineAssumption DEF IInv, Workers, TypeOK, Busy, Jobs
<1>1. rows[id] = job[op].base /\ rows[id] # NoAlert /\ rows[id] \in Alert(Ops)
    BY <1>0 DEF WriteBack, TypeOK, MeantInv, Meant
<1>2. PICK req \in Requests : ~Refused(rows[id], req) /\ job[op].copy = Apply(rows[id], op, req)
    BY <1>0, <1>1 DEF MeantInv, Meant
<1>3. rows' = [rows EXCEPT ![id] = Apply(@, op, req)]
    BY <1>2 DEF WriteBack
<1>4. \A i \in AlertIds : rows'[i] = IF i = id THEN Apply(rows[id], op, req) ELSE rows[i]
    BY <1>0, <1>3 DEF TypeOK
<1> HIDE DEF id
<1>5. ~InAnyTrail(op)
    BY DEF InAnyTrail, InTrail, Carries, TrailsInv, Untold
<1>6. Apply(rows[id], op, req) # NoAlert
    BY <1>0, <1>1, <1>2, ApplySound
<1>7. \A o : Carries(Apply(rows[id], op, req), o) <=> Carries(rows[id], o) \/ o = op
    BY <1>1, <1>2, ApplyCarries
<1>8. ASSUME NEW o \in Ops PROVE InAnyTrail(o)' <=> InAnyTrail(o) \/ o = op
    <2>1. \A i \in AlertIds : InTrail(o, i) <=> Exists(i) /\ Carries(rows[i], o)
        BY DEF InTrail, Carries
    <2>2. \A i \in AlertIds : InTrail(o, i)' <=> Exists(i)' /\ Carries(rows'[i], o)
        BY DEF InTrail, Carries
    <2> QED
        BY <1>0, <1>1, <1>4, <1>6, <1>7, <2>1, <2>2 DEF InAnyTrail, Exists
<1>9. {o \in Ops : InAnyTrail(o)}' = {o \in Ops : InAnyTrail(o)} \cup {op}
    BY <1>8
<1>10. AbsIngested' = AbsIngested
    BY <1>0 DEF AbsIngested, Finish, TypeOK, Busy, Workers
<1>11. Contract!Handle(id, op, req)
    BY <1>1, <1>2, <1>3, <1>5, <1>9, <1>10, SameModel
       DEF Contract!Handle, InAnyTrail, AbsIngested, Exists
<1>12. Contract!Next
    BY <1>0, <1>11, SameModel DEF Contract!Next, id
<1> QED
    BY <1>12

\* A batch counts when its row is written.
LEMMA WriteIsIngest ==
    ASSUME IInv, MeantInv, FirstOpenInv, TypeOK', ~overwrote', ~missed',
           Busy(Pipeline), WriteBack(Pipeline), Finish(Pipeline), UNCHANGED <<ingested, missed>>
    PROVE  Contract!Next
<1> DEFINE id == job[Pipeline].id
           c == job[Pipeline].copy
<1>0. /\ TypeOK /\ NoAlert \notin Alert(Ops) /\ Pipeline \in Workers
      /\ job[Pipeline] \in Jobs /\ id \in AlertIds /\ c \in Alert(Ops)
    BY NoAlertAssumption DEF IInv, Workers, TypeOK, Busy, Jobs
<1>1. /\ rows[id] = job[Pipeline].base /\ ~overwrote /\ ~missed /\ UniqueOpen
      /\ rows' = [rows EXCEPT ![id] = c]
      /\ \A i \in AlertIds : rows'[i] = IF i = id THEN c ELSE rows[i]
    BY <1>0 DEF WriteBack, TypeOK, FirstOpenInv
<1>2. /\ AbsIngested = ingested - 1 /\ AbsIngested' = ingested /\ AbsIngested < MaxBatches
      /\ ingested - 1 \in Nat
    BY <1>0 DEF AbsIngested, Finish, TypeOK, Busy, MeantInv, Meant
<1>3. \/ rows[id] # NoAlert /\ IsActive(rows[id].status) /\ c = Merge(rows[id], ingested)
      \/ rows[id] = NoAlert /\ \E key \in Keys : c = NewAlert(key, ingested)
    BY <1>0, <1>1 DEF MeantInv, Meant
<1>4. rows[id] = NoAlert => OpenFor(c.key) = {}
    BY <1>1 DEF UniqueOpen
<1> HIDE DEF id, c
<1>5. ASSUME NEW o \in Ops PROVE InAnyTrail(o)' <=> InAnyTrail(o)
    <2>1. Carries(c, o) <=> rows[id] # NoAlert /\ Carries(rows[id], o)
        <3>1. CASE rows[id] # NoAlert
            <4>1. rows[id] \in Alert(Ops)
                BY <1>0, <3>1 DEF TypeOK
            <4> QED
                BY <1>3, <3>1, <4>1, MergeCarries
        <3>2. CASE rows[id] = NoAlert
            BY <1>0, <1>3, <3>2, MergeCarries
        <3> QED
            BY <3>1, <3>2
    <2>2. \A i \in AlertIds : InTrail(o, i) <=> rows[i] # NoAlert /\ Carries(rows[i], o)
        BY DEF InTrail, Carries, Exists
    <2>3. \A i \in AlertIds : InTrail(o, i)' <=> rows'[i] # NoAlert /\ Carries(rows'[i], o)
        BY DEF InTrail, Carries, Exists
    <2> QED
        BY <1>0, <1>1, <2>1, <2>2, <2>3 DEF InAnyTrail
<1>6. {o \in Ops : InAnyTrail(o)}' = {o \in Ops : InAnyTrail(o)}
    BY <1>5
<1>7. \E key \in Keys : Contract!Ingest(key)
    <2>1. AbsIngested' = AbsIngested + 1
        BY <1>0, <1>2 DEF TypeOK
    <2>2. CASE rows[id] # NoAlert
        <3>1. id \in OpenFor(rows[id].key) /\ rows[id].key \in Keys
            BY <1>0, <1>3, <2>2 DEF OpenFor, Exists, TypeOK, Alert
        <3>2. rows' = [rows EXCEPT ![id] = Merge(@, AbsIngested')]
            BY <1>1, <1>2, <1>3, <2>2
        <3>3. Contract!Ingest(rows[id].key)
            BY <1>2, <1>6, <2>1, <3>1, <3>2, SameModel DEF Contract!Ingest, InAnyTrail, AbsIngested
        <3> QED
            BY <3>1, <3>3
    <2>3. CASE rows[id] = NoAlert
        <3>1. PICK key \in Keys : c = NewAlert(key, ingested)
            BY <1>3, <2>3
        <3>2. OpenFor(key) = {}
            BY <1>4, <2>3, <3>1 DEF NewAlert
        <3>3. rows' = [rows EXCEPT ![id] = NewAlert(key, AbsIngested')]
            BY <1>1, <1>2, <3>1
        <3>4. ~Exists(id)
            BY <2>3 DEF Exists
        <3>5. Contract!Ingest(key)
            BY <1>0, <1>2, <1>6, <2>1, <3>2, <3>3, <3>4, SameModel
               DEF Contract!Ingest, InAnyTrail, AbsIngested
        <3> QED
            BY <3>5
    <2> QED
        BY <2>2, <2>3
<1> QED
    BY <1>7 DEF Contract!Next

\* A step that writes no row shows nothing, or loses the pipeline's batch.
LEMMA NoWriteNoChange ==
    ASSUME TypeOK, rows' = rows,
           AbsIngested' = AbsIngested \/ (/\ Busy(Pipeline) /\ job'[Pipeline] = NoJob
                                          /\ faults' > faults \/ ~UpdateAccepted)
    PROVE  ContractStep
<1>1. \A o \in Ops : InAnyTrail(o)' <=> InAnyTrail(o)
    BY DEF InAnyTrail, InTrail, Exists
<1>2. {o \in Ops : InAnyTrail(o)}' = {o \in Ops : InAnyTrail(o)}
    BY <1>1
<1>3. CASE AbsIngested' = AbsIngested
    BY <1>2, <1>3 DEF ContractStep, Contract!vars, InAnyTrail, AbsIngested
<1>4. CASE /\ Busy(Pipeline) /\ job'[Pipeline] = NoJob
           /\ faults' > faults \/ ~UpdateAccepted
    BY <1>4 DEF ContractStep, BatchLost
<1> QED
    BY <1>3, <1>4

\* While no write races and no lookup fails, the service over Postgres does what
\* the atomic service does, and otherwise only loses batches.
THEOREM PostgresImplementsContract == Spec => ImplementsContract
<1>1. Init => Contract!Init
    BY DEF Init, Contract!Init, InTrail, Exists, Busy, Workers
<1>2. IInv /\ FirstOpenInv /\ TrailsInv /\ MeantInv /\ [Next]_vars
        => [~overwrote' /\ ~missed' => ContractStep]_vars
    <2> SUFFICES ASSUME IInv, FirstOpenInv, TrailsInv, MeantInv, Next, ~overwrote', ~missed'
                 PROVE  ContractStep
        OBVIOUS
    <2>0. TypeOK /\ TypeOK' /\ Pipeline \in Workers /\ Pipeline \notin Ops /\ faults \in Nat
        BY NextIsStoreStep, PipelineAssumption DEF IInv, Workers, TypeOK
    <2>1. ASSUME NEW op \in Ops, NEW id \in AlertIds, NEW req \in Requests, Fetch(op, id, req)
          PROVE  ContractStep
        <3>1. rows' = rows /\ AbsIngested' = AbsIngested
            BY <2>0, <2>1 DEF Fetch, Start, AbsIngested, Busy, TypeOK
        <3> QED
            BY <2>0, <3>1, NoWriteNoChange
    <2>2. ASSUME NEW op \in Ops, Reject(op) PROVE ContractStep
        <3>1. rows' = rows /\ AbsIngested' = AbsIngested
            BY <2>2 DEF Reject, AbsIngested, Busy
        <3> QED
            BY <2>0, <3>1, NoWriteNoChange
    <2>3. ASSUME NEW op \in Ops, Save(op) \/ SaveFails(op) PROVE ContractStep
        <3>1. Busy(op) /\ Finish(op) /\ UNCHANGED ingested /\ (WriteBack(op) \/ rows' = rows)
            BY <2>3 DEF Save, SaveFails
        <3>2. CASE WriteBack(op)
            BY <2>0, <2>3, <3>1, <3>2, WriteIsHandle DEF ContractStep
        <3>3. CASE rows' = rows
            <4>1. AbsIngested' = AbsIngested
                BY <2>0, <3>1 DEF Finish, AbsIngested, Busy, TypeOK, Workers
            <4> QED
                BY <2>0, <3>3, <4>1, NoWriteNoChange
        <3> QED
            BY <3>1, <3>2, <3>3
    <2>4. ASSUME NEW key \in Keys, IngestFind(key) PROVE ContractStep
        <3>1. rows' = rows /\ ~Busy(Pipeline) /\ ingested' = ingested + 1 /\ ingested \in Nat
            BY <2>0, <2>4 DEF IngestFind, TypeOK
        <3>2. \E id \in AlertIds, base \in Alert(Ops) \cup {NoAlert}, copy \in Alert(Ops) :
                 Start(Pipeline, id, base, copy)
            <4>1. ASSUME NEW id \in FindOpen(key)
                  PROVE  /\ id \in AlertIds /\ rows[id] \in Alert(Ops)
                         /\ Merge(rows[id], ingested') \in Alert(Ops)
                <5>1. id \in AlertIds /\ rows[id] \in Alert(Ops)
                    BY <2>0 DEF FindOpen, OpenFor, Exists, TypeOK
                <5> QED
                    BY <3>1, <5>1, MergeSound
            <4>2. NewAlert(key, ingested') \in Alert(Ops)
                BY <3>1, NewAlertSound
            <4> QED
                BY <2>4, <4>1, <4>2 DEF IngestFind
        <3>3. Busy(Pipeline)'
            <4>1. PICK id \in AlertIds, base \in Alert(Ops) \cup {NoAlert}, copy \in Alert(Ops) :
                     Start(Pipeline, id, base, copy)
                BY <3>2
            <4>2. job'[Pipeline] = [id |-> id, base |-> base, copy |-> copy]
                BY <2>0, <4>1 DEF Start, TypeOK
            <4> QED
                BY <4>2, NoJobAssumption DEF Busy, Jobs
        <3>4. AbsIngested' = AbsIngested
            BY <3>1, <3>3 DEF AbsIngested
        <3> QED
            BY <2>0, <3>1, <3>4, NoWriteNoChange
    <2>5. ASSUME IngestSave \/ IngestSaveFails PROVE ContractStep
        <3>1. /\ Busy(Pipeline) /\ Finish(Pipeline) /\ UNCHANGED <<ingested, missed>>
              /\ WriteBack(Pipeline) \/ (rows' = rows /\ (faults' > faults \/ ~UpdateAccepted))
            BY <2>0, <2>5 DEF IngestSave, IngestSaveFails, Fault, Accepted
        <3>2. CASE WriteBack(Pipeline)
            BY <2>0, <3>1, <3>2, WriteIsIngest DEF ContractStep
        <3>3. CASE rows' = rows /\ (faults' > faults \/ ~UpdateAccepted)
            <4>1. job'[Pipeline] = NoJob
                BY <2>0, <3>1 DEF Finish, TypeOK
            <4> QED
                BY <2>0, <3>1, <3>3, <4>1, NoWriteNoChange
        <3> QED
            BY <3>1, <3>2, <3>3
    <2>6. ASSUME Crash PROVE ContractStep
        <3>1. /\ rows' = rows /\ job'[Pipeline] = NoJob /\ faults' > faults
              /\ ingested' = ingested
            BY <2>0, <2>6 DEF Crash, Fault
        <3>2. CASE Busy(Pipeline)
            BY <2>0, <3>1, <3>2, NoWriteNoChange
        <3>3. CASE ~Busy(Pipeline)
            <4>1. AbsIngested' = AbsIngested
                BY <3>1, <3>3 DEF AbsIngested, Busy
            <4> QED
                BY <2>0, <3>1, <4>1, NoWriteNoChange
        <3> QED
            BY <3>2, <3>3
    <2> QED
        BY <2>1, <2>2, <2>3, <2>4, <2>5, <2>6 DEF Next
<1> QED
    BY <1>1, <1>2, Inductive, FirstOpenHolds, TrailsHold, MeantHolds, PTL
       DEF Spec, ImplementsContract, ContractStep
=============================================================================
