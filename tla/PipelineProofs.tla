--------------------------- MODULE PipelineProofs ---------------------------
(* The pipeline's safety, for any number of producers, policies and          *)
(* addresses and any channel capacity, with and without tailed files.        *)
EXTENDS Ingestion, SequenceTheorems, FiniteSetTheorems, TLAPS

\* Events that are or were in the channel.
Known == Elements(raw) \cup Elements(processed) \cup ({cur} \ {NoEvent})

\* The goroutine has an event in hand exactly between taking and logging it.
HandMatchesStep == cur = NoEvent <=> step \in {"select", "stopped"}

\* Producers number their events, so a new one is not one of the known.
Numbered ==
    /\ \A e \in Known : IF e.by \in Clients THEN e.n > left[e.by] ELSE e.n <= fed
    /\ \A f \in Feeds : held[f] # NoEvent => /\ held[f].by = f
                                             /\ held[f].n <= fed
                                             /\ held[f] \notin Known

\* An event is at one place only.
NoRepeats(s) == \A i, j \in 1 .. Len(s) : s[i] = s[j] => i = j

InOnePlace ==
    /\ NoRepeats(raw)
    /\ Elements(raw) \cap Elements(processed) = {}
    /\ cur \notin Elements(raw) \cup Elements(processed)

\* A shielded event is known, denied until the edge has seen it, and then neither
\* on its way to detection nor evidence.
Shielding ==
    /\ shielded \subseteq Known
    /\ \A e \in shielded : e \in Unevaluated => Denied(e.ip)
    /\ step = "detect" => cur \notin shielded
    /\ ContainedNotDetected

\* Evidence is logged, or about to be.
Evidenced == evidence \subseteq Elements(processed) \cup (IF step = "log" THEN {cur} ELSE {})

Ordered == Numbered /\ InOnePlace /\ Shielding /\ Evidenced

IInv == TypeOK /\ HandMatchesStep /\ Ordered

-----------------------------------------------------------------------------
(* Sequences as sets of their elements.                                    *)

\* Appending adds one element, and no repetition if it is new (Send, Log).
LEMMA AppendElements ==
    ASSUME NEW S, NEW s \in Seq(S), NEW e \in S
    PROVE  /\ Append(s, e) \in Seq(S)
           /\ Len(Append(s, e)) = Len(s) + 1
           /\ Elements(Append(s, e)) = Elements(s) \cup {e}
           /\ NoRepeats(s) /\ e \notin Elements(s) => NoRepeats(Append(s, e))
<1>1. /\ Append(s, e) \in Seq(S) /\ Len(Append(s, e)) = Len(s) + 1 /\ Len(s) \in Nat
      /\ \A i \in 1 .. Len(s) + 1 : Append(s, e)[i] = IF i <= Len(s) THEN s[i] ELSE e
    OBVIOUS
<1> DEFINE t == Append(s, e)
<1> HIDE DEF t
<1>2. Elements(t) = Elements(s) \cup {e}
    <2>1. Elements(t) \subseteq Elements(s) \cup {e}
        BY <1>1 DEF Elements, t
    <2>2. ASSUME NEW x \in Elements(s) PROVE x \in Elements(t)
        <3>1. PICK i \in 1 .. Len(s) : x = s[i]
            BY <2>2 DEF Elements
        <3>2. i \in 1 .. Len(t) /\ t[i] = s[i]
            BY <1>1, <3>1 DEF t
        <3> QED
            BY <3>1, <3>2 DEF Elements
    <2>3. e \in Elements(t)
        <3>1. Len(s) + 1 \in 1 .. Len(t) /\ t[Len(s) + 1] = e
            BY <1>1 DEF t
        <3> QED
            BY <3>1 DEF Elements
    <2> QED
        BY <2>1, <2>2, <2>3
<1>3. ASSUME NoRepeats(s), e \notin Elements(s) PROVE NoRepeats(t)
    BY <1>1, <1>3 DEF NoRepeats, Elements, t
<1> QED
    BY <1>1, <1>2, <1>3 DEF t

\* Taking the head splits the elements (Take).
LEMMA TakeElements ==
    ASSUME NEW S, NEW s \in Seq(S), s # <<>>
    PROVE  /\ Head(s) \in S /\ Tail(s) \in Seq(S)
           /\ Len(Tail(s)) = Len(s) - 1
           /\ Elements(s) = Elements(Tail(s)) \cup {Head(s)}
           /\ NoRepeats(s) => NoRepeats(Tail(s)) /\ Head(s) \notin Elements(Tail(s))
<1>1. /\ Head(s) \in S /\ Tail(s) \in Seq(S) /\ Len(Tail(s)) = Len(s) - 1
      /\ \A i \in 1 .. Len(Tail(s)) : Tail(s)[i] = s[i + 1]
      /\ Len(s) \in Nat \ {0} /\ Head(s) = s[1]
    BY HeadTailProperties, EmptySeq
<1> DEFINE t == Tail(s)
           h == Head(s)
<1> HIDE DEF t, h
<1>2. Elements(s) \subseteq Elements(t) \cup {h}
    <2> SUFFICES ASSUME NEW i \in 1 .. Len(s) PROVE s[i] \in Elements(t) \cup {h}
        BY DEF Elements
    <2>1. CASE i = 1
        BY <1>1, <2>1 DEF h
    <2>2. CASE i # 1
        <3>1. i - 1 \in 1 .. Len(t) /\ t[i - 1] = s[i]
            BY <1>1, <2>2 DEF t
        <3> QED
            BY <3>1 DEF Elements
    <2> QED
        BY <2>1, <2>2
<1>3. Elements(t) \subseteq Elements(s) /\ h \in Elements(s)
    BY <1>1 DEF Elements, t, h
<1>4. ASSUME NoRepeats(s) PROVE NoRepeats(t) /\ h \notin Elements(t)
    BY <1>1, <1>4 DEF NoRepeats, Elements, t, h
<1> QED
    BY <1>1, <1>2, <1>3, <1>4 DEF t, h

-----------------------------------------------------------------------------
(* What was accepted is accounted for.                                     *)

\* Nothing is under way at the start.
LEMMA InitTyped == Init => TypeOK /\ HandMatchesStep
<1> SUFFICES ASSUME Init PROVE TypeOK /\ HandMatchesStep
    OBVIOUS
<1>1. now \in Nat /\ policies \in [SourceIds -> Policy \cup {NoPolicy}]
    BY DEF Init, ClockInit, PoliciesInit
<1>2. raw = <<>> /\ accepted = <<>> /\ processed = <<>>
    BY DEF Init
<1>3. /\ raw \in Seq(Event) /\ Len(raw) <= RawDepth
      /\ accepted \in Seq(Event) /\ processed \in Seq(Event)
    BY <1>2, EmptySeq, ProducersAssumption
<1>4. left \in [Clients -> Nat]
    BY BoundsAssumption DEF Init
<1>5. held \in [Feeds -> Event \cup {NoEvent}]
    BY DEF Init
<1>6. events \in Nat /\ rate \in [idx : Slots, last : Nat \cup {Never}, vals : [Slots -> Nat]]
    BY RateAssumption DEF Init, Slots
<1> QED
    BY <1>1, <1>3, <1>4, <1>5, <1>6 DEF Init, TypeOK, HandMatchesStep, ClockTypeOK, PoliciesTypeOK

\* Sending keeps the channel a channel.
LEMMA SendTyped ==
    ASSUME TypeOK, NEW ev \in Event, HasRoom, Send(ev)
    PROVE  /\ raw' \in Seq(Event) /\ Len(raw') <= RawDepth
           /\ accepted' \in Seq(Event)
           /\ shielded' \in SUBSET Event
<1>1. raw \in Seq(Event) /\ accepted \in Seq(Event) /\ Len(raw) \in Nat /\ RawDepth \in Nat
    BY ProducersAssumption DEF TypeOK
<1> QED
    BY <1>1 DEF Send, HasRoom, TypeOK

\* Events the edge has not seen are events.
LEMMA UnevaluatedTyped == TypeOK /\ HandMatchesStep => Unevaluated \subseteq Event
BY ElementOfSeq DEF TypeOK, HandMatchesStep, Unevaluated, Elements

\* Counting an event keeps the rate window a window.
LEMMA AddTyped ==
    ASSUME NEW r \in [idx : Slots, last : Nat \cup {Never}, vals : [Slots -> Nat]], NEW t \in Nat
    PROVE  Add(r, t) \in [idx : Slots, last : Nat \cup {Never}, vals : [Slots -> Nat]]
<1> DEFINE idx == IF r.last \in {Never, t} THEN r.idx ELSE (r.idx + 1) % RateSlots
<1>1. idx \in Slots
    BY RateAssumption DEF Slots
<1> HIDE DEF idx
<1>2. [r.vals EXCEPT ![idx] = @ + 1] \in [Slots -> Nat]
    BY <1>1
<1>3. Add(r, t) = [idx |-> idx, last |-> t, vals |-> [r.vals EXCEPT ![idx] = @ + 1]]
    BY DEF Add, idx
<1> QED
    BY <1>1, <1>2, <1>3

\* Types, and the goroutine's place matching what it has in hand.
LEMMA StepTyped ==
    TypeOK /\ HandMatchesStep /\ [Next]_vars => TypeOK' /\ HandMatchesStep'
<1> SUFFICES ASSUME TypeOK, HandMatchesStep, [Next]_vars
             PROVE  TypeOK' /\ HandMatchesStep'
    OBVIOUS
<1>0. NoEvent \notin Event /\ Len(raw) \in Nat /\ RawDepth \in Nat
    BY NoEventAssumption, ProducersAssumption DEF TypeOK
<1> USE DEF ClockTypeOK, PoliciesTypeOK, HandMatchesStep
<1>1. ASSUME NEW c \in Clients, NEW ip \in Sources, Offer(c, ip) PROVE TypeOK' /\ HandMatchesStep'
    <2>1. [by |-> c, n |-> left[c], ip |-> ip] \in Event /\ left' \in [Clients -> Nat]
        BY <1>1 DEF Offer, Event, TypeOK
    <2>2. CASE HasRoom
        BY <1>1, <2>1, <2>2, SendTyped DEF Offer, TypeOK, restOfSystem, meter
    <2>3. CASE ~HasRoom
        BY <1>1, <2>1, <2>3 DEF Offer, TypeOK, restOfSystem, meter
    <2> QED
        BY <2>2, <2>3
<1>2. ASSUME NEW f \in Feeds, NEW ip \in Sources, Read(f, ip) PROVE TypeOK' /\ HandMatchesStep'
    <2>1. fed' \in Nat /\ [by |-> f, n |-> fed', ip |-> ip] \in Event
        BY <1>2 DEF Read, Event, TypeOK
    <2>2. held' \in [Feeds -> Event \cup {NoEvent}]
        BY <1>2, <2>1 DEF Read, TypeOK
    <2> QED
        BY <1>2, <2>1, <2>2 DEF Read, TypeOK, restOfSystem, meter
<1>3. ASSUME NEW f \in Feeds, Emit(f) PROVE TypeOK' /\ HandMatchesStep'
    <2>1. held[f] \in Event /\ held' \in [Feeds -> Event \cup {NoEvent}]
        BY <1>3 DEF Emit, TypeOK
    <2> QED
        BY <1>3, <2>1, SendTyped DEF Emit, TypeOK, restOfSystem, meter
<1>4. CASE Take
    <2>1. cur' \in Event /\ raw' \in Seq(Event) /\ Len(raw') = Len(raw) - 1
        BY <1>4, TakeElements DEF Take, TypeOK
    <2>2. events' \in Nat /\ rate' \in [idx : Slots, last : Nat \cup {Never}, vals : [Slots -> Nat]]
        <3>1. now \in Nat /\ events \in Nat
            BY DEF TypeOK
        <3>2. rate \in [idx : Slots, last : Nat \cup {Never}, vals : [Slots -> Nat]]
            BY DEF TypeOK
        <3>3. Add(rate, now) \in [idx : Slots, last : Nat \cup {Never}, vals : [Slots -> Nat]]
            BY <3>1, <3>2, AddTyped
        <3>4. events' = events + 1 /\ rate' = Add(rate, now)
            BY <1>4 DEF Take
        <3> QED
            BY <3>1, <3>3, <3>4
    <2> QED
        BY <1>0, <1>4, <2>1, <2>2 DEF Take, TypeOK
<1>5. CASE Return
    BY <1>5 DEF Return, inputs, meter, TypeOK
<1>6. CASE Eval
    <2>1. step' \in {"detect", "log"}
        BY <1>6 DEF Eval
    <2> QED
        BY <1>6, <2>1 DEF Eval, inputs, meter, TypeOK
<1>7. CASE Detect
    <2>1. cur \in Event
        BY <1>7 DEF Detect, TypeOK
    <2> QED
        BY <1>7, <2>1 DEF Detect, inputs, meter, TypeOK
<1>8. CASE Log
    <2>1. cur \in Event /\ processed \in Seq(Event)
        BY <1>8 DEF Log, TypeOK
    <2>2. processed' \in Seq(Event)
        BY <1>8, <2>1 DEF Log
    <2> QED
        BY <1>8, <2>2 DEF Log, inputs, meter, TypeOK
<1>9. ASSUME NEW s \in SourceIds,
             \/ Release(s)
             \/ \E k \in Kinds, t \in Sources, e \in Expiries :
                   Contain(s, [kind |-> k, target |-> t, expires |-> e])
      PROVE  TypeOK' /\ HandMatchesStep'
    <2>1. policies' \in [SourceIds -> Policy \cup {NoPolicy}]
        BY <1>9, ExpiriesAssumption DEF Release, Contain, Remove, Install, TypeOK, Policy
    <2>2. shielded' \in SUBSET Event
        BY <1>9, UnevaluatedTyped DEF Release, Contain, KeepShield, TypeOK
    <2> QED
        BY <1>9, <2>1, <2>2 DEF Release, Contain, inputs, meter, TypeOK
<1>10. CASE Tick
    <2>1. shielded' \in SUBSET Event
        BY <1>10, UnevaluatedTyped DEF Tick, KeepShield, TypeOK
    <2>2. now' \in Nat
        BY <1>10 DEF Tick, Advance, TypeOK
    <2> QED
        BY <1>10, <2>1, <2>2 DEF Tick, inputs, meter, TypeOK
<1>11. CASE Stop
    BY <1>11 DEF Stop, inputs, meter, TypeOK
<1>12. CASE UNCHANGED vars
    BY <1>12 DEF vars, inputs, meter, TypeOK
<1> QED
    BY <1>1, <1>2, <1>3, <1>4, <1>5, <1>6, <1>7, <1>8, <1>9, <1>10, <1>11, <1>12
       DEF Next, Goroutine

-----------------------------------------------------------------------------
(* What was accepted is accounted for.                                     *)

\* A channel is its head and what follows it.
LEMMA HeadFirst ==
    ASSUME NEW S, NEW s \in Seq(S), s # <<>>
    PROVE  <<Head(s)>> \o Tail(s) = s
<1> DEFINE a == <<Head(s)>> \o Tail(s)
<1>1. /\ Head(s) \in S /\ Tail(s) \in Seq(S) /\ Len(Tail(s)) = Len(s) - 1
      /\ \A i \in 1 .. Len(Tail(s)) : Tail(s)[i] = s[i + 1]
      /\ Len(s) \in Nat \ {0} /\ Head(s) = s[1]
    BY HeadTailProperties, EmptySeq
<1>2. /\ <<Head(s)>> \in Seq(S) /\ Len(<<Head(s)>>) = 1 /\ <<Head(s)>>[1] = s[1]
    BY <1>1
<1>3. /\ a \in Seq(S) /\ Len(a) = 1 + Len(Tail(s))
      /\ \A i \in 1 .. 1 + Len(Tail(s)) : a[i] = IF i <= 1 THEN <<Head(s)>>[i] ELSE Tail(s)[i - 1]
    BY <1>1, <1>2, ConcatProperties
<1> HIDE DEF a
<1>4. \A i \in 1 .. Len(s) : a[i] = s[i]
    BY <1>1, <1>2, <1>3
<1>5. a = s
    BY <1>1, <1>3, <1>4, SeqEqual
<1> QED
    BY <1>5 DEF a

\* Every step keeps the account.
LEMMA AccountedStep ==
    TypeOK /\ HandMatchesStep /\ AcceptedAccounted /\ [Next]_vars => AcceptedAccounted'
<1> SUFFICES ASSUME TypeOK, HandMatchesStep, AcceptedAccounted, [Next]_vars
             PROVE  AcceptedAccounted'
    OBVIOUS
<1>0. /\ raw \in Seq(Event) /\ processed \in Seq(Event) /\ InHand \in Seq(Event)
      /\ processed \o InHand \in Seq(Event) /\ NoEvent \notin Event
    BY NoEventAssumption DEF TypeOK, InHand
<1>1. ASSUME NEW ev \in Event, Send(ev), processed' = processed, cur' = cur
      PROVE  AcceptedAccounted'
    <2> DEFINE before == processed \o InHand
    <2>0. before \in Seq(Event) /\ raw \in Seq(Event) /\ <<ev>> \in Seq(Event)
        BY <1>0, <1>1
    <2>1. accepted = before \o raw /\ accepted' = Append(accepted, ev) /\ accepted \in Seq(Event)
        BY <1>1 DEF Send, AcceptedAccounted, TypeOK
    <2> HIDE DEF before
    <2>2. raw' = raw \o <<ev>> /\ accepted' = accepted \o <<ev>>
        <3>1. Append(raw, ev) = raw \o <<ev>>
            BY <1>1, <2>0
        <3>2. Append(accepted, ev) = accepted \o <<ev>>
            BY <1>1, <2>1
        <3> QED
            BY <1>1, <2>1, <3>1, <3>2, Zenon DEF Send
    <2>3. (before \o raw) \o <<ev>> = before \o (raw \o <<ev>>)
        BY <2>0, ConcatAssociative
    <2>4. accepted' = before \o raw'
        BY <2>1, <2>2, <2>3
    <2> QED
        BY <1>1, <2>4 DEF AcceptedAccounted, InHand, before
<1>2. ASSUME UNCHANGED <<accepted, processed, cur, raw>> PROVE AcceptedAccounted'
    BY <1>2 DEF AcceptedAccounted, InHand
<1>3. ASSUME NEW c \in Clients, NEW ip \in Sources, Offer(c, ip) PROVE AcceptedAccounted'
    <2>1. [by |-> c, n |-> left[c], ip |-> ip] \in Event
        BY <1>3 DEF Event, TypeOK
    <2> QED
        BY <1>1, <1>2, <1>3, <2>1 DEF Offer, restOfSystem
<1>4. ASSUME NEW f \in Feeds, Emit(f) PROVE AcceptedAccounted'
    <2>1. held[f] \in Event
        BY <1>4 DEF Emit, TypeOK
    <2> QED
        BY <1>1, <1>4, <2>1 DEF Emit, restOfSystem
<1>5. CASE Take
    <2>1. Head(raw) \in Event /\ InHand = <<>> /\ InHand' = <<Head(raw)>>
        BY <1>0, <1>5, TakeElements DEF Take, InHand, HandMatchesStep
    <2>2. accepted' = processed \o raw
        BY <1>0, <1>5, <2>1, ConcatEmptySeq DEF Take, AcceptedAccounted
    <2>3. raw = <<Head(raw)>> \o Tail(raw) /\ Tail(raw) \in Seq(Event) /\ <<Head(raw)>> \in Seq(Event)
        BY <1>0, <1>5, <2>1, HeadFirst, TakeElements DEF Take
    <2>4. processed \o raw = (processed \o <<Head(raw)>>) \o Tail(raw)
        <3> DEFINE h == <<Head(raw)>>
                   t == Tail(raw)
        <3>1. processed \in Seq(Event) /\ h \in Seq(Event) /\ t \in Seq(Event) /\ raw = h \o t
            BY <1>0, <2>3
        <3> HIDE DEF h, t
        <3>2. (processed \o h) \o t = processed \o (h \o t)
            BY <3>1, ConcatAssociative
        <3>3. processed \o raw = (processed \o h) \o t
            BY <3>1, <3>2
        <3> QED
            BY <3>3 DEF h, t
    <2> QED
        BY <1>5, <2>1, <2>2, <2>4 DEF Take, AcceptedAccounted
<1>6. CASE Log
    <2>1. cur \in Event /\ InHand = <<cur>> /\ InHand' = <<>>
        BY <1>6 DEF Log, InHand, HandMatchesStep, TypeOK
    <2>2. processed' = processed \o <<cur>> /\ processed' \in Seq(Event)
        BY <1>0, <1>6, <2>1 DEF Log
    <2>3. processed' \o InHand' = processed \o InHand
        BY <2>1, <2>2, ConcatEmptySeq
    <2> QED
        BY <1>6, <2>3 DEF Log, AcceptedAccounted, inputs
<1> QED
    BY <1>2, <1>3, <1>4, <1>5, <1>6
       DEF Next, Goroutine, Read, Return, Eval, Detect, Contain, Release, Tick, Stop, vars, inputs, restOfSystem

\* What was accepted is processed once and in order, or waits (the loop of
\* Pipeline.Start): nothing is lost, doubled or overtaken.
THEOREM AcceptedIsAccounted == Spec => []AcceptedAccounted
<1>1. Init => AcceptedAccounted
    BY DEF Init, AcceptedAccounted, InHand
<1> QED
    BY <1>1, AccountedStep, InitTyped, StepTyped, PTL DEF Spec

-----------------------------------------------------------------------------
(* The meter.                                                              *)

\* Counting an event adds one element to the counts (rateWindow.add).
LEMMA AddCounts ==
    ASSUME NEW r \in [idx : Slots, last : Nat \cup {Never}, vals : [Slots -> Nat]], NEW t \in Nat
    PROVE  \E c : c \notin Counts(r) /\ Counts(Add(r, t)) = Counts(r) \cup {c}
<1> DEFINE idx == IF r.last \in {Never, t} THEN r.idx ELSE (r.idx + 1) % RateSlots
           vals == r.vals
           c == <<idx, vals[idx] + 1>>
<1>1. idx \in Slots
    BY RateAssumption DEF Slots
<1>2. Add(r, t).vals = [vals EXCEPT ![idx] = @ + 1]
    BY DEF Add
<1>3. vals \in [Slots -> Nat]
    OBVIOUS
<1> HIDE DEF idx, vals
<1>4. ASSUME NEW v \in [Slots -> Nat], NEW s, s.vals = v
      PROVE  Counts(s) = {p \in Slots \X Nat : 1 <= p[2] /\ p[2] <= v[p[1]]}
    <2> DEFINE D == {p \in Slots \X Nat : 1 <= p[2] /\ p[2] <= v[p[1]]}
    <2>1. ASSUME NEW p \in Counts(s) PROVE p \in D
        <3>1. PICK i \in Slots : p \in {i} \X (1 .. v[i])
            BY <1>4, <2>1 DEF Counts
        <3>2. v[i] \in Nat
            BY <1>4
        <3> QED
            BY <3>1, <3>2
    <2>2. ASSUME NEW p \in D PROVE p \in Counts(s)
        <3>1. p[1] \in Slots /\ v[p[1]] \in Nat /\ p \in {p[1]} \X (1 .. v[p[1]])
            BY <2>2
        <3> QED
            BY <1>4, <3>1 DEF Counts
    <2> QED
        BY <2>1, <2>2
<1>5. Counts(r) = {p \in Slots \X Nat : 1 <= p[2] /\ p[2] <= vals[p[1]]}
    BY <1>3, <1>4 DEF vals
<1> DEFINE w == [vals EXCEPT ![idx] = @ + 1]
<1>6. w \in [Slots -> Nat] /\ w[idx] = vals[idx] + 1 /\ \A i \in Slots \ {idx} : w[i] = vals[i]
    BY <1>1, <1>3
<1>7. Counts(Add(r, t)) = {p \in Slots \X Nat : 1 <= p[2] /\ p[2] <= w[p[1]]}
    BY <1>2, <1>4, <1>6
<1> HIDE DEF w
<1>8. c \notin Counts(r) /\ c \in Counts(Add(r, t))
    BY <1>1, <1>3, <1>5, <1>6, <1>7
<1>9. ASSUME NEW p \in Slots \X Nat, p # c
      PROVE  p \in Counts(Add(r, t)) <=> p \in Counts(r)
    <2>1. p = <<p[1], p[2]>> /\ p[1] \in Slots /\ p[2] \in Nat /\ vals[p[1]] \in Nat
        BY <1>3
    <2>2. CASE p[1] = idx
        <3>1. p[2] # vals[idx] + 1
            BY <1>9, <2>1, <2>2
        <3>2. 1 <= p[2] /\ p[2] <= w[p[1]] <=> 1 <= p[2] /\ p[2] <= vals[p[1]]
            BY <1>6, <2>1, <2>2, <3>1
        <3> QED
            BY <1>5, <1>7, <3>2
    <2>3. CASE p[1] # idx
        BY <1>5, <1>6, <1>7, <2>1, <2>3
    <2> QED
        BY <2>2, <2>3
<1>10. Counts(r) \subseteq Slots \X Nat /\ Counts(Add(r, t)) \subseteq Slots \X Nat
    BY <1>5, <1>7
<1> HIDE DEF c
<1>11. Counts(Add(r, t)) = Counts(r) \cup {c}
    BY <1>8, <1>9, <1>10
<1> QED
    BY <1>8, <1>11

\* Every event taken has its count in the window, those before the one in hand are
\* processed, and the counter agrees.
SumIsTotal ==
    /\ events = Len(processed) + Len(InHand)
    /\ Cardinality(Counts(rate)) = events

\* The counts are finitely many, and as many as the events taken.
Metered == SumIsTotal /\ IsFiniteSet(Counts(rate))

\* Init and every step keep the meter right.
LEMMA MeteredInit == Init => Metered
<1> SUFFICES ASSUME Init PROVE Metered
    OBVIOUS
<1>1. Counts(rate) = {}
    <2>1. \A i \in Slots : rate.vals[i] = 0 /\ 1 .. 0 = {}
        BY DEF Init
    <2> QED
        BY <2>1 DEF Counts
<1>2. Len(processed) = 0 /\ Len(InHand) = 0 /\ events = 0
    BY DEF Init, InHand
<1> QED
    BY <1>1, <1>2, FS_EmptySet DEF Metered, SumIsTotal

\* Every step keeps the counts in the rate window.
LEMMA MeteredStep == TypeOK /\ HandMatchesStep /\ Metered /\ [Next]_vars => Metered'
<1> SUFFICES ASSUME TypeOK, HandMatchesStep, Metered, [Next]_vars
             PROVE  Metered'
    OBVIOUS
<1>0. NoEvent \notin Event /\ processed \in Seq(Event) /\ Len(processed) \in Nat /\ cur \in Event \cup {NoEvent}
    BY NoEventAssumption DEF TypeOK
<1>1. CASE Take
    <2>1. /\ events' = events + 1 /\ rate' = Add(rate, now) /\ processed' = processed
          /\ cur = NoEvent /\ cur' \in Event
        BY <1>1, TakeElements DEF Take, HandMatchesStep, TypeOK
    <2>2. rate \in [idx : Slots, last : Nat \cup {Never}, vals : [Slots -> Nat]] /\ now \in Nat
        BY DEF TypeOK, ClockTypeOK
    <2>3. PICK c : c \notin Counts(rate) /\ Counts(Add(rate, now)) = Counts(rate) \cup {c}
        BY <2>2, AddCounts
    <2> DEFINE C == Counts(rate)
    <2>4. Counts(rate)' = C \cup {c}
        BY <2>1, <2>3 DEF Counts
    <2>5. IsFiniteSet(C) /\ Cardinality(C) = events /\ c \notin C
        BY <2>3 DEF Metered, SumIsTotal
    <2> HIDE DEF C
    <2>6. IsFiniteSet(C \cup {c}) /\ Cardinality(C \cup {c}) = events + 1
        BY <2>5, FS_AddElement
    <2>7. Len(InHand) = 0 /\ Len(InHand') = 1
        BY <1>0, <2>1 DEF InHand
    <2>8. events' = Len(processed') + Len(InHand')
        BY <1>0, <2>1, <2>7 DEF Metered, SumIsTotal
    <2> QED
        BY <2>1, <2>4, <2>6, <2>8 DEF Metered, SumIsTotal
<1>2. CASE Log
    <2>1. /\ events' = events /\ rate' = rate /\ cur \in Event /\ cur' = NoEvent
          /\ processed' = Append(processed, cur)
        BY <1>2 DEF Log, meter, HandMatchesStep, TypeOK
    <2>2. Len(processed') = Len(processed) + 1 /\ Len(InHand) = 1 /\ Len(InHand') = 0
        BY <1>0, <2>1 DEF InHand
    <2> QED
        BY <1>0, <2>1, <2>2 DEF Metered, SumIsTotal, Counts
<1>3. CASE UNCHANGED <<events, rate, processed, cur>>
    BY <1>3 DEF Metered, SumIsTotal, Counts, InHand
<1>4. CASE Next /\ ~Take /\ ~Log
    <2>1. UNCHANGED <<events, rate, processed, cur>>
        BY <1>4 DEF Next, Goroutine, Offer, Read, Emit, Return, Eval, Detect, Contain, Release,
                    Tick, Stop, restOfSystem, meter
    <2> QED
        BY <1>3, <2>1
<1>5. CASE UNCHANGED vars
    BY <1>3, <1>5 DEF vars, meter
<1> QED
    BY <1>1, <1>2, <1>4, <1>5

\* The rate window never forgets an event: rateWindow.add moves on to slots that still
\* hold what they counted a round before, so that the sum rateWindow.avg divides is the
\* events total, however long ago they came.  Hence IdleRateIsZero fails once there was
\* an event, for every number of slots.
THEOREM RateNeverForgets == Spec => []SumIsTotal
<1>1. Metered => SumIsTotal
    BY DEF Metered
<1> QED
    BY <1>1, InitTyped, StepTyped, MeteredInit, MeteredStep, PTL DEF Spec

-----------------------------------------------------------------------------
(* Contained events are not detected, and evidence is logged.              *)

\* A newly sent event is at one place, and shielded if its address is denied.
LEMMA SendOrdered ==
    ASSUME TypeOK, Ordered, NEW ev \in Event, Send(ev), ev \notin Known,
           UNCHANGED <<now, policies, step, cur, processed, evidence>>
    PROVE  /\ Known' = Known \cup {ev}
           /\ InOnePlace' /\ Shielding' /\ Evidenced'
<1>0. NoEvent \notin Event
    BY NoEventAssumption
<1>1. Elements(raw') = Elements(raw) \cup {ev} /\ NoRepeats(raw')
    BY AppendElements DEF Send, TypeOK, Ordered, InOnePlace, Known
<1>2. Known' = Known \cup {ev}
    BY <1>1 DEF Known
<1>3. InOnePlace'
    BY <1>0, <1>1 DEF Ordered, InOnePlace, Known
<1>4. Evidenced'
    BY DEF Ordered, Evidenced
<1>5. Unevaluated' = Unevaluated \cup {ev}
    BY <1>1 DEF Unevaluated
<1>6. \A ip : Denied(ip)' <=> Denied(ip)
    BY DEF Denied, Matches, Past
<1>7. ev \notin shielded /\ ev \notin evidence /\ (step = "detect" => ev # cur)
    BY <1>0 DEF Ordered, Shielding, Evidenced, Known
<1>8. Shielding'
    <2>1. shielded' \subseteq shielded \cup {ev} /\ (ev \in shielded' => Denied(ev.ip))
        BY <1>7 DEF Send
    <2> QED
        BY <1>2, <1>5, <1>6, <1>7, <2>1 DEF Ordered, Shielding, ContainedNotDetected
<1> QED
    BY <1>2, <1>3, <1>4, <1>8

\* Whatever becomes of the policies and the time, the shield keeps its promise.
LEMMA ShieldKept ==
    ASSUME TypeOK, HandMatchesStep, Ordered, KeepShield, UNCHANGED <<inputs, step, cur, processed, evidence>>
    PROVE  Ordered'
<1>1. Unevaluated' = Unevaluated /\ Known' = Known
    BY DEF Unevaluated, Known, inputs
<1>2. Unevaluated \subseteq Known /\ NoEvent \notin Unevaluated
    BY NoEventAssumption, UnevaluatedTyped DEF Known, Unevaluated, HandMatchesStep
<1>3. Unevaluated \cap evidence = {} /\ (step = "detect" => cur \notin Unevaluated)
    BY DEF Ordered, Evidenced, InOnePlace, Unevaluated
<1>4. /\ shielded' \subseteq shielded \cup Unevaluated
      /\ \A e \in shielded' : e \in Unevaluated => Denied(e.ip)'
    BY DEF KeepShield
<1>5. Shielding'
    BY <1>1, <1>2, <1>3, <1>4 DEF Ordered, Shielding, ContainedNotDetected
<1>6. Numbered'
    BY <1>1 DEF Ordered, Numbered, inputs
<1>7. InOnePlace' /\ Evidenced'
    BY DEF Ordered, InOnePlace, Evidenced, inputs
<1> QED
    BY <1>5, <1>6, <1>7 DEF Ordered

\* The ordering invariant holds at the start and is kept by every step.
LEMMA OrderedInit == Init => Ordered
<1> SUFFICES ASSUME Init PROVE Ordered
    OBVIOUS
<1>1. Elements(raw) = {} /\ Elements(processed) = {} /\ Known = {} /\ NoRepeats(raw)
    BY DEF Init, Elements, Known, NoRepeats
<1> QED
    BY <1>1 DEF Init, Ordered, Numbered, InOnePlace, Shielding, Evidenced, ContainedNotDetected

\* Every step keeps events in one place and in order.
LEMMA OrderedStep == TypeOK /\ HandMatchesStep /\ Ordered /\ [Next]_vars => Ordered'
<1> SUFFICES ASSUME TypeOK, HandMatchesStep, Ordered, [Next]_vars
             PROVE  Ordered'
    OBVIOUS
<1>0. NoEvent \notin Event /\ Known \subseteq Event /\ Clients \cap Feeds = {}
    BY NoEventAssumption, ProducersAssumption, ElementOfSeq DEF TypeOK, Known, Elements
<1>1. ASSUME NEW c \in Clients, NEW ip \in Sources, Offer(c, ip) PROVE Ordered'
    <2> DEFINE ev == [by |-> c, n |-> left[c], ip |-> ip]
    <2>1. ev \in Event /\ ev.by = c /\ ev.n = left[c]
        BY <1>1 DEF Event, TypeOK
    <2>2. left \in [Clients -> Nat] /\ left' = [left EXCEPT ![c] = left[c] - 1] /\ held' = held /\ fed' = fed
        BY <1>1 DEF Offer, TypeOK
    <2>3. ev \notin Known
        BY <2>1, <2>2 DEF Ordered, Numbered
    <2>4. \A f \in Feeds : held[f] # ev
        BY <1>0, <2>1 DEF Ordered, Numbered
    <2>5. \A e \in Known \cup {ev} : IF e.by \in Clients THEN e.n > left'[e.by] ELSE e.n <= fed
        <3>1. ASSUME NEW e \in Known, e.by \in Clients PROVE e.n > left'[e.by]
            <4>1. e.n \in Nat /\ e.n > left[e.by]
                BY <1>0, <3>1 DEF Ordered, Numbered, Event
            <4> QED
                BY <2>2, <3>1, <4>1
        <3>2. ev.n > left'[ev.by]
            BY <2>1, <2>2
        <3> QED
            BY <2>1, <3>1, <3>2 DEF Ordered, Numbered
    <2> HIDE DEF ev
    <2>6. CASE HasRoom
        <3>1. Known' = Known \cup {ev} /\ InOnePlace' /\ Shielding' /\ Evidenced'
            BY <1>1, <2>1, <2>3, <2>6, SendOrdered DEF Offer, restOfSystem, ev
        <3>2. Numbered'
            BY <2>2, <2>4, <2>5, <3>1 DEF Ordered, Numbered
        <3> QED
            BY <3>1, <3>2 DEF Ordered
    <2>7. CASE ~HasRoom
        <3>1. UNCHANGED <<now, policies, raw, held, fed, shielded, step, cur, processed, evidence>>
            BY <1>1, <2>7 DEF Offer, restOfSystem
        <3>2. Known' = Known
            BY <3>1 DEF Known
        <3>3. Numbered'
            BY <2>2, <2>5, <3>2 DEF Ordered, Numbered
        <3> QED
            BY <3>1, <3>2, <3>3 DEF Ordered, InOnePlace, Shielding, Evidenced, ContainedNotDetected,
                                    Unevaluated, Denied, Matches, Past
    <2> QED
        BY <2>6, <2>7
<1>2. ASSUME NEW f \in Feeds, NEW ip \in Sources, Read(f, ip) PROVE Ordered'
    <2> DEFINE ev == [by |-> f, n |-> fed', ip |-> ip]
    <2>1. ev.by = f /\ ev.n = fed' /\ fed' = fed + 1 /\ fed \in Nat /\ left' = left
        BY <1>2 DEF Read, TypeOK
    <2>2. held' = [held EXCEPT ![f] = ev] /\ held \in [Feeds -> Event \cup {NoEvent}]
        BY <1>2 DEF Read, TypeOK
    <2>3. UNCHANGED <<now, policies, raw, left, accepted, shielded, step, cur, processed, evidence>>
        BY <1>2 DEF Read, restOfSystem
    <2>4. Known' = Known
        BY <2>3 DEF Known
    <2>5. ev \notin Known
        BY <1>0, <2>1 DEF Ordered, Numbered
    <2> HIDE DEF ev
    <2>6. Numbered'
        <3>1. ASSUME NEW e \in Known PROVE IF e.by \in Clients THEN e.n > left[e.by] ELSE e.n <= fed'
            <4>1. e.n \in Nat
                BY <1>0 DEF Event
            <4> QED
                BY <2>1, <4>1 DEF Ordered, Numbered
        <3>2. ASSUME NEW g \in Feeds, held'[g] # NoEvent
              PROVE  held'[g].by = g /\ held'[g].n <= fed' /\ held'[g] \notin Known
            <4>1. CASE g = f
                BY <2>1, <2>2, <2>5, <4>1
            <4>2. CASE g # f
                <5>1. held'[g] = held[g] /\ held[g] \in Event
                    BY <2>2, <3>2, <4>2
                <5>2. held[g].n \in Nat /\ held[g].n <= fed /\ held[g].by = g /\ held[g] \notin Known
                    BY <5>1, <3>2 DEF Ordered, Numbered, Event
                <5> QED
                    BY <2>1, <5>1, <5>2
            <4> QED
                BY <4>1, <4>2
        <3> QED
            BY <2>3, <2>4, <3>1, <3>2 DEF Numbered
    <2> QED
        BY <2>3, <2>4, <2>6 DEF Ordered, InOnePlace, Shielding, Evidenced, ContainedNotDetected,
                                Unevaluated, Denied, Matches, Past
<1>3. ASSUME NEW f \in Feeds, Emit(f) PROVE Ordered'
    <2> DEFINE ev == held[f]
    <2>1. ev \in Event /\ ev \notin Known /\ ev.by = f /\ ev.n <= fed
        BY <1>3 DEF Emit, TypeOK, Ordered, Numbered
    <2>2. held \in [Feeds -> Event \cup {NoEvent}] /\ held' = [held EXCEPT ![f] = NoEvent]
          /\ left' = left /\ fed' = fed
        BY <1>3 DEF Emit, TypeOK
    <2>3. Known' = Known \cup {ev} /\ InOnePlace' /\ Shielding' /\ Evidenced'
        BY <1>3, <2>1, SendOrdered DEF Emit, restOfSystem
    <2> HIDE DEF ev
    <2>4. Numbered'
        <3>1. ASSUME NEW g \in Feeds, held'[g] # NoEvent
              PROVE  held'[g].by = g /\ held'[g].n <= fed /\ held'[g] \notin Known \cup {ev}
            <4>1. g # f /\ held'[g] = held[g]
                BY <2>2, <3>1
            <4> QED
                BY <2>1, <3>1, <4>1 DEF Ordered, Numbered
        <3>2. \A e \in Known \cup {ev} : IF e.by \in Clients THEN e.n > left[e.by] ELSE e.n <= fed
            BY <1>0, <2>1 DEF Ordered, Numbered
        <3> QED
            BY <2>2, <2>3, <3>1, <3>2 DEF Numbered
    <2> QED
        BY <2>3, <2>4 DEF Ordered
<1>4. CASE Take
    <2>1. /\ cur' \in Event /\ cur = NoEvent
          /\ Elements(raw) = Elements(raw') \cup {cur'}
          /\ NoRepeats(raw') /\ cur' \notin Elements(raw')
        BY <1>4, TakeElements DEF Take, TypeOK, HandMatchesStep, Ordered, InOnePlace
    <2>2. UNCHANGED <<now, policies, left, held, fed, shielded, processed, evidence>> /\ step' = "eval" /\ step = "select"
        BY <1>4 DEF Take
    <2>3. Known' = Known /\ Unevaluated' = Unevaluated
        BY <1>0, <2>1, <2>2 DEF Known, Unevaluated
    <2>4. Numbered'
        BY <2>2, <2>3 DEF Ordered, Numbered
    <2>5. InOnePlace' /\ Evidenced'
        BY <2>1, <2>2 DEF Ordered, InOnePlace, Evidenced
    <2>6. Shielding'
        BY <2>2, <2>3 DEF Ordered, Shielding, ContainedNotDetected, Denied, Matches, Past
    <2> QED
        BY <2>4, <2>5, <2>6 DEF Ordered
<1>5. CASE Return
    <2>1. UNCHANGED <<now, policies, inputs, cur, shielded, processed, evidence>>
          /\ step' = "stopped" /\ step = "select"
        BY <1>5 DEF Return
    <2> QED
        BY <2>1 DEF inputs, Ordered, Numbered, Known, InOnePlace, Shielding, Evidenced,
                    ContainedNotDetected, Unevaluated, Denied, Matches, Past
<1>6. CASE Eval
    <2>1. UNCHANGED <<now, policies, inputs, cur, shielded, processed, evidence>> /\ step = "eval"
        BY <1>6 DEF Eval
    <2>2. step' \in {"detect", "log"} /\ (step' = "detect" => ~Denied(cur.ip))
        BY <1>6 DEF Eval, Verdict, Denied
    <2>3. Known' = Known /\ Numbered' /\ InOnePlace'
        BY <2>1 DEF inputs, Ordered, Numbered, Known, InOnePlace
    <2>4. Evidenced'
        BY <2>1, <2>2 DEF Ordered, Evidenced
    <2>5. Unevaluated' \subseteq Unevaluated /\ cur \in Unevaluated
        BY <2>1, <2>2 DEF Unevaluated, inputs
    <2>6. Shielding'
        BY <2>1, <2>2, <2>3, <2>5 DEF Ordered, Shielding, ContainedNotDetected, Denied, Matches, Past
    <2> QED
        BY <2>3, <2>4, <2>6 DEF Ordered
<1>7. CASE Detect
    <2>1. UNCHANGED <<now, policies, inputs, cur, shielded, processed>> /\ step = "detect" /\ step' = "log"
          /\ evidence' \subseteq evidence \cup {cur}
        BY <1>7 DEF Detect
    <2>2. Known' = Known /\ Numbered' /\ InOnePlace' /\ Unevaluated' = Unevaluated
        BY <2>1 DEF inputs, Ordered, Numbered, Known, InOnePlace, Unevaluated
    <2>3. Evidenced'
        BY <2>1 DEF Ordered, Evidenced
    <2>4. Shielding'
        BY <2>1, <2>2 DEF Ordered, Shielding, ContainedNotDetected, Denied, Matches, Past
    <2> QED
        BY <2>2, <2>3, <2>4 DEF Ordered
<1>8. CASE Log
    <2>1. cur \in Event /\ cur' = NoEvent /\ step = "log" /\ step' = "select"
          /\ UNCHANGED <<now, policies, inputs, shielded, evidence>>
        BY <1>8 DEF Log, TypeOK, HandMatchesStep
    <2>2. Elements(processed') = Elements(processed) \cup {cur}
        BY <1>8, <2>1, AppendElements DEF Log, TypeOK
    <2>3. Known' = Known /\ Unevaluated' = Unevaluated
        BY <1>0, <2>1, <2>2 DEF Known, Unevaluated, inputs
    <2>4. Numbered'
        BY <2>1, <2>3 DEF Ordered, Numbered, inputs
    <2>5. InOnePlace'
        <3>1. NoEvent \notin Elements(raw) \cup Elements(processed)
            BY <1>0, ElementOfSeq DEF TypeOK, Elements
        <3> QED
            BY <1>0, <2>1, <2>2, <3>1 DEF Ordered, InOnePlace, inputs
    <2>6. Evidenced'
        BY <2>1, <2>2 DEF Ordered, Evidenced
    <2>7. Shielding'
        BY <2>1, <2>3 DEF Ordered, Shielding, ContainedNotDetected, Denied, Matches, Past
    <2> QED
        BY <2>4, <2>5, <2>6, <2>7 DEF Ordered
<1>9. ASSUME NEW s \in SourceIds,
             \/ Release(s)
             \/ \E k \in Kinds, t \in Sources, e \in Expiries :
                   Contain(s, [kind |-> k, target |-> t, expires |-> e])
      PROVE  Ordered'
    BY <1>9, ShieldKept DEF Release, Contain
<1>10. CASE Tick
    BY <1>10, ShieldKept DEF Tick
<1>11. CASE Stop \/ UNCHANGED vars
    BY <1>11 DEF Stop, vars, inputs, Ordered, Numbered, Known, InOnePlace, Shielding, Evidenced,
                 ContainedNotDetected, Unevaluated, Denied, Matches, Past
<1> QED
    BY <1>1, <1>2, <1>3, <1>4, <1>5, <1>6, <1>7, <1>8, <1>9, <1>10, <1>11
       DEF Next, Goroutine

-----------------------------------------------------------------------------
(* The theorems.                                                           *)

\* Types of the channel, the goroutine's place and the histories.
THEOREM TypeCorrect == Spec => []TypeOK
BY InitTyped, StepTyped, PTL DEF Spec

\* The strengthening both theorems below rest on.
LEMMA Inductive == Spec => []IInv
BY InitTyped, StepTyped, OrderedInit, OrderedStep, PTL DEF Spec, IInv

\* An address denied before the edge sees its event keeps the event from becoming
\* evidence, whatever the policies become (Eval before Process in the loop).
THEOREM ContainmentPrecedesDetection == Spec => []ContainedNotDetected
<1>1. Ordered => ContainedNotDetected
    BY DEF Ordered, Shielding
<1> QED
    BY <1>1, Inductive, PTL DEF IInv

\* Evidence of an alert is in the request log, or in the goroutine's hand on its way
\* there.
THEOREM EvidenceReachesLog == Spec => []EvidenceIsLogged
<1>1. Ordered => EvidenceIsLogged
    BY DEF Ordered, Evidenced, EvidenceIsLogged
<1> QED
    BY <1>1, Inductive, PTL DEF IInv

\* Whatever the files and the tailers do, the pipeline and its producers take steps
\* of the pipeline's specification, or none (Tailer.tailFile only sends to out).
THEOREM TailingIsFeeding == IngestionSpec => Spec
<1>1. IngestionInit => Init
    BY DEF IngestionInit
<1>2. [IngestionNext]_ingestionVars => [Next]_vars
    <2> SUFFICES ASSUME [IngestionNext]_ingestionVars PROVE [Next]_vars
        OBVIOUS
    <2>1. CASE PipelineNext
        BY <2>1 DEF PipelineNext
    <2>2. ASSUME NEW f \in Files, Scan(f) PROVE [Next]_vars
        <3>1. CASE \E ip \in Sources : Read(f, ip)
            BY <3>1, FilesAssumption DEF Next
        <3>2. CASE UNCHANGED vars
            BY <3>2
        <3> QED
            BY <2>2, <3>1, <3>2 DEF Scan
    <2>3. ASSUME NEW f \in Files, Write(f) \/ ReadMore(f) \/ Reseek(f) PROVE [Next]_vars
        BY <2>3 DEF Write, ReadMore, Reseek
    <2>4. CASE UNCHANGED ingestionVars
        BY <2>4 DEF ingestionVars
    <2> QED
        BY <2>1, <2>2, <2>3, <2>4 DEF IngestionNext
<1> QED
    BY <1>1, <1>2, PTL DEF IngestionSpec, Spec

\* So tailed files lose, double or reorder nothing between the channel and the log,
\* what is denied in time is not detected, and unlogged events are no evidence.
THEOREM TailedIsAccounted ==
    IngestionSpec => [](AcceptedAccounted /\ ContainedNotDetected /\ EvidenceIsLogged)
BY TailingIsFeeding, AcceptedIsAccounted, ContainmentPrecedesDetection, EvidenceReachesLog,
   PTL

-----------------------------------------------------------------------------
(* Tailed files, by the values the model has for one: w was written, a is   *)
(* ahead of the read position, b is in the scanner's buffer, e says that it  *)
(* has met the end of the file, g became events, and the lines in x are      *)
(* exposed.  The first k pieces of the file are behind the scanner.          *)

Piece == [line : Nat, starts : BOOLEAN, ends : BOOLEAN]

\* A file is line after line, each in one piece or in two.
Lines(w) ==
    /\ w # <<>> => w[1].starts
    /\ \A i \in 1 .. Len(w) : w[i].starts \/ w[i].ends
    /\ \A i \in 1 .. Len(w) - 1 : w[i + 1].starts = w[i].ends
    /\ \A i \in 1 .. Len(w) - 1 : ~w[i].ends => w[i + 1].line = w[i].line
    /\ \A i, j \in 1 .. Len(w) : i < j =>
          w[i].line < w[j].line \/ (w[i].line = w[j].line /\ ~w[i].ends)

\* What the scanner has not returned is the end of the file.
Unread(w, a, b, k) ==
    /\ k \in Nat /\ k + Len(b) + Len(a) = Len(w)
    /\ \A i \in 1 .. Len(b) : b[i] = w[k + i]
    /\ \A i \in 1 .. Len(a) : a[i] = w[k + Len(b) + i]

\* Once the end has been met what follows is exposed, and so is a line cut in two by
\* the scanner or the tailer.
Exposed(w, e, x, k) ==
    /\ e => \A i \in k + 1 .. Len(w) : w[i].line \in x
    /\ k > 0 /\ ~w[k].ends => w[k].line \in x

TokenLine(g, i) == Head(g[i]).line

\* What became events comes from behind the scanner: whole lines, in order and once,
\* and nothing is missing, but for what is exposed.
Delivered(w, g, x, k) ==
    /\ \A i \in 1 .. Len(g) : g[i] # <<>> /\ k > 0 /\ TokenLine(g, i) <= w[k].line
    /\ \A i \in 1 .. Len(g) : Whole(g[i]) \/ TokenLine(g, i) \in x
    /\ \A i, j \in 1 .. Len(g) : i < j =>
          \/ TokenLine(g, i) < TokenLine(g, j)
          \/ TokenLine(g, i) = TokenLine(g, j) /\ TokenLine(g, j) \in x
    /\ \A i \in 1 .. k : w[i].line \in x \/ \E j \in 1 .. Len(g) : w[i] \in Elements(g[j])

FileTyped(w, a, b, e, g, x) ==
    /\ w \in Seq(Piece) /\ a \in Seq(Piece) /\ b \in Seq(Piece) /\ e \in BOOLEAN
    /\ g \in Seq(Seq(Piece)) /\ x \in SUBSET Nat

FileOK(w, a, b, e, g, x, k) ==
    /\ FileTyped(w, a, b, e, g, x)
    /\ Lines(w) /\ Unread(w, a, b, k) /\ Exposed(w, e, x, k) /\ Delivered(w, g, x, k)

\* A file stays line after line when its writer goes on as it should.
LEMMA LinesGrow ==
    ASSUME NEW w \in Seq(Piece), NEW p \in Piece, Lines(w), p.starts \/ p.ends,
           w = <<>> => p.starts,
           w # <<>> => /\ p.starts = w[Len(w)].ends
                       /\ p.line = w[Len(w)].line + (IF w[Len(w)].ends THEN 1 ELSE 0)
    PROVE  /\ Append(w, p) \in Seq(Piece) /\ Len(Append(w, p)) = Len(w) + 1
           /\ \A i \in 1 .. Len(w) : Append(w, p)[i] = w[i]
           /\ Append(w, p)[Len(w) + 1] = p
           /\ Lines(Append(w, p))
<1> DEFINE t == Append(w, p)
           n == Len(w)
<1>1. /\ n \in Nat /\ t \in Seq(Piece) /\ Len(t) = n + 1 /\ t[n + 1] = p
      /\ \A i \in 1 .. n : t[i] = w[i] /\ w[i] \in Piece
      /\ (w = <<>> <=> n = 0)
    OBVIOUS
<1> HIDE DEF t, n
<1>2. \A i \in 1 .. n + 1 : i \in 1 .. n \/ i = n + 1
    BY <1>1
<1>3. \A i \in 1 .. n : w[i].line \in Nat /\ w[i].ends \in BOOLEAN /\ p.line \in Nat
    BY <1>1 DEF Piece
<1>4. n > 0 => /\ p.starts = w[n].ends /\ w[n].line \in Nat
               /\ w[n].ends => p.line = w[n].line + 1
               /\ ~w[n].ends => p.line = w[n].line
    BY <1>1, <1>3 DEF n
<1>5. (t # <<>> => t[1].starts) /\ \A i \in 1 .. Len(t) : t[i].starts \/ t[i].ends
    BY <1>1, <1>2 DEF Lines, n
<1>6. ASSUME NEW i \in 1 .. Len(t) - 1
      PROVE  /\ t[i + 1].starts = t[i].ends
             /\ ~t[i].ends => t[i + 1].line = t[i].line
    <2>1. CASE i = n
        BY <1>1, <1>4, <2>1
    <2>2. CASE i # n
        <3>1. i \in 1 .. n - 1 /\ i \in 1 .. n /\ i + 1 \in 1 .. n
            BY <1>1, <2>2
        <3> QED
            BY <1>1, <3>1 DEF Lines, n
    <2> QED
        BY <2>1, <2>2
<1>7. ASSUME NEW i \in 1 .. Len(t), NEW j \in 1 .. Len(t), i < j
      PROVE  t[i].line < t[j].line \/ (t[i].line = t[j].line /\ ~t[i].ends)
    <2>1. i \in 1 .. n
        BY <1>1, <1>7
    <2>2. CASE j \in 1 .. n
        BY <1>1, <1>7, <2>1, <2>2 DEF Lines, n
    <2>3. CASE j = n + 1
        <3>1. CASE i = n
            BY <1>1, <1>3, <1>4, <2>1, <2>3, <3>1
        <3>2. CASE i # n
            <4>1. n \in 1 .. n /\ i < n
                BY <1>1, <2>1, <3>2
            <4>2. w[i].line < w[n].line \/ (w[i].line = w[n].line /\ ~w[i].ends)
                BY <2>1, <4>1 DEF Lines, n
            <4>3. w[n].line <= p.line
                BY <1>4, <4>1, <1>3
            <4>4. w[i].line \in Nat /\ w[n].line \in Nat /\ p.line \in Nat
                BY <1>3, <2>1, <4>1
            <4>5. w[i].line < p.line \/ (w[i].line = p.line /\ ~w[i].ends)
                BY <4>2, <4>3, <4>4
            <4> QED
                BY <1>1, <2>1, <2>3, <4>5
        <3> QED
            BY <3>1, <3>2
    <2> QED
        BY <1>1, <1>2, <2>2, <2>3
<1>8. Lines(t)
    BY <1>5, <1>6, <1>7 DEF Lines
<1> QED
    BY <1>1, <1>8 DEF t, n

\* What was written behind the scanner stays, and what is exposed stays exposed.
LEMMA DeliveredKept ==
    ASSUME NEW w, NEW v, NEW g, NEW x, NEW y, NEW k \in Nat,
           Delivered(w, g, x, k), \A i \in 1 .. k : v[i] = w[i], x \subseteq y
    PROVE  Delivered(v, g, y, k)
<1>1. \A i \in 1 .. Len(g) : k \in 1 .. k
    BY DEF Delivered
<1> QED
    BY <1>1 DEF Delivered

\* Writing a piece (the process that writes the log).
LEMMA WriteKeeps ==
    ASSUME NEW w, NEW a, NEW b, NEW e, NEW g, NEW x, NEW k, NEW p \in Piece,
           FileOK(w, a, b, e, g, x, k), p.starts \/ p.ends,
           w = <<>> => p.starts,
           w # <<>> => /\ p.starts = w[Len(w)].ends
                       /\ p.line = w[Len(w)].line + (IF w[Len(w)].ends THEN 1 ELSE 0)
    PROVE  FileOK(Append(w, p), Append(a, p), b, e, g, IF e THEN x \cup {p.line} ELSE x, k)
<1> DEFINE v == Append(w, p)
           c == Append(a, p)
           y == IF e THEN x \cup {p.line} ELSE x
           n == Len(w)
<1>1. /\ w \in Seq(Piece) /\ a \in Seq(Piece) /\ b \in Seq(Piece) /\ e \in BOOLEAN
      /\ g \in Seq(Seq(Piece)) /\ x \in SUBSET Nat
    BY DEF FileOK, FileTyped
<1>2. /\ v \in Seq(Piece) /\ Len(v) = n + 1 /\ n \in Nat /\ v[n + 1] = p /\ Lines(v)
      /\ \A i \in 1 .. n : v[i] = w[i]
    BY <1>1, LinesGrow DEF FileOK
<1>3. /\ c \in Seq(Piece) /\ Len(c) = Len(a) + 1 /\ Len(a) \in Nat /\ c[Len(a) + 1] = p
      /\ \A i \in 1 .. Len(a) : c[i] = a[i]
      /\ Len(b) \in Nat
    BY <1>1
<1>4. p.line \in Nat /\ y \in SUBSET Nat /\ x \subseteq y /\ (e => p.line \in y)
    BY <1>1 DEF Piece
<1> HIDE DEF v, c, y
<1>5. k \in Nat /\ k + Len(b) + Len(a) = n
    BY DEF FileOK, Unread, n
<1>6. Unread(v, c, b, k)
    <2>1. \A i \in 1 .. Len(b) : b[i] = v[k + i]
        <3> SUFFICES ASSUME NEW i \in 1 .. Len(b) PROVE b[i] = v[k + i]
            OBVIOUS
        <3>1. k + i \in 1 .. n /\ b[i] = w[k + i]
            BY <1>3, <1>5 DEF FileOK, Unread
        <3> QED
            BY <1>2, <3>1
    <2>2. \A i \in 1 .. Len(c) : c[i] = v[k + Len(b) + i]
        <3> SUFFICES ASSUME NEW i \in 1 .. Len(c) PROVE c[i] = v[k + Len(b) + i]
            OBVIOUS
        <3>1. CASE i = Len(a) + 1
            BY <1>2, <1>3, <1>5, <3>1
        <3>2. CASE i # Len(a) + 1
            <4>1. i \in 1 .. Len(a) /\ k + Len(b) + i \in 1 .. n
                BY <1>3, <1>5, <3>2
            <4>2. a[i] = w[k + Len(b) + i]
                BY <4>1 DEF FileOK, Unread
            <4> QED
                BY <1>2, <1>3, <4>1, <4>2
        <3> QED
            BY <3>1, <3>2
    <2> QED
        BY <1>2, <1>3, <1>5, <2>1, <2>2 DEF Unread
<1>7. Exposed(v, e, y, k)
    <2>1. ASSUME e, NEW i \in k + 1 .. Len(v) PROVE v[i].line \in y
        <3>1. CASE i = n + 1
            BY <1>2, <1>4, <2>1, <3>1
        <3>2. CASE i # n + 1
            <4>1. i \in k + 1 .. n /\ i \in 1 .. n
                BY <1>2, <1>5, <3>2
            <4>2. w[i].line \in x
                BY <2>1, <4>1 DEF FileOK, Exposed, n
            <4> QED
                BY <1>2, <1>4, <4>1, <4>2
        <3> QED
            BY <3>1, <3>2
    <2>2. ASSUME k > 0, ~v[k].ends PROVE v[k].line \in y
        <3>1. k \in 1 .. n
            BY <1>3, <1>5, <2>2
        <3> QED
            BY <1>2, <1>4, <2>2, <3>1 DEF FileOK, Exposed
    <2> QED
        BY <2>1, <2>2 DEF Exposed
<1>8. Delivered(v, g, y, k)
    <2>1. \A i \in 1 .. k : v[i] = w[i]
        BY <1>2, <1>3, <1>5
    <2> QED
        BY <1>4, <1>5, <2>1, DeliveredKept DEF FileOK
<1>9. FileOK(v, c, b, e, g, y, k)
    BY <1>1, <1>2, <1>3, <1>4, <1>6, <1>7, <1>8 DEF FileOK, FileTyped
<1> QED
    BY <1>9 DEF v, c, y

\* Reading on (bufio.Scanner filling its buffer).
LEMMA FetchKeeps ==
    ASSUME NEW w, NEW a, NEW b, NEW g, NEW x, NEW k, FileOK(w, a, b, FALSE, g, x, k)
    PROVE  FileOK(w, <<>>, b \o a, FALSE, g, x, k)
<1> DEFINE c == b \o a
<1>1. /\ w \in Seq(Piece) /\ a \in Seq(Piece) /\ b \in Seq(Piece) /\ Len(b) \in Nat /\ Len(a) \in Nat
    BY DEF FileOK, FileTyped
<1>2. /\ c \in Seq(Piece) /\ Len(c) = Len(b) + Len(a)
      /\ \A i \in 1 .. Len(b) + Len(a) : c[i] = IF i <= Len(b) THEN b[i] ELSE a[i - Len(b)]
    BY <1>1, ConcatProperties
<1> HIDE DEF c
<1>3. k \in Nat /\ k + Len(b) + Len(a) = Len(w)
    BY DEF FileOK, Unread
<1>4. ASSUME NEW i \in 1 .. Len(c) PROVE c[i] = w[k + i]
    <2>1. CASE i <= Len(b)
        <3>1. i \in 1 .. Len(b) /\ i \in 1 .. Len(b) + Len(a)
            BY <1>1, <1>2, <2>1
        <3> QED
            BY <1>2, <2>1, <3>1 DEF FileOK, Unread
    <2>2. CASE ~(i <= Len(b))
        <3>1. i - Len(b) \in 1 .. Len(a) /\ i \in 1 .. Len(b) + Len(a)
            BY <1>1, <1>2, <2>2
        <3>2. c[i] = a[i - Len(b)] /\ a[i - Len(b)] = w[k + Len(b) + (i - Len(b))]
            BY <1>2, <2>2, <3>1 DEF FileOK, Unread
        <3>3. k + Len(b) + (i - Len(b)) = k + i
            BY <1>1, <1>3
        <3> QED
            BY <3>2, <3>3
    <2> QED
        BY <2>1, <2>2
<1>5. <<>> \in Seq(Piece) /\ Len(<<>>) = 0
    OBVIOUS
<1>6. Unread(w, <<>>, c, k)
    <2>1. k + Len(c) + Len(<<>>) = Len(w)
        BY <1>1, <1>2, <1>3, <1>5
    <2>2. \A i \in 1 .. Len(<<>>) : <<>>[i] = w[k + Len(c) + i]
        BY <1>5
    <2> QED
        BY <1>3, <1>4, <2>1, <2>2 DEF Unread
<1>7. FileOK(w, <<>>, c, FALSE, g, x, k)
    BY <1>2, <1>5, <1>6 DEF FileOK, FileTyped
<1> QED
    BY <1>7 DEF c

\* Meeting the end of the file: the lines in the buffer are exposed from now on.
LEMMA EndKeeps ==
    ASSUME NEW w, NEW b, NEW g, NEW x, NEW k, FileOK(w, <<>>, b, FALSE, g, x, k)
    PROVE  FileOK(w, <<>>, b, TRUE, g, x \cup {p.line : p \in Elements(b)}, k)
<1> DEFINE y == x \cup {p.line : p \in Elements(b)}
<1>1. /\ w \in Seq(Piece) /\ b \in Seq(Piece) /\ Len(b) \in Nat /\ x \in SUBSET Nat
    BY DEF FileOK, FileTyped
<1>2. \A i \in 1 .. Len(b) : b[i].line \in y /\ b[i].line \in Nat
    <2> SUFFICES ASSUME NEW i \in 1 .. Len(b) PROVE b[i].line \in y /\ b[i].line \in Nat
        OBVIOUS
    <2>1. b[i] \in Elements(b) /\ b[i] \in Piece
        BY <1>1, ElementOfSeq DEF Elements
    <2> QED
        BY <2>1 DEF Piece
<1>3. y \in SUBSET Nat /\ x \subseteq y
    BY <1>1, <1>2 DEF Elements
<1> HIDE DEF y
<1>4. k \in Nat /\ k + Len(b) = Len(w) /\ \A i \in 1 .. Len(b) : b[i] = w[k + i]
    BY <1>1 DEF FileOK, Unread
<1>5. Exposed(w, TRUE, y, k)
    <2>1. ASSUME NEW i \in k + 1 .. Len(w) PROVE w[i].line \in y
        <3>1. i - k \in 1 .. Len(b) /\ k + (i - k) = i
            BY <1>1, <1>4
        <3>2. b[i - k] = w[i]
            BY <1>4, <3>1
        <3> QED
            BY <1>2, <3>1, <3>2
    <2> QED
        BY <1>3, <2>1 DEF FileOK, Exposed
<1>6. Delivered(w, g, y, k)
    BY <1>3, <1>4, DeliveredKept DEF FileOK
<1> QED
    BY <1>3, <1>5, <1>6 DEF FileOK, FileTyped, y

\* The tailer goes to the end of the file (Tailer.tailFile seeking after the scan).
LEMMA ReseekKeeps ==
    ASSUME NEW w, NEW a, NEW g, NEW x, NEW k, FileOK(w, a, <<>>, TRUE, g, x, k)
    PROVE  FileOK(w, <<>>, <<>>, FALSE, g, x, Len(w))
<1> DEFINE n == Len(w)
<1>1. w \in Seq(Piece) /\ n \in Nat /\ k \in Nat /\ k <= n /\ g \in Seq(Seq(Piece)) /\ x \in SUBSET Nat
    <2>1. w \in Seq(Piece) /\ n \in Nat /\ a \in Seq(Piece) /\ Len(a) \in Nat /\ g \in Seq(Seq(Piece)) /\ x \in SUBSET Nat
        BY DEF FileOK, FileTyped
    <2>2. k \in Nat /\ k + Len(<<>>) + Len(a) = n
        BY DEF FileOK, Unread
    <2> QED
        BY <2>1, <2>2
<1>2. \A i \in k + 1 .. n : w[i].line \in x
    BY DEF FileOK, Exposed
<1>3. k > 0 /\ ~w[k].ends => w[k].line \in x
    BY DEF FileOK, Exposed
<1> HIDE DEF n
<1>4. Exposed(w, FALSE, x, n)
    <2>1. CASE n = k
        BY <1>3, <2>1 DEF Exposed
    <2>2. CASE n # k
        <3>1. n \in k + 1 .. n
            BY <1>1, <2>2
        <3> QED
            BY <1>2, <3>1 DEF Exposed
    <2> QED
        BY <2>1, <2>2
<1>5. Delivered(w, g, x, n)
    <2>1. ASSUME NEW i \in 1 .. Len(g) PROVE g[i] # <<>> /\ n > 0 /\ TokenLine(g, i) <= w[n].line
        <3>1. g[i] # <<>> /\ k > 0 /\ TokenLine(g, i) <= w[k].line
            BY DEF FileOK, Delivered
        <3>2. g[i] \in Seq(Piece) /\ Head(g[i]) \in Piece
            BY <1>1, <3>1, ElementOfSeq
        <3>3. k \in 1 .. n /\ n \in 1 .. n /\ w[k] \in Piece /\ w[n] \in Piece
            BY <1>1, <3>1, ElementOfSeq DEF n
        <3>4. TokenLine(g, i) \in Nat /\ w[k].line \in Nat /\ w[n].line \in Nat
            BY <3>2, <3>3 DEF Piece, TokenLine
        <3>5. w[k].line <= w[n].line
            <4>1. CASE k = n
                BY <3>4, <4>1
            <4>2. CASE k # n
                <5>1. k < n
                    BY <1>1, <4>2
                <5>2. w[k].line < w[n].line \/ w[k].line = w[n].line
                    BY <3>3, <5>1 DEF FileOK, Lines, n
                <5> QED
                    BY <3>4, <5>2
            <4> QED
                BY <4>1, <4>2
        <3>6. TokenLine(g, i) <= w[n].line
            BY <3>1, <3>4, <3>5
        <3>7. n > 0
            BY <3>3
        <3> QED
            BY <3>1, <3>6, <3>7
    <2>2. ASSUME NEW i \in 1 .. n
          PROVE  w[i].line \in x \/ \E j \in 1 .. Len(g) : w[i] \in Elements(g[j])
        <3>1. CASE i \in 1 .. k
            BY <3>1 DEF FileOK, Delivered
        <3>2. CASE i \notin 1 .. k
            <4>1. i \in k + 1 .. n
                BY <1>1, <3>2
            <4> QED
                BY <1>2, <4>1
        <3> QED
            BY <3>1, <3>2
    <2> QED
        BY <2>1, <2>2 DEF FileOK, Delivered
<1>6. Unread(w, <<>>, <<>>, n)
    <2>1. Len(<<>>) = 0
        OBVIOUS
    <2> QED
        BY <1>1, <2>1 DEF Unread, n
<1>7. <<>> \in Seq(Piece)
    OBVIOUS
<1> QED
    BY <1>1, <1>4, <1>5, <1>6, <1>7 DEF FileOK, FileTyped, n

\* The first line in the buffer ends with the first end, or it is all of the buffer
\* when the end of the file was met (bufio.ScanLines).
LEMMA TokenFacts ==
    ASSUME NEW t, NEW k, FileOK(t.wrote, t.ahead, t.buf, t.eof, t.given, t.exposed, k)
    PROVE  /\ Token(t) \in 0 .. Len(t.buf)
           /\ Token(t) = 0 /\ t.eof => t.buf = <<>>
           /\ Token(t) > 0 => /\ \A i \in 1 .. Token(t) - 1 : ~t.buf[i].ends
                              /\ t.buf[Token(t)].ends \/ t.eof
<1> SUFFICES ASSUME NEW w, NEW a, NEW b, NEW e, NEW g, NEW x, t.buf = b, t.eof = e,
                    FileOK(w, a, b, e, g, x, k)
             PROVE  /\ Token(t) \in 0 .. Len(b)
                    /\ Token(t) = 0 /\ e => b = <<>>
                    /\ Token(t) > 0 => /\ \A i \in 1 .. Token(t) - 1 : ~b[i].ends
                                       /\ b[Token(t)].ends \/ e
    OBVIOUS
<1> DEFINE ends == {i \in 1 .. Len(b) : b[i].ends}
           least == Sets!Min(ends)
<1>1. /\ b \in Seq(Piece) /\ Len(b) \in Nat /\ e \in BOOLEAN
      /\ k \in Nat /\ \A i \in 1 .. Len(b) : b[i] = w[k + i] /\ k + i \in 1 .. Len(w)
    <2>1. /\ b \in Seq(Piece) /\ Len(b) \in Nat /\ e \in BOOLEAN /\ w \in Seq(Piece) /\ Len(w) \in Nat
          /\ Len(a) \in Nat
        BY DEF FileOK, FileTyped
    <2>2. k \in Nat /\ k + Len(b) + Len(a) = Len(w) /\ \A i \in 1 .. Len(b) : b[i] = w[k + i]
        BY DEF FileOK, Unread
    <2> QED
        BY <2>1, <2>2
<1>2. ASSUME ends # {} PROVE least \in ends /\ \A i \in ends : least <= i
    <2>1. \E i \in ends : \A j \in ends : i <= j
        <3>1. CASE 1 \in ends
            BY <3>1
        <3>2. CASE 1 \notin ends
            <4>1. Len(b) >= 2 /\ 1 \in 1 .. Len(b) /\ 2 \in 1 .. Len(b) /\ ~b[1].ends
                BY <1>1, <1>2, <3>2
            <4>2. k + 1 \in 1 .. Len(w) - 1 /\ k + 2 \in 1 .. Len(w) /\ k + 2 = (k + 1) + 1
                BY <1>1, <4>1
            <4>3. b[1] = w[k + 1] /\ b[2] = w[k + 2]
                BY <1>1, <4>1
            <4>4. w[k + 2].starts = w[k + 1].ends
                BY <4>2 DEF FileOK, Lines
            <4>5. b[2].ends
                BY <4>1, <4>2, <4>3, <4>4 DEF FileOK, Lines
            <4>6. 2 \in ends
                BY <4>1, <4>5
            <4> QED
                BY <1>1, <3>2, <4>6
        <3> QED
            BY <3>1, <3>2
    <2> HIDE DEF ends
    <2> QED
        BY <2>1, Zenon DEF Sets!Min, least
<1>3. CASE ends # {}
    <2>1. Token(t) = least
        BY <1>3 DEF Token
    <2>2. least \in 1 .. Len(b) /\ b[least].ends
        BY <1>2, <1>3
    <2>3. ASSUME NEW i \in 1 .. least - 1 PROVE ~b[i].ends
        <3>1. i \in 1 .. Len(b) /\ ~(least <= i)
            BY <1>1, <2>2
        <3> QED
            BY <1>2, <1>3, <3>1
    <2> HIDE DEF least, ends
    <2> QED
        BY <1>1, <2>1, <2>2, <2>3
<1>4. CASE ends = {}
    <2>1. Token(t) = IF e THEN Len(b) ELSE 0
        BY <1>4 DEF Token
    <2>2. \A i \in 1 .. Len(b) : ~b[i].ends
        BY <1>4
    <2>3. Len(b) = 0 => b = <<>>
        BY <1>1
    <2> HIDE DEF ends
    <2> QED
        BY <1>1, <2>1, <2>2, <2>3
<1> QED
    BY <1>3, <1>4

\* What holds where the scanner cuts a token of m pieces off its buffer.
Cut(w, a, e, g, x, k, m, token, rest) ==
    /\ token \in Seq(Piece) /\ token # <<>> /\ rest \in Seq(Piece)
    /\ Head(token).line = w[k + 1].line
    /\ \A i \in k + 1 .. k + m : w[i] \in Elements(token)
    /\ Unread(w, a, rest, k + m) /\ Exposed(w, e, x, k + m)
    /\ Whole(token) \/ \A i \in k + 1 .. k + m : w[i].line \in x
    /\ \A i \in 1 .. Len(g) : /\ TokenLine(g, i) <= w[k + m].line
                              /\ \/ TokenLine(g, i) < w[k + 1].line
                                 \/ TokenLine(g, i) = w[k + 1].line /\ w[k + 1].line \in x

\* Taking a line off what was scanned cuts the file's text in two.
LEMMA CutFacts ==
    ASSUME NEW w, NEW a, NEW b, NEW e, NEW g, NEW x, NEW k, NEW m \in 1 .. Len(b),
           FileOK(w, a, b, e, g, x, k),
           \A i \in 1 .. m - 1 : ~b[i].ends, b[m].ends \/ e
    PROVE  Cut(w, a, e, g, x, k, m, SubSeq(b, 1, m), SubSeq(b, m + 1, Len(b)))
<1> DEFINE token == SubSeq(b, 1, m)
           rest == SubSeq(b, m + 1, Len(b))
           n == Len(w)
<1>1. /\ w \in Seq(Piece) /\ a \in Seq(Piece) /\ b \in Seq(Piece) /\ e \in BOOLEAN
      /\ g \in Seq(Seq(Piece)) /\ x \in SUBSET Nat
      /\ n \in Nat /\ Len(a) \in Nat /\ Len(b) \in Nat
    BY DEF FileOK, FileTyped
<1>2. /\ k \in Nat /\ k + Len(b) + Len(a) = n
      /\ \A i \in 1 .. Len(b) : b[i] = w[k + i]
      /\ \A i \in 1 .. Len(a) : a[i] = w[k + Len(b) + i]
    BY DEF FileOK, Unread
<1>3. /\ token \in Seq(Piece) /\ Len(token) = m /\ \A i \in 1 .. m : token[i] = b[i]
      /\ rest \in Seq(Piece) /\ Len(rest) = Len(b) - m
      /\ \A i \in 1 .. Len(rest) : rest[i] = b[m + i]
    BY <1>1
<1>4. token # <<>> /\ Head(token) = token[1] /\ Seqs!Last(token) = token[m]
    BY <1>3 DEF Seqs!Last
<1> HIDE DEF token, rest, n
<1>5. /\ m \in Nat /\ k + 1 \in 1 .. n /\ k + m \in 1 .. n /\ 1 \in 1 .. m /\ m \in 1 .. m
      /\ 1 \in 1 .. Len(b)
    BY <1>1, <1>2
<1>6. Head(token) = w[k + 1] /\ Seqs!Last(token) = w[k + m] /\ b[m] = w[k + m]
    BY <1>2, <1>3, <1>4, <1>5
<1>7. ASSUME NEW i \in k + 1 .. k + m PROVE w[i] \in Elements(token)
    <2>1. i - k \in 1 .. m /\ i - k \in 1 .. Len(b) /\ k + (i - k) = i
        BY <1>1, <1>2, <1>5
    <2>2. token[i - k] = w[i]
        BY <1>2, <1>3, <2>1
    <2> QED
        BY <1>3, <2>1, <2>2 DEF Elements
<1>8. Unread(w, a, rest, k + m)
    <2>1. ASSUME NEW i \in 1 .. Len(rest) PROVE rest[i] = w[(k + m) + i]
        <3>1. m + i \in 1 .. Len(b) /\ k + (m + i) = (k + m) + i
            BY <1>1, <1>2, <1>3, <1>5
        <3>2. rest[i] = b[m + i] /\ b[m + i] = w[k + (m + i)]
            BY <1>2, <1>3, <3>1
        <3> QED
            BY <3>1, <3>2
    <2>2. ASSUME NEW i \in 1 .. Len(a) PROVE a[i] = w[(k + m) + Len(rest) + i]
        <3>1. (k + m) + Len(rest) + i = k + Len(b) + i
            BY <1>1, <1>2, <1>3, <1>5
        <3> QED
            BY <1>2, <3>1
    <2>3. k + m \in Nat /\ (k + m) + Len(rest) + Len(a) = Len(w)
        <3>1. k \in Nat /\ m \in Nat /\ Len(b) \in Nat /\ Len(a) \in Nat /\ Len(rest) = Len(b) - m
            BY <1>1, <1>2, <1>3, <1>5
        <3>2. k + Len(b) + Len(a) = Len(w)
            BY <1>1, <1>2 DEF n
        <3> QED
            BY <3>1, <3>2
    <2> QED
        BY <2>1, <2>2, <2>3 DEF Unread
<1>9. ASSUME e, NEW i \in k + 1 .. n PROVE w[i].line \in x
    BY <1>9 DEF FileOK, Exposed, n
<1>10. Exposed(w, e, x, k + m)
    <2>1. ASSUME e, NEW i \in (k + m) + 1 .. n PROVE w[i].line \in x
        <3>1. i \in k + 1 .. n
            BY <1>1, <1>2, <1>5
        <3> QED
            BY <1>9, <2>1, <3>1
    <2>2. ASSUME ~w[k + m].ends PROVE w[k + m].line \in x
        <3>1. e /\ k + m \in k + 1 .. n
            BY <1>1, <1>2, <1>5, <1>6, <2>2
        <3> QED
            BY <1>9, <3>1
    <2> QED
        BY <2>1, <2>2 DEF Exposed, n
\* A line the scanner begins in the middle of was cut before, and is exposed.
<1>11. ASSUME ~w[k + 1].starts PROVE k > 0 /\ w[k + 1].line \in x
    <2>1. k # 0
        <3>1. w # <<>>
            BY <1>1, <1>5 DEF n
        <3>2. w[1].starts
            BY <3>1 DEF FileOK, Lines
        <3> QED
            BY <1>11, <3>2
    <2>2. k \in 1 .. Len(w) - 1
        BY <1>1, <1>2, <1>5, <2>1 DEF n
    <2>3. ~w[k].ends /\ w[k + 1].line = w[k].line
        BY <1>11, <2>2 DEF FileOK, Lines
    <2> QED
        BY <1>2, <2>1, <2>3 DEF FileOK, Exposed
<1>12. Whole(token) \/ \A i \in k + 1 .. k + m : w[i].line \in x
    <2>1. CASE e
        <3>1. \A i \in k + 1 .. k + m : i \in k + 1 .. n
            BY <1>1, <1>2, <1>5
        <3> QED
            BY <1>9, <2>1, <3>1
    <2>2. CASE ~e /\ w[k + 1].starts
        <3>1. w[k + m].ends
            BY <1>6, <2>2
        <3> QED
            BY <1>6, <2>2, <3>1 DEF Whole
    <2>3. CASE ~e /\ ~w[k + 1].starts
        <3>1. w[k + 1].ends
            BY <1>5, <2>3 DEF FileOK, Lines, n
        <3>2. m = 1
            <4>1. b[1].ends
                BY <1>2, <1>5, <3>1
            <4>2. 1 \notin 1 .. m - 1
                BY <4>1
            <4> QED
                BY <1>5, <4>2
        <3>3. \A i \in k + 1 .. k + m : i = k + 1
            BY <1>2, <3>2
        <3> QED
            BY <1>11, <2>3, <3>3
    <2> QED
        BY <2>1, <2>2, <2>3
<1>13. ASSUME NEW i \in 1 .. Len(g)
       PROVE  /\ TokenLine(g, i) <= w[k + m].line
              /\ \/ TokenLine(g, i) < w[k + 1].line
                 \/ TokenLine(g, i) = w[k + 1].line /\ w[k + 1].line \in x
    <2>1. g[i] # <<>> /\ k > 0 /\ TokenLine(g, i) <= w[k].line
        BY DEF FileOK, Delivered
    <2>2. k \in 1 .. n /\ k < k + 1
        <3>1. k \in Nat /\ n \in Nat /\ k + 1 \in 1 .. n /\ k > 0
            BY <1>1, <1>2, <1>5, <2>1
        <3> QED
            BY <3>1
    <2>3. g[i] \in Seq(Piece) /\ Head(g[i]) \in Piece
        BY <1>1, <2>1, ElementOfSeq
    <2>4. w[k] \in Piece /\ w[k + 1] \in Piece /\ w[k + m] \in Piece
        BY <1>1, <1>5, <2>2, ElementOfSeq DEF n
    <2>5. /\ TokenLine(g, i) \in Nat /\ w[k].line \in Nat
          /\ w[k + 1].line \in Nat /\ w[k + m].line \in Nat
        BY <2>3, <2>4 DEF Piece, TokenLine
    <2>6. w[k].line < w[k + 1].line \/ (w[k].line = w[k + 1].line /\ ~w[k].ends)
        BY <1>5, <2>2 DEF FileOK, Lines, n
    <2>7. ~w[k].ends => w[k].line \in x
        BY <2>1 DEF FileOK, Exposed
    <2>8. w[k + 1].line <= w[k + m].line
        <3>1. CASE m = 1
            BY <2>5, <3>1
        <3>2. CASE m # 1
            <4>1. k + 1 < k + m
                BY <1>2, <1>5, <3>2
            <4>2. w[k + 1].line < w[k + m].line \/ w[k + 1].line = w[k + m].line
                BY <1>5, <4>1 DEF FileOK, Lines, n
            <4> QED
                BY <2>5, <4>2
        <3> QED
            BY <3>1, <3>2
    <2> QED
        BY <2>1, <2>5, <2>6, <2>7, <2>8
<1> QED
    BY <1>3, <1>4, <1>6, <1>7, <1>8, <1>10, <1>12, <1>13 DEF Cut, token, rest

\* A token that becomes an event.
LEMMA GiveKeeps ==
    ASSUME NEW w, NEW a, NEW b, NEW e, NEW g, NEW x, NEW k, NEW m \in 1 .. Len(b),
           FileOK(w, a, b, e, g, x, k),
           \A i \in 1 .. m - 1 : ~b[i].ends, b[m].ends \/ e
    PROVE  FileOK(w, a, SubSeq(b, m + 1, Len(b)), e, Append(g, SubSeq(b, 1, m)), x, k + m)
<1> DEFINE token == SubSeq(b, 1, m)
           rest == SubSeq(b, m + 1, Len(b))
           h == Append(g, token)
<1>1. /\ w \in Seq(Piece) /\ a \in Seq(Piece) /\ b \in Seq(Piece) /\ e \in BOOLEAN
      /\ g \in Seq(Seq(Piece)) /\ x \in SUBSET Nat /\ Len(g) \in Nat /\ Len(b) \in Nat
      /\ k \in Nat /\ m \in Nat /\ m > 0
    BY DEF FileOK, FileTyped, Unread
<1>2. Cut(w, a, e, g, x, k, m, token, rest)
    BY CutFacts
<1> HIDE DEF token, rest
<1>3. /\ h \in Seq(Seq(Piece)) /\ Len(h) = Len(g) + 1 /\ h[Len(g) + 1] = token
      /\ \A i \in 1 .. Len(g) : h[i] = g[i]
    <2>1. token \in Seq(Piece)
        BY <1>2 DEF Cut
    <2> QED
        BY <1>1, <2>1
<1> HIDE DEF h
<1>4. /\ \A i \in 1 .. Len(g) : TokenLine(h, i) = TokenLine(g, i)
      /\ TokenLine(h, Len(g) + 1) = w[k + 1].line
      /\ \A i \in 1 .. Len(h) : i \in 1 .. Len(g) \/ i = Len(g) + 1
    <2>1. Head(token).line = w[k + 1].line
        BY <1>2 DEF Cut
    <2>2. \A i \in 1 .. Len(h) : i \in 1 .. Len(g) \/ i = Len(g) + 1
        BY <1>1, <1>3
    <2> QED
        BY <1>3, <2>1, <2>2 DEF TokenLine
<1>5. w[k + 1].line <= w[k + m].line
    <2>1. k + 1 \in 1 .. Len(w) /\ k + m \in 1 .. Len(w) /\ Len(w) \in Nat
        <3>1. k + Len(b) + Len(a) = Len(w) /\ Len(w) \in Nat /\ Len(a) \in Nat
            BY <1>1 DEF FileOK, Unread
        <3> QED
            BY <1>1, <3>1
    <2>2. w[k + 1].line \in Nat /\ w[k + m].line \in Nat
        <3>1. \A i \in 1 .. Len(w) : w[i] \in Piece
            BY <1>1, ElementOfSeq
        <3> QED
            BY <2>1, <3>1 DEF Piece
    <2>3. CASE m = 1
        BY <2>2, <2>3
    <2>4. CASE m # 1
        <3>1. k + 1 < k + m
            BY <1>1, <2>4
        <3>2. w[k + 1].line < w[k + m].line \/ w[k + 1].line = w[k + m].line
            BY <2>1, <3>1 DEF FileOK, Lines
        <3> QED
            BY <2>2, <3>2
    <2> QED
        BY <2>3, <2>4
<1>6. ASSUME NEW i \in 1 .. Len(h)
      PROVE  /\ h[i] # <<>> /\ k + m > 0 /\ TokenLine(h, i) <= w[k + m].line
             /\ Whole(h[i]) \/ TokenLine(h, i) \in x
    <2>1. CASE i \in 1 .. Len(g)
        <3>1. g[i] # <<>> /\ (Whole(g[i]) \/ TokenLine(g, i) \in x)
            BY <2>1 DEF FileOK, Delivered
        <3>2. TokenLine(g, i) <= w[k + m].line
            BY <1>2, <2>1 DEF Cut
        <3>3. k + m > 0
            BY <1>1
        <3> QED
            BY <1>3, <1>4, <2>1, <3>1, <3>2, <3>3
    <2>2. CASE i = Len(g) + 1
        <3>1. k + 1 \in k + 1 .. k + m /\ k + m > 0
            BY <1>1
        <3>2. token # <<>> /\ (Whole(token) \/ w[k + 1].line \in x)
            BY <1>2, <3>1 DEF Cut
        <3> QED
            BY <1>3, <1>4, <1>5, <2>2, <3>1, <3>2
    <2> QED
        BY <1>4, <2>1, <2>2
<1>7. ASSUME NEW i \in 1 .. Len(h), NEW j \in 1 .. Len(h), i < j
      PROVE  \/ TokenLine(h, i) < TokenLine(h, j)
             \/ TokenLine(h, i) = TokenLine(h, j) /\ TokenLine(h, j) \in x
    <2>1. i \in 1 .. Len(g)
        BY <1>1, <1>3, <1>7
    <2>2. CASE j \in 1 .. Len(g)
        BY <1>4, <1>7, <2>1, <2>2 DEF FileOK, Delivered
    <2>3. CASE j = Len(g) + 1
        BY <1>2, <1>4, <2>1, <2>3 DEF Cut
    <2> QED
        BY <1>4, <2>2, <2>3
<1>8. ASSUME NEW i \in 1 .. k + m
      PROVE  w[i].line \in x \/ \E j \in 1 .. Len(h) : w[i] \in Elements(h[j])
    <2>1. CASE i \in 1 .. k
        <3>1. CASE w[i].line \in x
            BY <3>1
        <3>2. CASE \E j \in 1 .. Len(g) : w[i] \in Elements(g[j])
            <4>1. PICK j \in 1 .. Len(g) : w[i] \in Elements(g[j])
                BY <3>2
            <4>2. j \in 1 .. Len(h) /\ h[j] = g[j]
                BY <1>1, <1>3
            <4> QED
                BY <4>1, <4>2
        <3> QED
            BY <2>1, <3>1, <3>2 DEF FileOK, Delivered
    <2>2. CASE i \notin 1 .. k
        <3>1. i \in k + 1 .. k + m /\ Len(g) + 1 \in 1 .. Len(h)
            BY <1>1, <1>3, <2>2
        <3>2. w[i] \in Elements(token)
            BY <1>2, <3>1 DEF Cut
        <3> QED
            BY <1>3, <3>1, <3>2
    <2> QED
        BY <2>1, <2>2
<1>9. Delivered(w, h, x, k + m)
    BY <1>6, <1>7, <1>8 DEF Delivered
<1>10. FileOK(w, a, rest, e, h, x, k + m)
    BY <1>1, <1>2, <1>3, <1>9 DEF FileOK, FileTyped, Cut
<1> QED
    BY <1>10 DEF token, rest, h

\* A fragment that yields no event.
LEMMA SkipKeeps ==
    ASSUME NEW w, NEW a, NEW b, NEW e, NEW g, NEW x, NEW k, NEW m \in 1 .. Len(b),
           FileOK(w, a, b, e, g, x, k), ~Whole(SubSeq(b, 1, m)),
           \A i \in 1 .. m - 1 : ~b[i].ends, b[m].ends \/ e
    PROVE  FileOK(w, a, SubSeq(b, m + 1, Len(b)), e, g, x, k + m)
<1> DEFINE token == SubSeq(b, 1, m)
           rest == SubSeq(b, m + 1, Len(b))
<1>1. /\ w \in Seq(Piece) /\ a \in Seq(Piece) /\ b \in Seq(Piece) /\ e \in BOOLEAN
      /\ g \in Seq(Seq(Piece)) /\ x \in SUBSET Nat /\ Len(b) \in Nat
      /\ k \in Nat /\ m \in Nat /\ m > 0
    BY DEF FileOK, FileTyped, Unread
<1>2. /\ rest \in Seq(Piece)
      /\ Unread(w, a, rest, k + m) /\ Exposed(w, e, x, k + m)
      /\ \A i \in k + 1 .. k + m : w[i].line \in x
      /\ \A i \in 1 .. Len(g) : TokenLine(g, i) <= w[k + m].line
    <2>1. Cut(w, a, e, g, x, k, m, token, rest)
        BY CutFacts
    <2> HIDE DEF token, rest
    <2>2. ~Whole(token)
        BY DEF token
    <2> QED
        BY <2>1, <2>2 DEF Cut
<1> HIDE DEF token, rest
<1>3. ASSUME NEW i \in 1 .. k + m
      PROVE  w[i].line \in x \/ \E j \in 1 .. Len(g) : w[i] \in Elements(g[j])
    <2>1. CASE i \in 1 .. k
        BY <2>1 DEF FileOK, Delivered
    <2>2. CASE i \notin 1 .. k
        <3>1. i \in k + 1 .. k + m
            BY <1>1, <2>2
        <3> QED
            BY <1>2, <3>1
    <2> QED
        BY <2>1, <2>2
<1>4. k + m > 0
    BY <1>1
<1>5. Delivered(w, g, x, k + m)
    BY <1>2, <1>3, <1>4 DEF FileOK, Delivered
<1>6. FileOK(w, a, rest, e, g, x, k + m)
    BY <1>1, <1>2, <1>5 DEF FileOK, FileTyped
<1> QED
    BY <1>6 DEF rest

-----------------------------------------------------------------------------
(* The steps of writers and tailers.                                        *)

FileState == [wrote : Seq(Piece), ahead : Seq(Piece), buf : Seq(Piece), eof : BOOLEAN,
              given : Seq(Seq(Piece)), exposed : SUBSET Nat]

Sound(t) == \E k \in Nat : FileOK(t.wrote, t.ahead, t.buf, t.eof, t.given, t.exposed, k)

TailInv == tail \in [Files -> FileState] /\ \A f \in Files : Sound(tail[f])

\* A step of one file's writer or tailer leaves the others alone.
LEMMA FileStep ==
    ASSUME TailInv, NEW f \in Files, NEW t \in FileState, Sound(t), Tails(f, t)
    PROVE  TailInv'
<1>1. tail' \in [Files -> FileState] /\ tail'[f] = t /\ \A g \in Files \ {f} : tail'[g] = tail[g]
    BY DEF TailInv, Tails
<1>2. \A g \in Files : Sound(tail'[g])
    BY <1>1 DEF TailInv
<1> QED
    BY <1>1, <1>2 DEF TailInv, Sound

\* A server's write keeps the account of a file,
LEMMA WriteStep ==
    ASSUME TailInv, NEW f \in Files, Write(f)
    PROVE  TailInv'
<1> DEFINE t == tail[f]
           w == t.wrote
           open == w # <<>> /\ ~Seqs!Last(w).ends
           line == IF w = <<>> THEN 1 ELSE Seqs!Last(w).line + (IF open THEN 0 ELSE 1)
<1>1. t \in FileState /\ Sound(t) /\ w \in Seq(Piece)
    BY DEF TailInv, FileState
<1>2. PICK k \in Nat : FileOK(w, t.ahead, t.buf, t.eof, t.given, t.exposed, k)
    BY <1>1 DEF Sound
<1>3. w # <<>> => Seqs!Last(w) = w[Len(w)] /\ w[Len(w)] \in Piece
    BY <1>1 DEF Seqs!Last
<1>4. PICK ends \in BOOLEAN :
         LET piece == [line |-> line, starts |-> ~open, ends |-> ends]
         IN /\ open => ends
            /\ Tails(f, [t EXCEPT !.wrote = Append(@, piece), !.ahead = Append(@, piece),
                                  !.exposed = IF t.eof THEN @ \cup {line} ELSE @])
    BY DEF Write
<1> DEFINE piece == [line |-> line, starts |-> ~open, ends |-> ends]
           u == [t EXCEPT !.wrote = Append(@, piece), !.ahead = Append(@, piece),
                          !.exposed = IF t.eof THEN @ \cup {line} ELSE @]
<1>5. line \in Nat
    BY <1>3 DEF Piece
<1>6. /\ piece \in Piece /\ piece.line = line /\ (piece.starts \/ piece.ends)
      /\ w = <<>> => piece.starts
      /\ w # <<>> => /\ piece.starts = w[Len(w)].ends
                     /\ piece.line = w[Len(w)].line + (IF w[Len(w)].ends THEN 1 ELSE 0)
    <2>1. w # <<>> => w[Len(w)].ends \in BOOLEAN /\ w[Len(w)].line \in Nat
        BY <1>3 DEF Piece
    <2>2. open \in BOOLEAN /\ piece \in Piece /\ piece.line = line /\ piece.starts = ~open /\ piece.ends = ends
        BY <1>5 DEF Piece
    <2> QED
        BY <1>3, <1>4, <2>1, <2>2
<1> HIDE DEF piece, line, open
<1>7. /\ u.wrote = Append(w, piece) /\ u.ahead = Append(t.ahead, piece) /\ u.buf = t.buf
      /\ u.eof = t.eof /\ u.given = t.given /\ u.exposed = IF t.eof THEN t.exposed \cup {line} ELSE t.exposed
    BY <1>1 DEF FileState
<1>8. FileOK(Append(w, piece), Append(t.ahead, piece), t.buf, t.eof, t.given,
             IF t.eof THEN t.exposed \cup {piece.line} ELSE t.exposed, k)
    BY <1>2, <1>6, WriteKeeps
<1>9. Sound(u)
    BY <1>6, <1>7, <1>8 DEF Sound
<1>10. u \in FileState
    <2> DEFINE v == Append(w, piece)
               c == Append(t.ahead, piece)
               y == IF t.eof THEN t.exposed \cup {line} ELSE t.exposed
    <2>1. v \in Seq(Piece) /\ c \in Seq(Piece) /\ y \in SUBSET Nat
        BY <1>1, <1>5, <1>6 DEF FileState
    <2>2. u = [t EXCEPT !.wrote = v, !.ahead = c, !.exposed = y]
        BY <1>1 DEF FileState
    <2> HIDE DEF v, c, y, u
    <2> QED
        BY <1>1, <2>1, <2>2 DEF FileState
<1>11. Tails(f, u)
    BY <1>4 DEF piece
<1> HIDE DEF u
<1> QED
    BY <1>9, <1>10, <1>11, FileStep

\* so does reading on,
LEMMA ReadMoreStep ==
    ASSUME TailInv, NEW f \in Files, ReadMore(f)
    PROVE  TailInv'
<1> DEFINE t == tail[f]
<1>1. t \in FileState /\ Sound(t)
    BY DEF TailInv
<1>2. PICK k \in Nat : FileOK(t.wrote, t.ahead, t.buf, t.eof, t.given, t.exposed, k)
    BY <1>1 DEF Sound
<1>3. ~t.eof /\ t.eof \in BOOLEAN
    BY <1>1 DEF ReadMore, FileState
<1>4. FileOK(t.wrote, t.ahead, t.buf, FALSE, t.given, t.exposed, k)
    <2>1. t.eof = FALSE
        BY <1>3
    <2> QED
        BY <1>2, <2>1
<1>5. CASE t.ahead # <<>>
    <2> DEFINE u == [t EXCEPT !.buf = @ \o t.ahead, !.ahead = <<>>]
    <2>1. FileOK(t.wrote, <<>>, t.buf \o t.ahead, FALSE, t.given, t.exposed, k)
        BY <1>4, FetchKeeps
    <2>2. /\ u.wrote = t.wrote /\ u.ahead = <<>> /\ u.buf = t.buf \o t.ahead
          /\ u.eof = FALSE /\ u.given = t.given /\ u.exposed = t.exposed
        BY <1>1, <1>3 DEF FileState
    <2>3. Sound(u) /\ u \in FileState
        BY <1>1, <2>1, <2>2 DEF Sound, FileOK, FileTyped, FileState
    <2>4. Tails(f, u)
        BY <1>5 DEF ReadMore
    <2> HIDE DEF u
    <2> QED
        BY <2>3, <2>4, FileStep
<1>6. CASE t.ahead = <<>>
    <2> DEFINE y == t.exposed \cup {p.line : p \in Elements(t.buf)}
               u == [t EXCEPT !.eof = TRUE, !.exposed = @ \cup {p.line : p \in Elements(t.buf)}]
    <2>1. FileOK(t.wrote, <<>>, t.buf, TRUE, t.given, y, k)
        BY <1>4, <1>6, EndKeeps
    <2>2. /\ u.wrote = t.wrote /\ u.ahead = <<>> /\ u.buf = t.buf
          /\ u.eof = TRUE /\ u.given = t.given /\ u.exposed = y
        BY <1>1, <1>6 DEF FileState
    <2>3. Tails(f, u)
        BY <1>6 DEF ReadMore
    <2>4. u = [t EXCEPT !.eof = TRUE, !.exposed = y]
        BY <1>1 DEF FileState
    <2>5. y \in SUBSET Nat
        BY <2>1 DEF FileOK, FileTyped
    <2> HIDE DEF y, u
    <2>6. Sound(u) /\ u \in FileState
        BY <1>1, <2>1, <2>2, <2>4, <2>5 DEF Sound, FileState
    <2> QED
        BY <2>6, <2>3, FileStep
<1> QED
    BY <1>5, <1>6

\* starting again where the file ends,
LEMMA ReseekStep ==
    ASSUME TailInv, NEW f \in Files, Reseek(f)
    PROVE  TailInv'
<1> DEFINE t == tail[f]
           u == [t EXCEPT !.ahead = <<>>, !.eof = FALSE]
<1>1. t \in FileState /\ Sound(t) /\ Token(t) = 0 /\ t.eof /\ t.eof \in BOOLEAN
    BY DEF TailInv, Reseek, FileState
<1>2. PICK k \in Nat : FileOK(t.wrote, t.ahead, t.buf, t.eof, t.given, t.exposed, k)
    BY <1>1 DEF Sound
<1>3. t.buf = <<>>
    BY <1>1, <1>2, TokenFacts
<1>4. t.eof = TRUE
    BY <1>1
<1>5. FileOK(t.wrote, t.ahead, <<>>, TRUE, t.given, t.exposed, k)
    BY <1>2, <1>3, <1>4
<1>6. FileOK(t.wrote, <<>>, <<>>, FALSE, t.given, t.exposed, Len(t.wrote))
    BY <1>5, ReseekKeeps
<1>7. /\ u.wrote = t.wrote /\ u.ahead = <<>> /\ u.buf = <<>>
      /\ u.eof = FALSE /\ u.given = t.given /\ u.exposed = t.exposed
    BY <1>1, <1>3 DEF FileState
<1>8. Len(t.wrote) \in Nat
    BY <1>1 DEF FileState
<1>9. Sound(u) /\ u \in FileState
    BY <1>1, <1>6, <1>7, <1>8 DEF Sound, FileOK, FileTyped, FileState
<1>10. Tails(f, u)
    BY DEF Reseek
<1> HIDE DEF u
<1> QED
    BY <1>9, <1>10, FileStep

\* and giving a line to the pipeline.
LEMMA ScanStep ==
    ASSUME TailInv, NEW f \in Files, Scan(f)
    PROVE  TailInv'
<1> DEFINE t == tail[f]
           m == Token(t)
           token == SubSeq(t.buf, 1, m)
           r == SubSeq(t.buf, m + 1, Len(t.buf))
           rest == [t EXCEPT !.buf = SubSeq(@, m + 1, Len(@))]
<1>1. t \in FileState /\ Sound(t) /\ t.buf \in Seq(Piece)
    BY DEF TailInv, FileState
<1>2. PICK k \in Nat : FileOK(t.wrote, t.ahead, t.buf, t.eof, t.given, t.exposed, k)
    BY <1>1 DEF Sound
<1>3. /\ token # <<>>
      /\ \/ Tails(f, [rest EXCEPT !.given = Append(@, token)])
         \/ ~Whole(token) /\ Tails(f, rest)
    BY DEF Scan
<1>4. /\ m \in 0 .. Len(t.buf)
      /\ m > 0 => (\A i \in 1 .. m - 1 : ~t.buf[i].ends) /\ (t.buf[m].ends \/ t.eof)
    BY <1>2, TokenFacts
<1> HIDE DEF m
<1>5. m \in 1 .. Len(t.buf) /\ token \in Seq(Piece) /\ r \in Seq(Piece)
    <2>1. m \in Nat /\ Len(t.buf) \in Nat /\ m <= Len(t.buf)
        BY <1>1, <1>4
    <2>2. m # 0
        BY <1>1, <1>3
    <2>3. token \in Seq(Piece)
        BY <1>1, <2>1
    <2>4. r \in Seq(Piece)
        BY <1>1, <2>1
    <2> QED
        BY <2>1, <2>2, <2>3, <2>4
<1>6. /\ m \in 1 .. Len(t.buf) /\ (\A i \in 1 .. m - 1 : ~t.buf[i].ends)
      /\ t.buf[m].ends \/ t.eof
    BY <1>4, <1>5
<1>7. rest = [t EXCEPT !.buf = r]
    BY <1>1 DEF FileState
<1>8. CASE Tails(f, [rest EXCEPT !.given = Append(@, token)])
    <2> DEFINE u == [rest EXCEPT !.given = Append(@, token)]
    <2>1. FileOK(t.wrote, t.ahead, r, t.eof, Append(t.given, token), t.exposed, k + m)
        BY <1>2, <1>6, GiveKeeps
    <2>2. /\ u.wrote = t.wrote /\ u.ahead = t.ahead /\ u.buf = r
          /\ u.eof = t.eof /\ u.given = Append(t.given, token) /\ u.exposed = t.exposed
        BY <1>1, <1>7 DEF FileState
    <2>3. k + m \in Nat
        BY <1>1, <1>5
    <2>4. Sound(u) /\ u \in FileState
        <3> HIDE DEF r, token
        <3> QED
            BY <1>1, <2>1, <2>2, <2>3 DEF Sound, FileOK, FileTyped, FileState
    <2> HIDE DEF u
    <2> QED
        BY <1>8, <2>4, FileStep DEF u
<1>9. CASE ~Whole(token) /\ Tails(f, rest)
    <2>1. FileOK(t.wrote, t.ahead, r, t.eof, t.given, t.exposed, k + m)
        BY <1>2, <1>6, <1>9, SkipKeeps
    <2>2. /\ rest.wrote = t.wrote /\ rest.ahead = t.ahead /\ rest.buf = r
          /\ rest.eof = t.eof /\ rest.given = t.given /\ rest.exposed = t.exposed
        BY <1>1, <1>7 DEF FileState
    <2>3. k + m \in Nat
        BY <1>1, <1>5
    <2>4. Sound(rest) /\ rest \in FileState
        <3> HIDE DEF r, token
        <3> QED
            BY <1>1, <2>1, <2>2, <2>3 DEF Sound, FileOK, FileTyped, FileState
    <2> HIDE DEF rest
    <2> QED
        BY <1>9, <2>4, FileStep
<1> QED
    BY <1>3, <1>8, <1>9

\* The account is right at the start,
LEMMA TailStart == IngestionInit => TailInv
<1> SUFFICES ASSUME IngestionInit PROVE TailInv
    OBVIOUS
<1>1. ASSUME NEW w \in {<<>>, HalfLine}
      PROVE  Opened(w) \in FileState /\ Sound(Opened(w))
    <2> DEFINE x == {p.line : p \in Elements(w)}
               t == Opened(w)
    <2>1. /\ <<>> \in Seq(Piece) /\ <<>> \in Seq(Seq(Piece)) /\ Len(<<>>) = 0
          /\ w \in Seq(Piece) /\ Len(w) \in {0, 1}
          /\ \A i \in 1 .. Len(w) : w[i] = [line |-> 1, starts |-> TRUE, ends |-> FALSE]
        <3> DEFINE p == [line |-> 1, starts |-> TRUE, ends |-> FALSE]
        <3>1. p \in Piece
            BY DEF Piece
        <3> HIDE DEF p
        <3>2. /\ <<p>> \in Seq(Piece) /\ Len(<<p>>) = 1 /\ <<p>>[1] = p
              /\ <<>> \in Seq(Piece) /\ <<>> \in Seq(Seq(Piece)) /\ Len(<<>>) = 0
            BY <3>1
        <3>3. w = <<>> \/ w = <<p>>
            BY DEF HalfLine, p
        <3>4. CASE w = <<>>
            BY <3>2, <3>4
        <3>5. CASE w = <<p>>
            <4>1. Len(w) = 1 /\ w \in Seq(Piece) /\ w[1] = p
                BY <3>2, <3>5
            <4>2. \A i \in 1 .. Len(w) : w[i] = p
                BY <4>1
            <4> QED
                BY <3>2, <4>1, <4>2 DEF p
        <3> QED
            BY <3>3, <3>4, <3>5
    <2>2. \A i \in 1 .. Len(w) : w[i].line \in x
        BY DEF Elements
    <2>3. x \in SUBSET Nat
        BY <2>1 DEF Elements
    <2>4. /\ t.wrote = w /\ t.ahead = <<>> /\ t.buf = <<>> /\ t.eof = FALSE /\ t.given = <<>>
          /\ t.exposed = x
        BY DEF Opened
    <2> HIDE DEF x
    <2>5. t \in FileState
        BY <2>1, <2>3 DEF Opened, FileState, x
    <2>6. /\ Lines(w) /\ Unread(w, <<>>, <<>>, Len(w)) /\ Exposed(w, FALSE, x, Len(w))
          /\ Delivered(w, <<>>, x, Len(w))
        BY <2>1, <2>2 DEF Lines, Unread, Exposed, Delivered
    <2>7. FileOK(w, <<>>, <<>>, FALSE, <<>>, x, Len(w)) /\ Len(w) \in Nat
        <3>1. Len(w) \in Nat
            BY <2>1
        <3>2. FileTyped(w, <<>>, <<>>, FALSE, <<>>, x)
            BY <2>1, <2>3 DEF FileTyped
        <3> QED
            BY <2>6, <3>1, <3>2 DEF FileOK
    <2> HIDE DEF t
    <2>8. Sound(t)
        BY <2>4, <2>7 DEF Sound
    <2> QED
        BY <2>5, <2>8 DEF t
<1>2. tail \in [Files -> {Opened(<<>>), Opened(HalfLine)}]
    BY DEF IngestionInit
<1> QED
    BY <1>1, <1>2 DEF TailInv

\* and every step keeps it.
LEMMA TailStep == TailInv /\ [IngestionNext]_ingestionVars => TailInv'
<1> SUFFICES ASSUME TailInv, [IngestionNext]_ingestionVars PROVE TailInv'
    OBVIOUS
<1>1. CASE UNCHANGED tail
    BY <1>1 DEF TailInv, Sound
<1>2. ASSUME NEW f \in Files, Write(f) PROVE TailInv'
    BY <1>2, WriteStep
<1>3. ASSUME NEW f \in Files, ReadMore(f) PROVE TailInv'
    BY <1>3, ReadMoreStep
<1>4. ASSUME NEW f \in Files, Scan(f) PROVE TailInv'
    BY <1>4, ScanStep
<1>5. ASSUME NEW f \in Files, Reseek(f) PROVE TailInv'
    BY <1>5, ReseekStep
<1> QED
    BY <1>1, <1>2, <1>3, <1>4, <1>5 DEF IngestionNext, PipelineNext, ingestionVars

\* A tailed line becomes one event, whole and in the order of the file, unless it is
\* being written when the tailer starts or while it turns round at the end of the file:
\* only such lines are lost, torn or doubled, whatever the channel does (Tailer.tailFile).
THEOREM EachLineOnce == IngestionSpec => []LinesReadOnce
<1>1. TailInv => LinesReadOnce
    <2> SUFFICES ASSUME TailInv, NEW f \in Files, NEW t, t = tail[f]
                 PROVE  LET Line(i) == Head(t.given[i]).line
                            Given == UNION {Elements(token) : token \in Elements(t.given)}
                            Waiting == Elements(t.buf) \cup Elements(t.ahead)
                        IN /\ \A i \in 1 .. Len(t.given) : Whole(t.given[i]) \/ Line(i) \in t.exposed
                           /\ \A i, j \in 1 .. Len(t.given) : i < j =>
                                 Line(i) < Line(j) \/ (Line(i) = Line(j) /\ Line(j) \in t.exposed)
                           /\ \A i \in 1 .. Len(t.given), p \in Waiting :
                                 Line(i) < p.line \/ (Line(i) = p.line /\ p.line \in t.exposed)
                           /\ \A p \in Elements(t.wrote) :
                                 p \in Given \cup Waiting \/ p.line \in t.exposed
        BY Zenon DEF LinesReadOnce
    <2> DEFINE w == t.wrote
               a == t.ahead
               b == t.buf
               g == t.given
               x == t.exposed
               Given == UNION {Elements(token) : token \in Elements(g)}
               Waiting == Elements(b) \cup Elements(a)
    <2>1. PICK k \in Nat : FileOK(w, a, b, t.eof, g, x, k)
        BY DEF TailInv, Sound
    <2> HIDE DEF w, a, b, g, x
    <2>2. /\ w \in Seq(Piece) /\ g \in Seq(Seq(Piece)) /\ Len(w) \in Nat
          /\ Len(b) \in Nat /\ Len(a) \in Nat
        BY <2>1 DEF FileOK, FileTyped
    <2>3. /\ k + Len(b) + Len(a) = Len(w)
          /\ \A i \in 1 .. Len(b) : b[i] = w[k + i]
          /\ \A i \in 1 .. Len(a) : a[i] = w[k + Len(b) + i]
        BY <2>1 DEF FileOK, Unread
    <2>4. /\ \A i \in 1 .. Len(g) : Whole(g[i]) \/ TokenLine(g, i) \in x
          /\ \A i, j \in 1 .. Len(g) : i < j =>
                TokenLine(g, i) < TokenLine(g, j)
                \/ (TokenLine(g, i) = TokenLine(g, j) /\ TokenLine(g, j) \in x)
        BY <2>1 DEF FileOK, Delivered
    <2>5. ASSUME NEW i \in 1 .. Len(g), NEW p \in Waiting
          PROVE  TokenLine(g, i) < p.line \/ (TokenLine(g, i) = p.line /\ p.line \in x)
        <3>1. PICK m \in k + 1 .. Len(w) : p = w[m]
            <4>1. CASE p \in Elements(b)
                <5>1. PICK n \in 1 .. Len(b) : p = b[n]
                    BY <4>1 DEF Elements
                <5>2. k + n \in k + 1 .. Len(w) /\ p = w[k + n]
                    BY <2>2, <2>3, <5>1
                <5> QED
                    BY <5>2
            <4>2. CASE p \in Elements(a)
                <5>1. PICK n \in 1 .. Len(a) : p = a[n]
                    BY <4>2 DEF Elements
                <5>2. k + Len(b) + n \in k + 1 .. Len(w) /\ p = w[k + Len(b) + n]
                    BY <2>2, <2>3, <5>1
                <5> QED
                    BY <5>2
            <4> QED
                BY <2>5, <4>1, <4>2
        <3>2. g[i] # <<>> /\ k > 0 /\ TokenLine(g, i) <= w[k].line
            BY <2>1 DEF FileOK, Delivered
        <3>3. k \in 1 .. Len(w) /\ m \in 1 .. Len(w) /\ k < m
            BY <2>2, <3>1, <3>2
        <3>4. w[k].line < w[m].line \/ (w[k].line = w[m].line /\ ~w[k].ends)
            BY <2>1, <3>3 DEF FileOK, Lines
        <3>5. ~w[k].ends => w[k].line \in x
            BY <2>1, <3>2 DEF FileOK, Exposed
        <3>6. TokenLine(g, i) \in Nat /\ w[k].line \in Nat /\ w[m].line \in Nat
            <4>1. g[i] \in Seq(Piece) /\ Head(g[i]) \in Piece
                BY <2>2, <3>2, ElementOfSeq
            <4>2. w[k] \in Piece /\ w[m] \in Piece
                BY <2>2, <3>3, ElementOfSeq
            <4> QED
                BY <4>1, <4>2 DEF Piece, TokenLine
        <3> QED
            BY <3>1, <3>2, <3>4, <3>5, <3>6
    <2>6. ASSUME NEW p \in Elements(w)
          PROVE  p \in Given \cup Waiting \/ p.line \in x
        <3>1. PICK m \in 1 .. Len(w) : p = w[m]
            BY DEF Elements
        <3>2. CASE m \in 1 .. k
            <4>1. w[m].line \in x \/ \E j \in 1 .. Len(g) : w[m] \in Elements(g[j])
                BY <2>1, <3>2 DEF FileOK, Delivered
            <4>2. ASSUME NEW j \in 1 .. Len(g), w[m] \in Elements(g[j]) PROVE p \in Given
                <5>1. g[j] \in Elements(g)
                    BY DEF Elements
                <5> QED
                    BY <3>1, <4>2, <5>1
            <4> HIDE DEF Given
            <4> QED
                BY <3>1, <4>1, <4>2
        <3>3. CASE m \in k + 1 .. k + Len(b)
            <4>1. m - k \in 1 .. Len(b) /\ k + (m - k) = m
                BY <2>2, <3>3
            <4>2. p = b[m - k]
                BY <2>3, <3>1, <4>1
            <4> QED
                BY <4>1, <4>2 DEF Elements
        <3>4. CASE m \in k + Len(b) + 1 .. Len(w)
            <4>1. m - k - Len(b) \in 1 .. Len(a) /\ k + Len(b) + (m - k - Len(b)) = m
                BY <2>2, <2>3, <3>4
            <4>2. p = a[m - k - Len(b)]
                BY <2>3, <3>1, <4>1
            <4> QED
                BY <4>1, <4>2 DEF Elements
        <3> QED
            BY <2>2, <3>2, <3>3, <3>4
    <2> QED
        BY <2>4, <2>5, <2>6 DEF TokenLine, w, a, b, g, x
<1> QED
    BY <1>1, TailStart, TailStep, PTL DEF IngestionSpec
=============================================================================
