---------------------------- MODULE EventProofs ----------------------------
(* What becomes of an event the pipeline has accepted, for any capacity,    *)
(* depth, window and number of events: the hub shows it to the streams      *)
(* (RequestHub), the ring remembers it (RequestRing), and the rules count   *)
(* it (DetectionWindows).                                                   *)
EXTENDS RequestRing, RequestHub, DetectionWindows,
        SequenceTheorems, FiniteSetTheorems, WellFoundedInduction, TLAPS

-----------------------------------------------------------------------------
(* Sequences of event numbers.                                             *)

\* Strictly rising, above `low' and not above `high'.
Rising(q, low, high) ==
    /\ \A i \in 1 .. Len(q) : low < q[i] /\ q[i] <= high
    /\ \A i, j \in 1 .. Len(q) : i < j => q[i] < q[j]

\* A newer event may follow a rising stream.
LEMMA RisingAppend ==
    ASSUME NEW q \in Seq(Nat), NEW low \in Nat, NEW high \in Nat, NEW e \in Nat,
           Rising(q, low, high), high < e, low <= high
    PROVE  Rising(Append(q, e), low, e)
<1>1. /\ Append(q, e) \in Seq(Nat) /\ Len(Append(q, e)) = Len(q) + 1 /\ Len(q) \in Nat
      /\ Append(q, e)[Len(q) + 1] = e
      /\ \A i \in 1 .. Len(q) : Append(q, e)[i] = q[i] /\ q[i] \in Nat
    OBVIOUS
<1> DEFINE t == Append(q, e)
<1> HIDE DEF t
<1>2. \A i \in 1 .. Len(t) : i \in 1 .. Len(q) \/ i = Len(q) + 1
    BY <1>1 DEF t
<1>3. ASSUME NEW i \in 1 .. Len(t) PROVE low < t[i] /\ t[i] <= e
    BY <1>1, <1>2, <1>3 DEF Rising, t
<1>4. ASSUME NEW i \in 1 .. Len(t), NEW j \in 1 .. Len(t), i < j PROVE t[i] < t[j]
    <2>1. i \in 1 .. Len(q) /\ q[i] <= high
        BY <1>1, <1>2, <1>4 DEF Rising, t
    <2>2. CASE j \in 1 .. Len(q)
        BY <1>1, <1>4, <2>1, <2>2 DEF Rising, t
    <2>3. CASE j = Len(q) + 1
        BY <1>1, <2>1, <2>3 DEF t
    <2> QED
        BY <1>2, <2>2, <2>3
<1> QED
    BY <1>1, <1>3, <1>4 DEF Rising, t

\* A stream is what was received and then what waits; receiving moves the boundary.
LEMMA ConcatFacts ==
    ASSUME NEW r \in Seq(Nat), NEW c \in Seq(Nat)
    PROVE  /\ r \o c \in Seq(Nat) /\ Len(r \o c) = Len(r) + Len(c)
           /\ \A i \in 1 .. Len(r) + Len(c) :
                 (r \o c)[i] = IF i <= Len(r) THEN r[i] ELSE c[i - Len(r)]
OBVIOUS

\* A channel is its head followed by its tail.
LEMMA HeadAndTail ==
    ASSUME NEW c \in Seq(Nat), c # <<>>
    PROVE  <<Head(c)>> \o Tail(c) = c
<1>1. /\ Head(c) \in Nat /\ Tail(c) \in Seq(Nat)
      /\ Len(Tail(c)) = Len(c) - 1 /\ Len(c) \in Nat /\ Len(c) > 0
    OBVIOUS
<1>2. <<Head(c)>> \in Seq(Nat) /\ Len(<<Head(c)>>) = 1
    BY <1>1
<1>3. <<Head(c)>> \o Tail(c) \in Seq(Nat) /\ Len(<<Head(c)>> \o Tail(c)) = Len(c)
    BY <1>1, <1>2
<1>4. ASSUME NEW i \in 1 .. Len(c) PROVE (<<Head(c)>> \o Tail(c))[i] = c[i]
    BY <1>1, <1>2
<1> QED
    BY <1>3, <1>4, SeqEqual

\* Concatenation is associative.
LEMMA Associative ==
    ASSUME NEW x \in Seq(Nat), NEW y \in Seq(Nat), NEW z \in Seq(Nat)
    PROVE  (x \o y) \o z = x \o (y \o z)
<1>1. /\ x \o y \in Seq(Nat) /\ y \o z \in Seq(Nat)
      /\ (x \o y) \o z \in Seq(Nat) /\ x \o (y \o z) \in Seq(Nat)
      /\ Len((x \o y) \o z) = Len(x) + Len(y) + Len(z)
      /\ Len(x \o (y \o z)) = Len(x) + Len(y) + Len(z)
    OBVIOUS
<1>2. ASSUME NEW i \in 1 .. Len(x) + Len(y) + Len(z)
      PROVE  ((x \o y) \o z)[i] = (x \o (y \o z))[i]
    OBVIOUS
<1> QED
    BY <1>1, <1>2, SeqEqual

\* Receiving moves an event from the channel to what was received.
LEMMA ConcatReceive ==
    ASSUME NEW r \in Seq(Nat), NEW c \in Seq(Nat), c # <<>>
    PROVE  Append(r, Head(c)) \o Tail(c) = r \o c
<1>1. Head(c) \in Nat /\ Tail(c) \in Seq(Nat)
    OBVIOUS
<1> DEFINE h == <<Head(c)>>
           t == Tail(c)
<1>2. h \in Seq(Nat)
    BY <1>1
<1>3. Append(r, Head(c)) = r \o h
    BY <1>1, AppendIsConcat
<1>4. t \in Seq(Nat) /\ h \o t = c
    BY <1>1, HeadAndTail
<1> HIDE DEF h, t
<1>5. (r \o h) \o t = r \o (h \o t)
    <2>1. r \in Seq(Nat) /\ h \in Seq(Nat) /\ t \in Seq(Nat)
        BY <1>2, <1>4
    <2> QED
        BY <2>1, Associative
<1>6. (r \o h) \o t = r \o c
    BY <1>4, <1>5
<1> QED
    BY <1>3, <1>6 DEF t

\* Sending adds an event at the end.
LEMMA ConcatSend ==
    ASSUME NEW r \in Seq(Nat), NEW c \in Seq(Nat), NEW e \in Nat
    PROVE  r \o Append(c, e) = Append(r \o c, e)
OBVIOUS

\* Dropping the oldest waiting event leaves a rising stream.
LEMMA ConcatDrop ==
    ASSUME NEW r \in Seq(Nat), NEW c \in Seq(Nat), c # <<>>
    PROVE  /\ r \o c \in Seq(Nat) /\ Len(r \o c) = Len(r) + Len(c)
           /\ r \o Tail(c) \in Seq(Nat) /\ Len(r \o Tail(c)) = Len(r) + Len(c) - 1
           /\ Len(r) \in Nat /\ Len(c) \in Nat /\ Len(c) > 0
           /\ \A i \in 1 .. Len(r) + Len(c) - 1 :
                 (r \o Tail(c))[i] = IF i <= Len(r) THEN (r \o c)[i] ELSE (r \o c)[i + 1]
OBVIOUS

\* Without its oldest waiting event, a rising stream still rises.
LEMMA RisingDrop ==
    ASSUME NEW r \in Seq(Nat), NEW c \in Seq(Nat), c # <<>>, NEW low \in Nat, NEW high \in Nat,
           Rising(r \o c, low, high)
    PROVE  Rising(r \o Tail(c), low, high)
<1> DEFINE q == r \o c
           t == r \o Tail(c)
<1>1. /\ Len(q) = Len(r) + Len(c) /\ Len(t) = Len(r) + Len(c) - 1
      /\ Len(r) \in Nat /\ Len(c) \in Nat /\ Len(c) > 0
      /\ Len(q) \in Nat /\ Len(t) \in Nat
    BY ConcatDrop
<1>0. ASSUME NEW i \in 1 .. Len(r) + Len(c) - 1
      PROVE  t[i] = IF i <= Len(r) THEN q[i] ELSE q[i + 1]
    BY ConcatDrop
<1>6. ASSUME NEW i \in 1 .. Len(q) PROVE q[i] \in Nat
    BY ConcatDrop
<1> HIDE DEF q, t
<1>2. /\ \A i \in 1 .. Len(q) : low < q[i] /\ q[i] <= high
      /\ \A i, j \in 1 .. Len(q) : i < j => q[i] < q[j]
    BY DEF Rising, q
<1>3. ASSUME NEW i \in 1 .. Len(t), NEW j \in 1 .. Len(t)
      PROVE  /\ low < t[i] /\ t[i] <= high
             /\ i < j => t[i] < t[j]
    <2>1. /\ i \in 1 .. Len(r) + Len(c) - 1 /\ i \in 1 .. Len(q) /\ i + 1 \in 1 .. Len(q)
          /\ j \in 1 .. Len(r) + Len(c) - 1 /\ j \in 1 .. Len(q) /\ j + 1 \in 1 .. Len(q)
        BY <1>1
    <2>2. /\ t[i] = IF i <= Len(r) THEN q[i] ELSE q[i + 1]
          /\ t[j] = IF j <= Len(r) THEN q[j] ELSE q[j + 1]
        BY <1>0, <2>1
    <2>3. low < t[i] /\ t[i] <= high
        BY <1>2, <1>6, <2>1, <2>2
    <2>4. ASSUME i < j PROVE t[i] < t[j]
        <3> DEFINE k == IF i <= Len(r) THEN i ELSE i + 1
                   l == IF j <= Len(r) THEN j ELSE j + 1
        <3>1. k \in 1 .. Len(q) /\ l \in 1 .. Len(q) /\ k < l
            BY <1>1, <2>1, <2>4
        <3>2. t[i] = q[k] /\ t[j] = q[l]
            BY <2>2
        <3> HIDE DEF k, l
        <3> QED
            BY <1>2, <1>6, <3>1, <3>2
    <2> QED
        BY <2>3, <2>4
<1>5. Rising(t, low, high)
    BY <1>3 DEF Rising
<1> QED
    BY <1>5 DEF t

-----------------------------------------------------------------------------
(* The hub.  What holds of one stream, by the values the hub has for it:    *)
(* `owed' says that the running Publish has still to serve it.              *)

Top(pub, owed) == IF owed THEN pub - 1 ELSE pub

StreamOK(st, ch, rc, si, dr, pub, owed) ==
    /\ st \in {"new", "subscribed", "left"}
    /\ ch \in Seq(Nat) /\ rc \in Seq(Nat) /\ si \in Nat /\ dr \in Nat
    /\ pub \in Nat /\ owed \in BOOLEAN
    /\ Len(ch) <= Depth
    /\ owed => st = "subscribed"
    /\ si <= Top(pub, owed)
    /\ Rising(rc \o ch, si, Top(pub, owed))
    /\ st = "new" => rc = <<>> /\ ch = <<>> /\ dr = 0
    /\ st = "subscribed" => Top(pub, owed) - si = Len(rc \o ch) + dr
    /\ st = "subscribed" /\ ~owed /\ pub > si =>
          rc \o ch # <<>> /\ (rc \o ch)[Len(rc \o ch)] = pub

StreamsOK ==
    \A s \in Streams :
        StreamOK(state[s], channel[s], received[s], since[s], dropped[s], published, s \in todo)

HubInv ==
    /\ HubTypeOK
    /\ serving # NoStream => serving \in todo
    /\ drained => serving # NoStream /\ HasRoom(serving)
    /\ StreamsOK

\* A new stream accounts for what is published from now on.
LEMMA SubscribeKeeps ==
    ASSUME NEW ch, NEW rc, NEW si, NEW dr, NEW pub,
           StreamOK("new", ch, rc, si, dr, pub, FALSE)
    PROVE  StreamOK("subscribed", ch, rc, pub, dr, pub, FALSE)
<1>1. /\ ch = <<>> /\ rc = <<>> /\ dr = 0 /\ pub \in Nat /\ Len(ch) <= Depth
      /\ ch \in Seq(Nat) /\ rc \in Seq(Nat)
    BY DEF StreamOK
<1>2. Len(rc \o ch) = 0
    BY <1>1
<1>3. Rising(rc \o ch, pub, pub)
    BY <1>2 DEF Rising
<1> QED
    BY <1>1, <1>2, <1>3 DEF StreamOK, Top

\* A stream that has left keeps its account.
LEMMA LeaveKeeps ==
    ASSUME NEW ch, NEW rc, NEW si, NEW dr, NEW pub,
           StreamOK("subscribed", ch, rc, si, dr, pub, FALSE)
    PROVE  StreamOK("left", ch, rc, si, dr, pub, FALSE)
BY DEF StreamOK

\* Receiving keeps the account.
LEMMA ReceiveKeeps ==
    ASSUME NEW ch, NEW rc, NEW si, NEW dr, NEW pub, NEW owed, ch # <<>>,
           Depth \in Nat, StreamOK("subscribed", ch, rc, si, dr, pub, owed)
    PROVE  StreamOK("subscribed", Tail(ch), Append(rc, Head(ch)), si, dr, pub, owed)
<1>1. ch \in Seq(Nat) /\ rc \in Seq(Nat)
    BY DEF StreamOK
<1>2. Append(rc, Head(ch)) \o Tail(ch) = rc \o ch
    BY <1>1, ConcatReceive
<1>3. /\ Append(rc, Head(ch)) \in Seq(Nat) /\ Tail(ch) \in Seq(Nat)
      /\ Len(Tail(ch)) = Len(ch) - 1 /\ Len(ch) \in Nat
    BY <1>1
<1>4. Len(ch) <= Depth => Len(Tail(ch)) <= Depth
    BY <1>3
<1> DEFINE a == Append(rc, Head(ch))
           b == Tail(ch)
<1> HIDE DEF a, b
<1>5. StreamOK("subscribed", b, a, si, dr, pub, owed)
    BY <1>2, <1>3, <1>4 DEF StreamOK, a, b
<1> QED
    BY <1>5 DEF a, b

\* A publication is owed to every subscriber.
LEMMA PublishKeeps ==
    ASSUME NEW st, NEW ch, NEW rc, NEW si, NEW dr, NEW pub,
           StreamOK(st, ch, rc, si, dr, pub, FALSE)
    PROVE  StreamOK(st, ch, rc, si, dr, pub + 1, st = "subscribed")
<1> DEFINE q == rc \o ch
<1>1. /\ pub \in Nat /\ si \in Nat /\ si <= pub /\ Rising(q, si, pub) /\ q \in Seq(Nat)
    BY DEF StreamOK, Top
<1> HIDE DEF q
<1>2. Rising(q, si, pub + 1)
    <2>1. ASSUME NEW i \in 1 .. Len(q) PROVE si < q[i] /\ q[i] <= pub + 1
        <3>1. q[i] \in Nat
            BY <1>1
        <3>2. si < q[i] /\ q[i] <= pub
            BY <1>1 DEF Rising
        <3> QED
            BY <1>1, <3>1, <3>2
    <2> QED
        BY <1>1, <2>1 DEF Rising
<1>3. CASE st = "subscribed"
    BY <1>1, <1>2, <1>3 DEF StreamOK, Top, q
<1>4. CASE st # "subscribed"
    BY <1>1, <1>2, <1>4 DEF StreamOK, Top, q
<1> QED
    BY <1>3, <1>4

\* Sending settles what is owed.
LEMMA SendKeeps ==
    ASSUME NEW st, NEW ch, NEW rc, NEW si, NEW dr, NEW pub,
           Depth \in Nat, Len(ch) < Depth, StreamOK(st, ch, rc, si, dr, pub, TRUE)
    PROVE  StreamOK(st, Append(ch, pub), rc, si, dr, pub, FALSE)
<1>1. /\ st = "subscribed" /\ ch \in Seq(Nat) /\ rc \in Seq(Nat) /\ si \in Nat /\ dr \in Nat
      /\ pub \in Nat /\ si <= pub - 1 /\ Rising(rc \o ch, si, pub - 1)
      /\ pub - 1 - si = Len(rc \o ch) + dr
    BY DEF StreamOK, Top
<1>2. pub - 1 \in Nat
    BY <1>1
<1>3. /\ rc \o ch \in Seq(Nat) /\ rc \o Append(ch, pub) = Append(rc \o ch, pub)
      /\ Append(ch, pub) \in Seq(Nat) /\ Len(Append(ch, pub)) = Len(ch) + 1 /\ Len(ch) \in Nat
    <2>1. rc \o Append(ch, pub) = Append(rc \o ch, pub)
        BY <1>1, ConcatSend
    <2>2. rc \o ch \in Seq(Nat)
        BY <1>1, ConcatFacts
    <2> QED
        BY <1>1, <2>1, <2>2
<1> DEFINE q == rc \o ch
           n == Append(ch, pub)
           t == Append(q, pub)
<1>4. Rising(t, si, pub)
    <2>1. q \in Seq(Nat) /\ Rising(q, si, pub - 1) /\ pub - 1 < pub
        BY <1>1, <1>3
    <2> DEFINE top == pub - 1
    <2>2. Rising(q, si, top) /\ top < pub /\ top \in Nat /\ si <= top
        BY <1>1, <1>2, <2>1
    <2> HIDE DEF q, top
    <2> QED
        BY <1>1, <2>1, <2>2, RisingAppend
<1>5. /\ Len(t) = Len(q) + 1 /\ t[Len(t)] = pub /\ t # <<>> /\ Len(q) \in Nat
    BY <1>1, <1>3
<1>6. rc \o n = t /\ n \in Seq(Nat) /\ Len(n) <= Depth
    BY <1>3
<1> HIDE DEF q, n, t
<1>7. pub - si = Len(t) + dr
    BY <1>1, <1>5 DEF q
<1>8. StreamOK(st, n, rc, si, dr, pub, FALSE)
    <2>1. Top(pub, FALSE) = pub /\ si <= pub
        BY <1>1 DEF Top
    <2> QED
        BY <1>1, <1>4, <1>5, <1>6, <1>7, <2>1 DEF StreamOK
<1> QED
    BY <1>8 DEF n

\* Dropping the oldest waiting event is accounted for, and makes room.
LEMMA DropKeeps ==
    ASSUME NEW ch, NEW rc, NEW si, NEW dr, NEW pub, ch # <<>>,
           Depth \in Nat, StreamOK("subscribed", ch, rc, si, dr, pub, TRUE)
    PROVE  /\ StreamOK("subscribed", Tail(ch), rc, si, dr + 1, pub, TRUE)
           /\ Len(Tail(ch)) < Depth
<1>1. /\ ch \in Seq(Nat) /\ rc \in Seq(Nat) /\ si \in Nat /\ dr \in Nat /\ pub \in Nat
      /\ si <= pub - 1 /\ Rising(rc \o ch, si, pub - 1) /\ Len(ch) <= Depth
      /\ pub - 1 - si = Len(rc \o ch) + dr
    BY DEF StreamOK, Top
<1>2. pub - 1 \in Nat
    BY <1>1
<1>3. Rising(rc \o Tail(ch), si, pub - 1)
    BY <1>1, <1>2, RisingDrop
<1>4. /\ Tail(ch) \in Seq(Nat) /\ Len(Tail(ch)) = Len(ch) - 1 /\ Len(ch) \in Nat
      /\ Len(rc \o Tail(ch)) = Len(rc \o ch) - 1 /\ Len(rc \o ch) \in Nat
    BY <1>1
<1>5. Len(Tail(ch)) < Depth
    BY <1>1, <1>4
<1> DEFINE b == Tail(ch)
           t == rc \o b
           n == Len(rc \o ch)
<1> HIDE DEF b, n
<1>6. pub - 1 - si = Len(t) + (dr + 1)
    <2> HIDE DEF t
    <2> QED
        BY <1>1, <1>4 DEF n, t, b
<1>7. b \in Seq(Nat) /\ Len(b) <= Depth
    BY <1>4, <1>5 DEF b
<1>8. Rising(t, si, pub - 1)
    BY <1>3 DEF b
<1>9. StreamOK("subscribed", b, rc, si, dr + 1, pub, TRUE)
    BY <1>1, <1>6, <1>7, <1>8 DEF StreamOK, Top
<1> QED
    BY <1>5, <1>9 DEF b

-----------------------------------------------------------------------------
(* Every step of the hub.                                                   *)

\* The values of the other streams do not change.
LEMMA OtherStreams ==
    ASSUME NEW s \in Streams, StreamsOK,
           state'[s] = state[s], channel'[s] = channel[s], received'[s] = received[s],
           since'[s] = since[s], dropped'[s] = dropped[s], published' = published,
           (s \in todo') = (s \in todo)
    PROVE  StreamOK(state[s], channel[s], received[s], since[s], dropped[s], published, s \in todo)'
BY DEF StreamsOK

\* Subscribe keeps the hub's invariant.
LEMMA SubscribeStep ==
    ASSUME HubInv, NEW s \in Streams, Subscribe(s)
    PROVE  HubInv'
<1> USE DEF Subscribe, publishVars, Locked
<1>1. HubTypeOK'
    BY DEF HubInv, HubTypeOK
<1>2. ASSUME NEW x \in Streams
      PROVE  StreamOK(state[x], channel[x], received[x], since[x], dropped[x], published, x \in todo)'
    <2>1. CASE x = s
        <3>0. state[s] = "new" /\ (s \in todo) = FALSE
            OBVIOUS
        <3>1. StreamOK("new", channel[s], received[s], since[s], dropped[s], published, FALSE)
            BY <3>0 DEF HubInv, StreamsOK
        <3>2. StreamOK("subscribed", channel[s], received[s], published, dropped[s], published, FALSE)
            BY <3>1, SubscribeKeeps
        <3>3. /\ state'[s] = "subscribed" /\ since'[s] = published
              /\ (s \in todo') = FALSE
            BY DEF HubInv, HubTypeOK
        <3> QED
            BY <2>1, <3>2, <3>3
    <2>2. CASE x # s
        BY <2>2, OtherStreams DEF HubInv, HubTypeOK
    <2> QED
        BY <2>1, <2>2
<1> QED
    BY <1>1, <1>2 DEF HubInv, StreamsOK, HasRoom

\* Unsubscribing keeps the hub's invariant.
LEMMA LeaveStep ==
    ASSUME HubInv, NEW s \in Streams, Leave(s)
    PROVE  HubInv'
<1> USE DEF Leave, publishVars, Locked
<1>1. HubTypeOK'
    BY DEF HubInv, HubTypeOK
<1>2. ASSUME NEW x \in Streams
      PROVE  StreamOK(state[x], channel[x], received[x], since[x], dropped[x], published, x \in todo)'
    <2>1. CASE x = s
        <3>1. state[s] = "subscribed" /\ (s \in todo) = FALSE
            OBVIOUS
        <3>2. StreamOK("subscribed", channel[s], received[s], since[s], dropped[s], published, FALSE)
            BY <3>1 DEF HubInv, StreamsOK
        <3>3. StreamOK("left", channel[s], received[s], since[s], dropped[s], published, FALSE)
            BY <3>2, LeaveKeeps
        <3>4. state'[s] = "left" /\ (s \in todo') = FALSE
            BY DEF HubInv, HubTypeOK
        <3> QED
            BY <2>1, <3>3, <3>4
    <2>2. CASE x # s
        BY <2>2, OtherStreams DEF HubInv, HubTypeOK
    <2> QED
        BY <2>1, <2>2
<1> QED
    BY <1>1, <1>2 DEF HubInv, StreamsOK, HasRoom

\* Receiving needs no lock: it can come between the three attempts of Publish, and
\* leaves the room that was made.
LEMMA ReceiveStep ==
    ASSUME Depth \in Nat, HubInv, NEW s \in Streams, Receive(s)
    PROVE  HubInv'
<1> USE DEF Receive, publishVars
<1>0. /\ channel[s] \in Seq(Nat) /\ channel[s] # <<>>
      /\ Tail(channel[s]) \in Seq(Nat) /\ Head(channel[s]) \in Nat
      /\ Len(Tail(channel[s])) = Len(channel[s]) - 1 /\ Len(channel[s]) \in Nat
      /\ Append(received[s], Head(channel[s])) \in Seq(Nat)
    BY DEF HubInv, HubTypeOK
<1>1. HubTypeOK'
    BY <1>0 DEF HubInv, HubTypeOK
<1>2. ASSUME NEW x \in Streams
      PROVE  StreamOK(state[x], channel[x], received[x], since[x], dropped[x], published, x \in todo)'
    <2>1. CASE x = s
        <3>1. StreamOK("subscribed", channel[s], received[s], since[s], dropped[s], published, s \in todo)
            BY DEF HubInv, StreamsOK
        <3>2. StreamOK("subscribed", Tail(channel[s]), Append(received[s], Head(channel[s])),
                       since[s], dropped[s], published, s \in todo)
            BY <1>0, <3>1, ReceiveKeeps
        <3>3. /\ channel'[s] = Tail(channel[s])
              /\ received'[s] = Append(received[s], Head(channel[s]))
              /\ state'[s] = "subscribed"
            BY DEF HubInv, HubTypeOK
        <3> QED
            BY <2>1, <3>2, <3>3
    <2>2. CASE x # s
        BY <2>2, OtherStreams DEF HubInv, HubTypeOK
    <2> QED
        BY <2>1, <2>2
<1>3. drained => HasRoom(serving)'
    <2>1. ASSUME drained PROVE Len(channel[serving]) < Depth /\ serving \in Streams
        BY <2>1 DEF HubInv, HasRoom, HubTypeOK
    <2>2. CASE serving = s
        BY <1>0, <2>1, <2>2 DEF HasRoom, HubInv, HubTypeOK
    <2>3. CASE serving # s
        BY <2>1, <2>3 DEF HasRoom, HubInv, HubTypeOK
    <2> QED
        BY <2>2, <2>3
<1> QED
    BY <1>1, <1>2, <1>3 DEF HubInv, StreamsOK

\* The start of Publish keeps the hub's invariant.
LEMMA PublishStarts ==
    ASSUME HubInv, Publish
    PROVE  HubInv'
<1> USE DEF Publish, streamVars, Locked
<1>1. HubTypeOK'
    BY DEF HubInv, HubTypeOK
<1>2. ASSUME NEW x \in Streams
      PROVE  StreamOK(state[x], channel[x], received[x], since[x], dropped[x], published, x \in todo)'
    <2>1. (x \in todo) = FALSE
        OBVIOUS
    <2>2. StreamOK(state[x], channel[x], received[x], since[x], dropped[x], published, FALSE)
        BY <2>1 DEF HubInv, StreamsOK
    <2>3. StreamOK(state[x], channel[x], received[x], since[x], dropped[x],
                   published + 1, state[x] = "subscribed")
        BY <2>2, PublishKeeps
    <2>4. (x \in todo') = (state[x] = "subscribed")
        OBVIOUS
    <2> QED
        BY <2>3, <2>4
<1>3. serving = NoStream /\ ~drained
    BY DEF HubInv
<1> QED
    BY <1>1, <1>2, <1>3 DEF HubInv, StreamsOK

\* A subscriber is served: it gets the event and Publish goes on to the next.
LEMMA SendStep ==
    ASSUME Depth \in Nat, HubInv, NEW s \in Streams, s \in todo, HasRoom(s),
           Send(s), Served(s), UNCHANGED <<state, received, since, dropped, published>>
    PROVE  HubInv'
<1> USE DEF Send, Served, HasRoom
<1>0. channel[s] \in Seq(Nat) /\ published \in Nat /\ Append(channel[s], published) \in Seq(Nat)
    BY DEF HubInv, HubTypeOK
<1>1. HubTypeOK'
    BY <1>0 DEF HubInv, HubTypeOK
<1>2. ASSUME NEW x \in Streams
      PROVE  StreamOK(state[x], channel[x], received[x], since[x], dropped[x], published, x \in todo)'
    <2>1. CASE x = s
        <3>1. (s \in todo) = TRUE
            OBVIOUS
        <3>2. StreamOK(state[s], channel[s], received[s], since[s], dropped[s], published, TRUE)
            BY <3>1 DEF HubInv, StreamsOK
        <3>3. StreamOK(state[s], Append(channel[s], published), received[s], since[s],
                       dropped[s], published, FALSE)
            BY <3>2, SendKeeps
        <3>4. channel'[s] = Append(channel[s], published) /\ (s \in todo') = FALSE
            BY DEF HubInv, HubTypeOK
        <3> QED
            BY <2>1, <3>3, <3>4
    <2>2. CASE x # s
        <3>1. (x \in todo') = (x \in todo)
            BY <2>2
        <3>2. channel'[x] = channel[x]
            BY <2>2 DEF HubInv, HubTypeOK
        <3> QED
            BY <3>1, <3>2, OtherStreams DEF HubInv
    <2> QED
        BY <2>1, <2>2
<1> QED
    BY <1>1, <1>2 DEF HubInv, StreamsOK

\* Each attempt of Publish keeps the hub's invariant.
LEMMA OfferStep ==
    ASSUME Depth \in Nat, HubInv, NEW s \in Streams, Offer(s)
    PROVE  HubInv'
<1> USE DEF Offer
<1>1. CASE HasRoom(s)
    BY <1>1, SendStep
<1>2. CASE ~HasRoom(s)
    <2>1. /\ serving' = s /\ ~drained
          /\ UNCHANGED <<state, channel, received, since, dropped, published, todo, drained>>
        BY <1>2 DEF HubInv
    <2>2. HubTypeOK'
        BY <2>1 DEF HubInv, HubTypeOK
    <2>3. StreamsOK'
        BY <2>1 DEF HubInv, StreamsOK
    <2> QED
        BY <2>1, <2>2, <2>3 DEF HubInv
<1> QED
    BY <1>1, <1>2

\* The oldest goes, or the reader was faster: in either case there is room now.
LEMMA DropOldestStep ==
    ASSUME Depth \in Nat \ {0}, HubInv, DropOldest
    PROVE  HubInv'
<1> USE DEF DropOldest
<1> DEFINE s == serving
<1>0. /\ s \in Streams /\ s \in todo /\ channel[s] \in Seq(Nat) /\ dropped[s] \in Nat
      /\ (s \in todo) = TRUE
      /\ StreamOK(state[s], channel[s], received[s], since[s], dropped[s], published, s \in todo)
    BY DEF HubInv, HubTypeOK, StreamsOK
<1>1. StreamOK("subscribed", channel[s], received[s], since[s], dropped[s], published, TRUE)
      /\ state[s] = "subscribed"
    <2>1. StreamOK(state[s], channel[s], received[s], since[s], dropped[s], published, TRUE)
        BY <1>0
    <2>2. state[s] = "subscribed"
        BY <2>1 DEF StreamOK
    <2> QED
        BY <2>1, <2>2
<1>2. CASE channel[s] # <<>>
    <2>1. /\ channel' = [channel EXCEPT ![s] = Tail(@)]
          /\ dropped' = [dropped EXCEPT ![s] = @ + 1]
          /\ drained' = TRUE /\ Tail(channel[s]) \in Seq(Nat) /\ dropped[s] + 1 \in Nat
          /\ UNCHANGED <<state, received, since, published, todo, serving>>
        BY <1>0, <1>2
    <2>2. HubTypeOK'
        BY <1>0, <2>1 DEF HubInv, HubTypeOK
    <2>3. /\ StreamOK("subscribed", Tail(channel[s]), received[s], since[s], dropped[s] + 1,
                      published, TRUE)
          /\ Len(Tail(channel[s])) < Depth
        BY <1>1, <1>2, DropKeeps
    <2>4. /\ channel'[s] = Tail(channel[s]) /\ dropped'[s] = dropped[s] + 1
          /\ state'[s] = "subscribed" /\ (s \in todo') = TRUE
        BY <1>0, <1>1, <2>1 DEF HubInv, HubTypeOK
    <2>5. ASSUME NEW x \in Streams
          PROVE  StreamOK(state[x], channel[x], received[x], since[x], dropped[x], published,
                          x \in todo)'
        <3>1. CASE x = s
            BY <2>1, <2>3, <2>4, <3>1
        <3>2. CASE x # s
            BY <2>1, <3>2, OtherStreams DEF HubInv, HubTypeOK
        <3> QED
            BY <3>1, <3>2
    <2> QED
        BY <1>0, <2>1, <2>2, <2>3, <2>4, <2>5 DEF HubInv, StreamsOK, HasRoom
<1>3. CASE channel[s] = <<>>
    <2>1. /\ UNCHANGED <<state, channel, received, since, dropped, published, todo, serving>>
          /\ drained' = TRUE
        BY <1>3
    <2>2. Len(channel[s]) < Depth
        BY <1>3
    <2>3. HubTypeOK'
        BY <2>1 DEF HubInv, HubTypeOK
    <2>4. StreamsOK'
        BY <2>1 DEF HubInv, StreamsOK
    <2> QED
        BY <1>0, <2>1, <2>2, <2>3, <2>4 DEF HubInv, HasRoom
<1> QED
    BY <1>2, <1>3

\* The branch that cuts a subscriber off cannot be taken: only Publish fills a channel.
LEMMA OfferAgainStep ==
    ASSUME Depth \in Nat, HubInv, OfferAgain
    PROVE  HubInv'
<1>1. serving \in Streams /\ serving \in todo /\ HasRoom(serving)
    BY DEF HubInv, HubTypeOK, OfferAgain
<1>2. /\ Send(serving) /\ Served(serving)
      /\ UNCHANGED <<state, received, since, dropped, published>>
    BY <1>1 DEF OfferAgain
<1> QED
    BY <1>1, <1>2, SendStep

\* The hub's invariant holds at the start,
LEMMA HubStart ==
    ASSUME Depth \in Nat, HubInit
    PROVE  HubInv
<1>0. <<>> \in Seq(Nat)
    OBVIOUS
<1>1. HubTypeOK
    BY <1>0 DEF HubInit, HubTypeOK
<1>2. ASSUME NEW s \in Streams
      PROVE  StreamOK("new", <<>>, <<>>, 0, 0, 0, FALSE)
    <2>1. <<>> \o <<>> \in Seq(Nat) /\ Len(<<>> \o <<>>) = 0
        OBVIOUS
    <2>2. Rising(<<>> \o <<>>, 0, 0)
        BY <2>1 DEF Rising
    <2> QED
        BY <2>1, <2>2 DEF StreamOK, Top
<1>3. ASSUME NEW s \in Streams
      PROVE  StreamOK(state[s], channel[s], received[s], since[s], dropped[s], published, s \in todo)
    <2>1. /\ state[s] = "new" /\ channel[s] = <<>> /\ received[s] = <<>> /\ since[s] = 0
          /\ dropped[s] = 0 /\ published = 0 /\ (s \in todo) = FALSE
        BY DEF HubInit
    <2> QED
        BY <1>2, <2>1
<1> QED
    BY <1>1, <1>3 DEF HubInv, StreamsOK, HubInit

\* every step keeps it,
LEMMA HubStep ==
    ASSUME Depth \in Nat \ {0}, HubInv, [HubNext]_hubVars
    PROVE  HubInv'
<1>1. CASE HubNext
    <2>1. ASSUME NEW s \in Streams, Subscribe(s) PROVE HubInv'
        BY <2>1, SubscribeStep
    <2>2. ASSUME NEW s \in Streams, Leave(s) PROVE HubInv'
        BY <2>2, LeaveStep
    <2>3. ASSUME NEW s \in Streams, Receive(s) PROVE HubInv'
        BY <2>3, ReceiveStep
    <2>4. ASSUME NEW s \in Streams, Offer(s) PROVE HubInv'
        BY <2>4, OfferStep
    <2>5. CASE Publish
        BY <2>5, PublishStarts
    <2>6. CASE DropOldest
        BY <2>6, DropOldestStep
    <2>7. CASE OfferAgain
        BY <2>7, OfferAgainStep
    <2> QED
        BY <1>1, <2>1, <2>2, <2>3, <2>4, <2>5, <2>6, <2>7 DEF HubNext, PublishStep
<1>2. CASE UNCHANGED hubVars
    BY <1>2 DEF hubVars, streamVars, publishVars, HubInv, HubTypeOK, StreamsOK, HasRoom
<1> QED
    BY <1>1, <1>2

\* and so it holds for ever.
LEMMA HubHolds == HubSpec => []HubInv
<1>1. HubInit => HubInv
    BY DepthAssumption, HubStart
<1>2. HubInv /\ [HubNext]_hubVars => HubInv'
    BY DepthAssumption, HubStep
<1> QED
    BY <1>1, <1>2, PTL DEF HubSpec

\* Streams, channels and the running Publish are always of the right kind.
THEOREM HubTypeCorrect == HubSpec => []HubTypeOK
<1>1. HubInv => HubTypeOK
    BY DEF HubInv
<1> QED
    BY <1>1, HubHolds, PTL

\* A subscriber is never cut off: the channel Publish has made room in still has
\* room when Publish tries again (requests.go Hub.Publish).
THEOREM NoStreamIsCut == HubSpec => []NobodyIsCutOff
<1>1. HubInv => NobodyIsCutOff
    BY DEF HubInv, StreamsOK, StreamOK, NobodyIsCutOff
<1> QED
    BY <1>1, HubHolds, PTL

\* What a slow reader loses is old: between two calls of Publish the newest event is
\* the last of every stream that subscribed before it.
THEOREM StreamsHaveTheNewest == HubSpec => []HasNewest
<1>1. HubInv => HasNewest
    <2> SUFFICES ASSUME HubInv, todo = {}, NEW s \in Streams,
                        state[s] = "subscribed", published > since[s]
                 PROVE  Stream(s) # <<>> /\ Stream(s)[Len(Stream(s))] = published
        BY DEF HasNewest, Locked
    <2>1. (s \in todo) = FALSE
        OBVIOUS
    <2>2. StreamOK(state[s], channel[s], received[s], since[s], dropped[s], published, FALSE)
        BY <2>1 DEF HubInv, StreamsOK
    <2> QED
        BY <2>2 DEF StreamOK, Stream
<1> QED
    BY <1>1, HubHolds, PTL

\* A stream shows the events of its own time, in order and none twice, and accounts
\* for each: received, waiting, or dropped to make room (Hub.Publish, StreamRequests).
THEOREM StreamsAreFaithful == HubSpec => []StreamFaithful
<1>1. HubInv => StreamFaithful
    <2> SUFFICES ASSUME HubInv, NEW s \in Streams, NEW q, q = Stream(s)
                 PROVE  /\ \A i \in 1 .. Len(q) :
                              q[i] > (IF i = 1 THEN since[s] ELSE q[i - 1]) /\ q[i] <= published
                        /\ state[s] = "subscribed" =>
                              published - since[s] = Len(q) + dropped[s]
                                                     + (IF s \in todo THEN 1 ELSE 0)
        BY Zenon DEF StreamFaithful
    <2> DEFINE top == Top(published, s \in todo)
    <2>1. StreamOK(state[s], channel[s], received[s], since[s], dropped[s], published, s \in todo)
        BY DEF HubInv, StreamsOK
    <2>2. /\ received[s] \in Seq(Nat) /\ channel[s] \in Seq(Nat)
          /\ since[s] \in Nat /\ published \in Nat /\ dropped[s] \in Nat
        BY <2>1 DEF StreamOK
    <2>3. /\ Rising(q, since[s], top)
          /\ state[s] = "subscribed" => top - since[s] = Len(q) + dropped[s]
        BY <2>1 DEF StreamOK, Stream
    <2>4. q \in Seq(Nat) /\ Len(q) \in Nat
        <3>1. received[s] \o channel[s] \in Seq(Nat)
            BY <2>2, ConcatFacts
        <3>2. q = received[s] \o channel[s]
            BY DEF Stream
        <3>3. q \in Seq(Nat)
            BY <3>1, <3>2
        <3> QED
            BY <3>3
    <2>5. (s \in todo => top = published - 1) /\ (s \notin todo => top = published)
        BY DEF Top
    <2> HIDE DEF top
    <2>6. ASSUME NEW i \in 1 .. Len(q)
          PROVE  q[i] > (IF i = 1 THEN since[s] ELSE q[i - 1]) /\ q[i] <= published
        <3>1. q[i] \in Nat /\ since[s] < q[i] /\ q[i] <= top
            BY <2>3, <2>4 DEF Rising
        <3>2. q[i] <= published
            BY <2>2, <2>5, <3>1
        <3>3. CASE i = 1
            BY <2>2, <3>1, <3>2, <3>3
        <3>4. CASE i # 1
            <4> DEFINE j == i - 1
            <4>1. j \in 1 .. Len(q) /\ j < i
                BY <2>4, <3>4
            <4> HIDE DEF j
            <4>2. q[j] < q[i] /\ q[j] \in Nat
                BY <2>3, <2>4, <4>1 DEF Rising
            <4> QED
                BY <3>1, <3>2, <3>4, <4>2 DEF j
        <3> QED
            BY <3>3, <3>4
    <2>7. ASSUME state[s] = "subscribed"
          PROVE  published - since[s] = Len(q) + dropped[s] + (IF s \in todo THEN 1 ELSE 0)
        <3>1. CASE s \in todo
            <4>1. published - 1 - since[s] = Len(q) + dropped[s]
                BY <2>3, <2>5, <2>7, <3>1
            <4> DEFINE p == published
                       n == Len(q)
                       a == since[s]
                       d == dropped[s]
            <4>2. p - 1 - a = n + d /\ p \in Nat /\ n \in Nat /\ a \in Nat /\ d \in Nat
                BY <2>2, <2>4, <4>1
            <4> HIDE DEF p, n, a, d
            <4>3. p - a = n + d + 1
                BY <4>2
            <4> QED
                BY <3>1, <4>3 DEF p, n, a, d
        <3>2. CASE s \notin todo
            <4>1. published - since[s] = Len(q) + dropped[s]
                BY <2>3, <2>5, <2>7, <3>2
            <4> QED
                BY <2>2, <2>4, <3>2, <4>1
        <3> QED
            BY <3>1, <3>2
    <2> QED
        BY <2>6, <2>7
<1> QED
    BY <1>1, HubHolds, PTL

-----------------------------------------------------------------------------
(* The ring.                                                                *)

\* The slot of the i-th event of a snapshot, without the remainder.
SlotOf(start, i) == IF start + i - 1 < Capacity THEN start + i - 1 ELSE start + i - 1 - Capacity

Start == IF full THEN next ELSE 0

Written(i) == full \/ i < next

RingInv ==
    /\ buf \in [Slots -> Event \cup {NoEvent}]
    /\ next \in Slots
    /\ full \in BOOLEAN
    /\ arrived \in Nat
    /\ \A i \in Slots : Written(i) => buf[i] \in Event /\ buf[i].n <= arrived

\* The remainder of a number below twice the divisor.
LEMMA Remainder ==
    ASSUME NEW n \in Nat \ {0}, NEW x \in Nat, x < n + n
    PROVE  x % n = IF x < n THEN x ELSE x - n
<1>1. CASE x < n
    BY <1>1
<1>2. CASE x >= n
    BY <1>2
<1> QED
    BY <1>1, <1>2

\* The last n elements of a sequence.
LEMMA LastOfFacts ==
    ASSUME NEW S, NEW s \in Seq(S), NEW n \in Nat \ {0}
    PROVE  /\ LastOf(s, n) \in Seq(S)
           /\ Len(LastOf(s, n)) = IF Len(s) > n THEN n ELSE Len(s)
           /\ \A i \in 1 .. Len(LastOf(s, n)) :
                 LastOf(s, n)[i] = s[i + (IF Len(s) > n THEN Len(s) - n ELSE 0)]
<1>1. CASE Len(s) > n
    <2> DEFINE m == Len(s) - n + 1
    <2>1. m \in 1 .. Len(s) /\ Len(s) \in Nat /\ Len(s) - m + 1 = n
        BY <1>1
    <2>2. LastOf(s, n) = SubSeq(s, m, Len(s))
        BY <1>1 DEF LastOf
    <2>3. /\ SubSeq(s, m, Len(s)) \in Seq(S)
          /\ Len(SubSeq(s, m, Len(s))) = n
          /\ \A i \in 1 .. n : SubSeq(s, m, Len(s))[i] = s[m + i - 1]
        BY <2>1, SubSeqProperties
    <2>4. \A i \in 1 .. n : m + i - 1 = i + (Len(s) - n)
        BY <2>1
    <2> HIDE DEF m
    <2> QED
        BY <1>1, <2>2, <2>3, <2>4
<1>2. CASE ~(Len(s) > n)
    BY <1>2 DEF LastOf
<1> QED
    BY <1>1, <1>2

SnapshotOK ==
    /\ Held \in 0 .. Capacity /\ Snapshot \in Seq(Event) /\ Len(Snapshot) = Held
    /\ \A i \in 1 .. Held : /\ SlotOf(Start, i) \in Slots
                            /\ Snapshot[i] = buf[SlotOf(Start, i)]
                            /\ Snapshot[i] \in Event /\ Snapshot[i].n <= arrived

\* A snapshot is the buffer from its oldest slot on.
LEMMA SnapshotFacts ==
    ASSUME RingInv
    PROVE  SnapshotOK
<1> USE CapacityAssumption DEF CapacityAssumption
<1>1. /\ next \in Nat /\ next < Capacity /\ full \in BOOLEAN
      /\ Held \in 0 .. Capacity /\ Start \in Slots /\ Start \in Nat /\ Start < Capacity
    BY DEF RingInv, Slots, Held, Start
<1>2. ASSUME NEW i \in 1 .. Held
      PROVE  /\ SlotOf(Start, i) \in Slots
             /\ (Start + i - 1) % Capacity = SlotOf(Start, i)
             /\ Written(SlotOf(Start, i))
    <2> DEFINE x == Start + i - 1
    <2>1. x \in Nat /\ x < Capacity + Capacity /\ SlotOf(Start, i) = IF x < Capacity THEN x ELSE x - Capacity
        BY <1>1 DEF SlotOf
    <2> HIDE DEF x
    <2>2. x % Capacity = SlotOf(Start, i)
        BY <2>1, Remainder
    <2>3. SlotOf(Start, i) \in Slots
        BY <2>1 DEF Slots
    <2> USE DEF x
    <2>4. Written(SlotOf(Start, i))
        BY <1>1, <2>1 DEF Written, SlotOf, Held, Start
    <2> QED
        BY <2>2, <2>3, <2>4
<1>3. Snapshot = [i \in 1 .. Held |-> buf[(Start + i - 1) % Capacity]]
    BY DEF Snapshot, Start
<1>4. ASSUME NEW i \in 1 .. Held
      PROVE  /\ Snapshot[i] = buf[SlotOf(Start, i)]
             /\ Snapshot[i] \in Event /\ Snapshot[i].n <= arrived
    BY <1>2, <1>3 DEF RingInv
<1>5. Snapshot \in Seq(Event) /\ Len(Snapshot) = Held
    <2>1. Held \in Nat
        BY <1>1
    <2>2. Snapshot \in [1 .. Held -> Event]
        BY <1>3, <1>4
    <2> QED
        BY <2>1, <2>2
<1> QED
    BY <1>1, <1>2, <1>4, <1>5 DEF SnapshotOK

\* The same after a step.
LEMMA NextSnapshotFacts == RingInv' => SnapshotOK'
<1>1. RingInv => SnapshotOK
    BY SnapshotFacts
<1> QED
    BY <1>1, PTL

\* One more event: the snapshot is the last Capacity of what it was and the event.
LEMMA AppendStep ==
    ASSUME RingInv, NEW asset \in Assets, RingAppend(asset)
    PROVE  RingInv' /\ Snapshot' = LastOf(Append(Snapshot, NewEvent(asset)), Capacity)
<1> USE CapacityAssumption DEF CapacityAssumption
<1> DEFINE e == NewEvent(asset)
           t == Append(Snapshot, e)
           l == LastOf(t, Capacity)
<1>1. e \in Event /\ e.n = arrived + 1 /\ arrived \in Nat /\ arrived' = arrived + 1
    BY DEF RingInv, NewEvent, Event, RingAppend
<1>2. /\ next \in Nat /\ next < Capacity /\ full \in BOOLEAN /\ next \in Slots
      /\ buf \in [Slots -> Event \cup {NoEvent}]
    BY DEF RingInv, Slots
<1>3. next' = IF next + 1 < Capacity THEN next + 1 ELSE 0
    <2> DEFINE x == next + 1
    <2>1. x \in Nat /\ x < Capacity + Capacity /\ (x < Capacity \/ x - Capacity = 0)
        BY <1>2
    <2>2. next' = x % Capacity
        BY DEF RingAppend
    <2> HIDE DEF x
    <2>3. x % Capacity = IF x < Capacity THEN x ELSE x - Capacity
        BY <2>1, Remainder
    <2>4. next' = IF x < Capacity THEN x ELSE 0
        BY <2>1, <2>2, <2>3
    <2> QED
        BY <2>4 DEF x
<1>4. full' = (full \/ next' = 0)
    BY DEF RingAppend
<1>5. /\ buf' \in [Slots -> Event \cup {NoEvent}]
      /\ buf'[next] = e
      /\ \A i \in Slots : i # next => buf'[i] = buf[i]
    BY <1>1, <1>2 DEF RingAppend
<1> HIDE DEF e
<1>6. RingInv'
    <2>1. full' \in BOOLEAN /\ next' \in Slots
        BY <1>2, <1>3, <1>4 DEF Slots
    <2>2. ASSUME NEW i \in Slots, Written(i)' PROVE buf'[i] \in Event /\ buf'[i].n <= arrived'
        <3>1. CASE i = next
            BY <1>1, <1>5, <3>1
        <3>2. CASE i # next
            <4>1. Written(i)
                BY <1>2, <1>3, <1>4, <2>2, <3>2 DEF Written, Slots
            <4>2. buf[i] \in Event /\ buf[i].n <= arrived
                BY <4>1 DEF RingInv
            <4>3. buf[i].n \in Nat
                BY <4>2 DEF Event
            <4> QED
                BY <1>1, <1>5, <3>2, <4>2, <4>3
        <3> QED
            BY <3>1, <3>2
    <2> QED
        BY <1>1, <1>5, <2>1, <2>2 DEF RingInv
<1>7. SnapshotOK /\ SnapshotOK'
    BY <1>6, SnapshotFacts, NextSnapshotFacts
<1>8. ASSUME NEW i \in 1 .. Held', ~full
      PROVE  Held' = Held + 1 /\ Snapshot'[i] = IF i = Held' THEN e ELSE Snapshot[i]
    <2>1. Held = next /\ Start = 0 /\ Held' = next + 1 /\ Start' = 0
        BY <1>2, <1>3, <1>4, <1>8 DEF Held, Start
    <2>2. i - 1 \in Slots /\ SlotOf(0, i) = i - 1
        BY <1>2, <2>1 DEF SlotOf, Slots
    <2>3. Snapshot'[i] = buf'[i - 1]
        BY <1>7, <2>1, <2>2 DEF SnapshotOK
    <2>4. i # Held' => Snapshot[i] = buf[i - 1]
        BY <1>2, <1>7, <2>1, <2>2 DEF SnapshotOK
    <2> QED
        BY <1>2, <1>5, <2>1, <2>2, <2>3, <2>4
<1>9. ASSUME NEW i \in 1 .. Held', full
      PROVE  /\ Held = Capacity /\ Held' = Capacity
             /\ Snapshot'[i] = IF i = Capacity THEN e ELSE Snapshot[i + 1]
    <2>1. Held = Capacity /\ Start = next /\ Held' = Capacity /\ Start' = next'
        BY <1>2, <1>4, <1>9 DEF Held, Start
    <2>2. i \in Nat /\ i >= 1 /\ i <= Capacity
        BY <2>1
    <2>3. Snapshot'[i] = buf'[SlotOf(next', i)] /\ SlotOf(next', i) \in Slots
        BY <1>7, <2>1 DEF SnapshotOK
    <2>4. CASE i = Capacity
        <3>1. SlotOf(next', i) = next
            BY <1>2, <1>3, <2>2, <2>4 DEF SlotOf
        <3> QED
            BY <1>5, <2>1, <2>3, <2>4, <3>1
    <2>5. CASE i # Capacity
        <3>1. SlotOf(next', i) = SlotOf(next, i + 1) /\ SlotOf(next', i) # next /\ i + 1 \in 1 .. Held
            BY <1>2, <1>3, <2>1, <2>2, <2>5 DEF SlotOf
        <3>2. Snapshot[i + 1] = buf[SlotOf(next, i + 1)]
            BY <1>7, <2>1, <3>1 DEF SnapshotOK
        <3> QED
            BY <1>5, <2>1, <2>3, <2>5, <3>1, <3>2
    <2> QED
        BY <2>4, <2>5
<1>10. /\ t \in Seq(Event) /\ Len(t) = Held + 1 /\ Held \in Nat
       /\ \A i \in 1 .. Held + 1 : t[i] = IF i = Held + 1 THEN e ELSE Snapshot[i]
    BY <1>1, <1>7 DEF SnapshotOK
<1> HIDE DEF t
<1>11. /\ l \in Seq(Event) /\ Len(l) = (IF Held + 1 > Capacity THEN Capacity ELSE Held + 1)
       /\ \A i \in 1 .. Len(l) : l[i] = t[i + (IF Held + 1 > Capacity THEN Held + 1 - Capacity ELSE 0)]
    BY <1>10, LastOfFacts
<1> HIDE DEF l
<1>12. /\ Snapshot' \in Seq(Event) /\ Len(Snapshot') = Held'
       /\ Held' \in 0 .. Capacity /\ Held \in 0 .. Capacity
    BY <1>7 DEF SnapshotOK
<1>13. ASSUME ~full PROVE Snapshot' = l
    <2>1. Held' = next + 1 /\ Held = next
        <3>1. CASE next + 1 < Capacity
            <4>1. next' = next + 1 /\ ~full'
                BY <1>2, <1>3, <1>4, <1>13, <3>1
            <4> QED
                BY <1>13, <4>1 DEF Held
        <3>2. CASE ~(next + 1 < Capacity)
            <4>1. next' = 0
                BY <1>3, <3>2
            <4>2. full' = TRUE
                BY <1>4, <4>1
            <4>3. next + 1 = Capacity
                BY <1>2, <3>2
            <4> QED
                BY <1>13, <4>2, <4>3 DEF Held
        <3> QED
            BY <3>1, <3>2
    <2>2. ASSUME NEW i \in 1 .. Held' PROVE Snapshot'[i] = l[i]
        BY <1>8, <1>10, <1>11, <1>12, <1>13, <2>1
    <2> QED
        BY <1>11, <1>12, <2>1, <2>2, SeqEqual
<1>14. ASSUME full PROVE Snapshot' = l
    <2>1. Held' = Capacity /\ Held = Capacity
        BY <1>4, <1>14 DEF Held
    <2>2. ASSUME NEW i \in 1 .. Held' PROVE Snapshot'[i] = l[i]
        <3>1. l[i] = t[i + 1]
            BY <1>11, <2>1
        <3>2. t[i + 1] = IF i = Capacity THEN e ELSE Snapshot[i + 1]
            BY <1>10, <2>1
        <3> QED
            BY <1>9, <1>14, <3>1, <3>2
    <2> QED
        BY <1>11, <1>12, <2>1, <2>2, SeqEqual
<1>15. Snapshot' = l
    BY <1>13, <1>14
<1> QED
    BY <1>6, <1>15 DEF l, t, e

-----------------------------------------------------------------------------
(* Reading page by page.                                                    *)

\* A set that is mapped into another one to one is not larger.
LEMMA OneToOne ==
    ASSUME NEW A, NEW B, IsFiniteSet(A), IsFiniteSet(B), NEW f \in [A -> B],
           \A x, y \in A : f[x] = f[y] => x = y
    PROVE  Cardinality(A) <= Cardinality(B)
<1>1. Cardinality(A) \in Nat /\ Cardinality(B) \in Nat
    BY FS_CardinalityType
<1>2. ASSUME Cardinality(B) < Cardinality(A) PROVE FALSE
    <2>1. \E x, y \in A : x # y /\ f[x] = f[y]
        BY <1>2, FS_PigeonHole
    <2> QED
        BY <2>1
<1> QED
    BY <1>1, <1>2

\* The wanted events newer than the one at position i.
Behind(s, asset, i) == {j \in i + 1 .. Len(s) : Wanted(asset, s[j])}

\* The number of newer events is a number.
LEMMA NewerType ==
    ASSUME NEW s \in Seq(Event), NEW asset, NEW i \in Nat
    PROVE  /\ IsFiniteSet(Behind(s, asset, i)) /\ Newer(s, asset, i) \in Nat
           /\ Newer(s, asset, i) = Cardinality(Behind(s, asset, i))
<1>1. IsFiniteSet(i + 1 .. Len(s))
    BY FS_Interval
<1>2. Behind(s, asset, i) \in SUBSET (i + 1 .. Len(s))
    BY DEF Behind
<1>3. IsFiniteSet(Behind(s, asset, i))
    BY <1>1, <1>2, FS_Subset
<1>4. Newer(s, asset, i) = Cardinality(Behind(s, asset, i))
    BY DEF Newer, Behind
<1> QED
    BY <1>3, <1>4, FS_CardinalityType

\* Fewer events are newer than a later one.
LEMMA NewerFalls ==
    ASSUME NEW s \in Seq(Event), NEW asset, NEW i \in 1 .. Len(s), NEW j \in 1 .. Len(s),
           i < j, Wanted(asset, s[j])
    PROVE  Newer(s, asset, j) < Newer(s, asset, i)
<1> DEFINE A == Behind(s, asset, i)
           B == Behind(s, asset, j)
<1>1. /\ IsFiniteSet(A) /\ Newer(s, asset, i) = Cardinality(A) /\ Cardinality(A) \in Nat
      /\ IsFiniteSet(B) /\ Newer(s, asset, j) = Cardinality(B) /\ Cardinality(B) \in Nat
    BY NewerType, i \in Nat, j \in Nat
<1>2. j \in A /\ j \notin B /\ B \in SUBSET A
    BY DEF Behind
<1> HIDE DEF A, B
<1>3. Cardinality(B) <= Cardinality(A) /\ (Cardinality(A) = Cardinality(B) => A = B)
    BY <1>1, <1>2, FS_Subset
<1> QED
    BY <1>1, <1>2, <1>3

\* A page holds no more than the limit.
LEMMA PageBound ==
    ASSUME NEW s \in Seq(Event), NEW asset, NEW limit \in Int, NEW offset \in Nat
    PROVE  /\ IsFiniteSet(Page(s, asset, limit, offset))
           /\ Cardinality(Page(s, asset, limit, offset)) \in Nat
           /\ limit > 0 => Cardinality(Page(s, asset, limit, offset)) <= limit
<1> DEFINE P == Page(s, asset, limit, offset)
<1>1. IsFiniteSet(1 .. Len(s)) /\ P \in SUBSET (1 .. Len(s)) /\ Len(s) \in Nat
    BY FS_Interval DEF Page
<1>2. IsFiniteSet(P) /\ Cardinality(P) \in Nat
    BY <1>1, FS_Subset, FS_CardinalityType
<1>3. ASSUME limit > 0 PROVE Cardinality(P) <= limit
    <2> DEFINE f == [i \in P |-> Newer(s, asset, i)]
               R == offset .. offset + limit - 1
    <2>1. ASSUME NEW i \in P
          PROVE  i \in 1 .. Len(s) /\ Wanted(asset, s[i]) /\ Newer(s, asset, i) \in R
        <3>1. /\ i \in 1 .. Len(s) /\ Wanted(asset, s[i]) /\ Newer(s, asset, i) >= offset
              /\ Newer(s, asset, i) < offset + limit
            BY <1>3 DEF Page
        <3>2. Newer(s, asset, i) \in Nat
            BY <3>1, NewerType, i \in Nat
        <3> QED
            BY <3>1, <3>2
    <2>2. f \in [P -> R]
        BY <2>1
    <2>3. ASSUME NEW i \in P, NEW j \in P, f[i] = f[j] PROVE i = j
        <3>1. /\ i \in 1 .. Len(s) /\ j \in 1 .. Len(s) /\ Wanted(asset, s[i]) /\ Wanted(asset, s[j])
              /\ Newer(s, asset, i) = Newer(s, asset, j) /\ Newer(s, asset, i) \in Nat
            BY <2>1, <2>3
        <3>2. ~(i < j)
            BY <3>1, NewerFalls
        <3>3. ~(j < i)
            BY <3>1, NewerFalls
        <3> QED
            BY <3>1, <3>2, <3>3
    <2>4. IsFiniteSet(R) /\ Cardinality(R) = limit
        BY <1>3, FS_Interval
    <2> HIDE DEF f, R, P
    <2>5. Cardinality(P) <= Cardinality(R)
        BY <1>2, <2>2, <2>3, <2>4, OneToOne
    <2> QED
        BY <2>4, <2>5
<1> QED
    BY <1>2, <1>3

PagingInv ==
    /\ PagesTypeOK
    /\ client.start <= arrived
    /\ SkippedNothing(Snapshot)

\* Moving on by what was given: what lies behind the next offset and was wanted has
\* been given, now or before.
LEMMA ReadStep ==
    ASSUME NEW s \in Seq(Event), PagesTypeOK, SkippedNothing(s), ReadPage(s),
           client.start <= arrived
    PROVE  /\ PagesTypeOK' /\ client'.start <= arrived'
           /\ \A i \in 1 .. Len(s) :
                 Wanted(client'.asset, s[i]) /\ s[i].n <= client'.start =>
                     s[i] \in client'.seen \/ Newer(s, client'.asset, i) >= client'.offset
<1> DEFINE limit == PageLimit(client.limit)
           P == Page(s, client.asset, limit, client.offset)
<1>1. /\ client.asset \in Assets \cup {AnyAsset} /\ client.limit \in Limits /\ client.limit \in Int
      /\ client.offset \in Nat /\ client.seen \in SUBSET Event /\ client.start \in Nat
      /\ client = [asset |-> client.asset, limit |-> client.limit, offset |-> client.offset,
                   seen |-> client.seen, start |-> client.start]
    BY LimitsAssumption DEF PagesTypeOK, Paging, LimitsAssumption
<1>2. limit \in Int /\ (limit > 0 <=> client.limit > 0)
    BY <1>1, CapacityAssumption DEF PageLimit, CapacityAssumption
<1>3. /\ client' = [client EXCEPT !.offset = @ + Cardinality(P), !.seen = @ \cup {s[i] : i \in P}]
      /\ arrived' = arrived
    BY DEF ReadPage
<1>4. Cardinality(P) \in Nat /\ (limit > 0 => Cardinality(P) <= limit)
    BY <1>1, <1>2, PageBound
<1>5. /\ client'.asset = client.asset /\ client'.limit = client.limit /\ client'.start = client.start
      /\ client'.offset = client.offset + Cardinality(P)
      /\ client'.seen = client.seen \cup {s[i] : i \in P}
      /\ client' = [asset |-> client'.asset, limit |-> client'.limit, offset |-> client'.offset,
                    seen |-> client'.seen, start |-> client'.start]
    BY <1>1, <1>3
<1>6. {s[i] : i \in P} \subseteq Event
    BY DEF Page
<1>7. PagesTypeOK'
    <2>1. client'.offset \in Nat /\ client'.seen \in SUBSET Event
        BY <1>1, <1>4, <1>5, <1>6
    <2>2. client' \in Paging
        BY <1>1, <1>5, <2>1 DEF Paging
    <2> QED
        BY <1>3, <2>2 DEF PagesTypeOK
<1>8. ASSUME NEW i \in 1 .. Len(s), Wanted(client.asset, s[i]), s[i].n <= client.start
      PROVE  s[i] \in client'.seen \/ Newer(s, client.asset, i) >= client'.offset
    <2>1. s[i] \in client.seen \/ Newer(s, client.asset, i) >= client.offset
        BY <1>8 DEF SkippedNothing
    <2>2. Newer(s, client.asset, i) \in Nat
        BY NewerType, i \in Nat
    <2>3. ASSUME Newer(s, client.asset, i) >= client.offset, i \notin P
          PROVE  Newer(s, client.asset, i) >= client'.offset
        <3>1. limit > 0 /\ ~(Newer(s, client.asset, i) < client.offset + limit)
            BY <1>8, <2>3 DEF Page
        <3> QED
            BY <1>1, <1>2, <1>4, <1>5, <2>2, <3>1
    <2>4. i \in P => s[i] \in client'.seen
        BY <1>5
    <2>5. s[i] \in client.seen => s[i] \in client'.seen
        BY <1>5
    <2> QED
        BY <2>1, <2>3, <2>4, <2>5
<1> QED
    BY <1>3, <1>5, <1>7, <1>8

\* An event that is logged makes the others no newer: they stay seen, or behind the
\* next offset.
LEMMA LogStep ==
    ASSUME NEW s \in Seq(Event), NEW t \in Seq(Event), NEW e \in Event, SkippedNothing(s),
           t = LastOf(Append(s, e), Capacity), PagesTypeOK, e.n = arrived + 1,
           client.start <= arrived
    PROVE  SkippedNothing(t)
<1> DEFINE a == Append(s, e)
           d == IF Len(a) > Capacity THEN Len(a) - Capacity ELSE 0
<1>1. /\ a \in Seq(Event) /\ Len(a) = Len(s) + 1 /\ Len(s) \in Nat
      /\ \A k \in 1 .. Len(s) + 1 : a[k] = IF k = Len(s) + 1 THEN e ELSE s[k]
    OBVIOUS
<1>2. d \in Nat /\ Len(t) + d = Len(s) + 1 /\ Len(t) \in Nat
      /\ \A i \in 1 .. Len(t) : t[i] = a[i + d]
    <2>1. Capacity \in Nat \ {0}
        BY CapacityAssumption DEF CapacityAssumption
    <2> HIDE DEF a
    <2>2. /\ Len(t) = IF Len(a) > Capacity THEN Capacity ELSE Len(a)
          /\ \A i \in 1 .. Len(t) : t[i] = a[i + d]
        BY <1>1, <2>1, LastOfFacts DEF a
    <2> QED
        BY <1>1, <2>1, <2>2
<1> HIDE DEF a, d
<1>3. client.asset \in Assets \cup {AnyAsset} /\ client.start \in Nat /\ arrived \in Nat
      /\ client.offset \in Nat
    BY DEF PagesTypeOK, Paging
<1> SUFFICES ASSUME NEW i \in 1 .. Len(t), Wanted(client.asset, t[i]), t[i].n <= client.start
             PROVE  t[i] \in client.seen \/ Newer(t, client.asset, i) >= client.offset
    BY DEF SkippedNothing
<1> DEFINE k == i + d
<1>4. k \in 1 .. Len(s) + 1 /\ t[i] = a[k]
    BY <1>1, <1>2
<1>5. k # Len(s) + 1
    BY <1>1, <1>3, <1>4
<1>6. k \in 1 .. Len(s) /\ t[i] = s[k]
    BY <1>1, <1>4, <1>5
<1>7. s[k] \in client.seen \/ Newer(s, client.asset, k) >= client.offset
    BY <1>6 DEF SkippedNothing
<1>8. Newer(s, client.asset, k) <= Newer(t, client.asset, i)
    <2> DEFINE A == Behind(s, client.asset, k)
               B == Behind(t, client.asset, i)
               f == [j \in A |-> j - d]
    <2>1. /\ IsFiniteSet(A) /\ Newer(s, client.asset, k) = Cardinality(A)
          /\ IsFiniteSet(B) /\ Newer(t, client.asset, i) = Cardinality(B)
        BY <1>6, NewerType, i \in Nat, k \in Nat
    <2>2. ASSUME NEW j \in A PROVE j \in Nat /\ j - d \in B
        <3>1. j \in k + 1 .. Len(s) /\ Wanted(client.asset, s[j]) /\ j \in 1 .. Len(s) + 1 /\ j # Len(s) + 1
            BY <1>1, <1>6 DEF Behind
        <3>2. j - d \in i + 1 .. Len(t) /\ j - d \in 1 .. Len(t) /\ j - d + d = j
            BY <1>1, <1>2, <3>1
        <3>3. t[j - d] = s[j]
            BY <1>1, <1>2, <3>1, <3>2
        <3> QED
            BY <3>1, <3>2, <3>3 DEF Behind
    <2>3. f \in [A -> B]
        BY <2>2
    <2>4. \A x, y \in A : f[x] = f[y] => x = y
        BY <1>2, <2>2
    <2> HIDE DEF A, B, f
    <2> QED
        BY <2>1, <2>3, <2>4, OneToOne
<1>9. Newer(s, client.asset, k) \in Nat /\ Newer(t, client.asset, i) \in Nat
    BY <1>6, NewerType, i \in Nat, k \in Nat
<1> QED
    BY <1>3, <1>6, <1>7, <1>8, <1>9

\* A step that leaves the buffer alone leaves the snapshot alone.
LEMMA SnapshotUnchanged ==
    ASSUME UNCHANGED <<buf, next, full>>
    PROVE  Snapshot' = Snapshot
BY DEF Snapshot, Held

\* The invariants of ring and client hold at the start,
LEMMA RingStart ==
    ASSUME Init
    PROVE  RingInv /\ PagingInv /\ Snapshot = <<>>
<1> USE CapacityAssumption DEF CapacityAssumption
<1>1. RingInv
    <2>1. /\ next = 0 /\ full = FALSE /\ arrived = 0 /\ 0 \in Slots
          /\ buf \in [Slots -> Event \cup {NoEvent}]
        BY DEF Init, PagesInit, Slots
    <2>2. ASSUME NEW i \in Slots PROVE ~Written(i)
        BY <2>1 DEF Written, Slots
    <2> QED
        BY <2>1, <2>2 DEF RingInv
<1>2. Snapshot = <<>>
    <2>1. Snapshot \in Seq(Event) /\ Len(Snapshot) = 0
        BY <1>1, SnapshotFacts DEF SnapshotOK, Held, Init
    <2> QED
        BY <2>1
<1>3. PagesTypeOK /\ client.start <= arrived
    <2>1. PICK asset \in Assets \cup {AnyAsset}, limit \in Limits :
             client = [asset |-> asset, limit |-> limit, offset |-> 0, seen |-> {}, start |-> 0]
        BY DEF Init, PagesInit, StartPaging
    <2>2. client \in Paging /\ client.start = 0
        BY <2>1 DEF Paging
    <2> QED
        BY <2>2 DEF PagesTypeOK, Init, PagesInit
<1>4. SkippedNothing(Snapshot)
    BY <1>2 DEF SkippedNothing
<1> QED
    BY <1>1, <1>2, <1>3, <1>4 DEF PagingInv

\* every step of writer and client keeps them,
LEMMA RingStep ==
    ASSUME RingInv, PagingInv, [Next]_vars
    PROVE  RingInv' /\ PagingInv'
<1>0. Snapshot \in Seq(Event)
    BY SnapshotFacts DEF SnapshotOK
<1>1. ASSUME NEW asset \in Assets, RingAppend(asset) PROVE RingInv' /\ PagingInv'
    <2>1. RingInv' /\ Snapshot' = LastOf(Append(Snapshot, NewEvent(asset)), Capacity)
        BY <1>1, AppendStep
    <2>2. /\ client' = client /\ arrived' = arrived + 1 /\ arrived \in Nat /\ client \in Paging
          /\ client.start \in Nat /\ client.start <= arrived
          /\ NewEvent(asset) \in Event /\ NewEvent(asset).n = arrived + 1
        BY <1>1 DEF RingAppend, PagingInv, PagesTypeOK, Paging, NewEvent, Event
    <2>3. Snapshot' \in Seq(Event)
        BY <2>1, NextSnapshotFacts DEF SnapshotOK
    <2> DEFINE t == Snapshot'
               e == NewEvent(asset)
    <2>4. t \in Seq(Event) /\ e \in Event /\ e.n = arrived + 1 /\ t = LastOf(Append(Snapshot, e), Capacity)
        BY <2>1, <2>2, <2>3
    <2> HIDE DEF t, e
    <2>5. SkippedNothing(t)
        BY <1>0, <2>2, <2>4, LogStep DEF PagingInv
    <2>6. SkippedNothing(Snapshot)'
        BY <2>2, <2>5 DEF SkippedNothing, t
    <2>7. PagesTypeOK' /\ client'.start <= arrived'
        BY <2>2 DEF PagesTypeOK
    <2> QED
        BY <2>1, <2>6, <2>7 DEF PagingInv
<1>2. ASSUME ListRequests PROVE RingInv' /\ PagingInv'
    <2>1. Snapshot' = Snapshot
        BY <1>2, SnapshotUnchanged DEF ListRequests
    <2>2. ReadPage(Snapshot) /\ arrived' = arrived /\ UNCHANGED <<buf, next, full>>
        BY <1>2 DEF ListRequests, ReadPage
    <2>3. RingInv'
        BY <2>2 DEF RingInv, Written
    <2> DEFINE s == Snapshot
    <2>4. s \in Seq(Event) /\ ReadPage(s) /\ SkippedNothing(s) /\ PagesTypeOK /\ client.start <= arrived
        BY <1>0, <2>2 DEF PagingInv
    <2> HIDE DEF s
    <2>5. /\ PagesTypeOK' /\ client'.start <= arrived'
          /\ \A i \in 1 .. Len(s) :
                Wanted(client'.asset, s[i]) /\ s[i].n <= client'.start =>
                    s[i] \in client'.seen \/ Newer(s, client'.asset, i) >= client'.offset
        BY <2>4, ReadStep
    <2>6. SkippedNothing(Snapshot)'
        BY <2>1, <2>5 DEF SkippedNothing, s
    <2> QED
        BY <2>3, <2>5, <2>6 DEF PagingInv
<1>3. ASSUME NEW asset \in Assets \cup {AnyAsset}, NEW limit \in Limits,
             Restart(asset, limit), UNCHANGED <<buf, next, full>>
      PROVE  RingInv' /\ PagingInv'
    <2>1. Snapshot' = Snapshot
        BY <1>3, SnapshotUnchanged
    <2>2. arrived' = arrived /\ arrived \in Nat
          /\ client' = [asset |-> asset, limit |-> limit, offset |-> 0, seen |-> {}, start |-> arrived]
        BY <1>3 DEF Restart, StartPaging, PagingInv, PagesTypeOK
    <2>3. RingInv'
        BY <1>3, <2>2 DEF RingInv, Written
    <2>4. client' \in Paging /\ client'.offset = 0 /\ client'.start = arrived
        BY <2>2 DEF Paging
    <2>5. ASSUME NEW i \in 1 .. Len(Snapshot)
          PROVE  Newer(Snapshot, client'.asset, i) >= 0
        <3>1. Newer(Snapshot, client'.asset, i) \in Nat
            BY <1>0, NewerType, i \in Nat
        <3> QED
            BY <3>1
    <2>6. SkippedNothing(Snapshot)'
        BY <2>1, <2>4, <2>5 DEF SkippedNothing
    <2>7. PagesTypeOK' /\ client'.start <= arrived'
        BY <2>2, <2>4 DEF PagesTypeOK
    <2> QED
        BY <2>3, <2>6, <2>7 DEF PagingInv
<1>4. CASE UNCHANGED vars
    <2>1. UNCHANGED <<buf, next, full>> /\ arrived' = arrived /\ client' = client
        BY <1>4 DEF vars
    <2>2. Snapshot' = Snapshot
        BY <2>1, SnapshotUnchanged
    <2> QED
        BY <2>1, <2>2 DEF RingInv, Written, PagingInv, PagesTypeOK, SkippedNothing
<1> QED
    BY <1>1, <1>2, <1>3, <1>4 DEF Next

\* and so they hold for ever.
LEMMA RingHolds == Spec => [](RingInv /\ PagingInv)
<1>1. Init => RingInv /\ PagingInv
    BY RingStart
<1>2. RingInv /\ PagingInv /\ [Next]_vars => (RingInv /\ PagingInv)'
    BY RingStep
<1> QED
    BY <1>1, <1>2, PTL DEF Spec

\* The slots from next on were written one round before those below it.
NumberIn(i) == IF i < next THEN arrived - next + i + 1 ELSE arrived - next - Capacity + i + 1

\* Buffer, next slot and full flag agree: the ring is full when as many events have
\* arrived as it has slots, until then next counts them, and each slot holds the
\* event whose turn it was, or nothing when it has had no turn.
RingAgrees ==
    /\ IF full THEN arrived >= Capacity ELSE next = arrived
    /\ \A i \in Slots : IF Written(i) THEN buf[i] \in Event /\ buf[i].n = NumberIn(i)
                                       ELSE buf[i] = NoEvent

\* An append leaves them in agreement.
LEMMA AppendAgrees ==
    ASSUME RingInv, RingAgrees, NEW asset \in Assets, RingAppend(asset)
    PROVE  RingAgrees'
<1> DEFINE e == NewEvent(asset)
<1>1. /\ Capacity \in Nat \ {0} /\ arrived \in Nat /\ next \in Nat /\ next < Capacity
      /\ full \in BOOLEAN
    BY CapacityAssumption DEF RingInv, Slots
<1>2. /\ arrived' = arrived + 1 /\ buf' = [buf EXCEPT ![next] = e]
      /\ next' = (next + 1) % Capacity
    BY DEF RingAppend
<1>2b. full' <=> full \/ next' = 0
    BY Zenon DEF RingAppend
<1>2a. e \in Event /\ e.n = arrived + 1
    BY <1>1 DEF NewEvent, Event
<1>3. next' = IF next + 1 < Capacity THEN next + 1 ELSE 0
    <2>1. (next + 1) % Capacity = IF next + 1 < Capacity THEN next + 1 ELSE next + 1 - Capacity
        <3>1. next + 1 \in Nat /\ next + 1 < Capacity + Capacity
            BY <1>1
        <3> QED
            BY <1>1, <3>1, Remainder
    <2> QED
        BY <1>1, <1>2, <2>1
<1> HIDE DEF e
<1>4. IF full' THEN arrived' >= Capacity ELSE next' = arrived'
    BY <1>1, <1>2, <1>2b, <1>3 DEF RingAgrees
<1>5. ASSUME NEW i \in Slots
      PROVE  IF Written(i)' THEN buf'[i] \in Event /\ buf'[i].n = NumberIn(i)' ELSE buf'[i] = NoEvent
    <2>1. i \in Nat /\ i < Capacity
        BY <1>1 DEF Slots
    <2>2. buf'[i] = IF i = next THEN e ELSE buf[i]
        BY <1>2 DEF RingInv
    <2>3. CASE i = next
        <3>1. Written(i)' /\ NumberIn(i)' = arrived + 1
            <4>1. CASE next + 1 < Capacity
                <5>1. next' = next + 1 /\ i < next'
                    BY <1>1, <1>3, <2>1, <2>3, <4>1
                <5> QED
                    BY <1>1, <1>2, <2>1, <2>3, <5>1 DEF Written, NumberIn
            <4>2. CASE ~(next + 1 < Capacity)
                <5>1. next' = 0 /\ next + 1 = Capacity /\ ~(i < next') /\ full'
                    BY <1>1, <1>2b, <1>3, <2>1, <2>3, <4>2
                <5> QED
                    BY <1>1, <1>2, <2>1, <2>3, <5>1 DEF Written, NumberIn
            <4> QED
                BY <4>1, <4>2
        <3> QED
            BY <1>2a, <2>2, <2>3, <3>1
    <2>4. CASE i # next
        <3>1. (Written(i)' <=> Written(i)) /\ NumberIn(i)' = NumberIn(i)
            <4>1. CASE next + 1 < Capacity
                <5>1. next' = next + 1 /\ (i < next' <=> i < next)
                    BY <1>1, <1>3, <2>1, <2>4, <4>1
                <5>2. full' <=> full
                    BY <1>1, <1>2b, <5>1
                <5>3. Written(i)' <=> Written(i)
                    BY <5>1, <5>2 DEF Written
                <5>4. /\ arrived' - next' + i + 1 = arrived - next + i + 1
                      /\ arrived' - next' - Capacity + i + 1 = arrived - next - Capacity + i + 1
                    BY <1>1, <1>2, <2>1, <5>1
                <5>5. NumberIn(i)' = NumberIn(i)
                    BY <5>1, <5>4 DEF NumberIn
                <5> QED
                    BY <5>3, <5>5
            <4>2. CASE ~(next + 1 < Capacity)
                <5>1. next' = 0 /\ next + 1 = Capacity
                    BY <1>1, <1>3, <4>2
                <5>2. ~(i < next') /\ i < next
                    BY <1>1, <2>1, <2>4, <5>1
                <5>3. full'
                    BY <1>2b, <5>1
                <5>4. Written(i)' /\ Written(i)
                    BY <5>2, <5>3 DEF Written
                <5>5. NumberIn(i)' = NumberIn(i)
                    BY <1>1, <1>2, <2>1, <5>1, <5>2 DEF NumberIn
                <5> QED
                    BY <5>4, <5>5
            <4> QED
                BY <4>1, <4>2
        <3> QED
            BY <2>2, <2>4, <3>1 DEF RingAgrees
    <2> QED
        BY <2>3, <2>4
<1> QED
    BY <1>4, <1>5 DEF RingAgrees, Slots

\* The ring and the client that reads it keep their types, no index leaves the
\* buffer, and buffer, next slot and full flag agree with the number of events that
\* have arrived, for every capacity (Ring.Append).
THEOREM RingStaysInOrder == Spec => [](TypeOK /\ RingAgrees)
<1>1. RingInv /\ PagingInv => TypeOK
    BY DEF RingInv, PagingInv, TypeOK
<1>2. Init => RingAgrees
    <2> SUFFICES ASSUME Init PROVE RingAgrees
        OBVIOUS
    <2>1. ~full /\ next = 0 /\ arrived = 0 /\ \A i \in Slots : buf[i] = NoEvent
        BY DEF Init, PagesInit
    <2>2. \A i \in Slots : ~Written(i)
        BY <2>1 DEF Written, Slots
    <2> QED
        BY <2>1, <2>2 DEF RingAgrees
<1>3. RingInv /\ RingAgrees /\ [Next]_vars => RingAgrees'
    <2> SUFFICES ASSUME RingInv, RingAgrees, [Next]_vars PROVE RingAgrees'
        OBVIOUS
    <2>1. ASSUME NEW asset \in Assets, RingAppend(asset) PROVE RingAgrees'
        BY <2>1, AppendAgrees
    <2>2. CASE UNCHANGED <<buf, next, full, arrived>>
        BY <2>2 DEF RingAgrees, Written, NumberIn
    <2> QED
        BY <2>1, <2>2 DEF Next, vars, ListRequests, ReadPage, Restart
<1> QED
    BY <1>1, <1>2, <1>3, RingHolds, PTL DEF Spec

\* A client that pages through the ring skips no event that was there when it started
\* and still is, however many arrive and fall out meanwhile (Ring.Recent, ListRequests).
THEOREM PagingIsComplete == Spec => []PagesSkipNothing
<1>1. RingInv /\ PagingInv => PagesSkipNothing
    BY DEF PagingInv, PagesSkipNothing
<1> QED
    BY <1>1, RingHolds, PTL

\* The ring implements the log of the last Capacity events (Ring.Append, Ring.Snapshot).
THEOREM RingImplementsLog == Spec => RingIsLog
<1>1. Init => Log!Init
    <2> SUFFICES ASSUME Init PROVE Log!Init
        OBVIOUS
    <2>1. \A asset, limit : Log!StartPaging(asset, limit) = StartPaging(asset, limit)
        BY DEF Log!StartPaging, StartPaging
    <2> QED
        <3>1. Snapshot = <<>>
            BY RingStart
        <3>2. Log!PagesInit
            BY <2>1 DEF Init, Log!PagesInit, PagesInit
        <3> QED
            BY <3>1, <3>2 DEF Log!Init
<1>2. RingInv /\ [Next]_vars => [Log!Next]_(Log!vars)
    <2> SUFFICES ASSUME RingInv, [Next]_vars
                 PROVE  [Log!Next]_(Log!vars)
        OBVIOUS
    <2>1. ASSUME NEW asset \in Assets, RingAppend(asset) PROVE Log!Next
        <3>1. Log!Log(asset)
            BY <2>1, AppendStep DEF RingAppend, Log!Log, Log!LastOf, LastOf, Log!NewEvent, NewEvent
        <3> QED
            BY <3>1 DEF Log!Next
    <2>2. ASSUME ListRequests PROVE Log!Next
        <3>1. ReadPage(Snapshot) /\ Snapshot' = Snapshot
            BY <2>2, SnapshotUnchanged DEF ListRequests
        <3>2. Log!ReadPage(Snapshot)
            <4>0. \A S : Log!Cardinality(S) = Cardinality(S)
                BY Zenon DEF Cardinality, Log!Cardinality
            <4>1. \A s, asset, i : Log!Newer(s, asset, i) = Newer(s, asset, i)
                BY <4>0 DEF Newer, Log!Newer, Wanted, Log!Wanted
            <4>2. \A asset, e : Log!Wanted(asset, e) = Wanted(asset, e)
                BY DEF Wanted, Log!Wanted
            <4>3. \A s, asset, limit, offset : Log!Page(s, asset, limit, offset) = Page(s, asset, limit, offset)
                BY <4>1, <4>2 DEF Page, Log!Page
            <4>4. \A limit : Log!PageLimit(limit) = PageLimit(limit)
                BY DEF PageLimit, Log!PageLimit
            <4> QED
                BY <3>1, <4>0, <4>3, <4>4 DEF ReadPage, Log!ReadPage
        <3> QED
            BY <3>1, <3>2 DEF Log!Next
    <2>3. ASSUME NEW asset \in Assets \cup {AnyAsset}, NEW limit \in Limits,
                 Restart(asset, limit), UNCHANGED <<buf, next, full>>
          PROVE  Log!Next
        BY <2>3, SnapshotUnchanged DEF Log!Next, Restart, Log!Restart, StartPaging, Log!StartPaging
    <2>4. CASE UNCHANGED vars
        BY <2>4, SnapshotUnchanged DEF vars, Log!vars
    <2> QED
        BY <2>1, <2>2, <2>3, <2>4 DEF Next
<1> QED
    BY <1>1, <1>2, RingHolds, PTL DEF Spec, RingIsLog, Log!Spec

-----------------------------------------------------------------------------
(* What Recent returns.  The filter's loop is followed event by event; the  *)
(* slices then cut a piece out of the list it leaves.                       *)

\* The wanted events among the first n.
WantedUpTo(s, asset, n) == {i \in 1 .. n : Wanted(asset, s[i])}

\* The lists the filter has after each of the first n events.
FilterRuns(s, asset, n, g) ==
    /\ g \in [0 .. n -> Seq(Event)] /\ g[0] = <<>>
    /\ \A i \in 1 .. n : g[i] = IF Wanted(asset, s[i]) THEN Append(g[i - 1], s[i]) ELSE g[i - 1]

\* A set of numbers that is not empty has a least element.
LEMMA LeastNumber ==
    ASSUME NEW T, T \subseteq Nat, T # {}
    PROVE  \E x \in T : \A y \in T : ~(y < x)
<1>1. PICK x \in T : \A y \in T : <<y, x>> \notin OpToRel(<, Nat)
    BY WFMin, NatLessThanWellFounded
<1> QED
    BY <1>1 DEF OpToRel

\* A list that goes on with a later event goes through one position more.
LEMMA ListsAnother ==
    ASSUME NEW s \in Seq(Event), NEW q \in Seq(Event), NEW n \in Nat, n < Len(s),
           NEW P, P \subseteq 1 .. n, Lists(q, s, P)
    PROVE  Lists(Append(q, s[n + 1]), s, P \cup {n + 1})
<1>1. PICK at \in [1 .. Len(q) -> P] :
         /\ \A k \in 1 .. Len(q) : q[k] = s[at[k]]
         /\ \A k, l \in 1 .. Len(q) : k < l => at[k] < at[l]
         /\ \A i \in P : \E k \in 1 .. Len(q) : at[k] = i
    BY DEF Lists
<1> DEFINE t == Append(q, s[n + 1])
           on == [k \in 1 .. Len(q) + 1 |-> IF k <= Len(q) THEN at[k] ELSE n + 1]
<1>2. /\ Len(q) \in Nat /\ Len(t) = Len(q) + 1 /\ t[Len(q) + 1] = s[n + 1]
      /\ \A k \in 1 .. Len(q) : t[k] = q[k]
    OBVIOUS
<1>3. /\ \A k \in 1 .. Len(q) : on[k] = at[k] /\ at[k] \in P /\ at[k] \in 1 .. n
      /\ on[Len(q) + 1] = n + 1
      /\ on \in [1 .. Len(q) + 1 -> P \cup {n + 1}]
    <2> HIDE DEF t
    <2>1. /\ Len(q) + 1 \in 1 .. Len(q) + 1 /\ ~(Len(q) + 1 <= Len(q))
          /\ \A k \in 1 .. Len(q) : k \in 1 .. Len(q) + 1 /\ k <= Len(q)
          /\ \A k \in 1 .. Len(q) + 1 : k <= Len(q) => k \in 1 .. Len(q)
        BY <1>2
    <2>2. \A k \in 1 .. Len(q) : at[k] \in P
        BY <1>1
    <2>3. \A k \in 1 .. Len(q) + 1 : (IF k <= Len(q) THEN at[k] ELSE n + 1) \in P \cup {n + 1}
        BY <2>1, <2>2, Zenon
    <2>4. on \in [1 .. Len(q) + 1 -> P \cup {n + 1}]
        BY <2>3, Zenon
    <2>5. \A k \in 1 .. Len(q) : on[k] = at[k]
        BY <2>1, Zenon
    <2>6. on[Len(q) + 1] = n + 1
        BY <2>1, Zenon
    <2> HIDE DEF on
    <2> QED
        BY <2>2, <2>4, <2>5, <2>6
<1> HIDE DEF t, on
<1>4. \A k \in 1 .. Len(t) : k \in 1 .. Len(q) \/ k = Len(q) + 1
    BY <1>2
<1>5. \A k \in 1 .. Len(t) : t[k] = s[on[k]]
    BY <1>1, <1>2, <1>3, <1>4
<1>6. ASSUME NEW k \in 1 .. Len(t), NEW l \in 1 .. Len(t), k < l
      PROVE  on[k] < on[l]
    <2>1. k \in 1 .. Len(q)
        BY <1>2, <1>6
    <2>2. on[k] = at[k] /\ on[k] \in 1 .. n
        BY <1>3, <2>1
    <2>3. CASE l \in 1 .. Len(q)
        <3>1. at[k] < at[l]
            BY <1>1, <1>6, <2>1, <2>3
        <3> QED
            BY <1>3, <2>2, <2>3, <3>1
    <2>4. CASE l = Len(q) + 1
        BY <1>3, <2>2, <2>4
    <2> QED
        BY <1>4, <2>3, <2>4
<1>7. \A i \in P \cup {n + 1} : \E k \in 1 .. Len(t) : on[k] = i
    <2>1. \A i \in P : \E k \in 1 .. Len(t) : on[k] = i
        <3> SUFFICES ASSUME NEW i \in P PROVE \E k \in 1 .. Len(t) : on[k] = i
            OBVIOUS
        <3>1. PICK k \in 1 .. Len(q) : at[k] = i
            BY <1>1
        <3>2. k \in 1 .. Len(t) /\ on[k] = i
            BY <1>2, <1>3, <3>1
        <3> QED
            BY <3>2
    <2>2. Len(q) + 1 \in 1 .. Len(t)
        BY <1>2
    <2> QED
        BY <1>3, <2>1, <2>2
<1>8. Lists(t, s, P \cup {n + 1})
    BY <1>2, <1>3, <1>5, <1>6, <1>7 DEF Lists
<1> QED
    BY <1>8 DEF t

\* The filter's loop runs: it has a list after every event.
LEMMA FilterHasRuns ==
    ASSUME NEW s \in Seq(Event), NEW asset
    PROVE  \E g : FilterRuns(s, asset, Len(s), g)
<1> DEFINE stuck == {n \in 0 .. Len(s) : ~\E g : FilterRuns(s, asset, n, g)}
<1>1. CASE stuck = {}
    <2>1. Len(s) \in 0 .. Len(s)
        OBVIOUS
    <2> QED
        BY <1>1, <2>1
<1>2. CASE stuck # {}
    <2>1. stuck \subseteq Nat
        OBVIOUS
    <2>2. PICK n \in stuck : \A m \in stuck : ~(m < n)
        <3> HIDE DEF stuck
        <3> QED
            BY <1>2, <2>1, LeastNumber
    <2>3. n # 0
        <3>1. FilterRuns(s, asset, 0, [i \in 0 .. 0 |-> <<>>])
            BY DEF FilterRuns
        <3> QED
            BY <2>2, <3>1
    <2>4. n \in 1 .. Len(s) /\ n - 1 \in 0 .. Len(s) /\ n - 1 < n /\ n - 1 \in Nat
        BY <2>2, <2>3
    <2>5. PICK g : FilterRuns(s, asset, n - 1, g)
        BY <2>2, <2>4
    <2> DEFINE last == IF Wanted(asset, s[n]) THEN Append(g[n - 1], s[n]) ELSE g[n - 1]
               h == [i \in 0 .. n |-> IF i = n THEN last ELSE g[i]]
    <2>6. /\ g \in [0 .. n - 1 -> Seq(Event)] /\ g[0] = <<>>
          /\ \A i \in 1 .. n - 1 : g[i] = IF Wanted(asset, s[i]) THEN Append(g[i - 1], s[i]) ELSE g[i - 1]
        BY <2>5 DEF FilterRuns
    <2>7. s[n] \in Event /\ g[n - 1] \in Seq(Event) /\ last \in Seq(Event)
        BY <2>4, <2>6
    <2>8. \A i \in 0 .. n : i # n => i \in 0 .. n - 1
        BY <2>4
    <2> HIDE DEF last
    <2>9. /\ h \in [0 .. n -> Seq(Event)]
          /\ h[n] = last /\ \A i \in 0 .. n - 1 : h[i] = g[i]
        BY <2>4, <2>6, <2>7, <2>8
    <2> HIDE DEF h
    <2>10. h[0] = <<>>
        BY <2>4, <2>6, <2>9
    <2>11. ASSUME NEW i \in 1 .. n
           PROVE  h[i] = IF Wanted(asset, s[i]) THEN Append(h[i - 1], s[i]) ELSE h[i - 1]
        <3>1. CASE i = n
            <4>1. h[i] = last /\ h[i - 1] = g[n - 1]
                <5>1. n - 1 \in 0 .. n - 1
                    BY <2>4
                <5> QED
                    BY <2>9, <3>1, <5>1
            <4> QED
                BY <3>1, <4>1, Zenon DEF last
        <3>2. CASE i # n
            <4>1. i \in 1 .. n - 1 /\ i \in 0 .. n - 1 /\ i - 1 \in 0 .. n - 1
                BY <2>4, <3>2
            <4> QED
                BY <2>6, <2>9, <4>1
        <3> QED
            BY <3>1, <3>2
    <2>12. FilterRuns(s, asset, n, h)
        BY <2>9, <2>10, <2>11 DEF FilterRuns
    <2> QED
        BY <2>2, <2>12
<1> QED
    BY <1>1, <1>2

\* After n events the filter's list goes through the wanted ones among them.
LEMMA RunsList ==
    ASSUME NEW s \in Seq(Event), NEW asset, NEW g, FilterRuns(s, asset, Len(s), g)
    PROVE  \A n \in 0 .. Len(s) : Lists(g[n], s, WantedUpTo(s, asset, n))
<1> DEFINE wrong == {n \in 0 .. Len(s) : ~Lists(g[n], s, WantedUpTo(s, asset, n))}
<1>1. CASE wrong = {}
    BY <1>1
<1>2. CASE wrong # {}
    <2>1. wrong \subseteq Nat
        OBVIOUS
    <2>2. PICK n \in wrong : \A m \in wrong : ~(m < n)
        <3> HIDE DEF wrong
        <3> QED
            BY <1>2, <2>1, LeastNumber
    <2>3. /\ g \in [0 .. Len(s) -> Seq(Event)] /\ g[0] = <<>>
          /\ \A i \in 1 .. Len(s) : g[i] = IF Wanted(asset, s[i]) THEN Append(g[i - 1], s[i]) ELSE g[i - 1]
        BY DEF FilterRuns
    <2>4. n # 0
        <3>1. WantedUpTo(s, asset, 0) = {}
            BY DEF WantedUpTo
        <3>2. Lists(<<>>, s, {})
            <4>1. [k \in 1 .. 0 |-> k] \in [1 .. Len(<<>>) -> {}]
                OBVIOUS
            <4> QED
                BY <4>1 DEF Lists
        <3> QED
            BY <2>2, <2>3, <3>1, <3>2
    <2> DEFINE m == n - 1
    <2>5. /\ n \in 1 .. Len(s) /\ m \in 0 .. Len(s) /\ m < n /\ m \in Nat /\ m < Len(s) /\ n = m + 1
        BY <2>2, <2>4
    <2> DEFINE P == WantedUpTo(s, asset, m)
    <2>6. Lists(g[m], s, P) /\ g[m] \in Seq(Event) /\ P \subseteq 1 .. m
        BY <2>2, <2>3, <2>5 DEF WantedUpTo
    <2>7. CASE Wanted(asset, s[n])
        <3>1. WantedUpTo(s, asset, n) = P \cup {m + 1}
            BY <2>5, <2>7 DEF WantedUpTo
        <3>2. g[n] = Append(g[m], s[m + 1])
            BY <2>3, <2>5, <2>7
        <3> HIDE DEF m, P
        <3>3. Lists(Append(g[m], s[m + 1]), s, P \cup {m + 1})
            BY <2>5, <2>6, ListsAnother
        <3> QED
            BY <2>2, <3>1, <3>2, <3>3
    <2>8. CASE ~Wanted(asset, s[n])
        <3>1. WantedUpTo(s, asset, n) = P
            BY <2>5, <2>8 DEF WantedUpTo
        <3>2. g[n] = g[m]
            BY <2>3, <2>5, <2>8
        <3> QED
            BY <2>2, <2>6, <3>1, <3>2
    <2> QED
        BY <2>7, <2>8
<1> QED
    BY <1>1, <1>2

\* The filter returns the wanted events, all of them and in their order.
LEMMA FilteredLists ==
    ASSUME NEW s \in Seq(Event), NEW asset
    PROVE  /\ Filtered(s, asset) \in Seq(Event)
           /\ Lists(Filtered(s, asset), s, WantedUpTo(s, asset, Len(s)))
<1> DEFINE N == Len(s)
           step(g) == [i \in 0 .. N |->
                          IF i = 0 THEN <<>>
                          ELSE IF Wanted(asset, s[i]) THEN Append(g[i - 1], s[i]) ELSE g[i - 1]]
           upTo == CHOOSE g : g = step(g)
<1>0. N \in Nat
    OBVIOUS
<1>1. PICK h : FilterRuns(s, asset, N, h)
    BY FilterHasRuns
<1>2. h = step(h)
    <2>1. \A i \in 0 .. N : i # 0 => i \in 1 .. N
        OBVIOUS
    <2> HIDE DEF N
    <2> QED
        BY <1>1, <2>1 DEF FilterRuns
<1>3. upTo = step(upTo)
    <2> HIDE DEF step
    <2> QED
        BY <1>2
<1>4. FilterRuns(s, asset, N, upTo)
    <2>1. ASSUME NEW i \in 0 .. N
          PROVE  upTo[i] = IF i = 0 THEN <<>>
                           ELSE IF Wanted(asset, s[i]) THEN Append(upTo[i - 1], s[i]) ELSE upTo[i - 1]
        <3> HIDE DEF upTo, N
        <3> QED
            BY <1>3, Zenon
    <2>2. upTo = [i \in 0 .. N |-> upTo[i]]
        <3>1. \A g : step(g) = [i \in 0 .. N |-> step(g)[i]]
            BY Zenon
        <3> HIDE DEF step, upTo
        <3> QED
            BY <1>3, <3>1
    <2>3. \A i \in 0 .. N : upTo[i] \in Seq(Event)
        <3> HIDE DEF step, upTo
        <3> DEFINE wrong == {n \in 0 .. N : upTo[n] \notin Seq(Event)}
        <3>1. CASE wrong = {}
            BY <3>1
        <3>2. CASE wrong # {}
            <4>1. wrong \subseteq Nat
                OBVIOUS
            <4>2. PICK n \in wrong : \A m \in wrong : ~(m < n)
                <5> HIDE DEF wrong
                <5> QED
                    BY <3>2, <4>1, LeastNumber
            <4>3. n # 0
                <5>1. 0 \in 0 .. N
                    BY <1>0
                <5>2. upTo[0] = <<>>
                    BY <2>1, <5>1, Zenon
                <5>3. <<>> \in Seq(Event)
                    OBVIOUS
                <5> QED
                    BY <4>2, <5>2, <5>3
            <4>4. n \in 1 .. N /\ n - 1 \in 0 .. N /\ n - 1 < n
                BY <4>2, <4>3
            <4>5. upTo[n - 1] \in Seq(Event)
                BY <4>2, <4>4
            <4>6. s[n] \in Event
                BY <4>4
            <4>7. upTo[n] = IF Wanted(asset, s[n]) THEN Append(upTo[n - 1], s[n]) ELSE upTo[n - 1]
                <5>1. n \in 0 .. N
                    OBVIOUS
                <5> QED
                    BY <2>1, <4>3, <5>1, Zenon
            <4>8. Append(upTo[n - 1], s[n]) \in Seq(Event)
                BY <4>5, <4>6
            <4>9. upTo[n] \in Seq(Event)
                BY <4>5, <4>7, <4>8, Zenon
            <4> QED
                BY <4>2, <4>9
        <3> QED
            BY <3>1, <3>2
    <2> HIDE DEF step, upTo
    <2>4. upTo \in [0 .. N -> Seq(Event)]
        BY <2>2, <2>3
    <2>5. 0 \in 0 .. N /\ \A i \in 1 .. N : i \in 0 .. N /\ i # 0
        OBVIOUS
    <2> QED
        BY <2>1, <2>4, <2>5 DEF FilterRuns
<1>5. Filtered(s, asset) = upTo[N]
    BY DEF Filtered
<1> HIDE DEF upTo, step
<1>6. upTo[N] \in Seq(Event) /\ Lists(upTo[N], s, WantedUpTo(s, asset, N))
    <2>1. N \in 0 .. N
        BY <1>0
    <2>2. \A n \in 0 .. N : Lists(upTo[n], s, WantedUpTo(s, asset, n))
        BY <1>4, RunsList
    <2> QED
        BY <1>4, <2>1, <2>2 DEF FilterRuns
<1> QED
    BY <1>5, <1>6

\* The positions of the wanted events, all L of them and in their order.
Along(s, asset, L, at) ==
    /\ at \in [1 .. L -> WantedUpTo(s, asset, Len(s))]
    /\ \A k, l \in 1 .. L : k < l => at[k] < at[l]
    /\ \A i \in WantedUpTo(s, asset, Len(s)) : \E k \in 1 .. L : at[k] = i

\* Of the wanted events as many are newer than the k-th as come after it.
LEMMA NewerAlong ==
    ASSUME NEW s \in Seq(Event), NEW asset, NEW L \in Nat, NEW at, Along(s, asset, L, at),
           NEW k \in 1 .. L
    PROVE  /\ at[k] \in 1 .. Len(s) /\ Wanted(asset, s[at[k]])
           /\ Newer(s, asset, at[k]) = L - k
<1> DEFINE B == Behind(s, asset, at[k])
           rest == k + 1 .. L
           f == [l \in rest |-> at[l]]
<1>0. /\ \A i, j \in 1 .. L : i < j => at[i] < at[j]
      /\ \A i \in WantedUpTo(s, asset, Len(s)) : \E j \in 1 .. L : at[j] = i
    BY DEF Along
<1>1. \A l \in 1 .. L : at[l] \in 1 .. Len(s) /\ Wanted(asset, s[at[l]])
    BY DEF Along, WantedUpTo
<1>2. /\ \A l \in rest : l \in 1 .. L /\ at[k] < at[l]
      /\ at[k] \in Nat /\ Len(s) \in Nat
    BY <1>0, <1>1
<1>3. \A l \in rest : at[l] \in B
    BY <1>1, <1>2 DEF Behind
<1>4. \A i, j \in rest : at[i] = at[j] => i = j
    <2> SUFFICES ASSUME NEW i \in rest, NEW j \in rest, at[i] = at[j]
                 PROVE  i = j
        OBVIOUS
    <2>1. i \in 1 .. L /\ j \in 1 .. L /\ at[i] \in Nat /\ at[j] \in Nat
        BY <1>1, <1>2
    <2>2. ~(i < j) /\ ~(j < i)
        BY <1>0, <2>1
    <2> QED
        BY <2>1, <2>2
<1>5. ASSUME NEW i \in B PROVE \E l \in rest : at[l] = i
    <2>1. i \in at[k] + 1 .. Len(s) /\ Wanted(asset, s[i])
        BY DEF Behind
    <2>2. i \in WantedUpTo(s, asset, Len(s)) /\ at[k] < i
        BY <1>2, <2>1 DEF WantedUpTo
    <2>3. PICK l \in 1 .. L : at[l] = i
        BY <1>0, <2>2
    <2>4. ~(l < k) /\ l # k
        <3>1. l < k => at[l] < at[k]
            BY <1>0
        <3> QED
            BY <1>2, <2>1, <2>2, <2>3, <3>1
    <2>5. l \in rest
        BY <2>4
    <2> QED
        BY <2>3, <2>5
<1> HIDE DEF B
<1>6. f \in Bijection(rest, B)
    <2>1. f \in [rest -> B]
        BY <1>3
    <2>2. \A l \in rest : f[l] = at[l]
        OBVIOUS
    <2> HIDE DEF f, rest
    <2> QED
        BY <1>4, <1>5, <2>1, <2>2 DEF Bijection, Injection, Surjection, IsInjective
<1>7. IsFiniteSet(rest) /\ Cardinality(rest) = L - k
    BY FS_Interval
<1>8. Cardinality(B) = Cardinality(rest)
    <2> HIDE DEF f, rest
    <2>1. ExistsBijection(rest, B)
        BY <1>6 DEF ExistsBijection
    <2> QED
        BY <1>7, <2>1, FS_Bijection
<1>9. Newer(s, asset, at[k]) = Cardinality(B)
    BY <1>2, NewerType DEF B
<1> QED
    BY <1>1, <1>7, <1>8, <1>9

\* A page is what Recent returns of the log: skipping the newest wanted events and
\* taking the next ones is what cutting the filtered snapshot twice comes to, for
\* every log, filter, limit and offset (Ring.Recent).
THEOREM PagesAreRecent ==
    ASSUME NEW s \in Seq(Event), NEW asset, NEW limit \in Int, NEW offset \in Nat
    PROVE  Lists(Recent(s, asset, limit, offset), s, Page(s, asset, limit, offset))
<1> DEFINE all == Filtered(s, asset)
           L == Len(all)
           W == WantedUpTo(s, asset, Len(s))
           hi == L - (IF offset > L THEN L ELSE offset)
           lo == IF limit > 0 /\ hi > limit THEN hi - limit ELSE 0
           rest == SubSeq(all, 1, hi)
           R == Recent(s, asset, limit, offset)
           P == Page(s, asset, limit, offset)
<1>1. all \in Seq(Event) /\ Lists(all, s, W) /\ L \in Nat
    <2>1. all \in Seq(Event) /\ Lists(all, s, W)
        BY FilteredLists
    <2> HIDE DEF all
    <2> QED
        BY <2>1
<1>2. R = IF limit > 0 THEN LastOf(rest, limit) ELSE rest
    BY DEF Recent
<1> HIDE DEF all, R, P, W
<1>3. PICK at \in [1 .. L -> W] :
         /\ \A k \in 1 .. L : all[k] = s[at[k]]
         /\ \A k, l \in 1 .. L : k < l => at[k] < at[l]
         /\ \A i \in W : \E k \in 1 .. L : at[k] = i
    BY <1>1 DEF Lists
<1>4. /\ hi \in 0 .. L /\ lo \in 0 .. hi /\ hi \in Nat /\ lo \in Nat
      /\ \A k \in 1 .. L : k <= hi <=> L - k >= offset
      /\ \A k \in 1 .. hi : k > lo <=> (limit > 0 => L - k < offset + limit)
      /\ limit > 0 => lo = IF hi > limit THEN hi - limit ELSE 0
      /\ ~(limit > 0) => lo = 0
    <2> HIDE DEF L
    <2> QED
        BY <1>1
<1> HIDE DEF hi, lo
<1>5. /\ rest \in Seq(Event) /\ Len(rest) = hi
      /\ \A k \in 1 .. hi : rest[k] = all[k]
    <2>1. \A k \in 1 .. hi : all[k] \in Event /\ 1 + k - 1 = k
        BY <1>1, <1>4
    <2>2. hi - 1 + 1 = hi /\ (1 <= hi \/ hi = 0)
        BY <1>4
    <2>3. /\ rest \in Seq(Event)
          /\ Len(rest) = IF 1 <= hi THEN hi - 1 + 1 ELSE 0
          /\ \A k \in 1 .. hi - 1 + 1 : rest[k] = all[1 + k - 1]
        BY <1>4, <2>1, SubSeqProperties
    <2> HIDE DEF rest
    <2> QED
        BY <1>4, <2>1, <2>2, <2>3
<1> HIDE DEF rest, L
<1>6. /\ Len(R) = hi - lo
      /\ \A k \in 1 .. hi - lo : R[k] = all[lo + k]
    <2>1. CASE limit > 0
        <3>1. limit \in Nat \ {0} /\ R = LastOf(rest, limit)
            BY <1>2, <2>1
        <3>2. /\ Len(R) = IF hi > limit THEN limit ELSE hi
              /\ \A k \in 1 .. Len(R) : R[k] = rest[k + (IF hi > limit THEN hi - limit ELSE 0)]
            BY <1>5, <3>1, LastOfFacts
        <3>3. lo = IF hi > limit THEN hi - limit ELSE 0
            BY <1>4, <2>1
        <3>4. Len(R) = hi - lo
            BY <1>4, <3>1, <3>2, <3>3
        <3>5. \A k \in 1 .. hi - lo : k + lo = lo + k /\ lo + k \in 1 .. hi
            BY <1>4
        <3>6. \A k \in 1 .. hi - lo : R[k] = rest[k + lo]
            BY <3>2, <3>3, <3>4, Zenon
        <3> QED
            BY <1>5, <3>4, <3>5, <3>6
    <2>2. CASE ~(limit > 0)
        <3>1. lo = 0 /\ R = rest
            BY <1>2, <1>4, <2>2
        <3> QED
            BY <1>4, <1>5, <3>1
    <2> QED
        BY <2>1, <2>2
<1>7. ASSUME NEW k \in 1 .. L
      PROVE  /\ at[k] \in 1 .. Len(s) /\ Wanted(asset, s[at[k]])
             /\ Newer(s, asset, at[k]) = L - k
    <2>1. L \in Nat /\ Along(s, asset, L, at)
        BY <1>1, <1>3 DEF W, Along
    <2> QED
        BY <2>1, NewerAlong
<1>8. ASSUME NEW k \in 1 .. L PROVE at[k] \in P <=> lo < k /\ k <= hi
    <2>1. at[k] \in P <=> L - k >= offset /\ (limit > 0 => L - k < offset + limit)
        BY <1>7 DEF P, Page
    <2>2. k <= hi => k \in 1 .. hi
        BY <1>4
    <2> QED
        BY <1>4, <2>1, <2>2
<1> DEFINE on == [k \in 1 .. hi - lo |-> at[lo + k]]
<1>9. ASSUME NEW k \in 1 .. hi - lo
      PROVE  lo + k \in 1 .. L /\ lo < lo + k /\ lo + k <= hi
    BY <1>1, <1>4
<1>10. on \in [1 .. hi - lo -> P] /\ \A k \in 1 .. hi - lo : on[k] = at[lo + k]
    BY <1>8, <1>9
<1> HIDE DEF on
<1>11. \A k \in 1 .. hi - lo : R[k] = s[on[k]]
    BY <1>3, <1>6, <1>9, <1>10
<1>12. ASSUME NEW k \in 1 .. hi - lo, NEW l \in 1 .. hi - lo, k < l PROVE on[k] < on[l]
    <2>1. lo + k < lo + l /\ lo + k \in 1 .. L /\ lo + l \in 1 .. L
        BY <1>1, <1>4, <1>9, <1>12
    <2> QED
        BY <1>3, <1>10, <2>1
<1>13. ASSUME NEW i \in P PROVE \E k \in 1 .. hi - lo : on[k] = i
    <2>1. i \in W
        BY DEF P, Page, W, WantedUpTo
    <2>2. PICK k \in 1 .. L : at[k] = i
        BY <1>3, <2>1
    <2>3. lo < k /\ k <= hi
        BY <1>8, <2>2
    <2>4. k - lo \in 1 .. hi - lo /\ lo + (k - lo) = k
        BY <1>1, <1>4, <2>3
    <2> QED
        BY <1>10, <2>2, <2>4
<1>14. Lists(R, s, P)
    BY <1>6, <1>10, <1>11, <1>12, <1>13 DEF Lists
<1> QED
    BY <1>14 DEF R, P

-----------------------------------------------------------------------------
(* The rules.                                                               *)

\* A window lies between the matched events that are recent now and all of them.
\* It is exact when an event comes, and time then passes: this is what is left of
\* it by the time of the next, and enough for that one to make it exact again.
WindowsBracket ==
    \A r \in Rules, k \in WindowKeys :
        /\ windows[r][k] \subseteq Matched(r, k)
        /\ \A x \in Matched(r, k) : x.ts > now - Window[r] => x \in windows[r][k]

WindowsInv ==
    /\ now \in Nat
    /\ seen \in SUBSET Seen /\ IsFiniteSet(seen)
    /\ windows \in [Rules -> [WindowKeys -> SUBSET WindowEntry]]
    /\ \A s \in seen : s.entry.ts <= now /\ s.entry.n <= Cardinality(seen)
    /\ WindowsBracket
    /\ WindowsAreExact
    /\ FiresExactly

\* The entries of one rule and key: those the window keeps of the events matched so
\* far, and the event itself, are the events of the period that ends with it.
LEMMA KeptIsRecent ==
    ASSUME NEW M \in SUBSET WindowEntry, NEW W \in SUBSET M, NEW size \in Nat \ {0},
           NEW entry \in WindowEntry, NEW ts \in Nat, entry.ts = ts,
           \A x \in M : x.ts <= ts /\ x.n < entry.n,
           \A x \in M : x.ts > ts - size => x \in W
    PROVE  {e \in W : e.ts > ts - size} \cup {entry}
             = {x \in M \cup {entry} : x.n <= entry.n /\ x.ts > entry.ts - size}
<1> DEFINE L == {e \in W : e.ts > ts - size} \cup {entry}
           R == {x \in M \cup {entry} : x.n <= entry.n /\ x.ts > entry.ts - size}
<1>1. ASSUME NEW x \in L PROVE x \in R
    <2>1. CASE x = entry
        <3>1. entry.n \in Nat /\ entry.ts > entry.ts - size
            BY DEF WindowEntry
        <3> QED
            BY <2>1, <3>1
    <2>2. CASE x # entry
        <3>1. x \in M /\ x.n \in Nat /\ entry.n \in Nat
            BY <2>2 DEF WindowEntry
        <3> QED
            BY <2>2, <3>1
    <2> QED
        BY <2>1, <2>2
<1>2. ASSUME NEW x \in R PROVE x \in L
    OBVIOUS
<1> QED
    BY <1>1, <1>2

\* The history of a rule and key consists of window entries.
LEMMA MatchedType ==
    ASSUME NEW r, NEW k, seen \in SUBSET Seen
    PROVE  Matched(r, k) \in SUBSET WindowEntry
BY DEF Matched, Seen

\* What the window of a rule it matches is after event e.
Kept(r, key, e) == Pruned(r, windows[r][key], now) \cup {e}

\* Processing an event keeps the windows exact.
LEMMA ProcessStep ==
    ASSUME NoKey \notin WindowKeys, Window \in [Rules -> Nat \ {0}], WindowsInv,
           NEW rules \in SUBSET Rules, NEW key \in WindowKeys \cup {NoKey}, NEW item \in Items,
           Process(rules, key, item)
    PROVE  WindowsInv'
<1> SUFFICES ASSUME NEW e, e = [n |-> Cardinality(seen) + 1, ts |-> now, item |-> item]
             PROVE  WindowsInv'
    OBVIOUS
<1> DEFINE new == [entry |-> e, rules |-> rules, key |-> key]
<1>1. /\ seen' = seen \cup {new} /\ now' = now
      /\ key = NoKey => windows' = windows /\ emitted' = {}
      /\ key # NoKey =>
            /\ windows' = [r \in Rules |-> IF r \in rules THEN [windows[r] EXCEPT ![key] = Kept(r, key, e)]
                                                         ELSE windows[r]]
            /\ emitted' = {[rule |-> r, key |-> key, entries |-> Kept(r, key, e)] :
                              r \in {q \in rules : ShouldAlert(q, Kept(q, key, e))}}
    BY DEF Process, Kept
<1>2. /\ seen \in SUBSET Seen /\ IsFiniteSet(seen) /\ now \in Nat /\ Cardinality(seen) \in Nat
      /\ windows \in [Rules -> [WindowKeys -> SUBSET WindowEntry]]
      /\ \A s \in seen : s.entry.ts <= now /\ s.entry.n <= Cardinality(seen)
    BY FS_CardinalityType DEF WindowsInv
<1>3. /\ e \in WindowEntry /\ e.n = Cardinality(seen) + 1 /\ e.ts = now
      /\ new \in Seen /\ new.entry = e /\ new.rules = rules /\ new.key = key
    BY <1>2 DEF WindowEntry, Seen
<1>4. new \notin seen
    BY <1>2, <1>3
<1>5. IsFiniteSet(seen') /\ Cardinality(seen') = Cardinality(seen) + 1
    BY <1>1, <1>2, <1>4, FS_AddElement
<1>6. \A s \in seen' : s.entry.ts <= now' /\ s.entry.n <= Cardinality(seen')
    <2> SUFFICES ASSUME NEW s \in seen' PROVE s.entry.ts <= now' /\ s.entry.n <= Cardinality(seen')
        OBVIOUS
    <2>1. CASE s = new
        BY <1>1, <1>2, <1>3, <1>5, <2>1
    <2>2. CASE s \in seen
        <3>1. s.entry.n \in Nat
            BY <1>2, <2>2 DEF Seen, WindowEntry
        <3> QED
            BY <1>1, <1>2, <1>5, <2>2, <3>1
    <2> QED
        BY <1>1, <2>1, <2>2
<1>7. ASSUME NEW r, NEW k
      PROVE  Matched(r, k)' = IF r \in rules /\ k = key THEN Matched(r, k) \cup {e}
                                                     ELSE Matched(r, k)
    <2> HIDE DEF new
    <2>1. {t \in seen' : r \in t.rules /\ t.key = k}
            = {t \in seen : r \in t.rules /\ t.key = k} \cup (IF r \in rules /\ k = key THEN {new} ELSE {})
        BY <1>1, <1>3
    <2> QED
        BY <1>3, <2>1 DEF Matched
<1>8. ASSUME NEW r \in Rules, NEW k \in WindowKeys
      PROVE  /\ Matched(r, k) \in SUBSET WindowEntry
             /\ windows[r][k] \in SUBSET Matched(r, k)
             /\ \A x \in Matched(r, k) : /\ x.ts <= now /\ x.n < e.n
                                         /\ x.ts > now - Window[r] => x \in windows[r][k]
    <2>1. Matched(r, k) \in SUBSET WindowEntry
        BY <1>2, MatchedType
    <2>2. /\ windows[r][k] \in SUBSET Matched(r, k)
          /\ \A x \in Matched(r, k) : x.ts > now - Window[r] => x \in windows[r][k]
        BY DEF WindowsInv, WindowsBracket
    <2>3. ASSUME NEW x \in Matched(r, k) PROVE x.ts <= now /\ x.n < e.n
        <3>1. x.ts <= now /\ x.n <= Cardinality(seen)
            BY <1>2 DEF Matched
        <3>2. x.n \in Nat
            BY <2>1 DEF WindowEntry
        <3> QED
            BY <1>2, <1>3, <3>1, <3>2
    <2> QED
        BY <2>1, <2>2, <2>3
<1> HIDE DEF new
<1>9. ASSUME NEW r \in rules, key # NoKey
      PROVE  /\ Kept(r, key, e) = InPeriod(r, key, e)'
             /\ Kept(r, key, e) \in SUBSET WindowEntry
             /\ Kept(r, key, e) \in SUBSET (Matched(r, key) \cup {e})
             /\ \A x \in Matched(r, key) : x.ts > now - Window[r] => x \in Kept(r, key, e)
    <2> DEFINE M == Matched(r, key)
               W == windows[r][key]
    <2>1. r \in Rules /\ key \in WindowKeys /\ Window[r] \in Nat \ {0}
        BY <1>9
    <2>2. /\ M \in SUBSET WindowEntry /\ W \in SUBSET M
          /\ \A x \in M : x.ts <= now /\ x.n < e.n
          /\ \A x \in M : x.ts > now - Window[r] => x \in W
        BY <1>8, <2>1
    <2>3. Kept(r, key, e) = {x \in W : x.ts > now - Window[r]} \cup {e}
        BY DEF Pruned, Kept
    <2>4. Matched(r, key)' = M \cup {e}
        BY <1>7
    <2>5. InPeriod(r, key, e)' = {x \in M \cup {e} : x.n <= e.n /\ x.ts > e.ts - Window[r]}
        BY <2>4 DEF InPeriod
    <2> HIDE DEF M, W
    <2>6. {x \in W : x.ts > now - Window[r]} \cup {e}
            = {x \in M \cup {e} : x.n <= e.n /\ x.ts > e.ts - Window[r]}
        BY <1>2, <1>3, <2>1, <2>2, KeptIsRecent
    <2>7. Kept(r, key, e) = InPeriod(r, key, e)'
        BY <2>3, <2>5, <2>6
    <2>8. /\ Kept(r, key, e) \in SUBSET WindowEntry /\ Kept(r, key, e) \in SUBSET (M \cup {e})
          /\ \A x \in M : x.ts > now - Window[r] => x \in Kept(r, key, e)
        BY <1>3, <2>2, <2>3
    <2> QED
        BY <2>7, <2>8 DEF M
<1>10. ASSUME NEW r \in Rules, NEW k \in WindowKeys
       PROVE  windows'[r][k] = IF r \in rules /\ k = key THEN Kept(r, key, e) ELSE windows[r][k]
    <2>1. CASE key = NoKey
        BY <1>1, <2>1
    <2>2. CASE key # NoKey
        <3>1. windows'[r] = IF r \in rules THEN [windows[r] EXCEPT ![key] = Kept(r, key, e)] ELSE windows[r]
            BY <1>1, <2>2
        <3>2. windows[r] \in [WindowKeys -> SUBSET WindowEntry]
            BY <1>2
        <3> QED
            BY <3>1, <3>2
    <2> QED
        BY <2>1, <2>2
<1>11. windows' \in [Rules -> [WindowKeys -> SUBSET WindowEntry]]
    <2>1. CASE key = NoKey
        BY <1>1, <1>2, <2>1
    <2>2. CASE key # NoKey
        <3>1. ASSUME NEW r \in Rules
              PROVE  (IF r \in rules THEN [windows[r] EXCEPT ![key] = Kept(r, key, e)] ELSE windows[r])
                         \in [WindowKeys -> SUBSET WindowEntry]
            <4>1. windows[r] \in [WindowKeys -> SUBSET WindowEntry]
                BY <1>2
            <4>2. r \in rules => Kept(r, key, e) \in SUBSET WindowEntry
                BY <1>9, <2>2
            <4> QED
                BY <4>1, <4>2
        <3> QED
            BY <1>1, <2>2, <3>1
    <2> QED
        BY <2>1, <2>2
<1>12. WindowsBracket'
    <2> SUFFICES ASSUME NEW r \in Rules, NEW k \in WindowKeys
                 PROVE  /\ windows'[r][k] \in SUBSET Matched(r, k)'
                        /\ \A x \in Matched(r, k)' : x.ts > now' - Window[r] => x \in windows'[r][k]
        BY DEF WindowsBracket
    <2>1. CASE r \in rules /\ k = key
        <3>1. key # NoKey /\ windows'[r][k] = Kept(r, key, e) /\ Matched(r, k)' = Matched(r, k) \cup {e}
            BY <1>7, <1>10, <2>1
        <3>2. e \in Kept(r, key, e)
            BY DEF Kept
        <3> QED
            BY <1>1, <1>9, <2>1, <3>1, <3>2
    <2>2. CASE ~(r \in rules /\ k = key)
        <3>1. windows'[r][k] = windows[r][k] /\ Matched(r, k)' = Matched(r, k)
            BY <1>7, <1>10, <2>2
        <3> QED
            BY <1>1, <1>8, <3>1
    <2> QED
        BY <2>1, <2>2
<1>13. WindowsAreExact'
    <2>1. ASSUME NEW r \in Rules, NEW k \in WindowKeys, r \in rules, k = key
          PROVE  /\ Matched(r, k)' # {}
                 /\ \A x \in Matched(r, k)' :
                       (\A y \in Matched(r, k)' : y.n <= x.n) => windows'[r][k] = InPeriod(r, k, x)'
        <3>1. key # NoKey
            BY <2>1
        <3>2. windows'[r][k] = InPeriod(r, k, e)' /\ Matched(r, k)' = Matched(r, k) \cup {e}
            BY <1>7, <1>9, <1>10, <2>1, <3>1
        <3>3. ASSUME NEW x \in Matched(r, k)', \A y \in Matched(r, k)' : y.n <= x.n PROVE x = e
            <4>1. ASSUME x \in Matched(r, k) PROVE FALSE
                <5>1. x.n < e.n /\ x.n \in Nat
                    BY <1>8, <4>1 DEF WindowEntry
                <5>2. e.n <= x.n /\ e.n \in Nat
                    BY <1>2, <1>3, <3>2, <3>3
                <5> QED
                    BY <5>1, <5>2
            <4> QED
                BY <3>2, <3>3, <4>1
        <3> QED
            BY <3>2, <3>3
    <2>2. ASSUME NEW r \in Rules, NEW k \in WindowKeys, ~(r \in rules /\ k = key)
          PROVE  /\ windows'[r][k] = windows[r][k] /\ Matched(r, k)' = Matched(r, k)
                 /\ \A x : InPeriod(r, k, x)' = InPeriod(r, k, x)
        BY <1>7, <1>10, <2>2 DEF InPeriod
    <2> QED
        BY <2>1, <2>2 DEF WindowsInv, WindowsAreExact
<1>14. FiresExactly'
    <2> SUFFICES ASSUME NEW s \in seen', s.entry.n = Cardinality(seen')
                 PROVE  emitted' =
                          {[rule |-> r, key |-> s.key, entries |-> InPeriod(r, s.key, s.entry)'] :
                              r \in {q \in s.rules : /\ s.key # NoKey
                                                     /\ ShouldAlert(q, InPeriod(q, s.key, s.entry)')}}
        BY DEF FiresExactly, ShouldAlert
    <2>1. s = new
        <3>1. s.entry.n = Cardinality(seen) + 1
            BY <1>5
        <3>2. ASSUME s \in seen PROVE FALSE
            <4>1. s.entry.n <= Cardinality(seen)
                BY <1>2, <3>2
            <4> QED
                BY <1>2, <3>1, <4>1
        <3> QED
            BY <1>1, <3>2
    <2>2. s.entry = e /\ s.key = key /\ s.rules = rules
        BY <1>3, <2>1
    <2>3. CASE key = NoKey
        BY <1>1, <2>2, <2>3
    <2>4. CASE key # NoKey
        <3>1. \A r \in rules : Kept(r, key, e) = InPeriod(r, key, e)'
            BY <1>9, <2>4
        <3>2. emitted' = {[rule |-> r, key |-> key, entries |-> Kept(r, key, e)] :
                             r \in {q \in rules : ShouldAlert(q, Kept(q, key, e))}}
            BY <1>1, <2>4
        <3>3. {q \in rules : ShouldAlert(q, Kept(q, key, e))}
                = {q \in rules : ShouldAlert(q, InPeriod(q, key, e)')}
            BY <3>1
        <3> QED
            BY <2>2, <2>4, <3>1, <3>2, <3>3
    <2> QED
        BY <2>3, <2>4
<1> QED
    BY <1>1, <1>2, <1>3, <1>5, <1>6, <1>11, <1>12, <1>13, <1>14 DEF WindowsInv

\* The windows are exact at the start.
LEMMA WindowsStart ==
    ASSUME WindowsInit
    PROVE  WindowsInv
<1>1. /\ now = 0 /\ seen = {} /\ windows = [r \in Rules |-> [k \in WindowKeys |-> {}]]
    BY DEF WindowsInit, ClockInit
<1>2. IsFiniteSet(seen)
    BY <1>1, FS_EmptySet
<1>3. WindowsBracket /\ WindowsAreExact
    BY <1>1 DEF WindowsBracket, WindowsAreExact, Matched
<1>4. FiresExactly
    BY <1>1 DEF FiresExactly
<1> QED
    BY <1>1, <1>2, <1>3, <1>4 DEF WindowsInv

\* What was emitted is only judged by the history.
LEMMA FiresExactlyUnchanged ==
    ASSUME UNCHANGED <<seen, emitted>>, FiresExactly
    PROVE  FiresExactly'
<1>1. ASSUME NEW r, NEW k, NEW e PROVE InPeriod(r, k, e)' = InPeriod(r, k, e)
    BY DEF InPeriod, Matched
<1> SUFFICES ASSUME NEW s \in seen, s.entry.n = Cardinality(seen)
             PROVE  emitted =
                      {[rule |-> r, key |-> s.key, entries |-> InPeriod(r, s.key, s.entry)'] :
                          r \in {q \in s.rules : /\ s.key # NoKey
                                                 /\ ShouldAlert(q, InPeriod(q, s.key, s.entry)')}}
    BY DEF FiresExactly, ShouldAlert
<1>2. emitted = {[rule |-> r, key |-> s.key, entries |-> InPeriod(r, s.key, s.entry)] :
                     r \in {q \in s.rules : /\ s.key # NoKey
                                            /\ ShouldAlert(q, InPeriod(q, s.key, s.entry))}}
    BY DEF FiresExactly
<1> QED
    BY <1>1, <1>2

\* Windows are judged by the events, not by the time that has passed since.
LEMMA WindowsExactUnchanged ==
    ASSUME UNCHANGED <<seen, windows>>, WindowsAreExact
    PROVE  WindowsAreExact'
<1>1. ASSUME NEW r, NEW k PROVE Matched(r, k)' = Matched(r, k)
    BY DEF Matched
<1>2. ASSUME NEW r, NEW k, NEW e PROVE InPeriod(r, k, e)' = InPeriod(r, k, e)
    BY <1>1 DEF InPeriod
<1> QED
    BY <1>1, <1>2 DEF WindowsAreExact

\* Time goes on: fewer of the matched events are recent, and none becomes so again.
LEMMA TickStep ==
    ASSUME Window \in [Rules -> Nat \ {0}], WindowsInv, Tick
    PROVE  WindowsInv'
<1>1. /\ now' = now + 1 /\ now \in Nat
      /\ UNCHANGED <<windows, seen, emitted>> /\ seen \in SUBSET Seen
    BY DEF Tick, Advance, WindowsInv
<1>2. \A s \in seen' : s.entry.ts <= now' /\ s.entry.n <= Cardinality(seen')
    <2> SUFFICES ASSUME NEW s \in seen PROVE s.entry.ts <= now + 1 /\ s.entry.n <= Cardinality(seen)
        BY <1>1
    <2>1. s.entry.ts \in Nat /\ s.entry.ts <= now /\ s.entry.n <= Cardinality(seen)
        BY <1>1 DEF WindowsInv, Seen, WindowEntry
    <2> QED
        BY <1>1, <2>1
<1>3. WindowsBracket'
    <2> SUFFICES ASSUME NEW r \in Rules, NEW k \in WindowKeys
                 PROVE  /\ windows[r][k] \in SUBSET Matched(r, k)
                        /\ \A x \in Matched(r, k) : x.ts > now + 1 - Window[r] => x \in windows[r][k]
        BY <1>1 DEF WindowsBracket, Matched
    <2>1. /\ windows[r][k] \in SUBSET Matched(r, k)
          /\ \A x \in Matched(r, k) : x.ts > now - Window[r] => x \in windows[r][k]
        BY DEF WindowsInv, WindowsBracket
    <2>2. \A x \in Matched(r, k) : x.ts \in Nat
        BY <1>1 DEF Matched, Seen, WindowEntry
    <2>3. Window[r] \in Nat
        OBVIOUS
    <2> QED
        BY <1>1, <2>1, <2>2, <2>3
<1>4. FiresExactly'
    BY <1>1, FiresExactlyUnchanged DEF WindowsInv
<1>5. WindowsAreExact'
    BY <1>1, WindowsExactUnchanged DEF WindowsInv
<1> QED
    BY <1>1, <1>2, <1>3, <1>4, <1>5 DEF WindowsInv

\* The windows' invariant holds for ever.
LEMMA WindowsHold == WindowsSpec => []WindowsInv
<1>1. WindowsInit => WindowsInv
    BY WindowsStart
<1>2. WindowsInv /\ [WindowsNext]_windowVars => WindowsInv'
    <2> SUFFICES ASSUME WindowsInv, [WindowsNext]_windowVars
                 PROVE  WindowsInv'
        OBVIOUS
    <2>1. ASSUME NEW rules \in SUBSET Rules, NEW key \in WindowKeys \cup {NoKey}, NEW item \in Items,
                 Process(rules, key, item)
          PROVE  WindowsInv'
        BY <2>1, ProcessStep, RulesAssumption, NoKeyAssumption
    <2>2. CASE Tick
        BY <2>2, TickStep, RulesAssumption
    <2>3. CASE UNCHANGED windowVars
        <3>1. UNCHANGED <<now, windows, seen, emitted>>
            BY <2>3 DEF windowVars
        <3>2. FiresExactly'
            BY <3>1, FiresExactlyUnchanged DEF WindowsInv
        <3>3. WindowsAreExact'
            BY <3>1, WindowsExactUnchanged DEF WindowsInv
        <3>4. WindowsBracket'
            BY <3>1 DEF WindowsInv, WindowsBracket, Matched
        <3> QED
            BY <3>1, <3>2, <3>3, <3>4 DEF WindowsInv
    <2> QED
        BY <2>1, <2>2, <2>3 DEF WindowsNext
<1> QED
    BY <1>1, <1>2, PTL DEF WindowsSpec

\* Windows, history and what was emitted last are always of the right kind.
THEOREM WindowsTypeCorrect == WindowsSpec => []WindowsTypeOK
<1>1. WindowsInit => emitted \in SUBSET Batch
    BY DEF WindowsInit
<1>2. WindowsInv /\ WindowsInv' /\ emitted \in SUBSET Batch /\ [WindowsNext]_windowVars
         => (emitted \in SUBSET Batch)'
    <2> SUFFICES ASSUME WindowsInv, WindowsInv', emitted \in SUBSET Batch, [WindowsNext]_windowVars
                 PROVE  emitted' \in SUBSET Batch
        OBVIOUS
    <2>1. ASSUME NEW rules \in SUBSET Rules, NEW key \in WindowKeys \cup {NoKey}, NEW item \in Items,
                 Process(rules, key, item)
          PROVE  emitted' \in SUBSET Batch
        <3> DEFINE e == [n |-> Cardinality(seen) + 1, ts |-> now, item |-> item]
        <3>1. e \in WindowEntry
            BY FS_CardinalityType DEF WindowsInv, WindowEntry
        <3>2. \A r \in rules : key # NoKey => Kept(r, key, e) \in SUBSET WindowEntry
            BY <3>1 DEF WindowsInv, Kept, Pruned
        <3>3. emitted' = {} \/ (key # NoKey /\ emitted' =
                 {[rule |-> r, key |-> key, entries |-> Kept(r, key, e)] :
                     r \in {q \in rules : ShouldAlert(q, Kept(q, key, e))}})
            BY <2>1 DEF Process, Kept
        <3> QED
            BY <3>2, <3>3 DEF Batch
    <2>2. CASE emitted' = emitted
        BY <2>2
    <2> QED
        BY <2>1, <2>2 DEF WindowsNext, windowVars, Tick
<1>3. WindowsInv /\ emitted \in SUBSET Batch => WindowsTypeOK
    BY DEF WindowsInv, WindowsTypeOK, ClockTypeOK
<1> QED
    BY <1>1, <1>2, <1>3, WindowsHold, PTL DEF WindowsSpec

\* A rule's window is, for each key, the period that ends with the last event the
\* rule matched with that key, and empty before the first, whatever the window is:
\* an engine that pruned less, or more, would not keep it (Engine.Process).
THEOREM WindowsStayExact == WindowsSpec => []WindowsAreExact
<1>1. WindowsInv => WindowsAreExact
    BY DEF WindowsInv
<1> QED
    BY <1>1, WindowsHold, PTL

\* A rule fires on an event exactly when the events of the period that ends with it
\* are enough and diverse enough, and emits just these, whatever the window, the
\* threshold and the diversity are (Engine.Process, Rule.ShouldAlert).
THEOREM RulesFireExactly == WindowsSpec => []FiresExactly
<1>1. WindowsInv => FiresExactly
    BY DEF WindowsInv
<1> QED
    BY <1>1, WindowsHold, PTL
=============================================================================
