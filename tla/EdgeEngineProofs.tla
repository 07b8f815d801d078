-------------------------- MODULE EdgeEngineProofs --------------------------
(* The edge's buckets and counters, for any rate, burst, number of policies  *)
(* and addresses.                                                            *)
EXTENDS EdgeEngine, TLAPS

\* An address without a bucket has not used one.
Unused == \A ip \in Sources : ~HasBucket(ip) => allowed[ip] = 0

\* While a summary request is reading: what it has read or will read at least is
\* at most one short of the total it read first.
Seen(r) == IF r \in shown.toRead THEN byReason[r] ELSE shown.byReason[r]

ReadingBound == shown.blocked <= Seen("deny") + Seen("rate_limit") + Seen("waf") + 1

IInv == TypeOK /\ TokenBound /\ Unused /\ CountersAgree /\ ReadingBound

EdgeVars == <<tokens, last, since, allowed>>
CountVars == <<blocked, byReason, counting>>

-----------------------------------------------------------------------------
\* A bucket never holds more than Burst, nor more than what it had plus what the
\* elapsed time refills (allowLocked).
LEMMA RefilledBound ==
    ASSUME TypeOK, TokenBound, NEW ip \in Sources
    PROVE  /\ Refilled(ip) \in Nat
           /\ Refilled(ip) <= Burst
           /\ HasBucket(ip) => Refilled(ip) <= tokens[ip] + Rate * (now - last[ip])
<1>0. /\ now \in Nat /\ tokens[ip] \in Nat /\ last[ip] \in Nat /\ Rate \in Nat /\ Burst \in Nat
      /\ HasBucket(ip) => tokens[ip] <= Burst /\ last[ip] <= now
    BY RateAssumption DEF TypeOK, ClockTypeOK, TokenBound
<1> DEFINE gain == Rate * (now - last[ip])
<1>1. HasBucket(ip) => gain \in Nat
    <2> SUFFICES ASSUME HasBucket(ip) PROVE gain \in Nat
        OBVIOUS
    <2>1. now - last[ip] \in Nat
        BY <1>0
    <2> QED
        BY <1>0, <2>1
<1>2. CASE ~HasBucket(ip)
    BY <1>0, <1>2 DEF Refilled
<1>3. CASE HasBucket(ip) /\ now > last[ip]
    <2> HIDE DEF gain
    <2>1. Refilled(ip) = AtMost(Burst, tokens[ip] + gain)
        BY <1>3 DEF Refilled, gain
    <2>2. gain \in Nat
        BY <1>1, <1>3
    <2>3. /\ Refilled(ip) \in Nat /\ Refilled(ip) <= Burst
          /\ Refilled(ip) <= tokens[ip] + gain
        BY <1>0, <2>1, <2>2 DEF AtMost
    <2> QED
        BY <2>3 DEF gain
<1>4. CASE HasBucket(ip) /\ ~(now > last[ip])
    <2>1. Refilled(ip) = tokens[ip]
        BY <1>4 DEF Refilled
    <2> HIDE DEF gain
    <2>2. Refilled(ip) <= tokens[ip] + gain
        BY <1>0, <1>1, <1>4, <2>1
    <2> QED
        BY <1>0, <1>4, <2>1, <2>2 DEF gain
<1> QED
    BY <1>2, <1>3, <1>4

\* Taking a token keeps the bound on what a bucket lets through.
LEMMA TakeTokenBound ==
    ASSUME TypeOK, TokenBound, Unused, NEW ip \in Sources, TakeToken(ip), now' = now
    PROVE  /\ tokens' \in [Sources -> Nat] /\ last' \in [Sources -> Nat]
           /\ since' \in [Sources -> Nat \cup {Never}] /\ allowed' \in [Sources -> Nat]
           /\ TokenBound' /\ Unused'
<1>0. /\ now \in Nat /\ Rate \in Nat /\ Burst \in Nat /\ Never \notin Nat
      /\ tokens \in [Sources -> Nat] /\ last \in [Sources -> Nat]
      /\ since \in [Sources -> Nat \cup {Never}] /\ allowed \in [Sources -> Nat]
    BY RateAssumption, NeverAssumption DEF TypeOK, ClockTypeOK
<1> DEFINE r == Refilled(ip)
<1>1. r \in Nat /\ r <= Burst /\ (HasBucket(ip) => r <= tokens[ip] + Rate * (now - last[ip]))
    BY RefilledBound
<1>2. /\ since' = [since EXCEPT ![ip] = IF HasBucket(ip) THEN since[ip] ELSE now]
      /\ last' = [last EXCEPT ![ip] = now]
      /\ tokens' = [tokens EXCEPT ![ip] = IF r >= 1 THEN r - 1 ELSE r]
      /\ allowed' = [allowed EXCEPT ![ip] = IF r >= 1 THEN allowed[ip] + 1 ELSE allowed[ip]]
    BY DEF TakeToken
<1> HIDE DEF r
<1>3. /\ tokens' \in [Sources -> Nat] /\ last' \in [Sources -> Nat]
      /\ since' \in [Sources -> Nat \cup {Never}] /\ allowed' \in [Sources -> Nat]
    BY <1>0, <1>1, <1>2
<1>4. /\ since'[ip] \in Nat /\ last'[ip] = now
      /\ allowed'[ip] + tokens'[ip] = allowed[ip] + r
      /\ tokens'[ip] <= Burst
    BY <1>0, <1>1, <1>2 DEF HasBucket
<1>5. since'[ip] <= now /\ allowed[ip] + r <= Burst + Rate * (now - since'[ip])
    <2>1. CASE HasBucket(ip)
        <3>1. /\ since'[ip] = since[ip] /\ since[ip] \in Nat
              /\ since[ip] <= last[ip] /\ last[ip] <= now
              /\ allowed[ip] + tokens[ip] <= Burst + Rate * (last[ip] - since[ip])
            BY <1>0, <1>2, <2>1 DEF HasBucket, TokenBound
        <3>2. Rate * (last[ip] - since[ip]) + Rate * (now - last[ip]) = Rate * (now - since[ip])
            BY <1>0, <3>1
        <3> DEFINE x == Rate * (last[ip] - since[ip])
                   y == Rate * (now - last[ip])
                   z == Rate * (now - since[ip])
        <3>3. x \in Int /\ y \in Int /\ z \in Int
            BY <1>0, <3>1
        <3> HIDE DEF x, y, z
        <3>4. allowed[ip] + tokens[ip] <= Burst + x /\ r <= tokens[ip] + y /\ x + y = z
            BY <1>1, <2>1, <3>1, <3>2 DEF x, y, z
        <3>5. allowed[ip] + r <= Burst + z
            BY <1>0, <1>1, <3>3, <3>4
        <3> QED
            BY <3>1, <3>5, <1>0 DEF z
    <2>2. CASE ~HasBucket(ip)
        <3>1. since'[ip] = now /\ allowed[ip] = 0
            BY <1>0, <1>2, <2>2 DEF Unused
        <3>2. Rate * (now - now) = 0
            BY <1>0
        <3> QED
            BY <1>0, <1>1, <3>1, <3>2
    <2> QED
        BY <2>1, <2>2
<1>6. ASSUME NEW i \in Sources, i # ip
      PROVE  since'[i] = since[i] /\ last'[i] = last[i] /\ tokens'[i] = tokens[i] /\ allowed'[i] = allowed[i]
    BY <1>0, <1>2, <1>6
<1>7. TokenBound'
    <2> SUFFICES ASSUME NEW i \in Sources, since'[i] # Never
                 PROVE  /\ tokens'[i] <= Burst
                        /\ since'[i] <= last'[i] /\ last'[i] <= now'
                        /\ allowed'[i] + tokens'[i] <= Burst + Rate * (last'[i] - since'[i])
        BY DEF TokenBound, HasBucket
    <2>1. CASE i = ip
        BY <1>0, <1>4, <1>5, <2>1
    <2>2. CASE i # ip
        BY <1>6, <2>2 DEF TokenBound, HasBucket
    <2> QED
        BY <2>1, <2>2
<1>8. Unused'
    BY <1>0, <1>4, <1>6 DEF Unused, HasBucket
<1> QED
    BY <1>3, <1>7, <1>8

\* The passing of time gives a bucket no more than its refill.
LEMMA EdgeUntouched ==
    ASSUME TypeOK, TokenBound, Unused, UNCHANGED EdgeVars, now' \in Nat, now' >= now
    PROVE  TokenBound' /\ Unused'
<1>1. \A ip \in Sources : HasBucket(ip) => last[ip] <= now'
    BY DEF TypeOK, ClockTypeOK, TokenBound
<1> QED
    BY <1>1 DEF EdgeVars, TokenBound, Unused, HasBucket

\* The inductive invariant holds at the start,
LEMMA IInvInit == Init => IInv
BY NeverAssumption
DEF Init, IInv, TypeOK, ClockInit, ClockTypeOK, PoliciesInit, PoliciesTypeOK, TokenBound, Unused,
    HasBucket, CountersAgree, Total, ReadingBound, Seen, Unread, Reasons

\* and every step of Eval, the counters and the operators keeps it.
LEMMA IInvStep == IInv /\ [Next]_vars => IInv'
<1> SUFFICES ASSUME IInv, [Next]_vars PROVE IInv'
    OBVIOUS
<1>0. /\ TypeOK /\ TokenBound /\ Unused /\ CountersAgree /\ ReadingBound
      /\ now \in Nat /\ blocked \in Nat /\ byReason \in [Reasons -> Nat]
      /\ counting \in Reasons \cup {"none"}
      /\ shown \in [blocked : Nat, byReason : [Reasons -> Nat], toRead : SUBSET Reasons]
    BY DEF IInv, TypeOK, ClockTypeOK
<1>1. ASSUME NEW ip \in Sources, NEW attack \in BOOLEAN, Eval(ip, attack) PROVE IInv'
    <2>1. UNCHANGED <<now, policies, byReason, shown>>
        BY <1>1 DEF Eval
    <2>2. /\ tokens' \in [Sources -> Nat] /\ last' \in [Sources -> Nat]
          /\ since' \in [Sources -> Nat \cup {Never}] /\ allowed' \in [Sources -> Nat]
          /\ TokenBound' /\ Unused'
        <3>1. CASE TakeToken(ip)
            BY <1>0, <2>1, <3>1, TakeTokenBound
        <3>2. CASE UNCHANGED EdgeVars
            BY <1>0, <2>1, <3>2, EdgeUntouched DEF EdgeVars, TypeOK
        <3> QED
            BY <1>1, <3>1, <3>2 DEF Eval, EdgeVars
    <2>3. /\ counting = "none" /\ counting' \in Reasons \cup {"none"}
          /\ blocked' = (IF counting' = "none" THEN blocked ELSE blocked + 1)
        BY <1>1 DEF Eval, Reason, Verdict, Reasons
    <2>4. CountersAgree'
        BY <1>0, <2>1, <2>3 DEF CountersAgree, Total, Reasons
    <2>5. ReadingBound'
        BY <1>0, <2>1 DEF ReadingBound, Seen
    <2> QED
        BY <1>0, <2>1, <2>2, <2>3, <2>4, <2>5 DEF IInv, TypeOK, ClockTypeOK, PoliciesTypeOK
<1>2. ASSUME CountReason PROVE IInv'
    <2>1. /\ counting \in Reasons /\ counting' = "none"
          /\ byReason' = [byReason EXCEPT ![counting] = byReason[counting] + 1]
          /\ UNCHANGED <<now, policies, tokens, last, since, allowed, blocked, shown>>
        BY <1>0, <1>2 DEF CountReason
    <2>2. /\ byReason' \in [Reasons -> Nat]
          /\ \A r \in Reasons : byReason[r] <= byReason'[r]
        BY <1>0, <2>1
    <2>3. Total(byReason') = Total(byReason) + 1
        BY <1>0, <2>1 DEF Total, Reasons
    <2>4. CountersAgree'
        BY <1>0, <2>1, <2>3 DEF CountersAgree, Reasons
    <2>5. ReadingBound'
        BY <1>0, <2>1, <2>2 DEF ReadingBound, Seen, Reasons
    <2>6. TokenBound' /\ Unused'
        BY <1>0, <2>1, EdgeUntouched DEF EdgeVars
    <2> QED
        BY <1>0, <2>1, <2>2, <2>4, <2>5, <2>6 DEF IInv, TypeOK, ClockTypeOK, PoliciesTypeOK
<1>3. ASSUME ReadBlocked \/ \E r \in Reasons : ReadReason(r) PROVE IInv'
    <2>1. UNCHANGED <<now, policies, tokens, last, since, allowed, blocked, byReason, counting>>
        BY <1>3 DEF ReadBlocked, ReadReason
    <2>2. TokenBound' /\ Unused' /\ CountersAgree'
        BY <1>0, <2>1, EdgeUntouched DEF EdgeVars, CountersAgree
    <2>3. /\ shown' \in [blocked : Nat, byReason : [Reasons -> Nat], toRead : SUBSET Reasons]
          /\ ReadingBound'
        <3>1. CASE ReadBlocked
            <4>1. shown' = [blocked |-> blocked, byReason |-> [r \in Reasons |-> 0], toRead |-> Reasons]
                BY <3>1 DEF ReadBlocked, Unread
            <4>2. blocked <= Total(byReason) + 1
                BY <1>0 DEF CountersAgree, Total, Reasons
            <4> QED
                BY <1>0, <2>1, <4>1, <4>2 DEF ReadingBound, Seen, Total, Reasons
        <3>2. ASSUME NEW r \in Reasons, ReadReason(r)
              PROVE  /\ shown' \in [blocked : Nat, byReason : [Reasons -> Nat], toRead : SUBSET Reasons]
                     /\ ReadingBound'
            <4>1. /\ r \in shown.toRead
                  /\ shown' = [shown EXCEPT !.byReason = [shown.byReason EXCEPT ![r] = byReason[r]],
                                            !.toRead = shown.toRead \ {r}]
                BY <3>2 DEF ReadReason
            <4>2. /\ shown'.blocked = shown.blocked
                  /\ shown'.byReason = [shown.byReason EXCEPT ![r] = byReason[r]]
                  /\ shown'.toRead = shown.toRead \ {r}
                  /\ shown' \in [blocked : Nat, byReason : [Reasons -> Nat], toRead : SUBSET Reasons]
                BY <1>0, <4>1
            <4>3. \A s \in Reasons : Seen(s)' = Seen(s)
                BY <1>0, <2>1, <4>1, <4>2 DEF Seen
            <4> QED
                BY <1>0, <4>2, <4>3 DEF ReadingBound, Reasons
        <3> QED
            BY <1>3, <3>1, <3>2
    <2> QED
        BY <1>0, <2>1, <2>2, <2>3 DEF IInv, TypeOK, ClockTypeOK, PoliciesTypeOK
<1>4. ASSUME NEW s \in SourceIds, NEW p \in Policy \cup {NoPolicy},
             InstallPolicy(s, p) \/ RemovePolicy(s)
      PROVE  IInv'
    <2>1. /\ policies' \in [SourceIds -> Policy \cup {NoPolicy}]
          /\ UNCHANGED <<now, tokens, last, since, allowed, blocked, byReason, counting, shown>>
        BY <1>0, <1>4 DEF InstallPolicy, RemovePolicy, Install, Remove, TypeOK, PoliciesTypeOK
    <2>2. TokenBound' /\ Unused' /\ CountersAgree' /\ ReadingBound'
        BY <1>0, <2>1, EdgeUntouched DEF EdgeVars, CountersAgree, ReadingBound, Seen
    <2> QED
        BY <1>0, <2>1, <2>2 DEF IInv, TypeOK, ClockTypeOK, PoliciesTypeOK
<1>5. ASSUME Tick PROVE IInv'
    <2>1. /\ now' = now + 1
          /\ UNCHANGED <<policies, tokens, last, since, allowed, blocked, byReason, counting, shown>>
        BY <1>5 DEF Tick, Advance
    <2>2. TokenBound' /\ Unused' /\ CountersAgree' /\ ReadingBound'
        BY <1>0, <2>1, EdgeUntouched DEF EdgeVars, CountersAgree, ReadingBound, Seen
    <2> QED
        BY <1>0, <2>1, <2>2 DEF IInv, TypeOK, ClockTypeOK, PoliciesTypeOK
<1>6. CASE UNCHANGED vars
    <2>1. TokenBound' /\ Unused' /\ CountersAgree' /\ ReadingBound'
        BY <1>0, <1>6, EdgeUntouched DEF vars, EdgeVars, CountersAgree, ReadingBound, Seen
    <2> QED
        BY <1>0, <1>6, <2>1 DEF vars, IInv, TypeOK, ClockTypeOK, PoliciesTypeOK
<1>7. ASSUME NEW s \in SourceIds, NEW k \in Kinds, NEW t \in Sources \cup {AnyIP}, NEW e \in Expiries
      PROVE  [kind |-> k, target |-> t, expires |-> e] \in Policy
    BY ExpiriesAssumption DEF Policy
<1> QED
    BY <1>1, <1>2, <1>3, <1>4, <1>5, <1>6, <1>7 DEF Next

\* So it holds for ever.
LEMMA Inductive == Spec => []IInv
BY IInvInit, IInvStep, PTL DEF Spec

-----------------------------------------------------------------------------
\* Policies, buckets and counters are of the right kind.
THEOREM TypeCorrect == Spec => []TypeOK
<1>1. IInv => TypeOK
    BY DEF IInv
<1> QED
    BY <1>1, Inductive, PTL

\* No address gets more through its bucket than Burst plus Rate per tick, across
\* any number of removals and re-deployments (allowLocked).
THEOREM RateLimitHolds == Spec => []TokenBound
<1>1. IInv => TokenBound
    BY DEF IInv
<1> QED
    BY <1>1, Inductive, PTL

\* Total and per-reason counters never drift apart (Eval).
THEOREM CountersStayTogether == Spec => []CountersAgree
<1>1. IInv => CountersAgree
    BY DEF IInv
<1> QED
    BY <1>1, Inductive, PTL

\* A summary's reasons miss at most the one event that was being counted.
THEOREM SummaryIsClose == Spec => []SummaryAlmostComplete
<1>1. IInv => SummaryAlmostComplete
    BY DEF IInv, ReadingBound, Seen, SummaryAlmostComplete, Total
<1> QED
    BY <1>1, Inductive, PTL
=============================================================================
