----------------------------- MODULE EdgeEngine -----------------------------
(***************************************************************************)
(* edge/edge.go: policies, token buckets and counters.  Install, Remove    *)
(* and Eval run under the engine's lock; Eval updates its two counters     *)
(* after it has unlocked, one atomic add each, and a summary request reads *)
(* the counters one by one.  Only the pipeline goroutine calls Eval.       *)
(*                                                                         *)
(* Rate and Burst are the engine's defaults: no caller sets its own        *)
(* (edgePolicyFor leaves both zero).  Tokens are counted in whole numbers, *)
(* and Rate is what one tick of the clock refills.                         *)
(***************************************************************************)
EXTENDS EdgePolicies

CONSTANTS Rate, Burst,
          Expiries,  \* expiry times policies are installed with
          MaxBlocked \* bound: events blocked in a behaviour

ASSUME RateAssumption == Rate \in Nat \ {0} /\ Burst \in Nat \ {0}
ASSUME ExpiriesAssumption == Expiries \subseteq Int \cup {Never}

VARIABLES tokens,    \* bucket of an address: what is left in it ...
          last,      \* ... when it was last refilled ...
          since,     \* ... and when it was made, or Never (a bucket is never removed)
          allowed,   \* history: events an address got through its bucket
          blocked,   \* Engine.blocked
          byReason,  \* Engine.byReason
          counting,  \* the verdict counted in blocked and not yet in byReason
          shown      \* what a summary request has read so far

vars == <<now, policies, tokens, last, since, allowed, blocked, byReason, counting, shown>>

Reasons == {"deny", "rate_limit", "waf"}
Total(count) == count["deny"] + count["rate_limit"] + count["waf"]
HasBucket(ip) == since[ip] # Never

\* What a request has read: nothing, blocked, then the reasons one by one.
Unread == [blocked |-> 0, byReason |-> [r \in Reasons |-> 0], toRead |-> {}]

TypeOK ==
    /\ ClockTypeOK /\ PoliciesTypeOK
    /\ tokens \in [Sources -> Nat]
    /\ last \in [Sources -> Nat]
    /\ since \in [Sources -> Nat \cup {Never}]
    /\ allowed \in [Sources -> Nat]
    /\ blocked \in Nat
    /\ byReason \in [Reasons -> Nat]
    /\ counting \in Reasons \cup {"none"}
    /\ shown \in [blocked : Nat, byReason : [Reasons -> Nat], toRead : SUBSET Reasons]

Init ==
    /\ ClockInit /\ PoliciesInit
    /\ tokens = [ip \in Sources |-> 0]
    /\ last = [ip \in Sources |-> 0]
    /\ since = [ip \in Sources |-> Never]
    /\ allowed = [ip \in Sources |-> 0]
    /\ blocked = 0
    /\ byReason = [r \in Reasons |-> 0]
    /\ counting = "none"
    /\ shown = Unread

-----------------------------------------------------------------------------
AtMost(a, b) == IF a <= b THEN a ELSE b

\* allowLocked: a new bucket is full, an old one is refilled up to Burst for the
\* time since its last refill.
Refilled(ip) ==
    IF ~HasBucket(ip) THEN Burst
    ELSE IF now > last[ip] THEN AtMost(Burst, tokens[ip] + Rate * (now - last[ip]))
    ELSE tokens[ip]

\* Mutant of TakeToken: the refill time is not recorded.
TakeTokenKeepingTime(ip) ==
    /\ since' = [since EXCEPT ![ip] = IF HasBucket(ip) THEN @ ELSE now]
    /\ last' = [last EXCEPT ![ip] = IF HasBucket(ip) THEN @ ELSE now]
    /\ tokens' = [tokens EXCEPT ![ip] = IF Refilled(ip) >= 1 THEN Refilled(ip) - 1 ELSE Refilled(ip)]
    /\ allowed' = [allowed EXCEPT ![ip] = IF Refilled(ip) >= 1 THEN @ + 1 ELSE @]

TakeToken(ip) ==
    /\ since' = [since EXCEPT ![ip] = IF HasBucket(ip) THEN @ ELSE now]
    /\ last' = [last EXCEPT ![ip] = now]
    /\ tokens' = [tokens EXCEPT ![ip] = IF Refilled(ip) >= 1 THEN Refilled(ip) - 1 ELSE Refilled(ip)]
    /\ allowed' = [allowed EXCEPT ![ip] = IF Refilled(ip) >= 1 THEN @ + 1 ELSE @]

\* Why Eval blocks an event, or "none": only an address that is rate limited and
\* not denied uses its bucket.
Reason(ip, attack) ==
    CASE Verdict(ip, attack) = "pass" -> "none"
      [] Verdict(ip, attack) = "rate_limit" -> IF Refilled(ip) >= 1 THEN "none" ELSE "rate_limit"
      [] OTHER -> Verdict(ip, attack)

\* Mutant of Eval: only refusals count as blocked, not rate limiting.
EvalForgetsRateLimited(ip, attack) ==
    /\ counting = "none"
    /\ blocked < MaxBlocked
    /\ IF Verdict(ip, attack) = "rate_limit" THEN TakeToken(ip)
                                            ELSE UNCHANGED <<tokens, last, since, allowed>>
    /\ counting' = Reason(ip, attack)
    /\ blocked' = IF Reason(ip, attack) \in {"none", "rate_limit"} THEN blocked ELSE blocked + 1
    /\ UNCHANGED <<now, policies, byReason, shown>>

\* Eval up to its first counter.  An attack is an event with an attack tag.
Eval(ip, attack) ==
    /\ counting = "none"
    /\ blocked < MaxBlocked
    /\ IF Verdict(ip, attack) = "rate_limit" THEN TakeToken(ip)
                                            ELSE UNCHANGED <<tokens, last, since, allowed>>
    /\ counting' = Reason(ip, attack)
    /\ blocked' = IF Reason(ip, attack) = "none" THEN blocked ELSE blocked + 1
    /\ UNCHANGED <<now, policies, byReason, shown>>

\* Mutant of CountReason: there is no counter for WAF blocks.
CountReasonExceptWaf ==
    /\ counting # "none"
    /\ byReason' = IF counting = "waf" THEN byReason ELSE [byReason EXCEPT ![counting] = @ + 1]
    /\ counting' = "none"
    /\ UNCHANGED <<now, policies, tokens, last, since, allowed, blocked, shown>>

CountReason ==
    /\ counting # "none"
    /\ byReason' = [byReason EXCEPT ![counting] = @ + 1]
    /\ counting' = "none"
    /\ UNCHANGED <<now, policies, tokens, last, since, allowed, blocked, shown>>

\* Summary: Blocked() first, then BlockedByReason() counter by counter.
ReadBlocked ==
    /\ shown.toRead = {}
    /\ shown' = [Unread EXCEPT !.blocked = blocked, !.toRead = Reasons]
    /\ UNCHANGED <<now, policies, tokens, last, since, allowed, blocked, byReason, counting>>

ReadReason(r) ==
    /\ r \in shown.toRead
    /\ shown' = [shown EXCEPT !.byReason[r] = byReason[r], !.toRead = @ \ {r}]
    /\ UNCHANGED <<now, policies, tokens, last, since, allowed, blocked, byReason, counting>>

InstallPolicy(s, policy) ==
    /\ Install(s, policy)
    /\ UNCHANGED <<now, tokens, last, since, allowed, blocked, byReason, counting, shown>>

RemovePolicy(s) ==
    /\ Remove(s)
    /\ UNCHANGED <<now, tokens, last, since, allowed, blocked, byReason, counting, shown>>

Tick == Advance /\ UNCHANGED <<policies, tokens, last, since, allowed, blocked, byReason, counting, shown>>

Next ==
    \/ \E s \in SourceIds : RemovePolicy(s)
    \/ \E s \in SourceIds, k \in Kinds, t \in Sources \cup {AnyIP}, e \in Expiries :
          InstallPolicy(s, [kind |-> k, target |-> t, expires |-> e])
    \/ \E ip \in Sources, attack \in BOOLEAN : Eval(ip, attack)
    \/ CountReason
    \/ ReadBlocked
    \/ \E r \in Reasons : ReadReason(r)
    \/ Tick

Spec == Init /\ [][Next]_vars

-----------------------------------------------------------------------------
\* Rate limiting holds its promise across re-deployments: from the moment an
\* address has a bucket, its bucket lets through at most Burst events plus Rate
\* per tick, however often policies are removed, installed or doubled up.
TokenBound ==
    \A ip \in Sources : HasBucket(ip) =>
        /\ tokens[ip] <= Burst
        /\ since[ip] <= last[ip] /\ last[ip] <= now
        /\ allowed[ip] + tokens[ip] <= Burst + Rate * (last[ip] - since[ip])

\* The two counters differ by the one event being counted.
CountersAgree == blocked = Total(byReason) + (IF counting = "none" THEN 0 ELSE 1)

\* A summary that has read everything never shows reasons that miss more than
\* the one event being counted when it started.
SummaryAlmostComplete == shown.toRead = {} => shown.blocked <= Total(shown.byReason) + 1
=============================================================================
