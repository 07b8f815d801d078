------------------------ MODULE ContainmentRegistry ------------------------
(***************************************************************************)
(* containment/containment.go: the controls operators have deployed.  Each *)
(* operation runs under the service's lock and is one step.                *)
(***************************************************************************)
EXTENDS Clock

CONSTANTS ControlIds,  \* identities newID can draw
          IPs,         \* source addresses
          NoIP,        \* the empty address
          RawDurations,\* duration strings a client may send, see ParseDuration
          MinDuration, \* range of time.Duration, a 64-bit count of nanoseconds
          MaxDuration,
          Day,         \* 24 hours, in ticks of the clock
          NoControl    \* an identity not in use

ASSUME NoIPAssumption == NoIP \notin IPs
ASSUME DurationAssumption ==
    /\ MinDuration \in Int /\ MaxDuration \in Int /\ MinDuration < MaxDuration
    /\ Day \in Nat \ {0}
    /\ RawDurations \subseteq [form : {"permanent", "days", "go", "bad"}, n : Int]

VARIABLE items  \* the registry: identity -> control or NoControl

Types == {"block_ip", "rate_limit", "waf_rule"}

Control == [type : Types, ip : IPs, status : {"ACTIVE", "REVOKED", "EXPIRED"},
            expires : Int \cup {Never}]

ASSUME NoControlAssumption == NoControl \notin Control

RegistryTypeOK == items \in [ControlIds -> Control \cup {NoControl}]

RegistryInit == items = [id \in ControlIds |-> NoControl]

Known(id) == items[id] # NoControl

-----------------------------------------------------------------------------
\* time.Duration arithmetic wraps around at the ends of its range.
WrapDuration(n) == MinDuration + ((n - MinDuration) % (MaxDuration - MinDuration + 1))

\* ParseDuration.  "", "permanent" and "0" (form "permanent") never expire; "Nd"
\* is a number of days of any sign, multiplied without a range check; the rest is
\* time.ParseDuration's own syntax, which also has zero and negative values.
ValidDuration(raw) == raw.form # "bad"

ExpiryOf(raw) ==
    CASE raw.form = "permanent" -> Never
      [] raw.form = "days" -> now + WrapDuration(raw.n * Day)
      [] OTHER -> now + raw.n

\* A bad type, address or duration is refused with nothing changed.
ValidDeploy(type, ip, raw) == type \in Types /\ ip # NoIP /\ ValidDuration(raw)

Deploy(id, type, ip, raw) ==
    /\ ValidDeploy(type, ip, raw)
    /\ ~Known(id)
    /\ items' = [items EXCEPT ![id] = [type |-> type, ip |-> ip, status |-> "ACTIVE",
                                       expires |-> ExpiryOf(raw)]]

\* Reading marks what has expired: List and Get resolve the controls they return.
Resolve(c) == IF c.status = "ACTIVE" /\ Past(c.expires) THEN [c EXCEPT !.status = "EXPIRED"] ELSE c

\* The empty address lists every control.
List(ip) ==
    items' = [id \in ControlIds |->
                 IF Known(id) /\ ip \in {NoIP, items[id].ip} THEN Resolve(items[id]) ELSE items[id]]

\* Mutant of Revoke: any known control can be revoked.
RevokeAny(id) == Known(id) /\ items' = [items EXCEPT ![id].status = "REVOKED"]

\* Only an active control can be revoked; Revoke does not look at the expiry.
Revoke(id) ==
    /\ Known(id)
    /\ items[id].status = "ACTIVE"
    /\ items' = [items EXCEPT ![id].status = "REVOKED"]
=============================================================================
