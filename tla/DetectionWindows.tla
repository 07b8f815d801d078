-------------------------- MODULE DetectionWindows --------------------------
(***************************************************************************)
(* detect/engine.go and the shape of the rules in detect/rules.go.  A rule *)
(* keeps, per key (a source address, or an asset), a sliding window of the *)
(* events it matched, and fires when the window holds enough of them and   *)
(* they are diverse enough.  Process runs on the pipeline goroutine only;  *)
(* the engine's lock covers the window update.                             *)
(*                                                                         *)
(* What a rule matches on (status, tags, path patterns) is abstracted to   *)
(* the set of rules an event matches, and the attribute its diversity      *)
(* check counts (paths, or assets) to the event's `item'.                  *)
(***************************************************************************)
EXTENDS Clock, FiniteSets

CONSTANTS Rules,        \* detection rules
          Window,       \* [Rules -> length of the sliding window]
          Threshold,    \* [Rules -> events needed to fire]
          Diversity,    \* [Rules -> distinct items needed: 8 paths, 2 assets, or 1]
          WindowKeys,   \* keys events have
          NoKey,        \* the empty key: Process skips the rule
          Items,        \* values of the attribute a diversity check counts
          MaxProcessed  \* bound: events in a behaviour

ASSUME RulesAssumption ==
    /\ Window \in [Rules -> Nat \ {0}]
    /\ Threshold \in [Rules -> Nat \ {0}]
    /\ Diversity \in [Rules -> Nat \ {0}]
ASSUME NoKeyAssumption == NoKey \notin WindowKeys

\* A window entry: the event's number in the order of processing and its time.
WindowEntry == [n : Nat, ts : Nat, item : Items]

VARIABLES windows,   \* Engine.windows: rule -> key -> entries
          seen,      \* history: every event processed, with the rules it matched
          emitted    \* what the last Process emitted: one batch per rule that fired

windowVars == <<now, windows, seen, emitted>>

Seen == [entry : WindowEntry, rules : SUBSET Rules, key : WindowKeys \cup {NoKey}]
Batch == [rule : Rules, key : WindowKeys, entries : SUBSET WindowEntry]

WindowsTypeOK ==
    /\ ClockTypeOK
    /\ windows \in [Rules -> [WindowKeys -> SUBSET WindowEntry]]
    /\ seen \in SUBSET Seen
    /\ emitted \in SUBSET Batch

-----------------------------------------------------------------------------
WindowsInit ==
    /\ ClockInit
    /\ windows = [r \in Rules |-> [k \in WindowKeys |-> {}]]
    /\ seen = {}
    /\ emitted = {}

\* Mutants of Pruned: the entry exactly one window old is kept; one tick too many
\* is cut off.
PrunedLate(r, entries, ts) == {e \in entries : e.ts >= ts - Window[r]}

PrunedEarly(r, entries, ts) == {e \in entries : e.ts > ts - Window[r] + 1}

\* The code keeps what is strictly younger than one window.
Pruned(r, entries, ts) == {e \in entries : e.ts > ts - Window[r]}

ShouldAlert(r, entries) ==
    /\ Cardinality(entries) >= Threshold[r]
    /\ Cardinality({e.item : e \in entries}) >= Diversity[r]

\* The event goes through the rules it matches; a rule whose key function
\* returns nothing is skipped.
Process(rules, key, item) ==
    LET entry == [n |-> Cardinality(seen) + 1, ts |-> now, item |-> item]
        kept(r) == Pruned(r, windows[r][key], now) \cup {entry}
    IN /\ Cardinality(seen) < MaxProcessed
       /\ seen' = seen \cup {[entry |-> entry, rules |-> rules, key |-> key]}
       /\ IF key = NoKey
          THEN windows' = windows /\ emitted' = {}
          ELSE /\ windows' = [r \in Rules |->
                                 IF r \in rules THEN [windows[r] EXCEPT ![key] = kept(r)]
                                                ELSE windows[r]]
               /\ emitted' = {[rule |-> r, key |-> key, entries |-> kept(r)] :
                                 r \in {q \in rules : ShouldAlert(q, kept(q))}}
       /\ UNCHANGED now

Tick == Advance /\ UNCHANGED <<windows, seen, emitted>>

WindowsNext ==
    \/ \E rules \in SUBSET Rules, key \in WindowKeys \cup {NoKey}, item \in Items :
          Process(rules, key, item)
    \/ Tick

WindowsSpec == WindowsInit /\ [][WindowsNext]_windowVars

-----------------------------------------------------------------------------
(* The reference: what the history of events says, without windows.        *)

Matched(r, k) == {s.entry : s \in {t \in seen : r \in t.rules /\ t.key = k}}

\* The events of the rule and key in the window that ends with event e.
InPeriod(r, k, e) == {x \in Matched(r, k) : x.n <= e.n /\ x.ts > e.ts - Window[r]}

\* The window of a rule and key is the period that ends with the last event of
\* the two: all that happened in it, whatever matched in between, and nothing
\* older, of another key or of another rule (the pruning of Engine.Process).
WindowsAreExact ==
    \A r \in Rules, k \in WindowKeys :
        /\ Matched(r, k) = {} => windows[r][k] = {}
        /\ \A e \in Matched(r, k) :
              (\A x \in Matched(r, k) : x.n <= e.n) => windows[r][k] = InPeriod(r, k, e)

\* A rule fires on the event just processed exactly when the history has enough
\* and diverse enough events in the period that ends with it, and the batch it
\* emits is those events: no event counts twice, none outside the period does.
FiresExactly ==
    \A s \in seen : s.entry.n = Cardinality(seen) =>
        emitted = {[rule |-> r, key |-> s.key, entries |-> InPeriod(r, s.key, s.entry)] :
                      r \in {q \in s.rules : /\ s.key # NoKey
                                             /\ ShouldAlert(q, InPeriod(q, s.key, s.entry))}}
=============================================================================
