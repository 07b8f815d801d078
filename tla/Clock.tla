------------------------------- MODULE Clock -------------------------------
(* Wall-clock time as the components read it with time.Now: one number that *)
(* never goes back (Go compares its monotonic readings).                    *)
EXTENDS Integers

CONSTANT MaxTime  \* bound: how far time advances

VARIABLE now

ClockTypeOK == now \in Nat

ClockInit == now = 0

Advance == now < MaxTime /\ now' = now + 1

\* A deadline has passed once the clock is strictly after it (Time.After); a
\* missing deadline never passes.
CONSTANT Never

ASSUME NeverAssumption == Never \notin Int

Past(deadline) == deadline # Never /\ now > deadline
=============================================================================
