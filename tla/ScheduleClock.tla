--------------------------- MODULE ScheduleClock ---------------------------
(***************************************************************************)
(* A DeadlineSchedule (lib/schedule.py) and the loop that polls it.  The   *)
(* loop checks the schedule once in every pass; a pass takes up to MaxPass *)
(* ticks, and a check fires at most one slot.  The names differ from those *)
(* of the receiver simulator, so that its proofs can extend both.          *)
(***************************************************************************)
EXTENDS Schedule

CONSTANTS
  Period,   \* ticks between two deadlines: 1 / rate_hz
  MaxPass,  \* the longest time that a pass takes
  Horizon   \* bound of the model on the clock

ASSUME RateAssumption == Period \in Nat \ {0}
ASSUME PassAssumption == MaxPass \in Nat
ASSUME HorizonAssumption == Horizon \in Nat

VARIABLES
  checked,  \* time of the last check
  slot,     \* self.slot
  fires,    \* history: how many checks returned True
  slowest   \* history: the longest pass so far

clockVars == <<checked, slot, fires, slowest>>

ClockInit ==
  /\ checked = 0
  /\ slot = 0
  /\ fires = 0
  /\ slowest = 0

\* due(now) before the deadline: nothing changes, it returns False.
TooEarly(t) ==
  /\ t < NextDue(Period, slot)
  /\ UNCHANGED <<slot, fires>>

\* due(now) at or after the deadline: the slot moves past t, it returns True.
Fire(t) ==
  /\ t >= NextDue(Period, slot)
  /\ slot' \in SlotsAfter(Period, t, slot)
  /\ fires' = fires + 1

\* One pass of the calling loop, which ends in a check.
Check ==
  \E gap \in 0..MaxPass :
    /\ checked + gap <= Horizon
    /\ checked' = checked + gap
    /\ slowest' = IF gap > slowest THEN gap ELSE slowest
    /\ TooEarly(checked + gap) \/ Fire(checked + gap)

ClockNext == Check

ClockSpec == ClockInit /\ [][ClockNext]_clockVars

----------------------------------------------------------------------------
ClockTypes ==
  /\ checked \in Nat
  /\ slot \in Nat
  /\ fires \in Nat
  /\ slowest \in Nat

\* "a late check skips the missed slots instead of sending a burst"
\* (schedule.py:4): a check leaves no deadline behind that a second check at the
\* same time could fire, however many it was late for.
DeadlineAhead == fires > 0 => NextDue(Period, slot) > checked

\* The other side: the deadline after a check is at most one period away,
\* whatever was skipped, so that a slow loop does not push its next slot out.
DeadlineNear == NextDue(Period, slot) <= checked + Period

\* "consumes that slot" (schedule.py:4): however the passes were spread and however the
\* quotient was rounded, never more fires than deadlines reached.
NoBurst == fires <= checked \div Period + 1

\* "the average rate equals rate_hz while the loop runs faster" (schedule.py:8):
\* as long as every pass was shorter than a period no slot is missed, so that
\* the fires are exactly the deadlines reached: no drift, however long it runs.
RateKept ==
  slowest < Period /\ fires > 0 => fires = checked \div Period + 1
=============================================================================
