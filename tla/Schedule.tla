------------------------------ MODULE Schedule ------------------------------
(***************************************************************************)
(* The arithmetic of lib/schedule.py, shared by the proxy's transmit loop  *)
(* and the receiver simulator.  Times are whole ticks since the schedule's *)
(* start and p is the period in ticks, so that slot s is due at s * p.     *)
(***************************************************************************)
EXTENDS Integers

\* The deadline of slot s: start + slot * period, from the index and not by
\* adding periods up.
NextDue(p, s) == s * p

\* (now - start) / period is a floating point quotient.  At an exact deadline
\* its floor may come out one too small; anywhere else it is exact.
FloatQuotients(p, t) ==
  {q \in {t \div p - 1, t \div p} : q >= 0 /\ q * p <= t /\ t <= (q + 1) * p}

\* while self.next_due <= now: self.slot += 1
FirstAfter(p, t, s) == IF NextDue(p, s) > t THEN s ELSE t \div p + 1

\* Defects of this step: without the while loop; with the slot after the next
\* deadline; without the jump over the missed slots.
SlotsNoLoop(p, t, s) == {q + 1 : q \in FloatQuotients(p, t)}
SlotsTooFar(p, t, s) == {FirstAfter(p, t, q + 2) : q \in FloatQuotients(p, t)}
SlotsOneByOne(p, t, s) == {s + 1}

\* The slots that a check at time t may select, when slot s has come due.
SlotsAfter(p, t, s) == {FirstAfter(p, t, q + 1) : q \in FloatQuotients(p, t)}
=============================================================================
