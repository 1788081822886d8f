----------------------- MODULE VirtualReceiverProofs -----------------------
(***************************************************************************)
(* The receiver simulator for any rates, timeouts and lengths of a pass:   *)
(* an old sample is not sent on, no frame mixes two connections, and no    *)
(* burst of RC frames catches up on a pause.  Before it, what              *)
(* lib/schedule.py promises of a schedule by itself (ScheduleClock).       *)
(***************************************************************************)
EXTENDS VirtualReceiver, ScheduleClock, SequenceTheorems, TLAPS

----------------------------------------------------------------------------
(* Division, and the deadlines of a schedule. *)

\* Integer division by a positive period, in the form the proofs below use.
LEMMA Division ==
  ASSUME NEW p \in Nat \ {0}, NEW t \in Nat
  PROVE  /\ t \div p \in Nat
         /\ (t \div p) * p <= t
         /\ t < (t \div p + 1) * p
  OBVIOUS

\* The deadline after t: less than a period away, and never at t itself.
LEMMA NextDeadline ==
  ASSUME NEW p \in Nat \ {0}, NEW t \in Nat
  PROVE  t < (t \div p + 1) * p /\ (t \div p + 1) * p <= t + p
  <1>1. PICK q \in Nat : q = t \div p /\ q * p <= t /\ t < (q + 1) * p
    BY Division
  <1>2. (q + 1) * p = q * p + p /\ q * p \in Nat
    OBVIOUS
  <1> QED
    BY <1>1, <1>2

\* The quotient is the only number with the bounds of Division.
LEMMA QuotientUnique ==
  ASSUME NEW p \in Nat \ {0}, NEW t \in Nat, NEW q \in Int,
         q * p <= t, t < (q + 1) * p
  PROVE  t \div p = q
  BY SMT

\* Multiples of a positive period are ordered as their factors.
LEMMA ProductOrder ==
  ASSUME NEW p \in Nat \ {0}, NEW t \in Nat, NEW a \in Nat, NEW b \in Nat,
         a * p <= t, t < b * p
  PROVE  a < b
  <1> SUFFICES ASSUME b <= a
               PROVE  FALSE
    OBVIOUS
  <1>1. PICK k \in Nat : a = b + k
    <2>1. a - b \in Nat /\ a = b + (a - b)
      OBVIOUS
    <2> QED
      BY <2>1
  <1>2. a * p = b * p + k * p /\ k * p \in Nat /\ b * p \in Nat /\ a * p \in Nat
    BY <1>1
  <1> QED
    BY <1>2

\* Rounding is harmless: whichever way the floating point quotient of
\* schedule.py:34 falls at an exact deadline, the loop of line 35 leads to the
\* same slot, the first one whose deadline is still ahead.
LEMMA SlotIsNextQuotient ==
  ASSUME NEW p \in Nat \ {0}, NEW t \in Nat, NEW s \in Nat,
         NEW u \in SlotsAfter(p, t, s)
  PROVE  /\ u = t \div p + 1
         /\ u \in Nat
  <1>1. PICK q \in FloatQuotients(p, t) : u = FirstAfter(p, t, q + 1)
    BY DEF SlotsAfter
  <1>2. t \div p \in Nat
    BY Division
  <1>3. q \in Int /\ q * p <= t /\ q \in {t \div p - 1, t \div p}
    BY <1>1, <1>2 DEF FloatQuotients
  <1>4. CASE (q + 1) * p > t
    <2>1. t \div p = q
      BY <1>3, <1>4, QuotientUnique
    <2> QED
      BY <2>1, <1>1, <1>2, <1>4 DEF FirstAfter, NextDue
  <1>5. CASE ~ (q + 1) * p > t
    BY <1>1, <1>2, <1>5 DEF FirstAfter, NextDue
  <1> QED
    BY <1>4, <1>5

----------------------------------------------------------------------------
(* A schedule by itself, for every period, every bound on the length of a *)
(* pass and every length of the run.                                      *)

\* The strengthening of a schedule that is inductive.  The slot bounds the fires from above;
\* while every pass is short it also bounds them from below.
ClockInv ==
  /\ ClockTypes
  /\ DeadlineAhead
  /\ DeadlineNear
  /\ fires <= slot
  /\ fires = 0 => slot = 0 /\ checked = 0
  /\ slowest < Period => fires = slot

LEMMA InitClock == ClockInit => ClockInv
  BY RateAssumption DEF ClockInit, ClockInv, ClockTypes, DeadlineAhead, DeadlineNear, NextDue

LEMMA NextClock == ClockInv /\ [ClockNext]_clockVars => ClockInv'
  <1> SUFFICES ASSUME ClockInv, [ClockNext]_clockVars
               PROVE  ClockInv'
    OBVIOUS
  <1> USE RateAssumption, PassAssumption
  <1>1. CASE UNCHANGED clockVars
    BY <1>1 DEF clockVars, ClockInv, ClockTypes, DeadlineAhead, DeadlineNear, NextDue
  <1>2. CASE ClockNext
    <2>1. PICK gap \in 0..MaxPass :
            /\ checked' = checked + gap
            /\ slowest' = IF gap > slowest THEN gap ELSE slowest
            /\ TooEarly(checked + gap) \/ Fire(checked + gap)
      BY <1>2 DEF ClockNext, Check
    <2>2. /\ checked \in Nat /\ slot \in Nat /\ fires \in Nat /\ slowest \in Nat
          /\ checked' \in Nat /\ slowest' \in Nat /\ checked' >= checked
          /\ slowest' < Period => slowest < Period /\ gap < Period
      BY <2>1 DEF ClockInv, ClockTypes
    <2>3. CASE TooEarly(checked + gap)
      <3>1. slot' = slot /\ fires' = fires /\ checked' < NextDue(Period, slot)
        BY <2>1, <2>3 DEF TooEarly
      <3>2. fires > 0
        BY <3>1, <2>2 DEF ClockInv, NextDue
      <3>3. NextDue(Period, slot) \in Nat /\ NextDue(Period, slot)' = NextDue(Period, slot)
        BY <3>1, <2>2 DEF NextDue
      <3> QED
        BY <3>1, <3>2, <3>3, <2>2 DEF ClockInv, ClockTypes, DeadlineAhead, DeadlineNear
    <2>4. CASE Fire(checked + gap)
      <3>0. slot' = checked' \div Period + 1
        BY <2>1, <2>2, <2>4, SlotIsNextQuotient DEF Fire
      <3>1. slot' \in Nat /\ fires' = fires + 1 /\ checked' >= slot * Period
        BY <2>1, <2>2, <2>4, SlotIsNextQuotient DEF Fire, NextDue
      <3>2. checked' < slot' * Period /\ slot' * Period <= checked' + Period
        BY <2>2, <3>0, NextDeadline
      <3>3. slot < slot'
        BY <3>1, <3>2, <2>2, ProductOrder
      <3>4. slowest' < Period => slot' = slot + 1
        <4>1. SUFFICES ASSUME slowest' < Period PROVE slot' = slot + 1
          OBVIOUS
        <4>2. checked' < (slot + 1) * Period
          <5>1. (slot + 1) * Period = slot * Period + Period /\ slot * Period \in Nat
            BY <2>2
          <5>2. checked < NextDue(Period, slot) + 1
            BY <2>2 DEF ClockInv, DeadlineAhead, NextDue
          <5>3. gap < Period /\ checked' = checked + gap
            BY <4>1, <2>1, <2>2
          <5>4. fires = 0 => checked = 0
            BY DEF ClockInv
          <5>5. fires > 0 => checked < NextDue(Period, slot)
            BY DEF ClockInv, DeadlineAhead
          <5> QED
            BY <5>1, <5>3, <5>4, <5>5, <2>2 DEF NextDue
        <4>3. checked' \in Nat /\ slot \in Int /\ Period \in Nat \ {0} /\ slot * Period <= checked'
          BY <3>1, <2>2
        <4>4. checked' \div Period = slot
          BY <4>2, <4>3, QuotientUnique
        <4> QED
          BY <4>4, <3>0
      <3>5. ClockTypes' /\ DeadlineAhead' /\ DeadlineNear'
        <4>1. ClockTypes'
          BY <3>1, <2>2 DEF ClockTypes
        <4>2. slot' * Period \in Int
          BY <3>1
        <4>3. DeadlineAhead' /\ DeadlineNear'
          BY <3>2, <4>2, <2>2 DEF DeadlineAhead, DeadlineNear, NextDue
        <4> QED
          BY <4>1, <4>3
      <3>6. fires' <= slot' /\ fires' > 0 /\ (slowest' < Period => fires' = slot')
        BY <3>1, <3>3, <3>4, <2>2 DEF ClockInv
      <3> QED
        BY <3>5, <3>6, <3>1, <2>2 DEF ClockInv
    <2> QED
      BY <2>1, <2>3, <2>4
  <1> QED
    BY <1>1, <1>2

\* What the invariant says of the number of fires.
LEMMA ClockRate == ClockInv => NoBurst /\ RateKept
  <1> SUFFICES ASSUME ClockInv
               PROVE  NoBurst /\ RateKept
    OBVIOUS
  <1>1. checked \in Nat /\ slot \in Nat /\ fires \in Nat /\ checked \div Period \in Nat
    BY RateAssumption, Division DEF ClockInv, ClockTypes
  <1>2. CASE fires = 0
    BY <1>1, <1>2 DEF NoBurst, RateKept
  <1>3. CASE fires > 0
    <2>1. checked < slot * Period /\ (slot - 1) * Period <= checked
      <3>1. checked < NextDue(Period, slot) /\ NextDue(Period, slot) <= checked + Period
        BY <1>3 DEF ClockInv, DeadlineAhead, DeadlineNear
      <3>2. (slot - 1) * Period = slot * Period - Period /\ slot * Period \in Nat
        BY <1>1, RateAssumption
      <3> QED
        BY <3>1, <3>2, <1>1, RateAssumption DEF NextDue
    <2>2. checked \div Period = slot - 1
      BY <2>1, <1>1, RateAssumption, QuotientUnique
    <2> QED
      BY <2>2, <1>1 DEF ClockInv, NoBurst, RateKept
  <1> QED
    BY <1>1, <1>2, <1>3

\* The inductive invariant holds in every behaviour.
LEMMA ClockInvariance == ClockSpec => []ClockInv
  BY InitClock, NextClock, PTL DEF ClockSpec

\* Every variable keeps its type (lib/schedule.py:19).
THEOREM ScheduleTypes == ClockSpec => []ClockTypes
  BY ClockInvariance, PTL DEF ClockInv

\* A check leaves the next deadline ahead of it (lib/schedule.py:35).
THEOREM AlwaysAhead == ClockSpec => []DeadlineAhead
  BY ClockInvariance, PTL DEF ClockInv

\* A check leaves the next deadline at most a period away (lib/schedule.py:34).
THEOREM AlwaysNear == ClockSpec => []DeadlineNear
  BY ClockInvariance, PTL DEF ClockInv

\* A late check sends no burst (lib/schedule.py:4).
THEOREM NeverABurst == ClockSpec => []NoBurst
  BY ClockInvariance, ClockRate, PTL

\* A loop faster than the schedule keeps its rate exactly (lib/schedule.py:8).
THEOREM RateIsKept == ClockSpec => []RateKept
  BY ClockInvariance, ClockRate, PTL

----------------------------------------------------------------------------
(* The parts of the inductive invariant. *)

Requests == [action : Actions, at : Nat]

Types ==
  /\ now \in Nat /\ start \in Nat
  /\ pc \in {"rc", "control", "open", "read", "sendRc", "sendLink", "pause", "dead"}
  /\ rcSocket \in Seq(Int) /\ controls \in Seq(Requests)
  /\ channels \in Int /\ lastInput \in Int /\ sentAge \in Int
  /\ connected \in BOOLEAN /\ partial \in {"none", "this", "earlier"} /\ mixed \in BOOLEAN
  /\ rcSlot \in Nat /\ linkSlot \in Nat /\ lastRc \in Int /\ formerRc \in Int

\* Only connecting takes time between the start of a pass and its end.
PassTime ==
  /\ start <= now /\ now <= start + OpenTime
  /\ pc \in {"rc", "control", "open"} => now = start

\* What waits in a socket that this pass has drained arrived in it; before that it
\* may have waited for the rest of the last pass.
SamplesRecent ==
  \A i \in DOMAIN rcSocket : ~Rejected(rcSocket[i]) =>
    IF pc = "rc" THEN start - rcSocket[i] <= LongestPass ELSE rcSocket[i] >= start
ControlsRecent ==
  pc # "dead" => \A i \in DOMAIN controls :
    IF pc \in {"rc", "control"} THEN start - controls[i].at <= LongestPass
                                ELSE controls[i].at >= start

\* lastInput is the start of the pass that took the sample from its socket.
SampleRecent ==
  /\ lastInput <= start
  /\ channels >= 0 => lastInput >= 0 /\ lastInput - channels <= LongestPass

\* A parser with bytes of an earlier connection is not read into.
ParserNew ==
  /\ pc \in {"read", "sendRc", "sendLink"} => connected
  /\ connected => partial # "earlier"

\* The next deadline is ahead of the last frame, and more than a period ahead of
\* the one before it.
FramesSpaced ==
  /\ lastRc >= 0 => lastRc < NextDue(RcPeriod, rcSlot)
  /\ formerRc >= 0 => formerRc + RcPeriod < NextDue(RcPeriod, rcSlot)

IInv ==
  /\ Types /\ PassTime /\ SamplesRecent /\ ControlsRecent /\ SampleRecent /\ ParserNew /\ FramesSpaced
  /\ SourceLossSeen /\ FramesOfOneConnection

----------------------------------------------------------------------------
(* What the steps do to a part of the state. *)

Constants ==
  /\ RcPeriod \in Nat \ {0} /\ LinkPeriod \in Nat \ {0}
  /\ SourceTimeout \in Nat /\ OpenTime \in Nat /\ MaxGap \in Nat /\ LongestPass \in Nat
  /\ LongestPass = OpenTime + MaxGap

LEMMA ConstantTypes == Constants
  BY PeriodAssumption, TimeAssumption DEF Constants, LongestPass

LEMMA FirstRequest ==
  ASSUME Types, controls # <<>>
  PROVE  /\ Head(controls) \in Requests /\ Head(controls) = controls[1] /\ 1 \in DOMAIN controls
         /\ Tail(controls) \in Seq(Requests)
         /\ \A i \in DOMAIN Tail(controls) :
              i + 1 \in DOMAIN controls /\ Tail(controls)[i] = controls[i + 1]
  <1>1. /\ controls \in Seq(Requests) /\ Len(controls) \in Nat \ {0}
        /\ Head(controls) \in Requests /\ Head(controls) = controls[1]
        /\ Tail(controls) \in Seq(Requests) /\ Len(Tail(controls)) = Len(controls) - 1
        /\ \A i \in 1..(Len(controls) - 1) : Tail(controls)[i] = controls[i + 1]
    BY EmptySeq, HeadTailProperties DEF Types
  <1>2. DOMAIN controls = 1..Len(controls) /\ DOMAIN Tail(controls) = 1..(Len(controls) - 1)
    BY <1>1, LenProperties
  <1> QED
    BY <1>1, <1>2

LEMMA Appended ==
  ASSUME NEW S, NEW s \in Seq(S), NEW e \in S
  PROVE  /\ Append(s, e) \in Seq(S)
         /\ \A i \in DOMAIN Append(s, e) :
              Append(s, e)[i] = e \/ (i \in DOMAIN s /\ Append(s, e)[i] = s[i])
  <1>1. /\ Append(s, e) \in Seq(S) /\ Len(s) \in Nat /\ Len(Append(s, e)) = Len(s) + 1
        /\ Append(s, e)[Len(s) + 1] = e
        /\ \A i \in 1..Len(s) : Append(s, e)[i] = s[i]
    BY AppendProperties, LenProperties
  <1>2. DOMAIN s = 1..Len(s) /\ DOMAIN Append(s, e) = 1..(Len(s) + 1)
    BY <1>1, LenProperties
  <1>3. \A i \in 1..(Len(s) + 1) : i = Len(s) + 1 \/ i \in 1..Len(s)
    BY <1>1
  <1> QED
    BY <1>1, <1>2, <1>3

\* A slot that is used up leaves a deadline that is ahead, and at least a period
\* after the old one.
LEMMA SlotUsed ==
  ASSUME Types, RcDue, NEW s \in SlotsAfter(RcPeriod, start, rcSlot)
  PROVE  /\ s \in Nat /\ start < NextDue(RcPeriod, s)
         /\ NextDue(RcPeriod, rcSlot) + RcPeriod <= NextDue(RcPeriod, s)
  <1>1. /\ RcPeriod \in Nat \ {0} /\ start \in Nat /\ rcSlot \in Nat
        /\ rcSlot * RcPeriod <= start
    BY ConstantTypes DEF Constants, Types, RcDue, NextDue
  <1>2. s \in Nat /\ s = start \div RcPeriod + 1
    BY <1>1, SlotIsNextQuotient
  <1>3. start < s * RcPeriod
    BY <1>1, <1>2, Division
  <1>4. rcSlot < s
    BY <1>1, <1>2, <1>3, ProductOrder
  <1>5. PICK k \in Nat : s = (rcSlot + 1) + k
    <2>1. s - (rcSlot + 1) \in Nat /\ s = (rcSlot + 1) + (s - (rcSlot + 1))
      BY <1>1, <1>2, <1>4
    <2> QED
      BY <2>1
  <1>6. /\ s * RcPeriod = (rcSlot * RcPeriod + RcPeriod) + k * RcPeriod
        /\ rcSlot * RcPeriod \in Nat /\ k * RcPeriod \in Nat
    BY <1>1, <1>5
  <1>7. rcSlot * RcPeriod + RcPeriod <= s * RcPeriod
    BY <1>1, <1>6
  <1> QED
    BY <1>2, <1>3, <1>7 DEF NextDue

----------------------------------------------------------------------------
(* The steps that use up a slot, and how. *)

\* A slot is used up, by a frame or by none.
Uses ==
  /\ RcDue
  /\ rcSlot' \in Nat /\ start < NextDue(RcPeriod, rcSlot')
  /\ NextDue(RcPeriod, rcSlot) + RcPeriod <= NextDue(RcPeriod, rcSlot')

LEMMA SlotStep ==
  ASSUME Types, [Next]_vars
  PROVE  /\ linkSlot' \in Nat
         /\ \/ UNCHANGED <<rcSlot, lastRc, formerRc>>
            \/ Uses /\ UNCHANGED <<lastRc, formerRc>>
            \/ Uses /\ lastRc' = start /\ formerRc' = lastRc
  <1>1. CASE RcSkipped \/ SendRc \/ SendRcFails
    <2>1. /\ linkSlot' = linkSlot
          /\ \/ rcSlot' = rcSlot /\ UNCHANGED <<lastRc, formerRc>>
             \/ /\ RcDue /\ rcSlot' \in SlotsAfter(RcPeriod, start, rcSlot)
                /\ \/ UNCHANGED <<lastRc, formerRc>>
                   \/ lastRc' = start /\ formerRc' = lastRc
      BY <1>1 DEF RcSkipped, SendRc, SendRcFails
    <2>2. RcDue /\ rcSlot' \in SlotsAfter(RcPeriod, start, rcSlot) => Uses
      BY SlotUsed DEF Uses
    <2> QED
      BY <2>1, <2>2 DEF Types
  <1>2. CASE SendLink \/ SendLinkFails
    <2>1. /\ UNCHANGED <<rcSlot, lastRc, formerRc>>
          /\ linkSlot' \in SlotsAfter(LinkPeriod, start, linkSlot)
      BY <1>2 DEF SendLink, SendLinkFails
    <2>2. linkSlot' \in Nat
      BY <2>1, ConstantTypes, SlotIsNextQuotient DEF Constants, Types
    <2> QED
      BY <2>1, <2>2
  <1>3. CASE UNCHANGED <<rcSlot, linkSlot, lastRc, formerRc>>
    BY <1>3 DEF Types
  <1>4. CASE Arrive \/ ArriveControl \/ ReceiveRc \/ ReceiveControl \/ ControlDone \/ Open
             \/ OpenFails \/ Read \/ ReadFails \/ LinkSkipped \/ Pause \/ UNCHANGED vars
    BY <1>3, <1>4 DEF Arrive, ArriveControl, ReceiveRc, ReceiveControl, ControlDone, Open,
       OpenFails, Read, ReadFails, LinkSkipped, Pause, vars, output
  <1> QED
    BY <1>1, <1>2, <1>4 DEF Next

LEMMA TypesStep ==
  ASSUME Types, PassTime, [Next]_vars
  PROVE  Types' /\ PassTime'
  <1> USE DEF clock, sockets, receiver, tcp, output
  <1>1. /\ Constants /\ rcSlot' \in Nat /\ linkSlot' \in Nat
        /\ lastRc' \in Int /\ formerRc' \in Int
    BY ConstantTypes, SlotStep DEF Types, Uses
  <1>2. <<>> \in Seq(Int) /\ <<>> \in Seq(Requests)
    BY EmptySeq
  <1>3. CASE Arrive
    <2>1. now \in Int /\ -1 \in Int /\ rcSocket \in Seq(Int)
      BY DEF Types
    <2>2. Append(rcSocket, now) \in Seq(Int) /\ Append(rcSocket, -1) \in Seq(Int)
      BY <2>1, AppendProperties
    <2>3. rcSocket' \in Seq(Int)
      BY <1>3, <2>2 DEF Arrive
    <2>4. UNCHANGED <<clock, pc, controls, receiver, tcp, output>>
      BY <1>3 DEF Arrive
    <2> QED
      BY <2>3, <2>4 DEF Types, PassTime
  <1>4. CASE ArriveControl
    <2>1. PICK action \in Actions : controls' = Append(controls, [action |-> action, at |-> now])
      BY <1>4 DEF ArriveControl
    <2>2. [action |-> action, at |-> now] \in Requests /\ controls \in Seq(Requests)
      BY DEF Types, Requests
    <2>3. controls' \in Seq(Requests)
      BY <2>1, <2>2, AppendProperties
    <2>4. UNCHANGED <<clock, pc, rcSocket, receiver, tcp, output>>
      BY <1>4 DEF ArriveControl
    <2> QED
      BY <2>3, <2>4 DEF Types, PassTime
  <1>5. CASE ReceiveRc
    <2>1. channels' \in Int /\ lastInput' \in Int
      <3>1. CASE UNCHANGED <<channels, lastInput>>
        BY <3>1 DEF Types
      <3>2. ASSUME NEW i \in DOMAIN rcSocket, channels' = rcSocket[i], lastInput' = start
            PROVE  channels' \in Int /\ lastInput' \in Int
        BY <3>2, LenProperties, ElementOfSeq DEF Types
      <3> QED
        BY <1>5, <3>1, <3>2 DEF ReceiveRc
    <2>2. rcSocket' = <<>> /\ pc = "rc" /\ pc' = "control" /\ UNCHANGED <<clock, controls, tcp, output>>
      BY <1>5 DEF ReceiveRc
    <2> QED
      BY <1>2, <2>1, <2>2 DEF Types, PassTime
  <1>6. CASE ReceiveControl
    <2>1. PICK request \in Requests : request = Head(controls) /\ Apply(request)
      BY <1>6, FirstRequest DEF ReceiveControl
    <2>2. channels' \in Int /\ lastInput' \in Int
      BY <2>1 DEF Apply, Requests, Types
    <2>3. /\ controls' \in Seq(Requests) /\ pc = "control" /\ pc' \in {"dead", "control"}
          /\ UNCHANGED <<clock, rcSocket, tcp, output>>
      BY <1>6, FirstRequest DEF ReceiveControl
    <2> QED
      BY <2>2, <2>3 DEF Types, PassTime
  <1>7. CASE ControlDone
    <2>1. /\ pc = "control" /\ pc' \in {"read", "open", "pause"}
          /\ UNCHANGED <<clock, sockets, receiver, tcp, output>>
      BY <1>7 DEF ControlDone
    <2> QED
      BY <2>1 DEF Types, PassTime
  <1>8. CASE Open \/ OpenFails
    <2>1. PICK t \in 0..OpenTime : now' = now + t
      BY <1>8 DEF Open, OpenFails
    <2>2. /\ pc = "open" /\ pc' \in {"read", "pause"} /\ connected' \in BOOLEAN
          /\ partial' \in {partial, "none"} /\ UNCHANGED <<start, sockets, receiver, mixed, output>>
      BY <1>8 DEF Open, OpenFails, Types
    <2> QED
      BY <1>1, <2>1, <2>2 DEF Types, PassTime, Constants
  <1>9. CASE Read
    <2>1. /\ partial' \in {"none", "this", "earlier"} /\ mixed' \in BOOLEAN /\ pc' = "sendRc"
          /\ UNCHANGED <<clock, sockets, receiver, connected, output>>
      BY <1>9 DEF Read, Types
    <2> QED
      BY <2>1 DEF Types, PassTime
  <1>10. CASE ReadFails \/ SendRcFails \/ SendLinkFails
    <2>1. /\ connected' = FALSE /\ partial' \in {"none", "earlier"} /\ pc' = "pause"
          /\ mixed' \in BOOLEAN /\ UNCHANGED <<clock, sockets, receiver, sentAge>>
      BY <1>10 DEF ReadFails, SendRcFails, SendLinkFails, Disconnect, Types
    <2> QED
      BY <1>1, <2>1 DEF Types, PassTime
  <1>11. CASE SendRc
    <2>1. sentAge' \in Int
      BY <1>11 DEF SendRc, Types
    <2>2. pc' = "sendLink" /\ UNCHANGED <<clock, sockets, receiver, tcp>>
      BY <1>11 DEF SendRc
    <2> QED
      BY <1>1, <2>1, <2>2 DEF Types, PassTime
  <1>12. CASE RcSkipped \/ LinkSkipped \/ SendLink
    <2>1. /\ pc' \in {"sendLink", "pause", "dead"}
          /\ UNCHANGED <<clock, sockets, receiver, tcp, sentAge>>
      BY <1>12 DEF RcSkipped, LinkSkipped, SendLink
    <2> QED
      BY <1>1, <2>1 DEF Types, PassTime
  <1>13. CASE Pause
    <2>1. PICK gap \in 1..MaxGap : now' = now + gap /\ start' = now + gap
      BY <1>13 DEF Pause
    <2>2. pc' = "rc" /\ sentAge' = -1 /\ UNCHANGED <<sockets, receiver, tcp>>
      BY <1>13 DEF Pause
    <2> QED
      BY <1>1, <2>1, <2>2 DEF Types, PassTime, Constants
  <1>14. CASE UNCHANGED vars
    BY <1>14 DEF vars, Types, PassTime
  <1> QED
    BY <1>3, <1>4, <1>5, <1>6, <1>7, <1>8, <1>9, <1>10, <1>11, <1>12, <1>13, <1>14 DEF Next

----------------------------------------------------------------------------
(* How old what waits and what is held may be. *)

LEMMA RecentStep ==
  ASSUME Types, PassTime, SamplesRecent, ControlsRecent, SampleRecent, [Next]_vars
  PROVE  SamplesRecent' /\ ControlsRecent' /\ SampleRecent'
  <1> USE DEF clock, sockets, receiver
  <1>1. /\ Constants /\ now \in Nat /\ start \in Nat /\ start <= now /\ now <= start + OpenTime
        /\ rcSocket \in Seq(Int) /\ controls \in Seq(Requests)
        /\ channels \in Int /\ lastInput \in Int
        /\ \A i \in DOMAIN rcSocket : rcSocket[i] \in Int
        /\ \A i \in DOMAIN controls : controls[i].at \in Nat
    <2>1. \A i \in DOMAIN controls : controls[i] \in Requests
      BY LenProperties, ElementOfSeq DEF Types
    <2>2. \A i \in DOMAIN rcSocket : rcSocket[i] \in Int
      BY LenProperties, ElementOfSeq DEF Types
    <2> QED
      BY <2>1, <2>2, ConstantTypes DEF Types, PassTime, Requests
  <1>2. CASE Arrive
    <2>1. PICK d \in {now, -1} : rcSocket' = Append(rcSocket, d)
      BY <1>2 DEF Arrive
    <2>2. UNCHANGED <<clock, pc, controls, receiver>>
      BY <1>2 DEF Arrive
    <2>3. \A i \in DOMAIN rcSocket' :
            rcSocket'[i] = d \/ (i \in DOMAIN rcSocket /\ rcSocket'[i] = rcSocket[i])
      BY <1>1, <2>1, Appended
    <2>4. ~Rejected(d) => start - d <= LongestPass /\ d >= start
      BY <1>1 DEF Rejected, Constants
    <2>5. SamplesRecent'
      BY <2>2, <2>3, <2>4 DEF SamplesRecent, Rejected
    <2> QED
      BY <2>2, <2>5 DEF ControlsRecent, SampleRecent
  <1>3. CASE ArriveControl
    <2>1. PICK action \in Actions : controls' = Append(controls, [action |-> action, at |-> now])
      BY <1>3 DEF ArriveControl
    <2>2. UNCHANGED <<clock, pc, rcSocket, receiver>>
      BY <1>3 DEF ArriveControl
    <2>3. PICK request \in Requests : request = [action |-> action, at |-> now]
      BY <1>1 DEF Requests
    <2>4. \A i \in DOMAIN controls' :
            controls'[i] = request \/ (i \in DOMAIN controls /\ controls'[i] = controls[i])
      BY <1>1, <2>1, <2>3, Appended
    <2>5. start - request.at <= LongestPass /\ request.at >= start
      BY <1>1, <2>3 DEF Constants
    <2>6. ControlsRecent'
      BY <2>2, <2>4, <2>5 DEF ControlsRecent
    <2> QED
      BY <2>2, <2>6 DEF SamplesRecent, SampleRecent
  <1>4. CASE ReceiveRc
    <2>1. pc = "rc" /\ pc' = "control" /\ rcSocket' = <<>> /\ UNCHANGED <<clock, controls>>
      BY <1>4 DEF ReceiveRc
    <2>2. SampleRecent'
      <3>1. CASE UNCHANGED <<channels, lastInput>>
        BY <2>1, <3>1 DEF SampleRecent
      <3>2. ASSUME NEW i \in DOMAIN rcSocket, Newest(i), channels' = rcSocket[i], lastInput' = start
            PROVE  SampleRecent'
        BY <1>1, <2>1, <3>2 DEF SampleRecent, SamplesRecent, Newest
      <3> QED
        BY <1>4, <3>1, <3>2 DEF ReceiveRc
    <2>3. DOMAIN rcSocket' = {}
      BY <2>1
    <2> QED
      BY <2>1, <2>2, <2>3 DEF SamplesRecent, ControlsRecent
  <1>5. CASE ReceiveControl
    <2>1. /\ pc = "control" /\ pc' \in {"dead", "control"} /\ controls # <<>>
          /\ controls' = Tail(controls) /\ UNCHANGED <<clock, rcSocket>>
      BY <1>5 DEF ReceiveControl
    <2>2. PICK request \in Requests :
            /\ request = Head(controls) /\ request = controls[1] /\ 1 \in DOMAIN controls
            /\ Apply(request)
      BY <1>5, <2>1, FirstRequest DEF ReceiveControl
    <2>3. start - request.at <= LongestPass
      BY <2>1, <2>2 DEF ControlsRecent
    <2>4. \/ UNCHANGED <<channels, lastInput>>
          \/ channels' = request.at /\ lastInput' = start
      BY <2>2 DEF Apply
    <2>5. SampleRecent'
      BY <1>1, <2>1, <2>3, <2>4 DEF SampleRecent
    <2>6. \A i \in DOMAIN controls' : i + 1 \in DOMAIN controls /\ controls'[i] = controls[i + 1]
      BY <2>1, FirstRequest
    <2>7. ControlsRecent'
      BY <2>1, <2>6 DEF ControlsRecent
    <2> QED
      BY <2>1, <2>5, <2>7 DEF SamplesRecent
  <1>6. CASE ControlDone
    <2>1. /\ pc = "control" /\ pc' \in {"read", "open", "pause"} /\ controls' = <<>>
          /\ UNCHANGED <<clock, rcSocket, receiver>>
      BY <1>6 DEF ControlDone
    <2>2. DOMAIN controls' = {}
      BY <2>1
    <2> QED
      BY <2>1, <2>2 DEF SamplesRecent, ControlsRecent, SampleRecent
  <1>7. CASE Pause
    <2>1. PICK gap \in 1..MaxGap : now' = now + gap /\ start' = now + gap
      BY <1>7 DEF Pause
    <2>2. pc = "pause" /\ pc' = "rc" /\ UNCHANGED <<sockets, receiver>>
      BY <1>7 DEF Pause
    <2>3. start' \in Nat /\ start' >= start /\ \A t \in Int : t >= start => start' - t <= LongestPass
      BY <1>1, <2>1 DEF Constants
    <2>4. SamplesRecent'
      BY <1>1, <2>2, <2>3 DEF SamplesRecent
    <2>5. ControlsRecent'
      BY <1>1, <2>2, <2>3 DEF ControlsRecent
    <2>6. SampleRecent'
      BY <1>1, <2>2, <2>3 DEF SampleRecent
    <2> QED
      BY <2>4, <2>5, <2>6
  <1>8. CASE UNCHANGED <<start, rcSocket, controls, channels, lastInput>>
             /\ pc \notin {"rc", "control", "dead"} /\ pc' \notin {"rc", "control"}
    BY <1>8 DEF SamplesRecent, ControlsRecent, SampleRecent
  <1>9. CASE Open \/ OpenFails \/ Read \/ ReadFails \/ RcSkipped \/ SendRc \/ SendRcFails
             \/ LinkSkipped \/ SendLink \/ SendLinkFails
    <2>1. UNCHANGED <<start, rcSocket, controls, channels, lastInput>>
      BY <1>9 DEF Open, OpenFails, Read, ReadFails, RcSkipped, SendRc, SendRcFails, LinkSkipped,
         SendLink, SendLinkFails
    <2>2. pc \notin {"rc", "control", "dead"} /\ pc' \notin {"rc", "control"}
      BY <1>9 DEF Open, OpenFails, Read, ReadFails, RcSkipped, SendRc, SendRcFails, LinkSkipped,
         SendLink, SendLinkFails, Disconnect
    <2> QED
      BY <1>8, <2>1, <2>2
  <1>10. CASE UNCHANGED vars
    BY <1>10 DEF vars, SamplesRecent, ControlsRecent, SampleRecent
  <1> QED
    BY <1>2, <1>3, <1>4, <1>5, <1>6, <1>7, <1>9, <1>10 DEF Next

\* What goes out was taken from its socket less than the timeout ago.
LEMMA SentRecentStep ==
  ASSUME Types, PassTime, SampleRecent, SourceLossSeen, [Next]_vars
  PROVE  SourceLossSeen'
  <1> SUFFICES ASSUME SourceTimeout > 0, TimeoutAction # "hold"
               PROVE  sentAge' < SourceTimeout + LongestPass + OpenTime
    BY DEF SourceLossSeen
  <1>1. /\ Constants /\ now \in Nat /\ start \in Nat /\ start <= now /\ now <= start + OpenTime
        /\ channels \in Int /\ lastInput \in Int /\ sentAge \in Int
        /\ sentAge < SourceTimeout + LongestPass + OpenTime
        /\ -1 < SourceTimeout + LongestPass + OpenTime
    BY ConstantTypes DEF Types, PassTime, SourceLossSeen, Constants
  <1>2. CASE SendRc
    <2>1. CASE Output = "channels" /\ channels >= 0
      <3>1. ~TimedOut
        BY <2>1 DEF Output
      <3>2. lastInput >= 0 /\ lastInput - channels <= LongestPass
        BY <2>1 DEF SampleRecent
      <3>3. start - lastInput < SourceTimeout
        BY <1>1, <3>1, <3>2 DEF TimedOut, Constants
      <3>4. sentAge' = now - channels
        BY <1>2, <2>1 DEF SendRc
      <3> QED
        BY <1>1, <3>2, <3>3, <3>4 DEF Constants
    <2>2. CASE ~(Output = "channels" /\ channels >= 0)
      BY <1>1, <1>2, <2>2 DEF SendRc
    <2> QED
      BY <2>1, <2>2
  <1>3. CASE ~SendRc
    <2>1. sentAge' \in {sentAge, -1}
      BY <1>3 DEF Next, vars, output, Arrive, ArriveControl, ReceiveRc, ReceiveControl, ControlDone,
         Open, OpenFails, Read, ReadFails, RcSkipped, SendRcFails, LinkSkipped, SendLink,
         SendLinkFails, Pause
    <2> QED
      BY <1>1, <2>1
  <1> QED
    BY <1>2, <1>3

LEMMA ParserStep ==
  ASSUME Types, ParserNew, FramesOfOneConnection, [Next]_vars
  PROVE  ParserNew' /\ FramesOfOneConnection'
  <1> USE DEF tcp
  <1>1. CASE Arrive \/ ArriveControl \/ ReceiveRc \/ ReceiveControl
    <2>1. UNCHANGED tcp /\ (pc' = pc \/ pc' \in {"control", "dead"})
      BY <1>1 DEF Arrive, ArriveControl, ReceiveRc, ReceiveControl
    <2> QED
      BY <2>1 DEF ParserNew, FramesOfOneConnection
  <1>2. CASE ControlDone
    BY <1>2 DEF ControlDone, ParserNew, FramesOfOneConnection
  <1>3. CASE Open
    BY <1>3 DEF Open, ParserNew, FramesOfOneConnection
  <1>4. CASE OpenFails
    BY <1>4 DEF OpenFails, ParserNew, FramesOfOneConnection
  <1>5. CASE Read
    <2>1. connected /\ connected' = connected /\ pc' = "sendRc" /\ partial # "earlier"
      BY <1>5 DEF Read, ParserNew, Types
    <2>2. mixed' = FALSE /\ partial' # "earlier"
      BY <1>5, <2>1 DEF Read, FramesOfOneConnection, Types
    <2> QED
      BY <2>1, <2>2 DEF ParserNew, FramesOfOneConnection
  <1>6. CASE ReadFails \/ SendRcFails \/ SendLinkFails
    <2>1. connected' = FALSE /\ pc' = "pause"
      BY <1>6 DEF ReadFails, SendRcFails, SendLinkFails, Disconnect
    <2>2. ReadFails => partial # "earlier"
      BY DEF ReadFails, ParserNew, Types
    <2>3. ~mixed'
      BY <1>6, <2>2 DEF ReadFails, SendRcFails, SendLinkFails, FramesOfOneConnection
    <2> QED
      BY <2>1, <2>3 DEF ParserNew, FramesOfOneConnection
  <1>7. CASE RcSkipped \/ SendRc \/ LinkSkipped \/ SendLink \/ Pause
    <2>1. /\ UNCHANGED tcp
          /\ pc' \in {"pause", "dead", "rc"} \/ (pc = "sendRc" /\ pc' = "sendLink")
      BY <1>7 DEF RcSkipped, SendRc, LinkSkipped, SendLink, Pause
    <2> QED
      BY <2>1 DEF ParserNew, FramesOfOneConnection
  <1>8. CASE UNCHANGED vars
    BY <1>8 DEF vars, ParserNew, FramesOfOneConnection
  <1> QED
    BY <1>1, <1>2, <1>3, <1>4, <1>5, <1>6, <1>7, <1>8 DEF Next

LEMMA FramesSpacedStep ==
  ASSUME Types, FramesSpaced, [Next]_vars
  PROVE  FramesSpaced'
  <1>1. /\ RcPeriod \in Nat \ {0} /\ start \in Nat /\ lastRc \in Int /\ formerRc \in Int
        /\ \A s \in Nat : NextDue(RcPeriod, s) \in Nat
    BY ConstantTypes DEF Constants, Types, NextDue
  <1>2. rcSlot \in Nat /\ NextDue(RcPeriod, rcSlot) \in Nat
    BY <1>1 DEF Types
  <1>3. CASE UNCHANGED <<rcSlot, lastRc, formerRc>>
    BY <1>3 DEF FramesSpaced, NextDue
  <1>4. ASSUME Uses
        PROVE  /\ NextDue(RcPeriod, rcSlot') \in Nat /\ start < NextDue(RcPeriod, rcSlot')
               /\ NextDue(RcPeriod, rcSlot) + RcPeriod <= NextDue(RcPeriod, rcSlot')
    BY <1>1, <1>4 DEF Uses
  <1>5. ASSUME Uses, UNCHANGED <<lastRc, formerRc>>
        PROVE  FramesSpaced'
    <2>1. /\ lastRc >= 0 => lastRc < NextDue(RcPeriod, rcSlot')
          /\ formerRc >= 0 => formerRc + RcPeriod < NextDue(RcPeriod, rcSlot')
      BY <1>1, <1>2, <1>4, <1>5 DEF FramesSpaced
    <2> QED
      BY <1>5, <2>1 DEF FramesSpaced, NextDue
  <1>6. ASSUME Uses, lastRc' = start, formerRc' = lastRc
        PROVE  FramesSpaced'
    <2>1. /\ start < NextDue(RcPeriod, rcSlot')
          /\ lastRc >= 0 => lastRc + RcPeriod < NextDue(RcPeriod, rcSlot')
      BY <1>1, <1>2, <1>4, <1>6 DEF FramesSpaced
    <2> QED
      BY <1>6, <2>1 DEF FramesSpaced, NextDue
  <1> QED
    BY <1>3, <1>5, <1>6, SlotStep

----------------------------------------------------------------------------
(* The invariant holds. *)

LEMMA InitIInv ==
  ASSUME Init
  PROVE  IInv
  <1>1. Constants
    BY ConstantTypes
  <1>2. <<>> \in Seq(Int) /\ <<>> \in Seq(Requests) /\ DOMAIN <<>> = {}
    BY EmptySeq
  <1>3. Types
    <2>1. /\ now = 0 /\ start = 0 /\ pc = "rc" /\ rcSocket = <<>> /\ controls = <<>>
          /\ channels = -1 /\ lastInput = -1 /\ sentAge = -1 /\ connected = FALSE
          /\ partial = "none" /\ mixed = FALSE /\ rcSlot = 0 /\ linkSlot = 0
          /\ lastRc = -1 /\ formerRc = -1
      BY DEF Init
    <2>2. 0 \in Nat /\ -1 \in Int
      OBVIOUS
    <2> QED
      BY ONLY <1>2, <2>1, <2>2 DEF Types
  <1>4. PassTime /\ SampleRecent /\ SourceLossSeen
    BY <1>1 DEF Init, PassTime, SampleRecent, SourceLossSeen, Constants
  <1>5. SamplesRecent /\ ControlsRecent
    BY <1>2 DEF Init, SamplesRecent, ControlsRecent
  <1>6. ParserNew /\ FramesOfOneConnection
    BY DEF Init, ParserNew, FramesOfOneConnection
  <1>7. FramesSpaced
    BY DEF Init, FramesSpaced
  <1> QED
    BY <1>3, <1>4, <1>5, <1>6, <1>7 DEF IInv

LEMMA NextIInv ==
  ASSUME IInv, [Next]_vars
  PROVE  IInv'
  <1>1. Types' /\ PassTime'
    BY TypesStep DEF IInv
  <1>2. SamplesRecent' /\ ControlsRecent' /\ SampleRecent'
    BY RecentStep DEF IInv
  <1>3. SourceLossSeen'
    BY SentRecentStep DEF IInv
  <1>4. ParserNew' /\ FramesOfOneConnection'
    BY ParserStep DEF IInv
  <1>5. FramesSpaced'
    BY FramesSpacedStep DEF IInv
  <1> QED
    BY <1>1, <1>2, <1>3, <1>4, <1>5 DEF IInv

LEMMA Invariance == Spec => []IInv
  BY InitIInv, NextIInv, PTL DEF Spec

----------------------------------------------------------------------------
(* The results. *)

\* SITL_RECEIVER.md:81 "Upstream RC source timeout": no sample goes out that reached
\* the socket longer ago than the timeout and two passes, for any lengths of these,
\* any datagrams rejected meanwhile and any requests.
THEOREM OldNotSent == Spec => []SourceLossSeen
  <1>1. IInv => SourceLossSeen
    BY DEF IInv
  <1> QED
    BY <1>1, Invariance, PTL

\* SITL_RECEIVER.md:133 "every complete inbound CRSF frame unchanged": no frame is put
\* together from the bytes of two connections, however many were lost in a frame.
THEOREM ConnectionsApart == Spec => []FramesOfOneConnection
  <1>1. IInv => FramesOfOneConnection
    BY DEF IInv
  <1> QED
    BY <1>1, Invariance, PTL

\* SITL_RECEIVER.md:149 "at a configurable rate": of any three RC frames the first
\* and the last belong to passes that begin more than a period apart, for any rate
\* and however long the connection was lost, took to open or had nothing to send.
THEOREM RateIsBound == Spec => RcRateBounded
  <1>1. ASSUME IInv, [Next]_vars
        PROVE  [lastRc' # lastRc /\ formerRc >= 0 => lastRc' - formerRc > RcPeriod]_vars
    <2> SUFFICES ASSUME lastRc' # lastRc, formerRc >= 0
                 PROVE  lastRc' - formerRc > RcPeriod
      OBVIOUS
    <2>1. Types /\ FramesSpaced
      BY <1>1 DEF IInv
    <2>2. RcDue /\ lastRc' = start
      BY <1>1, <2>1, SlotStep DEF Uses
    <2>3. /\ RcPeriod \in Nat \ {0} /\ start \in Nat /\ formerRc \in Int /\ rcSlot \in Nat
          /\ NextDue(RcPeriod, rcSlot) \in Nat
      BY <2>1, ConstantTypes DEF Constants, Types, NextDue
    <2>4. formerRc + RcPeriod < NextDue(RcPeriod, rcSlot) /\ NextDue(RcPeriod, rcSlot) <= start
      BY <2>1, <2>2, <2>3 DEF FramesSpaced, RcDue
    <2> QED
      BY <2>2, <2>3, <2>4
  <1> QED
    BY <1>1, Invariance, PTL DEF Spec, RcRateBounded
=============================================================================
