--------------------------- MODULE RcBridgeProofs ---------------------------
(***************************************************************************)
(* The transmit loop of run_proxy, for every rate, hold, timeout and size  *)
(* of the socket, any number of datagrams, control frames and timeouts:    *)
(* types, what the sequence numbers claim, the order of control frames and *)
(* that none is lost, how late and how old a frame may be, and the RC path *)
(* as a register.                                                          *)
(***************************************************************************)
EXTENDS RcBridge, SequenceTheorems, TLAPS

----------------------------------------------------------------------------
(* Division, and the deadlines of the loop. *)

\* Integer division by a positive period, in the form the proofs below use.
LEMMA Division ==
  ASSUME NEW p \in Nat \ {0}, NEW t \in Nat
  PROVE  /\ t \div p \in Nat
         /\ (t \div p) * p <= t
         /\ t < (t \div p + 1) * p
  OBVIOUS

\* The deadline after t: less than a period away, and never at t itself.
LEMMA NextDeadline ==
  ASSUME NEW p \in Nat \ {0}, NEW t \in Nat
  PROVE  t < (t \div p + 1) * p /\ (t \div p + 1) * p <= t + p
  <1>1. PICK q \in Nat : q = t \div p /\ q * p <= t /\ t < (q + 1) * p
    BY Division
  <1>2. (q + 1) * p = q * p + p /\ q * p \in Nat
    OBVIOUS
  <1> QED
    BY <1>1, <1>2

\* The quotient is the only number with the bounds of Division.
LEMMA QuotientUnique ==
  ASSUME NEW p \in Nat \ {0}, NEW t \in Nat, NEW q \in Int,
         q * p <= t, t < (q + 1) * p
  PROVE  t \div p = q
  BY SMT

\* Rounding is harmless: whichever way the floating point quotient of
\* schedule.py:34 falls at an exact deadline, the loop of line 35 leads to the
\* same slot, the first one whose deadline is still ahead.
LEMMA SlotIsNextQuotient ==
  ASSUME NEW p \in Nat \ {0}, NEW t \in Nat, NEW s \in Nat,
         NEW u \in SlotsAfter(p, t, s)
  PROVE  /\ u = t \div p + 1
         /\ u \in Nat
  <1>1. PICK q \in FloatQuotients(p, t) : u = FirstAfter(p, t, q + 1)
    BY DEF SlotsAfter
  <1>2. t \div p \in Nat
    BY Division
  <1>3. q \in Int /\ q * p <= t /\ q \in {t \div p - 1, t \div p}
    BY <1>1, <1>2 DEF FloatQuotients
  <1>4. CASE (q + 1) * p > t
    <2>1. t \div p = q
      BY <1>3, <1>4, QuotientUnique
    <2> QED
      BY <2>1, <1>1, <1>2, <1>4 DEF FirstAfter, NextDue
  <1>5. CASE ~ (q + 1) * p > t
    BY <1>1, <1>2, <1>5 DEF FirstAfter, NextDue
  <1> QED
    BY <1>4, <1>5

----------------------------------------------------------------------------
\* The steps of the loop, as in TypeOK.
Steps == {"drain", "serial", "slot", "collect", "write", "pause", "overrun", "stopped"}

----------------------------------------------------------------------------
(* The invariant. *)

\* Samples wait in the order of their arrival, all newer than the one held.
SocketOrdered ==
  /\ channels <= arrivals
  /\ \A i \in DOMAIN rcSocket : channels < rcSocket[i].n /\ rcSocket[i].n <= arrivals
  /\ \A i, j \in DOMAIN rcSocket : i < j => rcSocket[i].n < rcSocket[j].n

\* The RC frame of a burst comes first and carries the sample held; a burst
\* exists from its slot to its write.
BurstShape ==
  /\ burst # <<>> => pc \in {"collect", "write", "stopped"}
  /\ HasRc(burst) => channels # 0 /\ burst[1].n = channels
  /\ \A i \in 2..Len(burst) : burst[i].kind = "control"
  /\ \A i \in DOMAIN outbound : outbound[i].kind = "control"

\* The count of updates is never behind the count sent, and the wire never
\* ahead of the sample held.
CountsOrdered == sentSeq <= updateSeq /\ wireRc <= channels

\* Control frames are numbered by the calls so far.
CallsCounted == \A i \in DOMAIN ControlLine : ControlLine[i].n <= queued

\* The steps before the slot of a pass is settled, and those after it.
Checking == {"drain", "serial", "slot"}
Checked == {"collect", "write", "pause", "overrun"}

\* The next slot is at most a period ahead and at most a pass behind, once
\* settled it is ahead, and it comes within a period of the status poll's time.
SlotNear ==
  /\ NextDue(Period, slot) <= now + Period
  /\ now < NextDue(Period, slot) + LongestPass
  /\ pc \in Checked => now < NextDue(Period, slot)
  /\ pc = "overrun" => timeouts > 0
  /\ StatusPoll => NextDue(Period, slot) <= nextStatus + Period

\* A fresh sample has its slot within a period, and is then in the burst.
FreshNear ==
  /\ channels = 0 => ~Fresh
  /\ freshSince <= now /\ updateAt <= now
  /\ Fresh => freshSince <= updateAt
  /\ timeouts = 0 /\ Fresh =>
       /\ pc \in Checking \cup {"pause"} => NextDue(Period, slot) <= freshSince + Period
       /\ pc \in {"collect", "write"} => HasRc(burst) /\ now - freshSince < Period + MaxGap

\* While no write times out, what is fresh was never on the wire, and without
\* the hold a burst carries nothing else.
FreshUnsent ==
  timeouts = 0 =>
    /\ pc # "stopped" /\ Fresh => wireRc < channels
    /\ pc # "stopped" /\ HasRc(burst) /\ hold = 0 => Fresh
    /\ ForwardedOnceWhenHealthy

\* While no write times out, a datagram waits for a pass at most, and the
\* sample held was taken within a pass of its arrival.
SocketRecent ==
  timeouts = 0 =>
    /\ \A i \in DOMAIN rcSocket :
         /\ pc = "drain" => now <= rcSocket[i].at + MaxGap
         /\ pc \notin {"drain", "stopped"} => now <= rcSocket[i].at
    /\ channels # 0 => updateAt <= heardAt + MaxGap

IInv ==
  /\ TypeOK
  /\ SocketOrdered
  /\ BurstShape
  /\ CountsOrdered
  /\ SentMeansWritten
  /\ CallsCounted
  /\ ControlOrdered
  /\ ControlConserved
  /\ SlotNear
  /\ FreshNear
  /\ FreshUnsent
  /\ SocketRecent
  /\ AgeBoundedWhenHealthy

----------------------------------------------------------------------------
(* Sequences of frames. *)

LEMMA FrontFrames ==
  ASSUME NEW b \in Seq(Frame), NEW k \in 0..Len(b)
  PROVE  /\ SubSeq(b, 1, k) \in Seq(Frame)
         /\ Len(SubSeq(b, 1, k)) = k
         /\ \A i \in 1..k : SubSeq(b, 1, k)[i] = b[i]
  BY SubSeqProperties

\* The first k frames of a burst, and what they hold.
LEMMA FirstFrames ==
  ASSUME NEW b \in Seq(Frame), NEW k \in 0..Len(b)
  PROVE  /\ SubSeq(b, 1, k) \in Seq(Frame)
         /\ Len(SubSeq(b, 1, k)) = k
         /\ \A i \in 1..k : SubSeq(b, 1, k)[i] = b[i]
         /\ HasRc(SubSeq(b, 1, k)) <=> HasRc(b) /\ k > 0
  <1>1. /\ SubSeq(b, 1, k) \in Seq(Frame)
        /\ Len(SubSeq(b, 1, k)) = k
        /\ \A i \in 1..k : SubSeq(b, 1, k)[i] = b[i]
    BY FrontFrames
  <1>2. CASE k = 0
    BY <1>1, <1>2 DEF HasRc
  <1>3. CASE k > 0
    BY <1>1, <1>3, LenProperties, EmptySeq DEF HasRc
  <1> QED
    BY <1>1, <1>2, <1>3

LEMMA ControlsType ==
  ASSUME NEW b \in Seq(Frame)
  PROVE  ControlsOf(b) \in Seq(Frame)
  BY HeadTailProperties DEF ControlsOf, HasRc

\* The control frames among the first k frames are the first ones of them all.
LEMMA ControlsOfFirst ==
  ASSUME NEW b \in Seq(Frame), NEW k \in 0..Len(b)
  PROVE  \E m \in 0..Len(ControlsOf(b)) :
           ControlsOf(SubSeq(b, 1, k)) = SubSeq(ControlsOf(b), 1, m)
  <1> DEFINE out == SubSeq(b, 1, k)
  <1>1. out \in Seq(Frame) /\ Len(out) = k /\ (HasRc(out) <=> HasRc(b) /\ k > 0)
    BY FirstFrames
  <1>2. CASE ~HasRc(b)
    BY <1>1, <1>2 DEF ControlsOf
  <1>3. CASE HasRc(b) /\ k = 0
    <2>1. out = <<>>
      BY <1>1, <1>3, EmptySeq
    <2>2. ControlsOf(out) = <<>>
      BY <2>1 DEF ControlsOf, HasRc
    <2>3. SubSeq(ControlsOf(b), 1, 0) = <<>>
      BY SubSeqEmpty
    <2>4. 0 \in 0..Len(ControlsOf(b))
      BY ControlsType, LenProperties
    <2> QED
      BY <2>2, <2>3, <2>4
  <1>4. CASE HasRc(b) /\ k > 0
    <2>1. b # <<>> /\ out # <<>> /\ Len(b) >= 1
      BY <1>1, <1>4 DEF HasRc
    <2>2. ControlsOf(out) = Tail(out) /\ ControlsOf(b) = Tail(b)
      BY <1>1, <1>4 DEF ControlsOf
    <2>3. Len(Tail(b)) = Len(b) - 1 /\ Tail(b) \in Seq(Frame)
      BY <2>1, HeadTailProperties
    <2>4. Len(Tail(out)) = k - 1 /\ Tail(out) \in Seq(Frame)
      BY <2>1, <1>1, HeadTailProperties
    <2>5. /\ SubSeq(Tail(b), 1, k - 1) \in Seq(Frame)
          /\ Len(SubSeq(Tail(b), 1, k - 1)) = k - 1
          /\ \A i \in 1..(k - 1) : SubSeq(Tail(b), 1, k - 1)[i] = Tail(b)[i]
      BY <2>3, <1>4, FrontFrames
    <2>6. /\ \A i \in 1..(k - 1) : Tail(b)[i] = b[i + 1] /\ Tail(out)[i] = out[i + 1]
          /\ \A i \in 1..k : out[i] = b[i]
      BY <2>1, <1>1, <2>3, <2>4, HeadTailProperties, FirstFrames
    <2>7. \A i \in 1..(k - 1) : Tail(out)[i] = SubSeq(Tail(b), 1, k - 1)[i]
      BY <2>5, <2>6
    <2>8. Tail(out) = SubSeq(Tail(b), 1, k - 1)
      BY <2>4, <2>5, <2>7, SeqEqual
    <2>9. k - 1 \in 0..Len(Tail(b))
      BY <1>4, <2>3, LenProperties
    <2> QED
      BY <2>2, <2>8, <2>9
  <1> QED
    BY <1>2, <1>3, <1>4

\* More control frames at the end of a burst, which may have an RC frame or
\* nothing else yet.
LEMMA ControlsOfLonger ==
  ASSUME NEW b \in Seq(Frame), NEW c \in Seq(Frame),
         \A i \in DOMAIN c : c[i].kind = "control"
  PROVE  /\ HasRc(b \o c) <=> HasRc(b)
         /\ HasRc(b) => (b \o c)[1] = b[1]
         /\ ControlsOf(b \o c) = ControlsOf(b) \o c
  <1>1. /\ b \o c \in Seq(Frame) /\ Len(b \o c) = Len(b) + Len(c)
        /\ \A i \in 1..(Len(b) + Len(c)) :
             (b \o c)[i] = IF i <= Len(b) THEN b[i] ELSE c[i - Len(b)]
    BY ConcatProperties
  <1>2. CASE b = <<>>
    <2>1. b \o c = c /\ ~HasRc(b)
      BY <1>2, ConcatEmptySeq DEF HasRc
    <2>2. ~HasRc(c)
      BY LenProperties, EmptySeq DEF HasRc
    <2> QED
      BY <2>1, <2>2, <1>2 DEF ControlsOf
  <1>3. CASE b # <<>>
    <2>1. Len(b) >= 1 /\ b \o c # <<>> /\ (b \o c)[1] = b[1]
      BY <1>1, <1>3, EmptySeq, LenProperties
    <2>2. HasRc(b \o c) <=> HasRc(b)
      BY <2>1, <1>3 DEF HasRc
    <2>3. Tail(b \o c) = Tail(b) \o c
      BY <1>1, <1>3, <2>1, HeadTailProperties, ConcatProperties, SeqEqual
    <2> QED
      BY <2>1, <2>2, <2>3 DEF ControlsOf
  <1> QED
    BY <1>2, <1>3

----------------------------------------------------------------------------
(* Types. *)

LEMMA TypeStep == TypeOK /\ [Next]_vars => TypeOK'
  <1> SUFFICES ASSUME TypeOK, [Next]_vars
               PROVE  TypeOK'
    OBVIOUS
  <1> USE TimeAssumption DEF TypeOK, loopVars, wireVars
  <1>1. CASE UNCHANGED vars
    BY <1>1 DEF vars
  <1>2. CASE Arrive
    <2>1. arrivals' \in Nat
      BY <1>2 DEF Arrive
    <2>2. \A valid \in BOOLEAN : [n |-> arrivals', valid |-> valid, at |-> now] \in Datagram
      BY <2>1 DEF Datagram
    <2>3. rcSocket' \in Seq(Datagram)
      BY <1>2, <2>2, AppendProperties DEF Arrive
    <2> QED
      BY <1>2, <2>1, <2>3 DEF Arrive
  <1>3. CASE QueueControl
    <2>1. queued' \in Nat /\ Control(queued') \in Frame
      BY <1>3 DEF QueueControl, Control, Frame
    <2> QED
      BY <1>3, <2>1 DEF QueueControl
  <1>4. CASE RecvRc
    <2>1. Head(rcSocket) \in Datagram /\ Tail(rcSocket) \in Seq(Datagram)
      BY <1>4, HeadTailProperties DEF RecvRc
    <2>2. /\ channels' \in Nat /\ updateAt' \in Nat /\ updateSeq' \in Nat
          /\ heardAt' \in Nat /\ freshSince' \in Nat
      <3>1. Head(rcSocket).n \in Nat /\ Head(rcSocket).at \in Nat
        BY <2>1 DEF Datagram
      <3>2. CASE Accept(Head(rcSocket))
        BY <3>1, <3>2 DEF Accept
      <3>3. CASE Reject(Head(rcSocket))
        BY <3>3 DEF Reject
      <3> QED
        BY <1>4, <3>2, <3>3 DEF RecvRc
    <2> QED
      BY <1>4, <2>1, <2>2 DEF RecvRc
  <1>5. CASE RecvDone \/ ReadSerial \/ SlotNotDue \/ NothingToWrite \/ Stop
    BY <1>5 DEF RecvDone, ReadSerial, SlotNotDue, NothingToWrite, Stop
  <1>6. CASE SlotDue
    <2>1. slot' \in Nat
      BY <1>6, SlotIsNextQuotient DEF SlotDue
    <2>2. nextStatus' \in Nat
      BY <1>6 DEF SlotDue
    <2>3. outbound' \in Seq(Frame)
      <3>1. Control(0) \in Frame
        BY DEF Control, Frame
      <3> QED
        BY <1>6, <3>1 DEF SlotDue
    <2>4. burst' \in Seq(Frame)
      <3>1. Rc(channels) \in Frame
        BY DEF Rc, Frame
      <3> QED
        BY <1>6, <3>1 DEF SlotDue
    <2> QED
      BY <1>6, <2>1, <2>2, <2>3, <2>4 DEF SlotDue
  <1>7. CASE CollectControl
    BY <1>7, ConcatProperties, EmptySeq DEF CollectControl
  <1>8. ASSUME NEW k \in 0..Len(burst), NEW step \in Steps, WriteEnds(k, step),
               sentSeq' \in Nat, timeouts' \in Nat
        PROVE  TypeOK'
    <2> DEFINE out == SubSeq(burst, 1, k)
    <2>1. out \in Seq(Frame) /\ ControlsOf(out) \in Seq(Frame)
      BY FirstFrames, ControlsType
    <2>2. wireControl' \in Seq(Frame)
      BY <1>8, <2>1, ConcatProperties DEF WriteEnds, Transmit
    <2>3. HasRc(out) => out[1].n \in Nat
      BY <2>1, ElementOfSeq, EmptySeq DEF HasRc, Frame
    <2>4. wireRc' \in Nat /\ copies' \in Nat
      <3>1. Transmit(k)
        BY <1>8 DEF WriteEnds
      <3>2. wireRc' = IF HasRc(out) THEN out[1].n ELSE wireRc
        BY <3>1 DEF Transmit
      <3>3. copies' = copies \/ copies' = copies + 1 \/ copies' = 1
        BY <3>1 DEF Transmit
      <3> HIDE DEF out
      <3> QED
        BY <2>3, <3>2, <3>3
    <2>5. /\ burst' = <<>> /\ pc' = step
          /\ UNCHANGED <<hold, now, rcSocket, channels, updateAt, updateSeq, slot,
                         nextStatus, outbound, arrivals, queued, heardAt, freshSince>>
      BY <1>8 DEF WriteEnds
    <2> QED
      BY <1>8, <2>2, <2>4, <2>5 DEF Steps
  <1>9. CASE WriteOk
    <2>1. WriteEnds(Len(burst), "pause") /\ sentSeq' \in Nat /\ timeouts' \in Nat
      BY <1>9 DEF WriteOk
    <2> QED
      BY <1>8, <2>1, LenProperties DEF Steps
  <1>10. CASE WriteTimesOut
    BY <1>8, <1>10 DEF WriteTimesOut, Steps
  <1>11. CASE WriteFails
    BY <1>8, <1>11 DEF WriteFails, Steps
  <1>12. CASE Pause \/ Overrun
    <2>1. PICK gap \in Nat : NextPass(gap)
      BY <1>12 DEF Pause, Overrun
    <2> QED
      BY <2>1 DEF NextPass
  <1> QED
    BY <1>1, <1>2, <1>3, <1>4, <1>5, <1>6, <1>7, <1>9, <1>10, <1>11, <1>12 DEF Next

----------------------------------------------------------------------------
(* The RC path. *)

\* What a write of k frames leaves behind.
LEMMA WriteEffect ==
  ASSUME TypeOK, BurstShape, NEW k \in 0..Len(burst), NEW step, WriteEnds(k, step)
  PROVE  /\ wireRc' = IF HasRc(burst) /\ k > 0 THEN channels ELSE wireRc
         /\ copies' = IF ~(HasRc(burst) /\ k > 0) THEN copies
                      ELSE IF channels = wireRc THEN copies + 1 ELSE 1
         /\ burst' = <<>>
         /\ UNCHANGED <<rcSocket, channels, updateSeq, outbound, arrivals, queued>>
  <1>1. burst \in Seq(Frame) /\ (HasRc(burst) => burst[1].n = channels)
    BY DEF TypeOK, BurstShape
  <1>2. /\ wireRc' = IF HasRc(SubSeq(burst, 1, k)) THEN SubSeq(burst, 1, k)[1].n ELSE wireRc
        /\ copies' = IF ~HasRc(SubSeq(burst, 1, k)) THEN copies
                     ELSE IF SubSeq(burst, 1, k)[1].n = wireRc THEN copies + 1 ELSE 1
    BY DEF WriteEnds, Transmit
  <1>3. HasRc(SubSeq(burst, 1, k)) <=> HasRc(burst) /\ k > 0
    BY <1>1, FirstFrames
  <1>4. k > 0 => SubSeq(burst, 1, k)[1] = burst[1]
    BY <1>1, FirstFrames
  <1> QED
    BY <1>1, <1>2, <1>3, <1>4 DEF WriteEnds

LEMMA SocketStep == TypeOK /\ SocketOrdered /\ [Next]_vars => SocketOrdered'
  <1> SUFFICES ASSUME TypeOK, SocketOrdered, [Next]_vars
               PROVE  SocketOrdered'
    OBVIOUS
  <1> USE DEF loopVars, wireVars
  <1>1. /\ rcSocket \in Seq(Datagram) /\ channels \in Nat /\ arrivals \in Nat
        /\ Len(rcSocket) \in Nat /\ DOMAIN rcSocket = 1..Len(rcSocket)
        /\ \A i \in 1..Len(rcSocket) : rcSocket[i].n \in Nat
    <2>1. rcSocket \in Seq(Datagram) /\ channels \in Nat /\ arrivals \in Nat
      BY DEF TypeOK
    <2>2. \A i \in 1..Len(rcSocket) : rcSocket[i] \in Datagram
      BY <2>1, ElementOfSeq
    <2> QED
      BY <2>1, <2>2, LenProperties DEF Datagram
  <1>2. CASE UNCHANGED <<rcSocket, channels, arrivals>>
    BY <1>2 DEF SocketOrdered
  <1>3. CASE Arrive
    <2>1. arrivals' = arrivals + 1 /\ channels' = channels
      BY <1>3 DEF Arrive
    <2>2. PICK d \in Datagram : d.n = arrivals + 1 /\ rcSocket' \in {rcSocket, Append(rcSocket, d)}
      <3>1. PICK valid \in BOOLEAN :
              rcSocket' \in {rcSocket,
                             Append(rcSocket, [n |-> arrivals', valid |-> valid, at |-> now])}
        BY <1>3 DEF Arrive
      <3>2. [n |-> arrivals', valid |-> valid, at |-> now] \in Datagram
        BY <1>1, <2>1 DEF Datagram, TypeOK
      <3> QED
        BY <3>1, <3>2, <2>1
    <2>3. CASE rcSocket' = rcSocket
      BY <2>1, <2>3, <1>1 DEF SocketOrdered
    <2>4. CASE rcSocket' = Append(rcSocket, d)
      <3>1. /\ DOMAIN rcSocket' = 1..(Len(rcSocket) + 1)
            /\ \A i \in 1..Len(rcSocket) : rcSocket'[i] = rcSocket[i]
            /\ rcSocket'[Len(rcSocket) + 1] = d
        BY <1>1, <2>4, AppendProperties, LenProperties
      <3> QED
        BY <3>1, <2>1, <2>2, <1>1 DEF SocketOrdered
    <2> QED
      BY <2>2, <2>3, <2>4
  <1>4. CASE RecvRc
    <2>1. /\ arrivals' = arrivals /\ rcSocket' = Tail(rcSocket) /\ Len(rcSocket) >= 1
          /\ channels' \in {channels, rcSocket[1].n}
      BY <1>1, <1>4, EmptySeq DEF RecvRc, Accept, Reject
    <2>2. /\ DOMAIN rcSocket' = 1..(Len(rcSocket) - 1)
          /\ \A i \in 1..(Len(rcSocket) - 1) : rcSocket'[i] = rcSocket[i + 1]
      BY <1>1, <1>4, <2>1, HeadTailProperties, LenProperties DEF RecvRc
    <2>3. \A i \in 1..(Len(rcSocket) - 1) :
            /\ channels < rcSocket[i + 1].n /\ rcSocket[1].n < rcSocket[i + 1].n
            /\ rcSocket[i + 1].n <= arrivals
      BY <1>1, <2>1 DEF SocketOrdered
    <2>4. channels <= arrivals /\ rcSocket[1].n <= arrivals
      BY <1>1, <2>1 DEF SocketOrdered
    <2>5. \A i, j \in 1..(Len(rcSocket) - 1) :
            i < j => rcSocket[i + 1].n < rcSocket[j + 1].n
      BY <1>1, <2>1 DEF SocketOrdered
    <2>6. \A i \in DOMAIN rcSocket' :
            channels' < rcSocket'[i].n /\ rcSocket'[i].n <= arrivals'
      BY <2>1, <2>2, <2>3
    <2>7. \A i, j \in DOMAIN rcSocket' : i < j => rcSocket'[i].n < rcSocket'[j].n
      BY <2>2, <2>5
    <2> QED
      BY <2>1, <2>4, <2>6, <2>7 DEF SocketOrdered
  <1> QED
    BY <1>2, <1>3, <1>4
       DEF Next, vars, QueueControl, RecvDone, ReadSerial, SlotNotDue, SlotDue,
           CollectControl, NothingToWrite, WriteOk, WriteTimesOut, WriteFails, WriteEnds,
           Pause, Overrun, NextPass, Stop

LEMMA BurstStep == TypeOK /\ BurstShape /\ [Next]_vars => BurstShape'
  <1> SUFFICES ASSUME TypeOK, BurstShape, [Next]_vars
               PROVE  BurstShape'
    OBVIOUS
  <1> USE DEF loopVars, wireVars
  <1>1. /\ burst \in Seq(Frame) /\ Len(burst) \in Nat
        /\ outbound \in Seq(Frame) /\ DOMAIN outbound = 1..Len(outbound)
        /\ Len(outbound) \in Nat
    BY LenProperties DEF TypeOK
  <1>2. CASE /\ UNCHANGED <<burst, outbound, channels>>
             /\ UNCHANGED pc \/ burst = <<>> \/ pc' = "stopped"
    BY <1>2 DEF BurstShape, HasRc
  <1>3. CASE QueueControl
    <2>1. \A i \in DOMAIN outbound' : outbound'[i].kind = "control"
      BY <1>1, <1>3 DEF QueueControl, BurstShape, Control
    <2> QED
      BY <1>3, <2>1 DEF QueueControl, BurstShape, HasRc
  <1>4. CASE RecvRc
    <2>1. burst = <<>> /\ UNCHANGED <<burst, outbound>>
      BY <1>4 DEF RecvRc, BurstShape
    <2> QED
      BY <2>1, <1>1 DEF BurstShape, HasRc
  <1>5. CASE SlotDue
    <2>1. \A i \in DOMAIN outbound' : outbound'[i].kind = "control"
      BY <1>1, <1>5 DEF SlotDue, BurstShape, Control
    <2>2. /\ channels' = channels /\ pc' = "collect"
          /\ burst' = <<>> \/ (burst' = <<Rc(channels)>> /\ channels # 0)
      BY <1>5 DEF SlotDue, Live, Held
    <2> QED
      BY <2>1, <2>2 DEF BurstShape, HasRc, Rc
  <1>6. CASE CollectControl
    <2>1. /\ burst' = burst \o outbound /\ outbound' = <<>> /\ pc' = "write"
          /\ channels' = channels
      BY <1>6 DEF CollectControl
    <2>2. /\ HasRc(burst') <=> HasRc(burst)
          /\ HasRc(burst) => burst'[1] = burst[1]
      BY <1>1, <2>1, ControlsOfLonger DEF BurstShape
    <2>3. /\ Len(burst') = Len(burst) + Len(outbound)
          /\ \A i \in 1..(Len(burst) + Len(outbound)) :
               burst'[i] = IF i <= Len(burst) THEN burst[i] ELSE outbound[i - Len(burst)]
      BY <1>1, <2>1, ConcatProperties
    <2>4. ASSUME NEW i \in 2..Len(burst')
          PROVE  burst'[i].kind = "control"
      <3>1. CASE i <= Len(burst)
        BY <1>1, <2>3, <3>1 DEF BurstShape
      <3>2. CASE i > Len(burst)
        <4>1. burst'[i] = outbound[i - Len(burst)] /\ i - Len(burst) \in DOMAIN outbound
          BY <1>1, <2>3, <3>2
        <4> QED
          BY <4>1 DEF BurstShape
      <3> QED
        BY <1>1, <2>3, <3>1, <3>2
    <2>5. HasRc(burst') => channels' # 0 /\ burst'[1].n = channels'
      BY <2>1, <2>2 DEF BurstShape
    <2>6. \A i \in DOMAIN outbound' : outbound'[i].kind = "control"
      BY <2>1
    <2> QED
      BY <2>1, <2>4, <2>5, <2>6 DEF BurstShape
  <1>7. CASE WriteOk \/ WriteTimesOut \/ WriteFails
    <2>1. burst' = <<>> /\ UNCHANGED <<outbound, channels>>
      BY <1>7 DEF WriteOk, WriteTimesOut, WriteFails, WriteEnds
    <2> QED
      BY <2>1 DEF BurstShape, HasRc
  <1>8. CASE RecvDone \/ ReadSerial \/ SlotNotDue \/ NothingToWrite \/ Pause \/ Overrun
    BY <1>2, <1>8 DEF BurstShape, RecvDone, ReadSerial, SlotNotDue, NothingToWrite, Pause,
                      Overrun, NextPass
  <1> QED
    BY <1>2, <1>3, <1>4, <1>5, <1>6, <1>7, <1>8 DEF Next, vars, Arrive, Stop

LEMMA SentStep ==
  TypeOK /\ SocketOrdered /\ BurstShape /\ CountsOrdered /\ SentMeansWritten /\ [Next]_vars
    => CountsOrdered' /\ SentMeansWritten'
  <1> SUFFICES ASSUME TypeOK, SocketOrdered, BurstShape, CountsOrdered, SentMeansWritten,
                      [Next]_vars
               PROVE  CountsOrdered' /\ SentMeansWritten'
    OBVIOUS
  <1> USE DEF loopVars, wireVars
  <1>1. channels \in Nat /\ wireRc \in Nat /\ updateSeq \in Nat /\ sentSeq \in Nat
    BY DEF TypeOK
  <1>2. CASE UNCHANGED <<channels, wireRc, updateSeq, sentSeq>>
    BY <1>2 DEF CountsOrdered, SentMeansWritten, Fresh
  <1>3. CASE RecvRc
    <2>1. sentSeq' = sentSeq /\ wireRc' = wireRc
      BY <1>3 DEF RecvRc
    <2>2. CASE Accept(Head(rcSocket))
      <3>1. updateSeq' = updateSeq + 1 /\ channels' = Head(rcSocket).n
        BY <2>2 DEF Accept
      <3>2. rcSocket \in Seq(Datagram) /\ rcSocket # <<>>
        BY <1>3 DEF RecvRc, TypeOK
      <3>3. 1 \in DOMAIN rcSocket /\ Head(rcSocket) = rcSocket[1] /\ rcSocket[1] \in Datagram
        BY <3>2, EmptySeq, LenProperties, ElementOfSeq
      <3>4. channels < channels' /\ channels' \in Nat
        BY <3>1, <3>3 DEF SocketOrdered, Datagram
      <3> QED
        BY <1>1, <2>1, <3>1, <3>4 DEF CountsOrdered, SentMeansWritten, Fresh
    <2>3. CASE Reject(Head(rcSocket))
      BY <2>1, <2>3 DEF Reject, CountsOrdered, SentMeansWritten, Fresh
    <2> QED
      BY <1>3, <2>2, <2>3 DEF RecvRc
  <1>4. CASE WriteOk
    <2>1. sentSeq' = IF HasRc(burst) THEN updateSeq ELSE sentSeq
      BY <1>4 DEF WriteOk
    <2>2. Len(burst) \in 0..Len(burst) /\ (HasRc(burst) => Len(burst) > 0)
      BY EmptySeq, LenProperties DEF TypeOK, HasRc
    <2>3. /\ wireRc' = IF HasRc(burst) THEN channels ELSE wireRc
          /\ UNCHANGED <<channels, updateSeq>>
      BY <1>4, <2>2, WriteEffect DEF WriteOk
    <2> QED
      BY <1>1, <2>1, <2>3 DEF CountsOrdered, SentMeansWritten, Fresh
  <1>5. CASE WriteTimesOut \/ WriteFails
    <2>1. PICK k \in 0..Len(burst), step \in Steps : WriteEnds(k, step) /\ sentSeq' = sentSeq
      BY <1>5 DEF WriteTimesOut, WriteFails, Steps
    <2>2. wireRc' \in {wireRc, channels} /\ UNCHANGED <<channels, updateSeq>>
      BY <2>1, WriteEffect
    <2> QED
      BY <1>1, <2>1, <2>2 DEF CountsOrdered, SentMeansWritten, Fresh
  <1> QED
    BY <1>2, <1>3, <1>4, <1>5
       DEF Next, vars, Arrive, QueueControl, RecvDone, ReadSerial, SlotNotDue, SlotDue,
           CollectControl, NothingToWrite, Pause, Overrun, NextPass, Stop

\* Every step of the loop is a step of the register, or changes nothing of it.
LEMMA RegisterStep ==
  TypeOK /\ SocketOrdered /\ BurstShape /\ CountsOrdered /\ [Next]_vars
    => [Register!Next]_<<channels, wireRc>>
  <1> SUFFICES ASSUME TypeOK, SocketOrdered, BurstShape, CountsOrdered, [Next]_vars
               PROVE  Register!Next \/ UNCHANGED <<channels, wireRc>>
    OBVIOUS
  <1> USE DEF loopVars, wireVars
  <1>1. channels \in Nat /\ wireRc \in Nat /\ wireRc <= channels
    BY DEF TypeOK, CountsOrdered
  <1>2. CASE RecvRc
    <2>1. wireRc' = wireRc /\ rcSocket \in Seq(Datagram) /\ rcSocket # <<>>
      BY <1>2 DEF RecvRc, TypeOK
    <2>2. 1 \in DOMAIN rcSocket /\ Head(rcSocket) = rcSocket[1] /\ rcSocket[1] \in Datagram
      BY <2>1, EmptySeq, LenProperties, ElementOfSeq
    <2>3. channels' = channels \/ channels' = rcSocket[1].n
      BY <1>2, <2>2 DEF RecvRc, Accept, Reject
    <2> QED
      BY <1>1, <2>1, <2>2, <2>3 DEF SocketOrdered, Datagram, Register!Next, Register!Offer
  <1>3. CASE WriteOk \/ WriteTimesOut \/ WriteFails
    <2>1. PICK k \in 0..Len(burst), step \in Steps : WriteEnds(k, step)
      BY <1>3, LenProperties DEF TypeOK, WriteOk, WriteTimesOut, WriteFails, Steps
    <2>2. wireRc' \in {wireRc, channels} /\ channels' = channels
      BY <2>1, WriteEffect
    <2> QED
      BY <1>1, <2>2 DEF Register!Next, Register!Deliver
  <1> QED
    BY <1>2, <1>3
       DEF Next, vars, Arrive, QueueControl, RecvDone, ReadSerial, SlotNotDue, SlotDue,
           CollectControl, NothingToWrite, Pause, Overrun, NextPass, Stop

----------------------------------------------------------------------------
(* The control frames. *)

\* Calls in order, within a sequence and across two.
Ascending(s) ==
  \A i, j \in DOMAIN s : i < j /\ IsCall(s[i]) /\ IsCall(s[j]) => s[i].n < s[j].n
AtMost(s, n) == \A i \in DOMAIN s : s[i].n <= n

\* A frame behind the others, with a call that is newer or with none.
LEMMA AscendingAppend ==
  ASSUME NEW s \in Seq(Frame), NEW f \in Frame, NEW n \in Nat, NEW m \in Nat,
         Ascending(s), AtMost(s, n), n <= m, f.n <= m, f.n = 0 \/ n < f.n
  PROVE  Ascending(Append(s, f)) /\ AtMost(Append(s, f), m)
  <1>1. /\ Len(s) \in Nat /\ DOMAIN s = 1..Len(s)
        /\ DOMAIN Append(s, f) = 1..(Len(s) + 1)
        /\ \A i \in 1..Len(s) : Append(s, f)[i] = s[i]
        /\ Append(s, f)[Len(s) + 1] = f
    BY AppendProperties, LenProperties
  <1>2. f.n \in Nat /\ \A i \in 1..Len(s) : s[i].n \in Nat
    <2>1. \A i \in 1..Len(s) : s[i] \in Frame
      BY ElementOfSeq
    <2> QED
      BY <2>1 DEF Frame
  <1>3. AtMost(Append(s, f), m)
    BY <1>1, <1>2 DEF AtMost
  <1>4. ASSUME NEW i \in 1..(Len(s) + 1), NEW j \in 1..(Len(s) + 1), i < j,
               IsCall(Append(s, f)[i]), IsCall(Append(s, f)[j])
        PROVE  Append(s, f)[i].n < Append(s, f)[j].n
    <2>1. i \in 1..Len(s) /\ Append(s, f)[i] = s[i]
      BY <1>1, <1>4
    <2>2. CASE j \in 1..Len(s)
      BY <1>1, <1>4, <2>1, <2>2 DEF Ascending
    <2>3. CASE j = Len(s) + 1
      BY <1>1, <1>2, <1>4, <2>1, <2>3 DEF AtMost, IsCall
    <2> QED
      BY <1>1, <2>2, <2>3
  <1> QED
    BY <1>1, <1>3, <1>4 DEF Ascending

LEMMA ConcatThree ==
  ASSUME NEW a \in Seq(Frame), NEW b \in Seq(Frame), NEW c \in Seq(Frame)
  PROVE  /\ a \o b \o c \in Seq(Frame)
         /\ DOMAIN (a \o b \o c) = 1..(Len(a) + Len(b) + Len(c))
         /\ \A i \in 1..(Len(a) + Len(b) + Len(c)) :
              (a \o b \o c)[i] =
                IF i <= Len(a) THEN a[i]
                ELSE IF i <= Len(a) + Len(b) THEN b[i - Len(a)]
                ELSE c[i - (Len(a) + Len(b))]
  <1> DEFINE ab == a \o b
  <1>1. Len(a) \in Nat /\ Len(b) \in Nat /\ Len(c) \in Nat
    BY LenProperties
  <1>2. /\ ab \in Seq(Frame) /\ Len(ab) = Len(a) + Len(b)
        /\ \A i \in 1..(Len(a) + Len(b)) : ab[i] = IF i <= Len(a) THEN a[i] ELSE b[i - Len(a)]
    BY ConcatProperties
  <1> HIDE DEF ab
  <1>3. /\ ab \o c \in Seq(Frame) /\ Len(ab \o c) = Len(ab) + Len(c)
        /\ \A i \in 1..(Len(ab) + Len(c)) :
             (ab \o c)[i] = IF i <= Len(ab) THEN ab[i] ELSE c[i - Len(ab)]
    <2>1. ab \in Seq(Frame)
      BY <1>2
    <2> QED
      BY ONLY <2>1, c \in Seq(Frame), ConcatProperties, Zenon
  <1>4. DOMAIN (ab \o c) = 1..(Len(a) + Len(b) + Len(c))
    BY <1>1, <1>2, <1>3, LenProperties
  <1>5. \A i \in 1..(Len(a) + Len(b) + Len(c)) :
          (ab \o c)[i] = IF i <= Len(a) THEN a[i]
                         ELSE IF i <= Len(a) + Len(b) THEN b[i - Len(a)]
                         ELSE c[i - (Len(a) + Len(b))]
    BY <1>1, <1>2, <1>3
  <1> QED
    BY <1>3, <1>4, <1>5 DEF ab

\* Frames left out of the middle do not disturb the order of the others.
LEMMA AscendingCut ==
  ASSUME NEW a \in Seq(Frame), NEW b \in Seq(Frame), NEW c \in Seq(Frame), NEW n \in Nat,
         NEW m \in 0..Len(b), Ascending(a \o b \o c), AtMost(a \o b \o c, n)
  PROVE  /\ Ascending(a \o SubSeq(b, 1, m) \o c)
         /\ AtMost(a \o SubSeq(b, 1, m) \o c, n)
  <1> DEFINE p == SubSeq(b, 1, m)
             s == a \o b \o c
             t == a \o p \o c
             la == Len(a)
             lb == Len(b)
             lc == Len(c)
             at(i) == IF i <= la + m THEN i ELSE i + (lb - m)
  <1>1. la \in Nat /\ lb \in Nat /\ lc \in Nat /\ m \in Nat /\ m <= lb
    BY LenProperties
  <1>2. p \in Seq(Frame) /\ Len(p) = m /\ \A i \in 1..m : p[i] = b[i]
    BY FrontFrames
  <1> HIDE DEF p
  <1>3. /\ DOMAIN s = 1..(la + lb + lc)
        /\ \A i \in 1..(la + lb + lc) :
             s[i] = IF i <= la THEN a[i] ELSE IF i <= la + lb THEN b[i - la]
                                         ELSE c[i - (la + lb)]
    BY ConcatThree
  <1>4. /\ DOMAIN t = 1..(la + m + lc)
        /\ \A i \in 1..(la + m + lc) :
             t[i] = IF i <= la THEN a[i] ELSE IF i <= la + m THEN p[i - la]
                                         ELSE c[i - (la + m)]
    <2>1. /\ DOMAIN t = 1..(la + Len(p) + lc)
          /\ \A i \in 1..(la + Len(p) + lc) :
               t[i] = IF i <= la THEN a[i] ELSE IF i <= la + Len(p) THEN p[i - la]
                                           ELSE c[i - (la + Len(p))]
      BY <1>2, ConcatThree
    <2> QED
      BY <1>2, <2>1
  <1> HIDE DEF s, t, la, lb, lc
  <1>5. ASSUME NEW i \in DOMAIN t
        PROVE  at(i) \in DOMAIN s /\ t[i] = s[at(i)]
    <2>0. i \in 1..(la + m + lc)
      BY <1>4
    <2>1. CASE i <= la
      BY <1>1, <1>3, <1>4, <2>0, <2>1
    <2>2. CASE la < i /\ i <= la + m
      <3>1. t[i] = p[i - la] /\ s[i] = b[i - la] /\ i - la \in 1..m
        BY <1>1, <1>3, <1>4, <2>0, <2>2
      <3> QED
        BY <1>1, <1>2, <1>3, <2>0, <2>2, <3>1
    <2>3. CASE la + m < i
      <3>1. at(i) = i + (lb - m) /\ at(i) \in 1..(la + lb + lc) /\ ~(at(i) <= la + lb)
        BY <1>1, <2>0, <2>3
      <3>2. s[at(i)] = c[at(i) - (la + lb)]
        BY <1>1, <1>3, <3>1
      <3>3. t[i] = c[i - (la + m)] /\ at(i) - (la + lb) = i - (la + m)
        BY <1>1, <1>4, <2>0, <2>3, <3>1
      <3> QED
        BY <1>3, <3>1, <3>2, <3>3
    <2> QED
      BY <1>1, <2>0, <2>1, <2>2, <2>3
  <1>6. \A i, j \in DOMAIN t : i < j => at(i) < at(j)
    BY <1>1, <1>4
  <1> HIDE DEF at
  <1>7. Ascending(s) /\ AtMost(s, n)
    BY DEF s
  <1>8. Ascending(t) /\ AtMost(t, n)
    BY <1>5, <1>6, <1>7 DEF Ascending, AtMost
  <1> QED
    BY <1>8 DEF t, p

LEMMA LineAppend ==
  ASSUME NEW a \in Seq(Frame), NEW b \in Seq(Frame), NEW c \in Seq(Frame), NEW f \in Frame
  PROVE  a \o b \o Append(c, f) = Append(a \o b \o c, f)
  <1>1. a \o b \in Seq(Frame) /\ <<f>> \in Seq(Frame)
    BY ConcatProperties
  <1>2. Append(c, f) = c \o <<f>>
    BY AppendIsConcat
  <1>3. (a \o b) \o (c \o <<f>>) = ((a \o b) \o c) \o <<f>>
    BY <1>1, ConcatAssociative
  <1>4. Append((a \o b) \o c, f) = ((a \o b) \o c) \o <<f>>
    BY <1>1, ConcatProperties, AppendIsConcat
  <1> QED
    BY <1>2, <1>3, <1>4

\* What a step makes of the line of control frames: nothing, a frame more at
\* its end, or some of the burst's frames less.
LEMMA LineStep ==
  ASSUME TypeOK, BurstShape, [Next]_vars
  PROVE  \/ ControlLine' = ControlLine /\ queued' = queued
         \/ ControlLine' = Append(ControlLine, Control(0)) /\ queued' = queued
         \/ ControlLine' = Append(ControlLine, Control(queued')) /\ queued' = queued + 1
         \/ /\ queued' = queued
            /\ timeouts' = 0 => pc' = "stopped"
            /\ \E m \in 0..Len(ControlsOf(burst)) :
                 ControlLine' = wireControl \o SubSeq(ControlsOf(burst), 1, m) \o outbound
  <1> USE DEF loopVars, wireVars
  <1>1. /\ wireControl \in Seq(Frame) /\ burst \in Seq(Frame) /\ outbound \in Seq(Frame)
        /\ queued \in Nat
    BY DEF TypeOK
  <1>2. ControlsOf(burst) \in Seq(Frame)
    BY <1>1, ControlsType
  <1>3. \A n \in Nat : Control(n) \in Frame
    BY DEF Control, Frame
  <1>4. CASE UNCHANGED <<wireControl, burst, outbound, queued>>
    BY <1>4 DEF ControlLine, ControlsOf, HasRc
  <1>5. CASE QueueControl
    <2>1. /\ queued' = queued + 1 /\ outbound' = Append(outbound, Control(queued'))
          /\ UNCHANGED <<wireControl, burst>>
      BY <1>5 DEF QueueControl
    <2>2. ControlLine' = wireControl \o ControlsOf(burst) \o Append(outbound, Control(queued'))
      BY <2>1 DEF ControlLine, ControlsOf, HasRc
    <2>3. Control(queued') \in Frame
      BY <1>1, <1>3, <2>1
    <2> QED
      BY <1>1, <1>2, <2>1, <2>2, <2>3, LineAppend DEF ControlLine
  <1>6. CASE SlotDue
    <2>1. /\ queued' = queued /\ wireControl' = wireControl
          /\ outbound' \in {outbound, Append(outbound, Control(0))}
      BY <1>6 DEF SlotDue
    <2>2. ControlsOf(burst) = <<>>
      BY <1>6 DEF SlotDue, BurstShape, ControlsOf, HasRc
    <2>3. ControlsOf(burst') = <<>>
      <3>1. burst' \in {<<>>, <<Rc(channels)>>}
        BY <1>6 DEF SlotDue
      <3>2. Tail(<<Rc(channels)>>) = <<>> /\ <<Rc(channels)>>[1].kind = "rc"
        BY DEF Rc
      <3> QED
        BY <3>1, <3>2 DEF ControlsOf, HasRc
    <2>4. ControlLine' = wireControl \o ControlsOf(burst) \o outbound'
      BY <2>1, <2>2, <2>3 DEF ControlLine
    <2>5. Control(0) \in Frame
      BY <1>3
    <2> QED
      <3>1. wireControl \o ControlsOf(burst) \o Append(outbound, Control(0))
              = Append(ControlLine, Control(0))
        BY <1>1, <1>2, <2>5, LineAppend DEF ControlLine
      <3> QED
        BY <2>1, <2>4, <3>1 DEF ControlLine
  <1>7. CASE CollectControl
    <2>1. /\ queued' = queued /\ wireControl' = wireControl
          /\ burst' = burst \o outbound /\ outbound' = <<>>
      BY <1>7 DEF CollectControl
    <2>2. ControlsOf(burst') = ControlsOf(burst) \o outbound
      BY <1>1, <2>1, ControlsOfLonger DEF BurstShape
    <2>3. ControlLine' = (wireControl \o (ControlsOf(burst) \o outbound)) \o <<>>
      BY <2>1, <2>2 DEF ControlLine
    <2>4. (wireControl \o (ControlsOf(burst) \o outbound)) \o <<>>
            = wireControl \o (ControlsOf(burst) \o outbound)
      BY <1>1, <1>2, ConcatProperties, ConcatEmptySeq
    <2>5. wireControl \o (ControlsOf(burst) \o outbound) = ControlLine
      BY <1>1, <1>2, ConcatAssociative DEF ControlLine
    <2> QED
      BY <2>1, <2>3, <2>4, <2>5
  <1>8. CASE WriteOk
    <2>1. WriteEnds(Len(burst), "pause")
      BY <1>8 DEF WriteOk
    <2>2. /\ wireControl' = wireControl \o ControlsOf(burst)
          /\ burst' = <<>> /\ UNCHANGED <<outbound, queued>>
      BY <1>1, <2>1, SubSeqFull DEF WriteEnds, Transmit
    <2>3. ControlsOf(burst') = <<>>
      BY <2>2 DEF ControlsOf, HasRc
    <2>4. wireControl' \o <<>> = wireControl'
      BY TypeStep, ConcatEmptySeq DEF TypeOK
    <2> QED
      BY <2>2, <2>3, <2>4 DEF ControlLine
  <1>9. CASE WriteTimesOut \/ WriteFails
    <2>1. PICK k \in 0..Len(burst), step \in Steps : WriteEnds(k, step)
      BY <1>9 DEF WriteTimesOut, WriteFails, Steps
    <2>2. PICK m \in 0..Len(ControlsOf(burst)) :
            ControlsOf(SubSeq(burst, 1, k)) = SubSeq(ControlsOf(burst), 1, m)
      BY <1>1, ControlsOfFirst
    <2>3. /\ wireControl' = wireControl \o SubSeq(ControlsOf(burst), 1, m)
          /\ burst' = <<>> /\ UNCHANGED <<outbound, queued>>
      BY <2>1, <2>2 DEF WriteEnds, Transmit
    <2>4. ControlsOf(burst') = <<>>
      BY <2>3 DEF ControlsOf, HasRc
    <2>5. wireControl' \in Seq(Frame)
      BY TypeStep DEF TypeOK
    <2>6. wireControl' \o <<>> = wireControl'
      BY <2>5, ConcatEmptySeq
    <2>7. ControlLine' = wireControl \o SubSeq(ControlsOf(burst), 1, m) \o outbound
      BY <2>3, <2>4, <2>6 DEF ControlLine
    <2>8. timeouts' = 0 => pc' = "stopped"
      BY <1>9 DEF TypeOK, WriteTimesOut, WriteFails, WriteEnds
    <2> QED
      BY <2>3, <2>7, <2>8
  <1> QED
    BY <1>4, <1>5, <1>6, <1>7, <1>8, <1>9
       DEF Next, vars, Arrive, RecvRc, RecvDone, ReadSerial, SlotNotDue, NothingToWrite,
           Pause, Overrun, NextPass, Stop

LEMMA ControlStep ==
  TypeOK /\ BurstShape /\ CallsCounted /\ ControlOrdered /\ [Next]_vars
    => CallsCounted' /\ ControlOrdered'
  <1> SUFFICES ASSUME TypeOK, BurstShape, CallsCounted, ControlOrdered, [Next]_vars
               PROVE  CallsCounted' /\ ControlOrdered'
    OBVIOUS
  <1>1. /\ wireControl \in Seq(Frame) /\ burst \in Seq(Frame) /\ outbound \in Seq(Frame)
        /\ queued \in Nat
    BY DEF TypeOK
  <1>2. ControlsOf(burst) \in Seq(Frame)
    BY <1>1, ControlsType
  <1>3. \A n \in Nat : Control(n) \in Frame /\ Control(n).n = n
    BY DEF Control, Frame
  <1>4. ControlLine \in Seq(Frame)
    BY <1>1, <1>2, ConcatThree DEF ControlLine
  <1>5. Ascending(ControlLine) /\ AtMost(ControlLine, queued)
    BY DEF ControlOrdered, CallsCounted, Ascending, AtMost
  <1>6. Ascending(ControlLine') /\ AtMost(ControlLine', queued')
    <2>1. CASE ControlLine' = ControlLine /\ queued' = queued
      BY <1>5, <2>1
    <2>2. CASE ControlLine' = Append(ControlLine, Control(0)) /\ queued' = queued
      <3>1. Control(0) \in Frame /\ Control(0).n = 0 /\ queued <= queued /\ 0 <= queued
        BY <1>1, <1>3
      <3>2. /\ Ascending(Append(ControlLine, Control(0)))
            /\ AtMost(Append(ControlLine, Control(0)), queued)
        BY <1>1, <1>4, <1>5, <3>1, AscendingAppend
      <3> QED
        BY <2>2, <3>2
    <2>3. CASE ControlLine' = Append(ControlLine, Control(queued')) /\ queued' = queued + 1
      <3>1. queued' \in Nat /\ queued < queued' /\ queued <= queued'
        BY <1>1, <2>3
      <3>2. Control(queued') \in Frame /\ Control(queued').n = queued'
        BY <1>3, <3>1
      <3>3. /\ Ascending(Append(ControlLine, Control(queued')))
            /\ AtMost(Append(ControlLine, Control(queued')), queued')
        <4>1. \A f \in Frame : f.n = queued' =>
                /\ Ascending(Append(ControlLine, f))
                /\ AtMost(Append(ControlLine, f), queued')
          BY <1>1, <1>4, <1>5, <3>1, AscendingAppend
        <4> QED
          BY <3>2, <4>1
      <3> QED
        BY <2>3, <3>3
    <2>4. CASE /\ queued' = queued
               /\ \E m \in 0..Len(ControlsOf(burst)) :
                    ControlLine' = wireControl \o SubSeq(ControlsOf(burst), 1, m) \o outbound
      BY <1>1, <1>2, <1>5, <2>4, AscendingCut DEF ControlLine
    <2> QED
      BY <2>1, <2>2, <2>3, <2>4, LineStep
  <1> QED
    BY <1>6 DEF ControlOrdered, CallsCounted, Ascending, AtMost

\* A write that ends well moves the control frames of its burst and keeps all.
LEMMA ConservedStep ==
  TypeOK /\ BurstShape /\ ControlConserved /\ [Next]_vars => ControlConserved'
  <1> SUFFICES ASSUME TypeOK, BurstShape, ControlConserved, [Next]_vars,
                      timeouts' = 0, pc' # "stopped"
               PROVE  \A call \in 1..queued' :
                        \E i \in DOMAIN ControlLine' : ControlLine'[i].n = call
    BY DEF ControlConserved
  <1> USE DEF loopVars, wireVars
  <1>1. timeouts = 0 /\ pc # "stopped"
    BY DEF TypeOK, Next, vars, Arrive, QueueControl, RecvRc, RecvDone, ReadSerial, SlotNotDue,
           SlotDue, CollectControl, NothingToWrite, WriteOk, WriteTimesOut, WriteFails,
           WriteEnds, Pause, Overrun, NextPass, Stop
  <1>2. \A call \in 1..queued : \E i \in DOMAIN ControlLine : ControlLine[i].n = call
    BY <1>1 DEF ControlConserved
  <1>3. ControlLine \in Seq(Frame) /\ queued \in Nat
    <2>1. ControlsOf(burst) \in Seq(Frame)
      BY ControlsType DEF TypeOK
    <2> QED
      BY <2>1, ConcatThree DEF ControlLine, TypeOK
  <1>4. ASSUME NEW n \in Nat, ControlLine' = Append(ControlLine, Control(n))
        PROVE  /\ \A i \in DOMAIN ControlLine :
                    i \in DOMAIN ControlLine' /\ ControlLine'[i] = ControlLine[i]
               /\ \E i \in DOMAIN ControlLine' : ControlLine'[i].n = n
    <2>1. /\ DOMAIN ControlLine' = 1..(Len(ControlLine) + 1) /\ Len(ControlLine) \in Nat
          /\ DOMAIN ControlLine = 1..Len(ControlLine)
          /\ \A i \in 1..Len(ControlLine) : ControlLine'[i] = ControlLine[i]
          /\ ControlLine'[Len(ControlLine) + 1] = Control(n)
      BY <1>3, <1>4 DEF Control, Frame
    <2>2. Control(n).n = n
      BY DEF Control
    <2> QED
      BY <2>1, <2>2
  <1>5. CASE ControlLine' = ControlLine /\ queued' = queued
    BY <1>2, <1>5
  <1>6. CASE ControlLine' = Append(ControlLine, Control(0)) /\ queued' = queued
    BY <1>2, <1>4, <1>6
  <1>7. CASE ControlLine' = Append(ControlLine, Control(queued')) /\ queued' = queued + 1
    <2>1. queued' \in Nat
      BY <1>3, <1>7
    <2>2. /\ \A i \in DOMAIN ControlLine :
               i \in DOMAIN ControlLine' /\ ControlLine'[i] = ControlLine[i]
          /\ \E i \in DOMAIN ControlLine' : ControlLine'[i].n = queued'
      BY <1>4, <1>7, <2>1
    <2>3. \A call \in 1..queued' : call \in 1..queued \/ call = queued'
      BY <1>3, <1>7
    <2> QED
      BY <1>2, <2>2, <2>3
  <1> QED
    BY <1>5, <1>6, <1>7, LineStep

----------------------------------------------------------------------------
(* Time: the wait for a slot, and what a pass without a timeout promises. *)

\* The next slot stays near: a pass can miss it by no more than its own length.
LEMMA SlotStep == TypeOK /\ SlotNear /\ [Next]_vars => SlotNear'
  <1> SUFFICES ASSUME TypeOK, SlotNear, [Next]_vars
               PROVE  SlotNear'
    OBVIOUS
  <1> USE TimeAssumption DEF loopVars, wireVars
  <1> DEFINE due == NextDue(Period, slot)
  <1>1. /\ now \in Nat /\ due \in Nat /\ nextStatus \in Nat /\ timeouts \in Nat
        /\ LongestPass \in Nat /\ LongestPass >= MaxGap /\ pc \in Steps
    BY DEF TypeOK, NextDue, LongestPass, Steps
  <1>2. timeouts' \in Nat
    BY TypeStep DEF TypeOK
  <1>3. CASE UNCHANGED <<now, slot, nextStatus, timeouts, pc>>
    BY <1>3 DEF SlotNear, LongestPass, NextDue
  <1>4. CASE RecvDone \/ ReadSerial
    BY <1>4 DEF RecvDone, ReadSerial, SlotNear, LongestPass, NextDue, Checked
  <1>5. CASE SlotNotDue
    BY <1>5, <1>1 DEF SlotNotDue, SlotNear, LongestPass, NextDue, Checked
  <1>6. CASE SlotDue
    <2>1. slot' = now \div Period + 1
      BY <1>6, SlotIsNextQuotient DEF SlotDue, TypeOK
    <2>2. now < due' /\ due' <= now + Period /\ due' \in Nat
      <3>1. due' = (now \div Period + 1) * Period
        BY <2>1 DEF NextDue
      <3>2. /\ now < (now \div Period + 1) * Period
            /\ (now \div Period + 1) * Period <= now + Period
        BY <1>1, NextDeadline
      <3>3. now \div Period + 1 \in Nat
        BY <1>1, Division
      <3>4. \A q \in Nat : q * Period \in Nat
        OBVIOUS
      <3> HIDE DEF due
      <3> QED
        BY <3>1, <3>2, <3>3, <3>4
    <2>3. StatusPoll => now <= nextStatus' /\ nextStatus' \in Nat
      BY <1>6, <1>1 DEF SlotDue, StatusDue
    <2>4. UNCHANGED <<now, timeouts>> /\ pc' = "collect" /\ LongestPass' = LongestPass
      BY <1>6 DEF SlotDue, LongestPass
    <2> HIDE DEF due
    <2> QED
      BY <1>1, <2>2, <2>3, <2>4 DEF SlotNear, due
  <1>7. CASE CollectControl \/ NothingToWrite \/ WriteOk \/ WriteFails \/ WriteTimesOut
    <2>1. /\ pc \in {"collect", "write"} /\ UNCHANGED <<now, slot, nextStatus>>
          /\ timeouts' >= timeouts /\ (pc' = "overrun" => timeouts' > 0)
      BY <1>1, <1>7 DEF CollectControl, NothingToWrite, WriteOk, WriteFails, WriteTimesOut,
                        WriteEnds
    <2>2. LongestPass' >= LongestPass /\ LongestPass' \in Nat
      <3>1. LongestPass' = MaxGap + IF timeouts' > 0 THEN WriteTimeout ELSE 0
        BY DEF LongestPass
      <3>2. LongestPass = MaxGap + IF timeouts > 0 THEN WriteTimeout ELSE 0
        BY DEF LongestPass
      <3> QED
        BY <1>1, <1>2, <2>1, <3>1, <3>2
    <2>3. due' = due /\ now < due
      BY <2>1 DEF SlotNear, Checked, NextDue
    <2> HIDE DEF due
    <2> QED
      BY <1>1, <2>1, <2>2, <2>3 DEF SlotNear, due
  <1>8. CASE Pause \/ Overrun
    <2>1. PICK gap \in Nat : NextPass(gap) /\ gap <= LongestPass
      BY <1>1, <1>8 DEF Pause, Overrun, SlotNear, LongestPass
    <2>2. /\ now' = now + gap /\ pc' = "drain" /\ due' = due
          /\ UNCHANGED <<nextStatus, timeouts>> /\ LongestPass' = LongestPass
      BY <2>1 DEF NextPass, NextDue, LongestPass
    <2>3. now < due
      BY <1>8 DEF Pause, Overrun, SlotNear, Checked
    <2> HIDE DEF due
    <2> QED
      BY <1>1, <2>1, <2>2, <2>3 DEF SlotNear, due, Checked
  <1>9. CASE Stop
    BY <1>9, <1>1 DEF Stop, SlotNear, LongestPass, NextDue, Checked
  <1> QED
    BY <1>3, <1>4, <1>5, <1>6, <1>7, <1>8, <1>9
       DEF Next, vars, Arrive, QueueControl, RecvRc

\* A fresh sample is in the burst of its slot.
LEMMA FreshStep ==
  TypeOK /\ SocketOrdered /\ BurstShape /\ CountsOrdered /\ SlotNear /\ FreshNear /\ [Next]_vars
    => FreshNear'
  <1> SUFFICES ASSUME TypeOK, SocketOrdered, BurstShape, CountsOrdered, SlotNear, FreshNear,
                      [Next]_vars
               PROVE  FreshNear'
    OBVIOUS
  <1> USE TimeAssumption DEF loopVars, wireVars
  <1> DEFINE due == NextDue(Period, slot)
  <1>1. /\ now \in Nat /\ due \in Nat /\ freshSince \in Nat /\ updateAt \in Nat
        /\ channels \in Nat /\ updateSeq \in Nat /\ sentSeq \in Nat /\ timeouts \in Nat
        /\ burst \in Seq(Frame) /\ outbound \in Seq(Frame) /\ pc \in Steps
    BY DEF TypeOK, NextDue, Steps
  <1>2. timeouts = 0 => LongestPass = MaxGap
    BY DEF LongestPass
  <1>3. CASE UNCHANGED <<now, channels, updateAt, updateSeq, sentSeq, slot, burst, freshSince,
                         timeouts, pc>>
    BY <1>3 DEF FreshNear, Fresh, HasRc, NextDue
  <1>4. CASE RecvRc
    <2>1. /\ pc = "drain" /\ UNCHANGED <<now, pc, sentSeq, slot, burst, timeouts>>
          /\ due' = due
      BY <1>4 DEF RecvRc, NextDue
    <2>2. CASE Accept(Head(rcSocket))
      <3>1. /\ updateAt' = now /\ updateSeq' = updateSeq + 1
            /\ freshSince' = IF Fresh THEN freshSince ELSE now
        BY <2>2 DEF Accept
      <3>2. channels' # 0
        <4>1. rcSocket \in Seq(Datagram) /\ rcSocket # <<>>
          BY <1>4 DEF RecvRc, TypeOK
        <4>2. 1 \in DOMAIN rcSocket /\ Head(rcSocket) = rcSocket[1] /\ rcSocket[1] \in Datagram
          BY <4>1, EmptySeq, LenProperties, ElementOfSeq
        <4> QED
          BY <1>1, <2>2, <4>2 DEF Accept, SocketOrdered, Datagram
      <3>3. due <= now + Period
        BY DEF SlotNear
      <3> HIDE DEF due
      <3> QED
        BY <1>1, <2>1, <3>1, <3>2, <3>3 DEF FreshNear, Checking, due
    <2>3. CASE Reject(Head(rcSocket))
      BY <2>1, <2>3 DEF Reject, FreshNear, Fresh, HasRc
    <2> QED
      BY <1>4, <2>2, <2>3 DEF RecvRc
  <1>5. CASE RecvDone \/ ReadSerial \/ SlotNotDue
    BY <1>5 DEF RecvDone, ReadSerial, SlotNotDue, FreshNear, Fresh, HasRc, NextDue, Checking
  <1>6. CASE SlotDue
    <2>1. /\ pc = "slot" /\ pc' = "collect"
          /\ UNCHANGED <<now, channels, updateAt, updateSeq, sentSeq, freshSince, timeouts>>
          /\ burst' = IF Live \/ Held THEN <<Rc(channels)>> ELSE <<>>
      BY <1>6 DEF SlotDue
    <2>2. Fresh => HasRc(burst')
      BY <2>1 DEF FreshNear, Live, HasRc, Rc
    <2>3. timeouts = 0 /\ Fresh => now - freshSince < Period + MaxGap
      <3>1. timeouts = 0 => now < due + MaxGap
        BY <1>2 DEF SlotNear
      <3>2. timeouts = 0 /\ Fresh => due <= freshSince + Period
        BY <2>1 DEF FreshNear, Checking
      <3> HIDE DEF due
      <3> QED
        BY <1>1, <3>1, <3>2
    <2> QED
      BY <2>1, <2>2, <2>3 DEF FreshNear, Fresh, Checking
  <1>7. CASE CollectControl
    <2>1. /\ pc = "collect" /\ pc' = "write" /\ burst' = burst \o outbound
          /\ UNCHANGED <<now, channels, updateAt, updateSeq, sentSeq, freshSince, timeouts>>
      BY <1>7 DEF CollectControl
    <2>2. HasRc(burst') <=> HasRc(burst)
      BY <1>1, <2>1, ControlsOfLonger DEF BurstShape
    <2> QED
      BY <2>1, <2>2 DEF FreshNear, Fresh, Checking
  <1>8. CASE NothingToWrite
    <2>1. /\ pc = "write" /\ ~HasRc(burst)
          /\ UNCHANGED <<now, channels, updateAt, updateSeq, sentSeq, freshSince, timeouts>>
      BY <1>8 DEF NothingToWrite, HasRc
    <2>2. timeouts = 0 => ~Fresh
      BY <2>1 DEF FreshNear
    <2> QED
      BY <2>1, <2>2 DEF FreshNear, Fresh
  <1>9. CASE WriteOk
    <2>1. /\ pc = "write"
          /\ UNCHANGED <<now, channels, updateAt, updateSeq, freshSince, timeouts>>
          /\ sentSeq' = IF HasRc(burst) THEN updateSeq ELSE sentSeq
      BY <1>9 DEF WriteOk, WriteEnds
    <2>2. timeouts = 0 => ~Fresh'
      BY <2>1 DEF FreshNear, Fresh
    <2> QED
      BY <2>1, <2>2 DEF FreshNear, Fresh
  <1>10. CASE WriteTimesOut \/ WriteFails
    <2>1. /\ UNCHANGED <<now, channels, updateAt, updateSeq, sentSeq, freshSince>>
          /\ timeouts' # 0 \/ pc' = "stopped"
      BY <1>1, <1>10 DEF WriteTimesOut, WriteFails, WriteEnds
    <2> QED
      BY <2>1 DEF FreshNear, Fresh, Checking
  <1>11. CASE Pause \/ Overrun
    <2>1. PICK gap \in Nat : NextPass(gap)
      BY <1>11 DEF Pause, Overrun
    <2>2. /\ now' = now + gap /\ pc' = "drain" /\ due' = due
          /\ UNCHANGED <<channels, updateAt, updateSeq, sentSeq, freshSince, timeouts>>
      BY <2>1 DEF NextPass, NextDue
    <2>3. pc = "pause" \/ timeouts # 0
      BY <1>1, <1>11 DEF Pause, Overrun, SlotNear
    <2> HIDE DEF due
    <2> QED
      BY <1>1, <2>2, <2>3 DEF FreshNear, Fresh, Checking, due
  <1>12. CASE Stop
    BY <1>12 DEF Stop, FreshNear, Fresh, Checking
  <1> QED
    BY <1>3, <1>4, <1>5, <1>6, <1>7, <1>8, <1>9, <1>10, <1>11, <1>12
       DEF Next, vars, Arrive, QueueControl

\* Without a timeout a fresh sample was never on the wire.
LEMMA UnsentStep ==
  TypeOK /\ SocketOrdered /\ BurstShape /\ CountsOrdered /\ FreshUnsent /\ [Next]_vars
    => FreshUnsent'
  <1> SUFFICES ASSUME TypeOK, SocketOrdered, BurstShape, CountsOrdered, FreshUnsent,
                      [Next]_vars
               PROVE  FreshUnsent'
    OBVIOUS
  <1> USE DEF loopVars, wireVars, ForwardedOnceWhenHealthy
  <1>1. /\ channels \in Nat /\ updateSeq \in Nat /\ sentSeq \in Nat /\ wireRc \in Nat
        /\ timeouts \in Nat /\ copies \in Nat /\ burst \in Seq(Frame) /\ outbound \in Seq(Frame)
        /\ wireRc <= channels /\ sentSeq <= updateSeq
    BY DEF TypeOK, CountsOrdered
  <1>2. CASE /\ UNCHANGED <<hold, channels, updateSeq, sentSeq, burst, wireRc, copies, timeouts>>
             /\ UNCHANGED pc \/ pc # "stopped"
    BY <1>2 DEF FreshUnsent, Fresh, HasRc
  <1>3. CASE RecvRc
    <2>1. burst = <<>> /\ UNCHANGED <<hold, pc, burst, wireRc, copies, timeouts, sentSeq>>
      BY <1>3 DEF RecvRc, BurstShape
    <2>2. ~HasRc(burst')
      BY <2>1 DEF HasRc
    <2>3. CASE Accept(Head(rcSocket))
      <3>1. rcSocket \in Seq(Datagram) /\ rcSocket # <<>>
        BY <1>3 DEF RecvRc, TypeOK
      <3>2. 1 \in DOMAIN rcSocket /\ Head(rcSocket) = rcSocket[1] /\ rcSocket[1] \in Datagram
        BY <3>1, EmptySeq, LenProperties, ElementOfSeq
      <3>3. channels' \in Nat /\ channels < channels'
        BY <2>3, <3>2 DEF Accept, SocketOrdered, Datagram
      <3> QED
        BY <1>1, <2>1, <2>2, <3>3 DEF FreshUnsent
    <2>4. CASE Reject(Head(rcSocket))
      BY <1>3, <2>1, <2>2, <2>4 DEF Reject, FreshUnsent, Fresh, RecvRc
    <2> QED
      BY <1>3, <2>3, <2>4 DEF RecvRc
  <1>4. CASE SlotDue
    <2>1. /\ UNCHANGED <<hold, channels, updateSeq, sentSeq, wireRc, copies, timeouts>>
          /\ burst' = IF Live \/ Held THEN <<Rc(channels)>> ELSE <<>>
          /\ pc = "slot" /\ pc' = "collect"
      BY <1>4 DEF SlotDue
    <2>2. HasRc(burst') /\ hold = 0 => Fresh
      BY <2>1 DEF HasRc, Live, Held
    <2> QED
      BY <2>1, <2>2 DEF FreshUnsent, Fresh
  <1>5. CASE CollectControl
    <2>1. /\ UNCHANGED <<hold, channels, updateSeq, sentSeq, wireRc, copies, timeouts>>
          /\ burst' = burst \o outbound /\ pc = "collect" /\ pc' = "write"
      BY <1>5 DEF CollectControl
    <2>2. HasRc(burst') <=> HasRc(burst)
      BY <1>1, <2>1, ControlsOfLonger DEF BurstShape
    <2> QED
      BY <2>1, <2>2 DEF FreshUnsent, Fresh
  <1>6. ASSUME NEW k \in 0..Len(burst), NEW step, WriteEnds(k, step), timeouts' = timeouts
        PROVE  timeouts = 0 /\ hold = 0 => copies' <= 1
    <2>1. /\ pc = "write"
          /\ copies' = IF ~(HasRc(burst) /\ k > 0) THEN copies
                       ELSE IF channels = wireRc THEN copies + 1 ELSE 1
      BY <1>6, WriteEffect DEF WriteEnds
    <2> QED
      BY <1>1, <2>1 DEF FreshUnsent
  <1>7. CASE WriteOk
    <2>1. /\ WriteEnds(Len(burst), "pause") /\ timeouts' = timeouts
          /\ sentSeq' = IF HasRc(burst) THEN updateSeq ELSE sentSeq
      BY <1>7 DEF WriteOk
    <2>2. Len(burst) \in 0..Len(burst) /\ Len(burst) > 0
      BY <1>1, <2>1, EmptySeq, LenProperties DEF WriteEnds
    <2>3. /\ wireRc' = IF HasRc(burst) THEN channels ELSE wireRc
          /\ UNCHANGED <<channels, updateSeq>> /\ burst' = <<>>
      BY <2>1, <2>2, WriteEffect
    <2>4. timeouts = 0 /\ hold = 0 => copies' <= 1
      BY <1>6, <2>1, <2>2
    <2>5. pc = "write" /\ hold' = hold
      BY <2>1 DEF WriteEnds
    <2> QED
      BY <2>1, <2>3, <2>4, <2>5 DEF FreshUnsent, Fresh, HasRc
  <1>8. CASE WriteFails
    <2>1. PICK k \in 0..Len(burst) : WriteEnds(k, "stopped")
      BY <1>8 DEF WriteFails
    <2>2. timeouts' = timeouts /\ pc' = "stopped" /\ hold' = hold
      BY <1>8, <2>1 DEF WriteFails, WriteEnds
    <2>3. timeouts = 0 /\ hold = 0 => copies' <= 1
      BY <1>6, <2>1, <2>2
    <2> QED
      BY <2>2, <2>3 DEF FreshUnsent
  <1>9. CASE WriteTimesOut
    BY <1>1, <1>9 DEF WriteTimesOut, FreshUnsent
  <1> QED
    BY <1>2, <1>3, <1>4, <1>5, <1>7, <1>8, <1>9
       DEF Next, vars, Arrive, QueueControl, RecvDone, ReadSerial, SlotNotDue,
           NothingToWrite, Pause, Overrun, NextPass, Stop

\* A pass takes every datagram that waits, so none waits for two passes.
LEMMA RecentStep == TypeOK /\ SlotNear /\ SocketRecent /\ [Next]_vars => SocketRecent'
  <1> SUFFICES ASSUME TypeOK, SlotNear, SocketRecent, [Next]_vars
               PROVE  SocketRecent'
    OBVIOUS
  <1> USE TimeAssumption DEF loopVars, wireVars
  <1>1. /\ rcSocket \in Seq(Datagram) /\ now \in Nat /\ timeouts \in Nat /\ heardAt \in Nat
        /\ updateAt \in Nat
        /\ \A i \in DOMAIN rcSocket : rcSocket[i].at \in Nat
    <2>1. rcSocket \in Seq(Datagram)
      BY DEF TypeOK
    <2>2. \A i \in DOMAIN rcSocket : rcSocket[i] \in Datagram
      BY <2>1, ElementOfSeq, LenProperties
    <2> QED
      BY <2>1, <2>2 DEF TypeOK, Datagram
  <1>2. CASE /\ UNCHANGED <<now, rcSocket, channels, updateAt, heardAt>>
             /\ timeouts' = 0 => timeouts = 0
             /\ pc' \in {pc, "stopped"} \/ (pc \notin {"drain", "stopped"} /\ pc' # "drain")
    BY <1>1, <1>2 DEF SocketRecent
  <1>3. CASE Arrive
    <2>1. /\ UNCHANGED <<now, pc, channels, updateAt, heardAt, timeouts>>
          /\ \E d : d.at = now /\ rcSocket' \in {rcSocket, Append(rcSocket, d)}
      BY <1>3 DEF Arrive
    <2>2. PICK d : d.at = now /\ rcSocket' \in {rcSocket, Append(rcSocket, d)}
      BY <2>1
    <2>3. ASSUME NEW i \in DOMAIN rcSocket'
          PROVE  \/ i \in DOMAIN rcSocket /\ rcSocket'[i] = rcSocket[i]
                 \/ rcSocket'[i].at = now
      <3>1. CASE rcSocket' = rcSocket
        BY <2>3, <3>1
      <3>2. CASE rcSocket' = Append(rcSocket, d)
        BY <1>1, <2>2, <2>3, <3>2
      <3> QED
        BY <2>2, <3>1, <3>2
    <2> QED
      BY <1>1, <2>1, <2>3 DEF SocketRecent
  <1>4. CASE RecvRc
    <2>1. /\ pc = "drain" /\ UNCHANGED <<now, pc, timeouts>>
          /\ rcSocket # <<>> /\ rcSocket' = Tail(rcSocket)
      BY <1>4 DEF RecvRc
    <2>2. /\ 1 \in DOMAIN rcSocket /\ Head(rcSocket) = rcSocket[1]
          /\ \A i \in DOMAIN rcSocket' : i + 1 \in DOMAIN rcSocket /\ rcSocket'[i] = rcSocket[i + 1]
      BY <1>1, <2>1, HeadTailProperties, EmptySeq, LenProperties
    <2>3. timeouts = 0 /\ channels' # 0 => updateAt' <= heardAt' + MaxGap
      <3>1. CASE Accept(Head(rcSocket))
        BY <2>1, <2>2, <3>1 DEF Accept, SocketRecent
      <3>2. CASE Reject(Head(rcSocket))
        BY <3>2 DEF Reject, SocketRecent
      <3> QED
        BY <1>4, <3>1, <3>2 DEF RecvRc
    <2> QED
      BY <2>1, <2>2, <2>3 DEF SocketRecent
  <1>5. CASE RecvDone
    <2>1. DOMAIN rcSocket' = {} /\ UNCHANGED <<channels, updateAt, heardAt, timeouts>>
      BY <1>5 DEF RecvDone
    <2> QED
      BY <2>1 DEF SocketRecent
  <1>6. CASE Pause \/ Overrun
    <2>1. timeouts = 0 => pc = "pause"
      BY <1>1, <1>6 DEF Overrun, SlotNear, Pause
    <2>2. PICK gap \in Nat : NextPass(gap) /\ (pc = "pause" => gap <= MaxGap)
      BY <1>6 DEF Pause, Overrun
    <2>3. /\ now' = now + gap /\ pc' = "drain"
          /\ UNCHANGED <<rcSocket, channels, updateAt, heardAt, timeouts>>
      BY <2>2 DEF NextPass
    <2> QED
      BY <1>1, <2>1, <2>2, <2>3 DEF SocketRecent
  <1>7. CASE UNCHANGED vars \/ QueueControl \/ ReadSerial \/ SlotNotDue \/ SlotDue \/ Stop
    <2>1. /\ UNCHANGED <<now, rcSocket, channels, updateAt, heardAt, timeouts>>
          /\ pc' \in {pc, "stopped"} \/ (pc \notin {"drain", "stopped"} /\ pc' # "drain")
      BY <1>7 DEF vars, QueueControl, ReadSerial, SlotNotDue, SlotDue, Stop
    <2> QED
      BY <1>2, <2>1
  <1>8. CASE CollectControl \/ NothingToWrite \/ WriteOk \/ WriteTimesOut \/ WriteFails
    BY <1>1, <1>2, <1>8 DEF CollectControl, NothingToWrite, WriteOk, WriteTimesOut,
                            WriteFails, WriteEnds
  <1> QED
    BY <1>3, <1>4, <1>5, <1>6, <1>7, <1>8 DEF Next

\* The age of the frame in the burst is fixed when its slot comes.
LEMMA AgeStep ==
  TypeOK /\ BurstShape /\ SlotNear /\ FreshNear /\ SocketRecent /\ AgeBoundedWhenHealthy
    /\ [Next]_vars => AgeBoundedWhenHealthy'
  <1> SUFFICES ASSUME TypeOK, BurstShape, SlotNear, FreshNear, SocketRecent,
                      AgeBoundedWhenHealthy, [Next]_vars
               PROVE  AgeBoundedWhenHealthy'
    OBVIOUS
  <1> USE TimeAssumption DEF loopVars, wireVars
  <1>1. /\ now \in Nat /\ timeouts \in Nat /\ heardAt \in Nat /\ updateAt \in Nat
        /\ freshSince \in Nat /\ hold \in Nat /\ NextDue(Period, slot) \in Nat
        /\ burst \in Seq(Frame) /\ outbound \in Seq(Frame)
    BY DEF TypeOK, NextDue
  <1>2. CASE burst' = <<>>
    BY <1>2 DEF AgeBoundedWhenHealthy, HasRc
  <1>3. CASE UNCHANGED <<hold, now, heardAt, burst, timeouts>>
    BY <1>3 DEF AgeBoundedWhenHealthy, HasRc
  <1>4. CASE RecvRc \/ Pause \/ Overrun
    <2>1. burst = <<>> /\ burst' = burst
      BY <1>4 DEF RecvRc, Pause, Overrun, NextPass, BurstShape
    <2> QED
      BY <1>2, <2>1
  <1>5. CASE SlotDue
    <2>1. /\ pc = "slot" /\ UNCHANGED <<hold, now, heardAt, timeouts>>
          /\ HasRc(burst') => Live \/ Held
      BY <1>5 DEF SlotDue, HasRc
    <2>2. timeouts = 0 /\ channels # 0 => updateAt <= heardAt + MaxGap
      BY DEF SocketRecent
    <2>3. timeouts = 0 /\ Held => now - heardAt < hold + MaxGap
      BY <1>1, <2>2 DEF Held
    <2>4. ASSUME timeouts = 0, Live
          PROVE  now - heardAt < Period + 2 * MaxGap
      <3>1. now < NextDue(Period, slot) + MaxGap
        BY <1>1, <2>4 DEF SlotNear, LongestPass
      <3>2. NextDue(Period, slot) <= freshSince + Period /\ freshSince <= updateAt
        BY <2>1, <2>4 DEF Live, FreshNear, Checking
      <3>3. updateAt <= heardAt + MaxGap
        BY <2>2, <2>4 DEF Live
      <3> QED
        BY <1>1, <3>1, <3>2, <3>3
    <2> QED
      BY <2>1, <2>3, <2>4 DEF AgeBoundedWhenHealthy
  <1>6. CASE CollectControl
    <2>1. UNCHANGED <<hold, now, heardAt, timeouts>> /\ burst' = burst \o outbound
      BY <1>6 DEF CollectControl
    <2>2. HasRc(burst') <=> HasRc(burst)
      BY <1>1, <2>1, ControlsOfLonger DEF BurstShape
    <2> QED
      BY <2>1, <2>2 DEF AgeBoundedWhenHealthy
  <1> QED
    BY <1>2, <1>3, <1>4, <1>5, <1>6
       DEF Next, vars, Arrive, QueueControl, RecvDone, ReadSerial, SlotNotDue,
           NothingToWrite, WriteOk, WriteTimesOut, WriteFails, WriteEnds, Stop

----------------------------------------------------------------------------
(* The theorems. *)

LEMMA InitIInv == Init => IInv
  <1> SUFFICES ASSUME Init
               PROVE  IInv
    OBVIOUS
  <1>1. TypeOK
    BY TimeAssumption, EmptySeq DEF Init, TypeOK
  <1>2. ControlLine = <<>>
    BY ConcatEmptySeq DEF Init, ControlLine, ControlsOf, HasRc
  <1>3. SocketOrdered /\ BurstShape /\ CountsOrdered /\ SentMeansWritten
    BY DEF Init, SocketOrdered, BurstShape, CountsOrdered, SentMeansWritten, HasRc
  <1>4. CallsCounted /\ ControlOrdered /\ ControlConserved
    BY <1>2 DEF Init, CallsCounted, ControlOrdered, ControlConserved
  <1>5. NextDue(Period, slot) = 0
    BY TimeAssumption DEF Init, NextDue
  <1>6. SlotNear
    BY <1>5, TimeAssumption DEF Init, SlotNear, LongestPass, Checked
  <1>7. FreshNear /\ FreshUnsent
    BY <1>5, TimeAssumption
       DEF Init, FreshNear, FreshUnsent, ForwardedOnceWhenHealthy, Fresh, HasRc
  <1>8. SocketRecent /\ AgeBoundedWhenHealthy
    BY DEF Init, SocketRecent, AgeBoundedWhenHealthy, HasRc
  <1> QED
    BY <1>1, <1>3, <1>4, <1>6, <1>7, <1>8 DEF IInv

LEMMA NextIInv == IInv /\ [Next]_vars => IInv'
  BY TypeStep, SocketStep, BurstStep, SentStep, ControlStep, ConservedStep, SlotStep,
     FreshStep, UnsentStep, RecentStep, AgeStep DEF IInv

LEMMA Invariance == Spec => []IInv
  BY InitIInv, NextIInv, PTL DEF Spec

\* Every variable of run_proxy's loop keeps its type (lib/elrs_backend.py:514).
THEOREM TypeCorrect == Spec => []TypeOK
  BY Invariance, PTL DEF IInv

\* However writes end, a sample that counts as sent is the one on the wire
\* (lib/elrs_backend.py:683): no sample is skipped because of a write that failed.
THEOREM SentIsWritten == Spec => []SentMeansWritten
  BY Invariance, PTL DEF IInv

\* Control frames reach the wire in the order in which the configuration thread
\* queued them, none twice, whatever bursts time out (lib/elrs_backend.py:673).
THEOREM ControlInOrder == Spec => []ControlOrdered
  BY Invariance, PTL DEF IInv

\* While no write times out and none fails, every control frame that the
\* configuration thread queued is in the queue, in the burst or on the wire
\* (lib/elrs_backend.py:673).
THEOREM ControlKept == Spec => []ControlConserved
  BY Invariance, PTL DEF IInv

\* With the hold disabled a sample is forwarded once, however datagrams and
\* passes interleave, as long as no write times out (README.md:118).
THEOREM ForwardedOnce == Spec => []ForwardedOnceWhenHealthy
  <1>1. IInv => ForwardedOnceWhenHealthy
    BY DEF IInv, FreshUnsent, ForwardedOnceWhenHealthy
  <1> QED
    BY <1>1, Invariance, PTL

\* No burst carries a sample that is older than the hold, or the wait for a
\* slot, and two passes (lib/elrs_backend.py:653).
THEOREM AgeBounded == Spec => []AgeBoundedWhenHealthy
  BY Invariance, PTL DEF IInv

\* A fresh sample waits for a period and a pass at most (lib/elrs_backend.py:637).
THEOREM FreshInTime == Spec => []SentInTime
  <1>1. IInv => SentInTime
    <2> SUFFICES ASSUME IInv, timeouts = 0, pc # "stopped", Fresh
                 PROVE  now - freshSince < Period + MaxGap
      BY DEF SentInTime
    <2> USE TimeAssumption
    <2>1. /\ now \in Nat /\ freshSince \in Nat /\ NextDue(Period, slot) \in Nat
          /\ pc \in Checking \cup {"pause", "collect", "write"}
      BY DEF IInv, TypeOK, NextDue, Checking, SlotNear
    <2>2. CASE pc \in {"collect", "write"}
      BY <2>2 DEF IInv, FreshNear
    <2>3. CASE pc \in Checking \cup {"pause"}
      <3>1. NextDue(Period, slot) <= freshSince + Period
        BY <2>3 DEF IInv, FreshNear
      <3>2. now < NextDue(Period, slot) + MaxGap
        BY <2>1 DEF IInv, SlotNear, LongestPass
      <3> QED
        BY <2>1, <3>1, <3>2
    <2> QED
      BY <2>1, <2>2, <2>3
  <1> QED
    BY <1>1, Invariance, PTL

\* Neither RC traffic nor timeouts delay a status poll by more than a period
\* and the longest pass (lib/elrs_backend.py:642).
THEOREM StatusInTime == Spec => []StatusOnTime
  <1>1. IInv => StatusOnTime
    <2> SUFFICES ASSUME IInv, StatusPoll
                 PROVE  now - nextStatus < Period + LongestPass
      BY DEF StatusOnTime
    <2>1. /\ now \in Nat /\ nextStatus \in Nat /\ NextDue(Period, slot) \in Nat
          /\ LongestPass \in Nat /\ Period \in Nat
      BY TimeAssumption DEF IInv, TypeOK, NextDue, LongestPass
    <2>2. /\ now < NextDue(Period, slot) + LongestPass
          /\ NextDue(Period, slot) <= nextStatus + Period
      BY DEF IInv, SlotNear
    <2> QED
      BY <2>1, <2>2
  <1> QED
    BY <1>1, Invariance, PTL

\* run_proxy implements the register of LatestValue: the wire sees a subsequence
\* of the samples accepted, each the newest one at its time.
THEOREM RegisterImplemented == Spec => ImplementsRegister
  <1>1. Init => Register!Init
    BY DEF Init, Register!Init
  <1>2. IInv /\ [Next]_vars => [Register!Next]_<<channels, wireRc>>
    BY RegisterStep DEF IInv
  <1> QED
    BY <1>1, <1>2, Invariance, PTL DEF Spec, ImplementsRegister, Register!Spec
=============================================================================
