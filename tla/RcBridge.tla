------------------------------ MODULE RcBridge ------------------------------
(***************************************************************************)
(* The transmit path of run_proxy (lib/elrs_backend.py): the loop that     *)
(* drains the RC socket, reads the serial port, and in each due slot       *)
(* writes one burst, an RC frame and the control frames that the           *)
(* configuration thread queued meanwhile.  One action per step between     *)
(* which the UDP source, the other thread or the serial port can act.      *)
(*                                                                         *)
(* An RC sample is the number of the datagram that brought it; a control   *)
(* frame is the number of the call that queued it, 0 for a status poll.    *)
(* Time is counted in ticks and stands still within a pass: a datagram is  *)
(* stamped with the start of the pass in which it reached the socket.      *)
(***************************************************************************)
EXTENDS Schedule, Sequences

CONSTANTS
  Period,          \* ticks between two slots: 1 / tx_rate
  LoopPeriod,      \* the shortest pass: 1 / loop_hz
  MaxGap,          \* the longest pass in which no write times out
  WriteTimeout,    \* WRITE_TIMEOUT_S
  StatusInterval,  \* CONFIG_STATUS_INTERVAL_S
  StatusPoll,      \* does the radio have a status_poll_frame?
  Holds,           \* the values of rc_hold_ms to consider
  SocketSize,      \* datagrams that the RC socket holds
  MaxTime, MaxArrivals, MaxControl, MaxTimeouts  \* bounds of the model

ASSUME TimeAssumption ==
  /\ Period \in Nat \ {0}
  /\ LoopPeriod \in Nat \ {0}
  /\ MaxGap \in Nat /\ LoopPeriod <= MaxGap
  /\ WriteTimeout \in Nat
  /\ StatusInterval \in Nat
  /\ Holds \subseteq Nat
ASSUME PollAssumption == StatusPoll \in BOOLEAN
ASSUME BoundAssumption ==
  /\ SocketSize \in Nat
  /\ MaxTime \in Nat
  /\ MaxArrivals \in Nat
  /\ MaxControl \in Nat
  /\ MaxTimeouts \in Nat

VARIABLES
  hold,        \* options.rc_hold_ms
  now,         \* loop_start of this pass
  pc,          \* the step that the loop is at
  rcSocket,    \* datagrams waiting in rc_sock
  channels,    \* last_valid_channels_us, 0 for None
  updateAt,    \* last_rc_update_t
  updateSeq,   \* rc_update_seq
  sentSeq,     \* last_sent_rc_seq
  slot,        \* rc_schedule.slot
  nextStatus,  \* next_config_status_t
  outbound,    \* config_transport.outbound
  burst,       \* the frames of the burst being put together and written
  \* History, read by the properties alone.
  arrivals,    \* datagrams that reached the socket
  queued,      \* control frames that the configuration thread queued
  heardAt,     \* arrival of the sample in channels
  freshSince,  \* when the loop first held a sample that it had not sent
  wireRc,      \* the RC sample last seen on the wire
  copies,      \* how many frames have carried it
  wireControl, \* the control frames seen on the wire
  timeouts     \* writes that timed out

loopVars == <<channels, updateAt, updateSeq, sentSeq, slot, nextStatus, burst>>
wireVars == <<wireRc, copies, wireControl>>
vars == <<hold, now, pc, rcSocket, channels, updateAt, updateSeq, sentSeq, slot,
          nextStatus, outbound, burst, arrivals, queued, heardAt, freshSince,
          wireRc, copies, wireControl, timeouts>>

----------------------------------------------------------------------------
Datagram == [n : Nat, valid : BOOLEAN, at : Nat]
Rc(n) == [kind |-> "rc", n |-> n]
Control(n) == [kind |-> "control", n |-> n]
Frame == [kind : {"rc", "control"}, n : Nat]

HasRc(frames) == frames # <<>> /\ frames[1].kind = "rc"
\* An RC frame comes first in its burst.
ControlsOf(frames) == IF HasRc(frames) THEN Tail(frames) ELSE frames
Fresh == updateSeq # sentSeq

Init ==
  /\ hold \in Holds
  /\ now = 0
  /\ pc = "drain"
  /\ rcSocket = <<>>
  /\ channels = 0
  /\ updateAt = 0
  /\ updateSeq = 0
  /\ sentSeq = 0
  /\ slot = 0
  /\ nextStatus = 0
  /\ outbound = <<>>
  /\ burst = <<>>
  /\ arrivals = 0
  /\ queued = 0
  /\ heardAt = 0
  /\ freshSince = 0
  /\ wireRc = 0
  /\ copies = 0
  /\ wireControl = <<>>
  /\ timeouts = 0

----------------------------------------------------------------------------
(* The other actors. *)

\* A datagram reaches the RC socket, well formed or not, as long as the loop
\* keeps it open; a full socket buffer drops it.
Arrive ==
  /\ pc # "stopped"
  /\ arrivals < MaxArrivals
  /\ arrivals' = arrivals + 1
  /\ \E valid \in BOOLEAN :
       rcSocket' = IF Len(rcSocket) < SocketSize
                   THEN Append(rcSocket, [n |-> arrivals', valid |-> valid, at |-> now])
                   ELSE rcSocket
  /\ UNCHANGED <<hold, now, pc, loopVars, outbound, queued, heardAt, freshSince,
                 wireVars, timeouts>>

\* The configuration thread queues a control frame (transport.queue).
QueueControl ==
  /\ queued < MaxControl
  /\ queued' = queued + 1
  /\ outbound' = Append(outbound, Control(queued'))
  /\ UNCHANGED <<hold, now, pc, rcSocket, loopVars, arrivals, heardAt, freshSince,
                 wireVars, timeouts>>

----------------------------------------------------------------------------
(* The loop of run_proxy. *)

\* recvfrom of a well-formed datagram: it replaces the sample held so far.
Accept(d) ==
  /\ d.valid
  /\ channels' = d.n
  /\ updateAt' = now
  /\ updateSeq' = updateSeq + 1
  /\ heardAt' = d.at
  /\ freshSince' = IF Fresh THEN freshSince ELSE now

\* Defect: the time of the update is taken before the packet is decoded.
RejectRefreshes(d) ==
  /\ ~d.valid
  /\ updateAt' = now
  /\ UNCHANGED <<channels, updateSeq, heardAt, freshSince>>

\* Defect: a rejected packet drops the sample held.
RejectForgets(d) ==
  /\ ~d.valid
  /\ channels' = 0
  /\ UNCHANGED <<updateAt, updateSeq, heardAt, freshSince>>

\* RcPacketError: the datagram is dropped and refreshes nothing.
Reject(d) ==
  /\ ~d.valid
  /\ UNCHANGED <<channels, updateAt, updateSeq, heardAt, freshSince>>

RecvRc ==
  /\ pc = "drain"
  /\ rcSocket # <<>>
  /\ Accept(Head(rcSocket)) \/ Reject(Head(rcSocket))
  /\ rcSocket' = Tail(rcSocket)
  /\ UNCHANGED <<hold, now, pc, sentSeq, slot, nextStatus, outbound, burst, arrivals,
                 queued, wireVars, timeouts>>

\* BlockingIOError: nothing is left to receive.
RecvDone ==
  /\ pc = "drain"
  /\ rcSocket = <<>>
  /\ pc' = "serial"
  /\ UNCHANGED <<hold, now, rcSocket, loopVars, outbound, arrivals, queued, heardAt,
                 freshSince, wireVars, timeouts>>

\* ser.read and the handling of the frames it completes change nothing here.
ReadSerial ==
  /\ pc = "serial"
  /\ pc' = "slot"
  /\ UNCHANGED <<hold, now, rcSocket, loopVars, outbound, arrivals, queued, heardAt,
                 freshSince, wireVars, timeouts>>

Live == channels # 0 /\ Fresh
Held == channels # 0 /\ ~Fresh /\ hold > 0 /\ now - updateAt < hold

\* Defect: polls wait for a slot without fresh RC.
StatusDueWhenIdle == StatusPoll /\ now >= nextStatus /\ ~Fresh

StatusDue == StatusPoll /\ now >= nextStatus

SlotNotDue ==
  /\ pc = "slot"
  /\ now < NextDue(Period, slot)
  /\ pc' = "pause"
  /\ UNCHANGED <<hold, now, rcSocket, loopVars, outbound, arrivals, queued, heardAt,
                 freshSince, wireVars, timeouts>>

\* A due slot: queue the status poll if its time has come, and choose between
\* a fresh sample, a held one and no RC frame.
SlotDue ==
  /\ pc = "slot"
  /\ now >= NextDue(Period, slot)
  /\ slot' \in SlotsAfter(Period, now, slot)
  /\ outbound' = IF StatusDue THEN Append(outbound, Control(0)) ELSE outbound
  /\ nextStatus' = IF StatusDue THEN now + StatusInterval ELSE nextStatus
  /\ burst' = IF Live \/ Held THEN <<Rc(channels)>> ELSE <<>>
  /\ pc' = "collect"
  /\ UNCHANGED <<hold, now, rcSocket, channels, updateAt, updateSeq, sentSeq, arrivals,
                 queued, heardAt, freshSince, wireVars, timeouts>>

\* Defect: the queue is read and not emptied.
CollectKeeps ==
  /\ pc = "collect"
  /\ burst' = burst \o outbound
  /\ pc' = "write"
  /\ UNCHANGED <<hold, now, rcSocket, channels, updateAt, updateSeq, sentSeq, slot,
                 nextStatus, outbound, arrivals, queued, heardAt, freshSince, wireVars,
                 timeouts>>

\* Defect: the control frames are drained, and written only beside an RC frame.
CollectDrops ==
  /\ pc = "collect"
  /\ burst' = IF burst = <<>> THEN <<>> ELSE burst \o outbound
  /\ outbound' = <<>>
  /\ pc' = "write"
  /\ UNCHANGED <<hold, now, rcSocket, channels, updateAt, updateSeq, sentSeq, slot,
                 nextStatus, arrivals, queued, heardAt, freshSince, wireVars, timeouts>>

\* drain_outbound: every control frame queued by now joins the burst.
CollectControl ==
  /\ pc = "collect"
  /\ burst' = burst \o outbound
  /\ outbound' = <<>>
  /\ pc' = "write"
  /\ UNCHANGED <<hold, now, rcSocket, channels, updateAt, updateSeq, sentSeq, slot,
                 nextStatus, arrivals, queued, heardAt, freshSince, wireVars, timeouts>>

NothingToWrite ==
  /\ pc = "write"
  /\ burst = <<>>
  /\ pc' = "pause"
  /\ UNCHANGED <<hold, now, rcSocket, loopVars, outbound, arrivals, queued, heardAt,
                 freshSince, wireVars, timeouts>>

\* The first k frames of the burst get onto the wire whole.
Transmit(k) ==
  LET out == SubSeq(burst, 1, k) IN
  /\ wireRc' = IF HasRc(out) THEN out[1].n ELSE wireRc
  /\ copies' = IF ~HasRc(out) THEN copies ELSE IF out[1].n = wireRc THEN copies + 1 ELSE 1
  /\ wireControl' = wireControl \o ControlsOf(out)

\* The part that the ways a write can end have in common.
WriteEnds(k, step) ==
  /\ pc = "write"
  /\ burst # <<>>
  /\ Transmit(k)
  /\ burst' = <<>>
  /\ pc' = step
  /\ UNCHANGED <<hold, now, rcSocket, channels, updateAt, updateSeq, slot, nextStatus,
                 outbound, arrivals, queued, heardAt, freshSince>>

\* Defect: a written sample is not marked as sent.
WriteForgets ==
  /\ WriteEnds(Len(burst), "pause")
  /\ UNCHANGED <<sentSeq, timeouts>>

\* ser.write returns: the sample is sent.
WriteOk ==
  /\ WriteEnds(Len(burst), "pause")
  /\ sentSeq' = IF HasRc(burst) THEN updateSeq ELSE sentSeq
  /\ UNCHANGED timeouts

\* Defect: the sample is marked as sent before the write.
TimeoutMarksSent ==
  /\ timeouts < MaxTimeouts
  /\ \E k \in 0..Len(burst) : WriteEnds(k, "overrun")
  /\ sentSeq' = IF HasRc(burst) THEN updateSeq ELSE sentSeq
  /\ timeouts' = timeouts + 1

\* SerialTimeoutException.  pyserial raises it with any part of the burst
\* handed to the driver, all of it included: it checks the time after each
\* chunk.  The frames are not kept; the sample is not marked as sent.
WriteTimesOut ==
  /\ timeouts < MaxTimeouts
  /\ \E k \in 0..Len(burst) : WriteEnds(k, "overrun")
  /\ timeouts' = timeouts + 1
  /\ UNCHANGED sentSeq

\* Another SerialException of the write leaves the loop.
WriteFails ==
  /\ \E k \in 0..Len(burst) : WriteEnds(k, "stopped")
  /\ UNCHANGED <<sentSeq, timeouts>>

\* The rest of the pass, sleep included, takes gap ticks.
NextPass(gap) ==
  /\ now + gap <= MaxTime
  /\ now' = now + gap
  /\ pc' = "drain"
  /\ UNCHANGED <<hold, rcSocket, loopVars, outbound, arrivals, queued, heardAt,
                 freshSince, wireVars, timeouts>>

\* time.sleep up to the loop period; a slow pass does not sleep.
Pause ==
  /\ pc = "pause"
  /\ \E gap \in LoopPeriod..MaxGap : NextPass(gap)

\* The same after a write that took WRITE_TIMEOUT_S.
Overrun ==
  /\ pc = "overrun"
  /\ \E gap \in LoopPeriod..(MaxGap + WriteTimeout) :
       gap >= WriteTimeout /\ NextPass(gap)

\* KeyboardInterrupt anywhere in the loop, or OSError of ser.read: the loop ends.
Stop ==
  /\ pc # "stopped"
  /\ pc' = "stopped"
  /\ UNCHANGED <<hold, now, rcSocket, loopVars, outbound, arrivals, queued, heardAt,
                 freshSince, wireVars, timeouts>>

Next ==
  \/ Arrive \/ QueueControl
  \/ RecvRc \/ RecvDone \/ ReadSerial
  \/ SlotNotDue \/ SlotDue \/ CollectControl
  \/ NothingToWrite \/ WriteOk \/ WriteTimesOut \/ WriteFails
  \/ Pause \/ Overrun \/ Stop

Spec == Init /\ [][Next]_vars

----------------------------------------------------------------------------
TypeOK ==
  /\ hold \in Holds
  /\ now \in Nat
  /\ pc \in {"drain", "serial", "slot", "collect", "write", "pause", "overrun", "stopped"}
  /\ rcSocket \in Seq(Datagram)
  /\ channels \in Nat /\ updateAt \in Nat /\ updateSeq \in Nat /\ sentSeq \in Nat
  /\ slot \in Nat /\ nextStatus \in Nat
  /\ outbound \in Seq(Frame) /\ burst \in Seq(Frame)
  /\ arrivals \in Nat /\ queued \in Nat /\ heardAt \in Nat /\ freshSince \in Nat
  /\ wireRc \in Nat /\ copies \in Nat /\ wireControl \in Seq(Frame) /\ timeouts \in Nat

\* The longest pass that can have happened so far.
LongestPass == MaxGap + IF timeouts > 0 THEN WriteTimeout ELSE 0

\* README.md:118 "each fresh UDP RC sample is forwarded once" with the hold
\* disabled: for every interleaving of the source, as long as no write times
\* out.  A write that times out after its RC frame left leaves the sample fresh
\* (elrs_backend.py:692), and the next slot forwards it again.
ForwardedOnceWhenHealthy == timeouts = 0 /\ hold = 0 => copies <= 1

\* README.md:126 "Once the hold expires, it stops emitting RC frames": while no
\* write times out the age of a frame, counted from the arrival of its sample
\* at the socket, is bounded by the hold or by the wait for a slot, and a
\* malformed datagram never prolongs it.
AgeBoundedWhenHealthy ==
  timeouts = 0 /\ HasRc(burst) =>
    \/ now - heardAt < hold + MaxGap
    \/ now - heardAt < Period + 2 * MaxGap

\* A sample that the loop accepted waits less than a period and a pass for its
\* slot, whatever else arrives meanwhile: none is starved, and the last one
\* before a silence goes out as well.
SentInTime ==
  timeouts = 0 /\ pc # "stopped" /\ Fresh => now - freshSince < Period + MaxGap

\* The sequence numbers never claim a sample that did not reach the wire
\* (elrs_backend.py:683), however the writes before it ended.
SentMeansWritten == channels # 0 /\ ~Fresh => wireRc = channels

\* The frames of the configuration thread, from the wire back to the queue.
ControlLine == wireControl \o ControlsOf(burst) \o outbound
IsCall(f) == f.n > 0

\* Control frames are neither overtaken nor sent twice, even by bursts that
\* time out: the device sees them in the order of the calls.
ControlOrdered ==
  \A i, j \in DOMAIN ControlLine :
    i < j /\ IsCall(ControlLine[i]) /\ IsCall(ControlLine[j])
      => ControlLine[i].n < ControlLine[j].n

\* While no write times out and none fails, no control frame is lost between
\* the thread that queues it and the wire.
ControlConserved ==
  timeouts = 0 /\ pc # "stopped" =>
    \A call \in 1..queued : \E i \in DOMAIN ControlLine : ControlLine[i].n = call

\* The status poll is not starved by RC traffic, timeouts included: it is
\* queued within a period and a pass of its time (elrs_backend.py:642).
StatusOnTime == StatusPoll => now - nextStatus < Period + LongestPass

\* The RC path is a register of which the wire sees the newest sample only.
Register == INSTANCE LatestValue WITH latest <- channels, delivered <- wireRc
ImplementsRegister == Register!Spec
=============================================================================
