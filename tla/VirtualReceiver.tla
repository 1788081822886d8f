-------------------------- MODULE VirtualReceiver --------------------------
(***************************************************************************)
(* crsf_rx_sim.py: a loop between a UDP source of RC samples, a UDP socket  *)
(* for control requests and a TCP connection to the flight controller.  A  *)
(* pass drains both sockets, connects if it must, reads telemetry, and     *)
(* sends an RC and a link frame when their schedules are due.  A sample is *)
(* known by the tick at which it reached the socket.                       *)
(***************************************************************************)
EXTENDS Schedule, Sequences

CONSTANTS
  RcPeriod, LinkPeriod,  \* 1 / rc_rate, 1 / link_rate, in ticks
  SourceTimeout,   \* source_timeout_s, in ticks; 0 disables it
  TimeoutAction,   \* source_timeout_action
  LossPolicies,    \* the values of rf_loss_policy
  ReconnectDelay,  \* reconnect_delay, in ticks
  OpenTime,        \* the longest time that open takes, timeout_s for each address of the name
  MaxGap,          \* the longest time that the rest of a pass takes
  MaxTime,         \* bound of the model on the clock
  MaxWaiting,      \* bound of the model: datagrams that wait in a socket
  MaxControls      \* bound of the model: control requests

ASSUME PeriodAssumption == RcPeriod \in Nat \ {0} /\ LinkPeriod \in Nat \ {0}
ASSUME TimeAssumption ==
  SourceTimeout \in Nat /\ ReconnectDelay \in Nat /\ OpenTime \in Nat
    /\ MaxGap \in Nat /\ MaxTime \in Nat
ASSUME PolicyAssumption ==
  TimeoutAction \in {"hold", "failsafe", "stop"} /\ LossPolicies \subseteq {"stop", "failsafe"}

VARIABLES
  now,          \* time.monotonic()
  start,        \* loop_started_at of this pass
  pc,           \* what the pass does next
  rcSocket,     \* datagrams that wait: a time of arrival, or "bad"
  controls,     \* control requests that wait
  channels,     \* state.channels_us: the sample's arrival, -1 for the default
  lastInput,    \* state.last_rc_input_at, -1 for None
  rfLink,       \* state.rf_link
  policy,       \* state.rf_loss_policy
  linkValid,    \* state.link holds values that validate accepts
  connected,    \* connection is not None
  lastAttempt,  \* last_connect_attempt
  partial,      \* whose bytes wait in the parser: "none", "this" connection's, "earlier"
  rcSlot, linkSlot,   \* rc_schedule.slot, link_schedule.slot
  \* History, read by the properties and the bounds alone.
  asked,        \* control requests so far
  mixed,        \* whether a frame was made of bytes of two connections
  lastRc,       \* start of the pass that sent the last RC frame, -1 for none
  formerRc,     \* the same of the RC frame before it
  sentAge       \* age of the sample that this pass has sent, -1 for none

vars == <<now, start, pc, rcSocket, controls, channels, lastInput, rfLink, policy,
          linkValid, connected, lastAttempt, partial, rcSlot, linkSlot, asked, mixed,
          lastRc, formerRc, sentAge>>
clock == <<now, start>>
sockets == <<rcSocket, controls, asked>>
receiver == <<channels, lastInput, rfLink, policy, linkValid>>
tcp == <<connected, lastAttempt, partial, mixed>>
output == <<rcSlot, linkSlot, lastRc, formerRc, sentAge>>

Init ==
  /\ now = 0 /\ start = 0 /\ pc = "rc"
  /\ rcSocket = <<>> /\ controls = <<>> /\ asked = 0
  /\ channels = -1 /\ lastInput = -1
  /\ rfLink = TRUE /\ policy \in LossPolicies /\ linkValid = TRUE
  /\ connected = FALSE /\ lastAttempt = -ReconnectDelay /\ partial = "none"
  /\ mixed = FALSE
  /\ rcSlot = 0 /\ linkSlot = 0 /\ lastRc = -1 /\ formerRc = -1 /\ sentAge = -1

----------------------------------------------------------------------------
(* The source and the controlling program. *)

Arrive ==
  /\ Len(rcSocket) < MaxWaiting
  /\ rcSocket' \in {Append(rcSocket, now), Append(rcSocket, -1)}
  /\ UNCHANGED <<clock, pc, controls, asked, receiver, tcp, output>>

\* "status" stands for every request that changes nothing.
Actions == {"status", "drop_rf", "restore_rf", "set_channels", "set_link", "half_refused",
            "crash"}

ArriveControl ==
  /\ asked < MaxControls
  /\ asked' = asked + 1
  /\ \E action \in Actions : controls' = Append(controls, [action |-> action, at |-> now])
  /\ UNCHANGED <<clock, pc, rcSocket, receiver, tcp, output>>

----------------------------------------------------------------------------
(* The sockets. *)

Rejected(d) == d < 0

\* Sample i is good, and no good one has come after it.
Newest(i) == ~Rejected(rcSocket[i]) /\ \A j \in DOMAIN rcSocket : j > i => Rejected(rcSocket[j])

\* Defect: a datagram that is rejected counts as input as well.
ReceiveRcAny ==
  /\ pc = "rc"
  /\ rcSocket' = <<>>
  /\ \/ /\ \A i \in DOMAIN rcSocket : Rejected(rcSocket[i])
        /\ lastInput' = IF rcSocket = <<>> THEN lastInput ELSE start
        /\ UNCHANGED channels
     \/ \E i \in DOMAIN rcSocket : Newest(i) /\ channels' = rcSocket[i] /\ lastInput' = start
  /\ pc' = "control"
  /\ UNCHANGED <<clock, controls, asked, rfLink, policy, linkValid, tcp, output>>

\* receive_rc_packets: the socket is drained, the newest good sample stays.
ReceiveRc ==
  /\ pc = "rc"
  /\ rcSocket' = <<>>
  /\ \/ (\A i \in DOMAIN rcSocket : Rejected(rcSocket[i])) /\ UNCHANGED <<channels, lastInput>>
     \/ \E i \in DOMAIN rcSocket : Newest(i) /\ channels' = rcSocket[i] /\ lastInput' = start
  /\ pc' = "control"
  /\ UNCHANGED <<clock, controls, asked, rfLink, policy, linkValid, tcp, output>>

\* apply_control_request.  set_link writes every field before it validates
\* them, so that a request it refuses may leave a value that is out of range.
Apply(request) ==
  /\ rfLink' = CASE request.action = "drop_rf"    -> FALSE
                 [] request.action = "restore_rf" -> TRUE
                 [] OTHER                         -> rfLink
  /\ IF request.action = "set_channels"
     THEN channels' = request.at /\ lastInput' = start
     ELSE UNCHANGED <<channels, lastInput>>
  /\ linkValid' = CASE request.action = "set_link"     -> TRUE
                    [] request.action = "half_refused" -> FALSE
                    [] OTHER                           -> linkValid

\* An exception that is not caught (int of an infinity, sendto) ends the program.
ReceiveControl ==
  /\ pc = "control"
  /\ controls # <<>>
  /\ controls' = Tail(controls)
  /\ Apply(Head(controls))
  /\ pc' = IF Head(controls).action = "crash" THEN "dead" ELSE "control"
  /\ UNCHANGED <<clock, rcSocket, asked, policy, tcp, output>>

ControlDone ==
  /\ pc = "control"
  /\ controls = <<>>
  /\ pc' = IF connected THEN "read"
           ELSE IF start - lastAttempt >= ReconnectDelay THEN "open" ELSE "pause"
  /\ UNCHANGED <<clock, sockets, receiver, tcp, output>>

----------------------------------------------------------------------------
(* The connection. *)

\* Defect: the parser of the old connection goes on.
OpenKeepsParser ==
  /\ pc = "open"
  /\ lastAttempt' = start
  /\ \E t \in 0..OpenTime : now' = now + t
  /\ connected' = TRUE /\ UNCHANGED partial
  /\ pc' = "read"
  /\ UNCHANGED <<start, sockets, receiver, mixed, output>>

\* endpoint.open succeeds: a new parser.
Open ==
  /\ pc = "open"
  /\ lastAttempt' = start
  /\ \E t \in 0..OpenTime : now' = now + t
  /\ connected' = TRUE /\ partial' = "none"
  /\ pc' = "read"
  /\ UNCHANGED <<start, sockets, receiver, mixed, output>>

\* It times out or is refused.
OpenFails ==
  /\ pc = "open"
  /\ lastAttempt' = start
  /\ \E t \in 0..OpenTime : now' = now + t
  /\ pc' = "pause"
  /\ UNCHANGED <<start, sockets, receiver, connected, partial, mixed, output>>

\* except: the rest of the pass is skipped, the delay starts with the pass.
Disconnect(left) ==
  /\ connected' = FALSE
  /\ partial' = IF left = "none" THEN "none" ELSE "earlier"
  /\ lastAttempt' = start
  /\ pc' = "pause"

\* read_connection: no bytes, the first ones of a frame, or the last ones of a
\* frame and perhaps the first ones of the next.
Read ==
  /\ pc = "read"
  /\ \/ UNCHANGED <<partial, mixed>>
     \/ partial = "none" /\ partial' = "this" /\ UNCHANGED mixed
     \/ partial' \in {"none", "this"} /\ mixed' = (mixed \/ partial = "earlier")
  /\ pc' = "sendRc"
  /\ UNCHANGED <<clock, sockets, receiver, connected, lastAttempt, output>>

\* The peer has closed it; an error of the telemetry socket or of the capture
\* file, which frames have completed, is taken for the same.
ReadFails ==
  /\ pc = "read"
  /\ mixed' \in {mixed, mixed \/ partial = "earlier"}
  /\ \E left \in {"none", "this"} : Disconnect(left)
  /\ UNCHANGED <<clock, sockets, receiver, output>>

----------------------------------------------------------------------------
(* The two schedules, read at the start of the pass. *)

TimedOut == lastInput >= 0 /\ SourceTimeout > 0 /\ start - lastInput >= SourceTimeout

\* output_channels
Output ==
  IF ~rfLink THEN (IF policy = "stop" THEN "none" ELSE "failsafe")
  ELSE IF ~TimedOut \/ TimeoutAction = "hold" THEN "channels"
  ELSE IF TimeoutAction = "failsafe" THEN "failsafe" ELSE "none"

RcDue == start >= NextDue(RcPeriod, rcSlot)
LinkDue == start >= NextDue(LinkPeriod, linkSlot)

\* No RC frame in this pass; a slot that outputs nothing is used up.
RcSkipped ==
  /\ pc = "sendRc"
  /\ \/ ~RcDue /\ UNCHANGED rcSlot
     \/ RcDue /\ Output = "none" /\ rcSlot' \in SlotsAfter(RcPeriod, start, rcSlot)
  /\ pc' = "sendLink"
  /\ UNCHANGED <<clock, sockets, receiver, tcp, linkSlot, lastRc, formerRc, sentAge>>

SendRc ==
  /\ pc = "sendRc"
  /\ RcDue /\ Output # "none"
  /\ rcSlot' \in SlotsAfter(RcPeriod, start, rcSlot)
  /\ lastRc' = start /\ formerRc' = lastRc
  /\ sentAge' = IF Output = "channels" /\ channels >= 0 THEN now - channels ELSE -1
  /\ pc' = "sendLink"
  /\ UNCHANGED <<clock, sockets, receiver, tcp, linkSlot>>

\* sendall fails; the slot is used up.
SendRcFails ==
  /\ pc = "sendRc"
  /\ RcDue /\ Output # "none"
  /\ rcSlot' \in SlotsAfter(RcPeriod, start, rcSlot)
  /\ Disconnect(partial)
  /\ UNCHANGED <<clock, sockets, receiver, mixed, linkSlot, lastRc, formerRc, sentAge>>

LinkSkipped ==
  /\ pc = "sendLink"
  /\ ~LinkDue
  /\ pc' = "pause"
  /\ UNCHANGED <<clock, sockets, receiver, tcp, output>>

\* link.frame validates: a value out of range ends the program.
SendLink ==
  /\ pc = "sendLink"
  /\ LinkDue
  /\ linkSlot' \in SlotsAfter(LinkPeriod, start, linkSlot)
  /\ pc' = IF linkValid THEN "pause" ELSE "dead"
  /\ UNCHANGED <<clock, sockets, receiver, tcp, rcSlot, lastRc, formerRc, sentAge>>

SendLinkFails ==
  /\ pc = "sendLink"
  /\ LinkDue /\ linkValid
  /\ linkSlot' \in SlotsAfter(LinkPeriod, start, linkSlot)
  /\ Disconnect(partial)
  /\ UNCHANGED <<clock, sockets, receiver, mixed, rcSlot, lastRc, formerRc, sentAge>>

\* The rest of the pass and its sleep.
Pause ==
  /\ pc = "pause"
  /\ \E gap \in 1..MaxGap :
       /\ now + gap <= MaxTime
       /\ now' = now + gap /\ start' = now + gap
  /\ pc' = "rc"
  /\ sentAge' = -1
  /\ UNCHANGED <<sockets, receiver, tcp, rcSlot, linkSlot, lastRc, formerRc>>

Next ==
  \/ Arrive \/ ArriveControl
  \/ ReceiveRc \/ ReceiveControl \/ ControlDone
  \/ Open \/ OpenFails \/ Read \/ ReadFails
  \/ RcSkipped \/ SendRc \/ SendRcFails \/ LinkSkipped \/ SendLink \/ SendLinkFails
  \/ Pause

Spec == Init /\ [][Next]_vars

----------------------------------------------------------------------------
LongestPass == OpenTime + MaxGap

\* SITL_RECEIVER.md:81 "Upstream RC source timeout": unless the action is to
\* hold, no sample goes out that reached the socket longer ago than the timeout
\* and the two passes that receive and send it, whatever datagrams are rejected
\* meanwhile, however long connecting takes and however the link was lost and
\* restored.
SourceLossSeen ==
  SourceTimeout > 0 /\ TimeoutAction # "hold" => sentAge < SourceTimeout + LongestPass + OpenTime

\* SITL_RECEIVER.md:133 "every complete inbound CRSF frame unchanged": no frame
\* is put together from the bytes of two connections, wherever the first one
\* was cut off.
FramesOfOneConnection == ~mixed

\* SITL_RECEIVER.md:149 "at a configurable rate": of any three RC frames, the
\* passes that send the first and the last begin more than a period apart, so
\* that a connection that was lost or slow to open, or a pause of the source, is
\* not followed by a burst that catches up.  (In a pass that connects, the frame
\* goes out as much later as the opening has taken.)
RcRateBounded ==
  [][lastRc' # lastRc /\ formerRc >= 0 => lastRc' - formerRc > RcPeriod]_vars
=============================================================================
