---------------------------- MODULE SerialInput ----------------------------
(***************************************************************************)
(* The receiving side of run_proxy (lib/elrs_backend.py): what the device  *)
(* writes is read in chunks, eight bytes of junk are taken off a chunk     *)
(* that starts with "$X", FrameParser makes frames of the rest, and every  *)
(* frame goes to the configuration transport, to the telemetry target and  *)
(* through handleCrsfPacket.                                               *)
(***************************************************************************)
EXTENDS Integers, Sequences

CONSTANTS
  Byte, Addresses, Crc(_), MaxFrame,   \* of FrameParser
  DeviceFrames,  \* the frames that the device sends
  Junk,      \* what it puts in front of one: junk, or nothing
  Mark,          \* "$X"
  JunkSize,      \* the bytes taken off behind the mark, the mark included
  Network,       \* what sendto does: "sent", "blocked" or "failed"
  MaxFrames      \* bound of the model: frames of the device

ASSUME MarkAssumption == Mark \in Seq(Byte) /\ Len(Mark) <= JunkSize
ASSUME NetworkAssumption == Network \subseteq {"sent", "blocked", "failed"}

VARIABLES
  wire,     \* bytes on their way, each with the number of its frame, 0 for junk
  buffer, discarded, crcErrors, stream, frames,   \* the FrameParser
  handled,  \* frames of the parser that the loop is through with
  inbound,  \* transport.inbound, which nobody polls here
  status,   \* transport.status: the payload of a status frame
  rate,     \* transport.radio_rate_hz: the four bytes of its interval
  alive,    \* run_proxy has not ended with an exception
  \* History, read by the properties alone.
  written,  \* the frames of the device
  sent,     \* the telemetry datagrams
  blocked,  \* whether a datagram was given up
  cut       \* whether bytes of a frame were taken for junk

parser == <<buffer, discarded, crcErrors, stream, frames>>
transport == <<inbound, status, rate>>
loop == <<handled, transport, alive, sent, blocked>>
vars == <<wire, parser, loop, written, cut>>

Parser == INSTANCE FrameParser WITH MaxChunk <- 0, MaxStream <- 0

Init ==
  /\ Parser!Init
  /\ wire = <<>>
  /\ handled = 0
  /\ inbound = <<>> /\ status = <<>> /\ rate = <<>>
  /\ alive = TRUE
  /\ written = <<>> /\ sent = <<>>
  /\ blocked = FALSE /\ cut = FALSE

----------------------------------------------------------------------------
\* The device sends a frame, perhaps behind junk.
DeviceSends ==
  /\ Len(written) < MaxFrames
  /\ \E prefix \in Junk, f \in DeviceFrames :
       /\ wire' = wire \o [i \in DOMAIN prefix |-> [byte |-> prefix[i], of |-> 0]]
                       \o [i \in DOMAIN f |-> [byte |-> f[i], of |-> Len(written) + 1]]
       /\ written' = Append(written, f)
  /\ UNCHANGED <<parser, loop, cut>>

StartsWithMark(chunk) ==
  Len(chunk) >= Len(Mark) /\ SubSeq(chunk, 1, Len(Mark)) = Mark

\* Defect: one byte more than the junk.
StripTooMuch(chunk) ==
  IF StartsWithMark(chunk) THEN SubSeq(chunk, JunkSize + 2, Len(chunk)) ELSE chunk

\* chunk[8:] of a chunk that starts with the mark.
Strip(chunk) ==
  IF StartsWithMark(chunk) THEN SubSeq(chunk, JunkSize + 1, Len(chunk)) ELSE chunk

\* A pass of the loop reads what has arrived, cut anywhere.
ReadChunk ==
  /\ alive
  /\ Parser!Waiting /\ handled = Len(frames)
  /\ \E n \in 1..Len(wire) :
       LET chunk == [i \in 1..n |-> wire[i].byte]
       IN /\ Parser!FeedChunk(Strip(chunk))
          /\ cut' = \/ cut
                    \/ /\ StartsWithMark(chunk)
                       /\ \E i \in 1..n : i <= JunkSize /\ wire[i].of # 0
          /\ wire' = SubSeq(wire, n + 1, Len(wire))
  /\ UNCHANGED <<loop, written>>

\* ser.read raises OSError, which ends the loop.
ReadFails ==
  /\ alive
  /\ Parser!Waiting /\ handled = Len(frames)
  /\ alive' = FALSE
  /\ UNCHANGED <<wire, parser, handled, transport, written, sent, blocked, cut>>

\* feed at work on the chunk.
ParserStep ==
  /\ Parser!DropNoStart \/ Parser!DropBadFrame \/ Parser!Emit
  /\ UNCHANGED <<wire, loop, written, cut>>

----------------------------------------------------------------------------
(* Frame by frame, when feed has returned. *)

Type(f) == f[3]
Payload(f) == SubSeq(f, 4, Len(f) - 1)
LinkStatistics == 20
BatterySensor == 8
Gps == 2
DeviceInfo == 41
ParameterEntry == 43
ParameterWrite == 45
ElrsStatus == 46
RadioId == 58
ExtendedTypeMin == 40
Transmitter == 238

\* frame.origin raises IndexError.
TooShortToObserve(f) == Type(f) >= ExtendedTypeMin /\ Len(Payload(f)) < 2

\* handleCrsfPacket raises IndexError.
TooShortToHandle(f) ==
  \/ Type(f) = LinkStatistics /\ Len(f) < 13
  \/ Type(f) = BatterySensor /\ Len(f) < 11
  \/ Type(f) = Gps /\ Len(f) < 18

\* Answers that the configuration thread waits for.
Wanted(f) ==
  /\ Type(f) \in {DeviceInfo, ParameterEntry, ParameterWrite, ElrsStatus}
  /\ Payload(f)[2] = Transmitter

Status(f) == Type(f) = ElrsStatus /\ Len(Payload(f)) >= 6

\* RADIO_ID with the interval of the radio's packets, if it is positive.
Timing(f) ==
  /\ Type(f) = RadioId /\ Len(Payload(f)) >= 11 /\ Payload(f)[3] = 16
  /\ Payload(f)[4] < 128 /\ \E i \in 4..7 : Payload(f)[i] # 0

Observe(f) ==
  /\ inbound' = IF Wanted(f) THEN Append(inbound, f) ELSE inbound
  /\ status' = IF Status(f) THEN Payload(f) ELSE status
  /\ rate' = IF Timing(f) THEN SubSeq(Payload(f), 4, 7) ELSE rate

\* Defect: the newest frame of the chunk comes first.
NewestFrame(f) == f = frames[Len(frames)].raw

\* for frame in frames
NextFrame(f) == f = frames[handled + 1].raw

Handling(f) == alive /\ Parser!Waiting /\ handled < Len(frames) /\ NextFrame(f)
Pending == {frames[i].raw : i \in (handled + 1)..Len(frames)}

ObserveFails ==
  /\ \E f \in Pending : Handling(f) /\ TooShortToObserve(f)
  /\ alive' = FALSE
  /\ UNCHANGED <<wire, parser, handled, transport, written, sent, blocked, cut>>

\* A datagram per frame; then handleCrsfPacket, which may end the loop.
Forward ==
  /\ "sent" \in Network
  /\ \E f \in Pending :
       /\ Handling(f) /\ ~TooShortToObserve(f)
       /\ Observe(f)
       /\ sent' = Append(sent, f)
       /\ alive' = ~TooShortToHandle(f)
  /\ handled' = handled + 1
  /\ UNCHANGED <<wire, parser, written, blocked, cut>>

\* Defect: a blocked datagram skips the rest of the loop body, observe included.
ForwardBlockedFirst ==
  /\ "blocked" \in Network
  /\ \E f \in Pending : Handling(f) /\ ~TooShortToObserve(f)
  /\ handled' = handled + 1
  /\ blocked' = TRUE
  /\ UNCHANGED <<wire, parser, transport, alive, written, sent, cut>>

\* BlockingIOError: the datagram is given up.
ForwardBlocked ==
  /\ "blocked" \in Network
  /\ \E f \in Pending :
       /\ Handling(f) /\ ~TooShortToObserve(f)
       /\ Observe(f)
       /\ alive' = ~TooShortToHandle(f)
  /\ handled' = handled + 1
  /\ blocked' = TRUE
  /\ UNCHANGED <<wire, parser, written, sent, cut>>

\* Any other error of the socket ends the loop.
ForwardFails ==
  /\ "failed" \in Network
  /\ \E f \in Pending : Handling(f) /\ ~TooShortToObserve(f) /\ Observe(f)
  /\ alive' = FALSE
  /\ UNCHANGED <<wire, parser, handled, written, sent, blocked, cut>>

Next ==
  \/ DeviceSends \/ ReadChunk \/ ReadFails \/ ParserStep
  \/ ObserveFails \/ Forward \/ ForwardBlocked \/ ForwardFails

Spec == Init /\ [][Next]_vars

----------------------------------------------------------------------------
\* Everything the device wrote has been through the loop.
Settled == alive /\ wire = <<>> /\ buffer = <<>> /\ handled = Len(frames)

IncreasingMaps(m, n) ==
  {g \in [1..m -> 1..n] : \A i, j \in 1..m : i < j => g[i] < g[j]}

\* README.md:172 "forwards each valid inbound CRSF frame unchanged, one frame per
\* datagram": the datagrams are frames of the device in its order, none doubled
\* and none made of the pieces of others, whatever junk was taken off.
SentAreWritten ==
  \E g \in IncreasingMaps(Len(sent), Len(written)) :
    \A i \in DOMAIN sent : sent[i] = written[g[i]]

\* As long as the junk was at the start of its chunk or of no chunk at all, it
\* costs no frame: every one is forwarded, or was given up by the socket.
JunkCostsNoFrame == Settled /\ ~cut /\ ~blocked => sent = written

\* Answers for the configuration thread do not depend on the telemetry target:
\* all arrive in order, and the status shown is the last one, while the socket
\* takes nothing.
AnswersArrive ==
  Settled /\ ~cut =>
    /\ inbound = SelectSeq(written, Wanted)
    /\ LET statuses == SelectSeq(written, Status)
       IN status = IF statuses = <<>> THEN <<>> ELSE Payload(statuses[Len(statuses)])

=============================================================================
