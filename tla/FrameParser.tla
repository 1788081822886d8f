---------------------------- MODULE FrameParser ----------------------------
(***************************************************************************)
(* FrameParser (lib/crsf_protocol.py): CRSF frames out of a byte stream    *)
(* that arrives in chunks of any size, with noise before, between and in   *)
(* the frames.  A frame is an address, the number of bytes that follow, a  *)
(* body and the check byte of the body.  One action is one turn of the     *)
(* loop in feed; the next chunk comes when the loop has ended.             *)
(***************************************************************************)
EXTENDS Integers, Sequences, FiniteSetsExt

CONSTANTS
  Byte,       \* the values of a byte
  Addresses,  \* the first bytes that start a frame
  Crc(_),     \* crc8
  MaxFrame,   \* CRSF_MAX_FRAME_SIZE
  MaxChunk,   \* bound of the model on the bytes of a chunk
  MaxStream   \* bound of the model on the bytes of the stream

ASSUME ByteAssumption == Byte \subseteq Nat /\ Addresses \subseteq Byte
ASSUME SizeAssumption == MaxFrame \in Nat /\ MaxFrame >= 4
ASSUME BoundAssumption == MaxChunk \in Nat /\ MaxStream \in Nat

VARIABLES
  buffer,     \* self.buffer
  discarded,  \* self.bytes_discarded
  crcErrors,  \* self.crc_errors
  stream,     \* history: every byte fed
  frames      \* history: the frames returned, each with its place in the stream

vars == <<buffer, discarded, crcErrors, stream, frames>>

----------------------------------------------------------------------------
MinFrame == 4

\* validate_frame
Valid(raw) ==
  /\ Len(raw) \in MinFrame..MaxFrame
  /\ raw[2] + 2 = Len(raw)
  /\ Crc(SubSeq(raw, 3, Len(raw) - 1)) = raw[Len(raw)]

Total == buffer[2] + 2
StartsFrame == buffer[1] \in Addresses /\ Total \in MinFrame..MaxFrame

\* The loop ends: too short to tell, or the frame is not complete.
Waiting == Len(buffer) >= MinFrame => StartsFrame /\ Len(buffer) < Total

Init ==
  /\ buffer = <<>>
  /\ discarded = 0
  /\ crcErrors = 0
  /\ stream = <<>>
  /\ frames = <<>>

\* feed(data): the chunk joins the buffer.
FeedChunk(chunk) ==
  /\ Waiting
  /\ buffer' = buffer \o chunk
  /\ stream' = stream \o chunk
  /\ UNCHANGED <<discarded, crcErrors, frames>>

Feed ==
  \E n \in 1..MaxChunk : \E chunk \in [1..n -> Byte] :
    Len(stream) + n <= MaxStream /\ FeedChunk(chunk)

DropByte ==
  /\ buffer' = Tail(buffer)
  /\ discarded' = discarded + 1
  /\ UNCHANGED <<stream, frames>>

\* No frame starts with this byte: a foreign address, or an impossible size.
DropNoStart ==
  /\ ~Waiting
  /\ ~StartsFrame
  /\ DropByte
  /\ UNCHANGED crcErrors

\* Defect: a frame that fails its check is discarded whole.
DropWhole ==
  /\ ~Waiting
  /\ StartsFrame
  /\ ~Valid(SubSeq(buffer, 1, Total))
  /\ buffer' = SubSeq(buffer, Total + 1, Len(buffer))
  /\ discarded' = discarded + Total
  /\ crcErrors' = crcErrors + 1
  /\ UNCHANGED <<stream, frames>>

\* The frame fails its check: only its first byte goes, since a frame may start
\* inside it.
DropBadFrame ==
  /\ ~Waiting
  /\ StartsFrame
  /\ ~Valid(SubSeq(buffer, 1, Total))
  /\ DropByte
  /\ crcErrors' = crcErrors + 1

\* Defect: the check byte stays in the buffer.
EmitShort ==
  /\ ~Waiting
  /\ StartsFrame
  /\ Valid(SubSeq(buffer, 1, Total))
  /\ buffer' = SubSeq(buffer, Total, Len(buffer))
  /\ frames' = Append(frames, [at  |-> Len(stream) - Len(buffer),
                               raw |-> SubSeq(buffer, 1, Total)])
  /\ UNCHANGED <<discarded, crcErrors, stream>>

\* A frame is returned.
Emit ==
  /\ ~Waiting
  /\ StartsFrame
  /\ Valid(SubSeq(buffer, 1, Total))
  /\ buffer' = SubSeq(buffer, Total + 1, Len(buffer))
  /\ frames' = Append(frames, [at  |-> Len(stream) - Len(buffer),
                               raw |-> SubSeq(buffer, 1, Total)])
  /\ UNCHANGED <<discarded, crcErrors, stream>>

Next == Feed \/ DropNoStart \/ DropBadFrame \/ Emit

Spec == Init /\ [][Next]_vars

----------------------------------------------------------------------------
TypeOK ==
  /\ buffer \in Seq(Byte)
  /\ stream \in Seq(Byte)
  /\ discarded \in Nat
  /\ crcErrors \in Nat
  /\ frames \in Seq([at : Nat, raw : Seq(Byte)])

\* The bytes of the stream that have left the buffer.
Consumed == Len(stream) - Len(buffer)

\* The n bytes of the stream behind the first p, if it has them, are a frame.
FrameAt(p, n) ==
  /\ p + n <= Len(stream)
  /\ stream[p + 1] \in Addresses
  /\ Valid(SubSeq(stream, p + 1, p + n))

End(f) == f.at + Len(f.raw)

\* README.md:172 "forwards each valid inbound CRSF frame unchanged": the frames
\* returned are pieces of the stream, unchanged, each a valid frame, in the
\* order of the stream and none overlapping another; what is not returned yet
\* is a suffix of the stream.
FramesAreStream ==
  /\ Consumed >= 0
  /\ buffer = SubSeq(stream, Consumed + 1, Len(stream))
  /\ \A i \in DOMAIN frames :
       /\ FrameAt(frames[i].at, Len(frames[i].raw))
       /\ frames[i].raw = SubSeq(stream, frames[i].at + 1, End(frames[i]))
       /\ End(frames[i]) <= IF i < Len(frames) THEN frames[i + 1].at ELSE Consumed

\* Whatever the noise and wherever the chunks were cut, no valid frame is lost:
\* one that starts among the bytes consumed was returned, or starts inside one
\* that was.
NoFrameLost ==
  \A p \in 0..(Consumed - 1), n \in MinFrame..MaxFrame :
    FrameAt(p, n) => \E i \in DOMAIN frames : frames[i].at <= p /\ p < End(frames[i])

=============================================================================
