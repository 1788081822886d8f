--------------------------- MODULE MCSerialInput ---------------------------
(***************************************************************************)
(* Frames and junk to model-check SerialInput with: real types, addresses  *)
(* and sizes, and a sum for the check byte.                                *)
(***************************************************************************)
EXTENDS SerialInput, SequencesExt

MCByte == 0..255
MCMark == <<36, 88>>
MCCrc(body) == FoldSeq(+, 7, body) % 256
Framed(body) == <<200, Len(body) + 1>> \o body \o <<MCCrc(body)>>

\* LINK_STATISTICS with the mark among its data; a short one.
Link == Framed(<<20, 36, 88, 99, 9, 1, 4, 3, 60, 100, 8>>)
ShortLink == Framed(<<20, 1, 1>>)
\* A parameter entry of the transmitter, one of the receiver, one without data.
OwnEntry == Framed(<<43, 234, 238, 1, 0>>)
OtherEntry == Framed(<<43, 234, 236, 1, 0>>)
ShortEntry == Framed(<<43, 234>>)
StatusFrame(good) == Framed(<<46, 239, 238, 0, 0, good, 1, 0>>)
TimingFrame == Framed(<<58, 234, 238, 16, 0, 0, 78, 32, 0, 0, 0, 0>>)

MCFrames == {Link, OwnEntry, OtherEntry, StatusFrame(1), StatusFrame(2),
             TimingFrame, ShortLink, ShortEntry}
\* Junk of eight bytes; the second has the start of a frame in it.
MCJunk == {<<>>, MCMark \o <<0, 1, 2, 3, 4, 5>>, MCMark \o <<0, 1, 2, 200, 6, 5>>}
=============================================================================
