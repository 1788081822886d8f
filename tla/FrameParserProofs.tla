-------------------------- MODULE FrameParserProofs --------------------------
(***************************************************************************)
(* FrameParser for every alphabet, check function, frame size, division    *)
(* into chunks and length of the stream: what it returns are pieces of the *)
(* stream, and no valid frame is lost.  The check byte is an unknown       *)
(* function of the body; no property of CRCs is used.                      *)
(***************************************************************************)
EXTENDS FrameParser, SequenceTheorems, TLAPS

\* No frame starts behind the first p bytes, whatever the stream goes on with:
\* what is there already shows it.
Refused(p) ==
  LET total == stream[p + 2] + 2
  IN /\ p + 2 <= Len(stream)
     /\ \/ stream[p + 1] \notin Addresses
        \/ total \notin MinFrame..MaxFrame
        \/ p + total <= Len(stream) /\ ~Valid(SubSeq(stream, p + 1, p + total))

Returned(p) == \E i \in DOMAIN frames : frames[i].at <= p /\ p < End(frames[i])

\* Every byte consumed is in a frame returned, or no frame starts at it.
ConsumedSettled == \A p \in 0..(Consumed - 1) : Returned(p) \/ Refused(p)

IInv == TypeOK /\ FramesAreStream /\ ConsumedSettled

----------------------------------------------------------------------------
(* Pieces of a stream. *)

\* What is left behind the first c bytes, and how it divides after k more.
LEMMA Rest ==
  ASSUME NEW s \in Seq(Byte), NEW c \in 0..Len(s), NEW k \in 0..(Len(s) - c)
  PROVE  LET b == SubSeq(s, c + 1, Len(s)) IN
         /\ b \in Seq(Byte)
         /\ Len(b) = Len(s) - c
         /\ \A i \in 1..(Len(s) - c) : b[i] = s[c + i]
         /\ SubSeq(b, k + 1, Len(b)) = SubSeq(s, c + k + 1, Len(s))
         /\ SubSeq(b, 1, k) = SubSeq(s, c + 1, c + k)
  <1> DEFINE b == SubSeq(s, c + 1, Len(s))
  <1>1. Len(s) \in Nat /\ \A i \in 1..Len(s) : s[i] \in Byte
    BY LenProperties, ElementOfSeq
  <1>2. /\ b \in Seq(Byte)
        /\ Len(b) = Len(s) - c
        /\ \A i \in 1..(Len(s) - c) : b[i] = s[c + i]
    <2>1. /\ b \in Seq(Byte)
          /\ Len(b) = IF c + 1 <= Len(s) THEN Len(s) - (c + 1) + 1 ELSE 0
          /\ \A i \in 1..(Len(s) - (c + 1) + 1) : b[i] = s[(c + 1) + i - 1]
      BY <1>1, SubSeqProperties
    <2>2. \A i \in 1..(Len(s) - c) : (c + 1) + i - 1 = c + i
      BY <1>1
    <2> QED
      BY <1>1, <2>1, <2>2
  <1>3. SubSeq(b, k + 1, Len(b)) = SubSeq(s, c + k + 1, Len(s))
    <2>1. CASE k = Len(s) - c
      BY <1>1, <1>2, <2>1, SubSeqEmpty
    <2>2. CASE k < Len(s) - c
      BY <1>1, <1>2, <2>2, SubSeqOfSubSeq
    <2> QED
      BY <1>1, <2>1, <2>2
  <1>4. SubSeq(b, 1, k) = SubSeq(s, c + 1, c + k)
    <2>1. CASE k = 0
      BY <1>1, <2>1, SubSeqEmpty
    <2>2. CASE k > 0
      <3>1. /\ c + 1 \in 1..Len(s) /\ Len(s) \in 1..Len(s)
            /\ 1 \in 1..(Len(s) - (c + 1) + 1) /\ k \in 1..(Len(s) - (c + 1) + 1)
        BY <1>1, <2>2
      <3>2. SubSeq(b, 1, k) = SubSeq(s, (c + 1) + 1 - 1, (c + 1) + k - 1)
        BY <3>1, SubSeqOfSubSeq
      <3> QED
        BY <1>1, <3>2
    <2> QED
      BY <1>1, <2>1, <2>2
  <1> QED
    BY <1>2, <1>3, <1>4

\* g is s with t behind it: it keeps the pieces of s, and its rest after any
\* place in s grows by t.
Grows(g, s, t) ==
  /\ g \in Seq(Byte) /\ Len(g) = Len(s) + Len(t)
  /\ \A i \in 1..Len(s) : g[i] = s[i]
  /\ \A p, q \in Nat : q <= Len(s) => SubSeq(g, p + 1, q) = SubSeq(s, p + 1, q)
  /\ \A c \in 0..Len(s) : SubSeq(g, c + 1, Len(s) + Len(t)) = SubSeq(s, c + 1, Len(s)) \o t

LEMMA Grown ==
  ASSUME NEW s \in Seq(Byte), NEW t \in Seq(Byte), NEW g, g = s \o t
  PROVE  Grows(g, s, t)
  <1>1. /\ g \in Seq(Byte) /\ Len(g) = Len(s) + Len(t)
        /\ Len(s) \in Nat /\ Len(t) \in Nat
        /\ \A i \in 1..(Len(s) + Len(t)) :
             g[i] = IF i <= Len(s) THEN s[i] ELSE t[i - Len(s)]
    BY ConcatProperties, LenProperties
  <1>2. ASSUME NEW p \in Nat, NEW q \in Nat, q <= Len(s)
        PROVE  SubSeq(g, p + 1, q) = SubSeq(s, p + 1, q)
    <2>1. CASE q < p + 1
      BY <2>1, SubSeqEmpty
    <2>2. CASE p + 1 <= q
      BY <1>1, <1>2, <2>2, SubSeqOfConcat1
    <2> QED
      BY <1>2, <2>1, <2>2
  <1>3. ASSUME NEW c \in 0..Len(s)
        PROVE  SubSeq(g, c + 1, Len(s) + Len(t)) = SubSeq(s, c + 1, Len(s)) \o t
    <2> DEFINE u == SubSeq(g, c + 1, Len(s) + Len(t))
               v == SubSeq(s, c + 1, Len(s))
    <2>1. /\ u \in Seq(Byte) /\ Len(u) = Len(s) + Len(t) - c
          /\ \A i \in 1..(Len(s) + Len(t) - c) : u[i] = g[c + i]
      <3>1. c \in 0..Len(g) /\ 0 \in 0..(Len(g) - c)
        BY <1>1
      <3> QED
        BY <1>1, <3>1, Rest
    <2>2. /\ v \in Seq(Byte) /\ Len(v) = Len(s) - c
          /\ \A i \in 1..(Len(s) - c) : v[i] = s[c + i]
      <3>1. 0 \in 0..(Len(s) - c)
        BY <1>1
      <3> QED
        BY <3>1, Rest
    <2> HIDE DEF u, v
    <2>3. /\ v \o t \in Seq(Byte) /\ Len(v \o t) = Len(v) + Len(t)
          /\ \A i \in 1..(Len(v) + Len(t)) :
               (v \o t)[i] = IF i <= Len(v) THEN v[i] ELSE t[i - Len(v)]
      BY <2>2, ConcatProperties
    <2>4. ASSUME NEW i \in 1..(Len(s) + Len(t) - c)
          PROVE  u[i] = (v \o t)[i]
      <3>1. CASE i <= Len(s) - c
        <4>1. c + i \in 1..Len(s) /\ i \in 1..(Len(s) - c)
          BY <1>1, <1>3, <2>4, <3>1
        <4>2. u[i] = s[c + i]
          BY <1>1, <2>1, <2>4, <4>1
        <4>3. (v \o t)[i] = v[i]
          BY <1>1, <2>2, <2>3, <4>1
        <4> QED
          BY <2>2, <4>1, <4>2, <4>3
      <3>2. CASE i > Len(s) - c
        <4>1. u[i] = t[(c + i) - Len(s)]
          <5>1. c + i \in 1..(Len(s) + Len(t)) /\ ~(c + i <= Len(s))
            BY <1>1, <1>3, <2>4, <3>2
          <5>2. u[i] = g[c + i]
            BY <2>1, <2>4
          <5> QED
            BY <1>1, <5>1, <5>2
        <4>2. (v \o t)[i] = t[i - (Len(s) - c)]
          BY <1>1, <1>3, <2>2, <2>3, <2>4, <3>2
        <4>3. (c + i) - Len(s) = i - (Len(s) - c)
          BY <1>1, <1>3, <2>4
        <4> QED
          BY <4>1, <4>2, <4>3
      <3>3. i <= Len(s) - c \/ i > Len(s) - c
        BY <1>1, <1>3, <2>4
      <3> QED
        BY <3>1, <3>2, <3>3
    <2>5. Len(v \o t) = Len(u)
      BY <1>1, <2>1, <2>2, <2>3
    <2>6. u = v \o t
      BY <2>1, <2>3, <2>4, <2>5, SeqEqual
    <2> QED
      BY <2>6 DEF u, v
  <1>4. \A i \in 1..Len(s) : g[i] = s[i]
    BY <1>1
  <1> QED
    BY <1>1, <1>2, <1>3, <1>4 DEF Grows

----------------------------------------------------------------------------
(* The invariant. *)

\* The buffer is what the stream has behind the bytes consumed.
LEMMA BufferIsRest ==
  ASSUME TypeOK, FramesAreStream
  PROVE  /\ Consumed \in 0..Len(stream) /\ Len(stream) \in Nat
         /\ Len(buffer) = Len(stream) - Consumed
         /\ \A i \in 1..Len(buffer) : buffer[i] = stream[Consumed + i]
         /\ \A k \in 0..Len(buffer) :
              /\ SubSeq(buffer, k + 1, Len(buffer))
                   = SubSeq(stream, Consumed + k + 1, Len(stream))
              /\ SubSeq(buffer, 1, k) = SubSeq(stream, Consumed + 1, Consumed + k)
  <1>1. /\ Len(stream) \in Nat /\ Len(buffer) \in Nat
        /\ Consumed = Len(stream) - Len(buffer) /\ Consumed >= 0
        /\ buffer = SubSeq(stream, Consumed + 1, Len(stream))
        /\ stream \in Seq(Byte)
    BY LenProperties DEF TypeOK, FramesAreStream, Consumed
  <1>2. Consumed \in 0..Len(stream) /\ Len(buffer) = Len(stream) - Consumed
    BY <1>1
  <1>3. ASSUME NEW k \in 0..(Len(stream) - Consumed)
        PROVE  /\ \A i \in 1..(Len(stream) - Consumed) : buffer[i] = stream[Consumed + i]
               /\ SubSeq(buffer, k + 1, Len(buffer))
                    = SubSeq(stream, Consumed + k + 1, Len(stream))
               /\ SubSeq(buffer, 1, k) = SubSeq(stream, Consumed + 1, Consumed + k)
    BY <1>1, <1>2, Rest
  <1>4. 0 \in 0..(Len(stream) - Consumed)
    BY <1>1, <1>2
  <1> QED
    BY <1>1, <1>2, <1>3, <1>4

\* The loop has the whole of what its first bytes announce.
LEMMA NotWaiting ==
  ASSUME TypeOK, ~Waiting
  PROVE  /\ Len(buffer) \in Nat /\ Len(buffer) >= MinFrame
         /\ buffer[1] \in Byte /\ buffer[2] \in Byte /\ Total \in Nat
         /\ StartsFrame => Total \in MinFrame..Len(buffer)
  <1>1. Len(buffer) \in Nat /\ Len(buffer) >= MinFrame
    BY LenProperties DEF TypeOK, Waiting, MinFrame
  <1>2. buffer[1] \in Byte /\ buffer[2] \in Byte
    BY <1>1, ElementOfSeq DEF TypeOK, MinFrame
  <1>3. Total \in Nat
    <2>1. buffer[2] \in Nat
      BY <1>2, ByteAssumption
    <2> QED
      BY <2>1 DEF Total
  <1> QED
    BY <1>1, <1>2, <1>3 DEF Waiting, StartsFrame, MinFrame

\* A chunk of any bytes changes nothing of what is settled.
LEMMA FeedStep ==
  ASSUME IInv, NEW chunk \in Seq(Byte), FeedChunk(chunk)
  PROVE  IInv'
  <1>1. /\ stream \in Seq(Byte) /\ buffer \in Seq(Byte)
        /\ buffer' = buffer \o chunk /\ stream' = stream \o chunk
        /\ UNCHANGED <<discarded, crcErrors, frames>>
        /\ frames \in Seq([at : Nat, raw : Seq(Byte)])
    BY DEF IInv, TypeOK, FeedChunk
  <1>2. /\ stream' \in Seq(Byte) /\ Len(stream') = Len(stream) + Len(chunk)
        /\ \A i \in 1..Len(stream) : stream'[i] = stream[i]
        /\ \A p, q \in Nat :
             q <= Len(stream) => SubSeq(stream', p + 1, q) = SubSeq(stream, p + 1, q)
        /\ \A c \in 0..Len(stream) :
             SubSeq(stream', c + 1, Len(stream) + Len(chunk))
               = SubSeq(stream, c + 1, Len(stream)) \o chunk
    <2>1. Grows(stream', stream, chunk)
      BY <1>1, Grown
    <2> QED
      BY <2>1 DEF Grows
  <1>3. buffer' \in Seq(Byte) /\ Len(buffer') = Len(buffer) + Len(chunk)
    BY <1>1, ConcatProperties
  <1>4. TypeOK'
    BY <1>1, <1>2, <1>3 DEF IInv, TypeOK
  <1>5. Len(stream) \in Nat /\ Len(buffer) \in Nat /\ Len(chunk) \in Nat
    BY <1>1, LenProperties
  <1>6. Consumed' = Consumed /\ Consumed \in 0..Len(stream)
    BY <1>2, <1>3, <1>5 DEF IInv, FramesAreStream, Consumed
  <1>7. ASSUME NEW p \in Nat, NEW n \in Nat, FrameAt(p, n)
        PROVE  FrameAt(p, n)'
    <2>1. p + n <= Len(stream) /\ n >= MinFrame
      <3>1. Len(SubSeq(stream, p + 1, p + n)) = IF p + 1 <= p + n THEN n ELSE 0
        BY <1>1, <1>5, <1>7, ElementOfSeq, SubSeqProperties DEF FrameAt
      <3> QED
        BY <1>7, <3>1 DEF FrameAt, Valid, MinFrame
    <2>2. SubSeq(stream', p + 1, p + n) = SubSeq(stream, p + 1, p + n)
      BY <1>2, <1>7, <2>1
    <2>3. stream'[p + 1] = stream[p + 1] /\ p + n <= Len(stream')
      BY <1>2, <1>5, <1>7, <2>1 DEF MinFrame
    <2> QED
      BY <1>7, <2>2, <2>3 DEF FrameAt, Valid
  <1>8. ASSUME NEW p \in 0..(Consumed - 1), Refused(p)
        PROVE  Refused(p)'
    <2> DEFINE total == stream[p + 2] + 2
    <2>1. /\ p + 2 <= Len(stream)
          /\ \/ stream[p + 1] \notin Addresses
             \/ total \notin MinFrame..MaxFrame
             \/ p + total <= Len(stream) /\ ~Valid(SubSeq(stream, p + 1, p + total))
      BY <1>8 DEF Refused
    <2>2. p \in Nat /\ stream'[p + 1] = stream[p + 1] /\ stream'[p + 2] = stream[p + 2]
      BY <1>2, <1>5, <1>6, <2>1
    <2>3. total \in Nat
      <3>1. p + 2 \in 1..Len(stream)
        BY <1>5, <2>1, <2>2
      <3>2. stream[p + 2] \in Nat
        BY <1>1, <3>1, ElementOfSeq, ByteAssumption
      <3> QED
        BY <3>2
    <2>4. p + total <= Len(stream) =>
            SubSeq(stream', p + 1, p + total) = SubSeq(stream, p + 1, p + total)
      <3> HIDE DEF total
      <3> QED
        BY <1>2, <2>2, <2>3
    <2> HIDE DEF total
    <2>5. /\ p + 2 <= Len(stream')
          /\ \/ stream'[p + 1] \notin Addresses
             \/ total \notin MinFrame..MaxFrame
             \/ p + total <= Len(stream') /\ ~Valid(SubSeq(stream', p + 1, p + total))
      <3>1. p + 2 <= Len(stream') /\ (p + total <= Len(stream) => p + total <= Len(stream'))
        BY <1>2, <1>5, <2>1, <2>2, <2>3
      <3> QED
        BY <2>1, <2>2, <2>4, <3>1, Zenon
    <2>6. total = stream'[p + 2] + 2
      BY <2>2 DEF total
    <2> QED
      BY <2>5, <2>6 DEF Refused, Valid
  <1>9. ConsumedSettled'
    BY <1>1, <1>6, <1>8 DEF IInv, ConsumedSettled, Returned, End
  <1>10. FramesAreStream'
    <2>1. buffer' = SubSeq(stream', Consumed + 1, Len(stream'))
      BY <1>1, <1>2, <1>6 DEF IInv, FramesAreStream
    <2>2. ASSUME NEW i \in DOMAIN frames
          PROVE  /\ FrameAt(frames[i].at, Len(frames[i].raw))'
                 /\ frames[i].raw = SubSeq(stream', frames[i].at + 1, End(frames[i]))
      <3>1. frames[i].at \in Nat /\ frames[i].raw \in Seq(Byte) /\ Len(frames[i].raw) \in Nat
        <4>1. frames[i] \in [at : Nat, raw : Seq(Byte)]
          BY <1>1, ElementOfSeq, LenProperties
        <4> QED
          BY <4>1, LenProperties
      <3>2. /\ FrameAt(frames[i].at, Len(frames[i].raw))
            /\ frames[i].raw = SubSeq(stream, frames[i].at + 1, End(frames[i]))
        BY DEF IInv, FramesAreStream
      <3>3. End(frames[i]) \in Nat /\ End(frames[i]) <= Len(stream)
        BY <3>1, <3>2 DEF End, FrameAt
      <3> QED
        BY <1>1, <1>2, <1>7, <3>1, <3>2, <3>3
    <2>3. \A i \in DOMAIN frames :
            End(frames[i]) <= IF i < Len(frames) THEN frames[i + 1].at ELSE Consumed
      BY DEF IInv, FramesAreStream
    <2>4. frames' = frames /\ Consumed' = Consumed
      BY <1>1, <1>6
    <2>5. Consumed' >= 0 /\ buffer' = SubSeq(stream', Consumed' + 1, Len(stream'))
      BY <1>6, <2>1, <2>4
    <2>6. ASSUME NEW i \in DOMAIN frames'
          PROVE  /\ FrameAt(frames[i].at, Len(frames[i].raw))'
                 /\ frames'[i].raw = SubSeq(stream', frames'[i].at + 1, End(frames[i])')
                 /\ End(frames[i])' <= IF i < Len(frames') THEN frames'[i + 1].at ELSE Consumed'
      BY <2>2, <2>3, <2>4, <2>6 DEF End
    <2> QED
      BY <2>5, <2>6 DEF FramesAreStream
  <1> QED
    BY <1>4, <1>9, <1>10 DEF IInv

\* What the steps of the loop leave alone.
LEMMA SettledStable ==
  ASSUME stream' = stream, frames' = frames,
         NEW p, Returned(p) \/ Refused(p)
  PROVE  (Returned(p) \/ Refused(p))'
  BY DEF Returned, Refused, End, Valid

LEMMA DropStep ==
  ASSUME IInv, DropNoStart \/ DropBadFrame
  PROVE  IInv'
  <1>1. /\ ~Waiting /\ buffer' = Tail(buffer) /\ discarded' = discarded + 1
        /\ crcErrors' \in {crcErrors, crcErrors + 1} /\ UNCHANGED <<stream, frames>>
        /\ ~StartsFrame \/ (StartsFrame /\ ~Valid(SubSeq(buffer, 1, Total)))
    BY DEF DropNoStart, DropBadFrame, DropByte
  <1>2. /\ Len(buffer) \in Nat /\ Len(buffer) >= 4
        /\ StartsFrame => Total \in MinFrame..Len(buffer)
    BY <1>1, NotWaiting DEF IInv, MinFrame
  <1>3. /\ Consumed \in 0..Len(stream) /\ Len(stream) \in Nat
        /\ Len(buffer) = Len(stream) - Consumed
        /\ \A i \in 1..Len(buffer) : buffer[i] = stream[Consumed + i]
        /\ \A k \in 0..Len(buffer) :
             /\ SubSeq(buffer, k + 1, Len(buffer))
                  = SubSeq(stream, Consumed + k + 1, Len(stream))
             /\ SubSeq(buffer, 1, k) = SubSeq(stream, Consumed + 1, Consumed + k)
    BY BufferIsRest DEF IInv
  <1>4. buffer \in Seq(Byte) /\ buffer # <<>>
    BY <1>2, EmptySeq DEF IInv, TypeOK
  <1>5. buffer' \in Seq(Byte) /\ Len(buffer') = Len(buffer) - 1
    BY <1>1, <1>4, HeadTailProperties
  <1>6. TypeOK'
    BY <1>1, <1>5 DEF IInv, TypeOK
  <1>7. Consumed' = Consumed + 1
    BY <1>1, <1>2, <1>3, <1>5 DEF Consumed
  <1>8. buffer' = SubSeq(stream, Consumed + 1 + 1, Len(stream))
    <2>1. buffer' = SubSeq(buffer, 1 + 1, Len(buffer))
      BY <1>1, <1>4, TailIsSubSeq
    <2> QED
      BY <1>2, <1>3, <2>1
  <1>9. Refused(Consumed)
    <2>1. /\ Consumed + 2 <= Len(stream)
          /\ stream[Consumed + 1] = buffer[1] /\ stream[Consumed + 2] = buffer[2]
      BY <1>2, <1>3
    <2>2. Total = stream[Consumed + 2] + 2
      BY <2>1 DEF Total
    <2>3. CASE ~StartsFrame
      BY <2>1, <2>2, <2>3 DEF StartsFrame, Refused
    <2>4. CASE StartsFrame /\ ~Valid(SubSeq(buffer, 1, Total))
      <3>1. Total \in 0..Len(buffer) /\ Consumed + Total <= Len(stream)
        <4>1. Total \in 4..Len(buffer)
          BY <1>2, <2>4 DEF MinFrame
        <4> HIDE DEF Total
        <4> QED
          BY <1>2, <1>3, <4>1
      <3>2. SubSeq(buffer, 1, Total) = SubSeq(stream, Consumed + 1, Consumed + Total)
        BY <1>3, <3>1
      <3> QED
        BY <2>1, <2>2, <2>4, <3>1, <3>2 DEF Refused
    <2> QED
      BY <1>1, <2>3, <2>4
  <1>10. ConsumedSettled'
    <2>1. \A p \in 0..Consumed : Returned(p) \/ Refused(p)
      BY <1>3, <1>9 DEF IInv, ConsumedSettled
    <2>2. \A p \in 0..Consumed : (Returned(p) \/ Refused(p))'
      BY <1>1, <2>1, SettledStable
    <2>3. 0..(Consumed' - 1) = 0..Consumed
      BY <1>3, <1>7
    <2> QED
      BY <2>2, <2>3 DEF ConsumedSettled
  <1>11. FramesAreStream'
    <2>1. Consumed' >= 0 /\ buffer' = SubSeq(stream', Consumed' + 1, Len(stream'))
      BY <1>1, <1>3, <1>7, <1>8
    <2>2. ASSUME NEW i \in DOMAIN frames
          PROVE  /\ FrameAt(frames[i].at, Len(frames[i].raw))'
                 /\ frames'[i].raw = SubSeq(stream', frames'[i].at + 1, End(frames[i])')
      BY <1>1 DEF IInv, FramesAreStream, FrameAt, End, Valid
    <2>3. ASSUME NEW i \in DOMAIN frames
          PROVE  End(frames[i])' <= IF i < Len(frames') THEN frames'[i + 1].at ELSE Consumed'
      <3>1. /\ End(frames[i]) <= IF i < Len(frames) THEN frames[i + 1].at ELSE Consumed
            /\ frames \in Seq([at : Nat, raw : Seq(Byte)])
        BY DEF IInv, FramesAreStream, TypeOK
      <3>2. frames[i] \in [at : Nat, raw : Seq(Byte)]
        BY <3>1, ElementOfSeq, LenProperties
      <3>3. End(frames[i]) \in Nat
        BY <3>2, LenProperties DEF End
      <3> QED
        BY <1>1, <1>3, <1>7, <3>1, <3>3 DEF End
    <2> QED
      BY <1>1, <2>1, <2>2, <2>3 DEF FramesAreStream
  <1> QED
    BY <1>6, <1>10, <1>11 DEF IInv

LEMMA EmitStep ==
  ASSUME IInv, Emit
  PROVE  IInv'
  <1>0. PICK f : f = [at |-> Consumed, raw |-> SubSeq(buffer, 1, Total)]
    OBVIOUS
  <1>1. /\ ~Waiting /\ StartsFrame /\ Valid(SubSeq(buffer, 1, Total))
        /\ buffer' = SubSeq(buffer, Total + 1, Len(buffer))
        /\ frames' = Append(frames, f)
        /\ UNCHANGED <<discarded, crcErrors, stream>>
    BY <1>0 DEF Emit, Consumed
  <1>2. /\ Len(buffer) \in Nat /\ buffer \in Seq(Byte) /\ stream \in Seq(Byte)
        /\ Total \in 4..Len(buffer)
        /\ frames \in Seq([at : Nat, raw : Seq(Byte)])
    BY <1>1, NotWaiting DEF IInv, MinFrame, TypeOK
  <1>3. /\ Consumed \in 0..Len(stream) /\ Len(stream) \in Nat
        /\ Len(buffer) = Len(stream) - Consumed
        /\ \A i \in 1..Len(buffer) : buffer[i] = stream[Consumed + i]
        /\ \A k \in 0..Len(buffer) :
             /\ SubSeq(buffer, k + 1, Len(buffer))
                  = SubSeq(stream, Consumed + k + 1, Len(stream))
             /\ SubSeq(buffer, 1, k) = SubSeq(stream, Consumed + 1, Consumed + k)
    BY BufferIsRest DEF IInv
  <1>4. /\ SubSeq(buffer, 1, Total) \in Seq(Byte) /\ Len(SubSeq(buffer, 1, Total)) = Total
        /\ SubSeq(buffer, Total + 1, Len(buffer)) \in Seq(Byte)
        /\ Len(SubSeq(buffer, Total + 1, Len(buffer))) = Len(buffer) - Total
    <2>1. \A i \in 1..Len(buffer) : buffer[i] \in Byte
      BY <1>2, ElementOfSeq
    <2> QED
      BY <1>2, <2>1, SubSeqProperties
  <1>5. f \in [at : Nat, raw : Seq(Byte)] /\ Len(f.raw) = Total /\ f.at = Consumed
    BY <1>0, <1>3, <1>4
  <1>6. End(f) = Consumed + Total /\ Consumed' = Consumed + Total
    <2>1. End(f) = Consumed + Total
      BY <1>5 DEF End
    <2>2. Consumed' = Len(stream) - (Len(buffer) - Total)
      BY <1>1, <1>4 DEF Consumed
    <2> QED
      BY <1>2, <1>3, <2>1, <2>2
  <1>7. f.raw = SubSeq(stream, f.at + 1, End(f))
    <2>1. f.raw = SubSeq(buffer, 1, Total) /\ Total \in 0..Len(buffer)
      BY <1>0, <1>2
    <2> QED
      BY <1>3, <1>5, <1>6, <2>1
  <1>8. FrameAt(f.at, Len(f.raw))
    <2>1. Consumed + Total <= Len(stream) /\ stream[Consumed + 1] = buffer[1]
      BY <1>2, <1>3
    <2> QED
      BY <1>0, <1>1, <1>5, <1>6, <1>7, <2>1 DEF FrameAt, StartsFrame
  <1>9. /\ frames' \in Seq([at : Nat, raw : Seq(Byte)]) /\ Len(frames) \in Nat
        /\ DOMAIN frames = 1..Len(frames) /\ DOMAIN frames' = 1..(Len(frames) + 1)
        /\ Len(frames') = Len(frames) + 1
        /\ \A i \in 1..Len(frames) : frames'[i] = frames[i]
        /\ frames'[Len(frames) + 1] = f
    BY <1>1, <1>2, <1>5, AppendProperties, LenProperties
  <1>10. TypeOK'
    BY <1>1, <1>4, <1>9 DEF IInv, TypeOK
  <1>11. ConsumedSettled'
    <2>1. ASSUME NEW p \in 0..(Consumed' - 1)
          PROVE  (Returned(p) \/ Refused(p))'
      <3>1. CASE p \in 0..(Consumed - 1)
        <4>1. CASE Returned(p)
          BY <1>9, <4>1 DEF Returned, End
        <4>2. CASE Refused(p)
          BY <1>1, <4>2 DEF Refused, Valid
        <4> QED
          BY <3>1, <4>1, <4>2 DEF IInv, ConsumedSettled
      <3>2. CASE Consumed <= p
        <4>1. f.at <= p /\ p < End(f) /\ Len(frames) + 1 \in DOMAIN frames'
          <5>1. p \in 0..(Consumed + Total - 1) /\ Consumed \in Nat /\ Total \in Nat
            BY <1>2, <1>3, <1>6, <2>1
          <5> HIDE DEF Total
          <5>2. p < Consumed + Total
            BY <5>1
          <5> QED
            BY <1>5, <1>6, <1>9, <3>2, <5>2
        <4> QED
          BY <1>9, <4>1 DEF Returned, End
      <3> QED
        BY <1>3, <2>1, <3>1, <3>2
    <2> QED
      BY <2>1 DEF ConsumedSettled
  <1>12. FramesAreStream'
    <2>1. Consumed' >= 0 /\ buffer' = SubSeq(stream', Consumed' + 1, Len(stream'))
      <3>1. Total \in 0..Len(buffer)
        BY <1>2
      <3>2. buffer' = SubSeq(stream, Consumed + Total + 1, Len(stream))
        BY <1>1, <1>3, <3>1
      <3> QED
        BY <1>1, <1>2, <1>3, <1>6, <3>2
    <2>2. ASSUME NEW i \in DOMAIN frames'
          PROVE  /\ FrameAt(frames[i].at, Len(frames[i].raw))'
                 /\ frames'[i].raw = SubSeq(stream', frames'[i].at + 1, End(frames[i])')
                 /\ End(frames[i])' <= IF i < Len(frames') THEN frames'[i + 1].at ELSE Consumed'
      <3>1. CASE i \in 1..Len(frames)
        <4>1. frames'[i] = frames[i] /\ frames'[i + 1] = IF i < Len(frames) THEN frames[i + 1] ELSE f
          BY <1>9, <3>1
        <4>2. /\ FrameAt(frames[i].at, Len(frames[i].raw))
              /\ frames[i].raw = SubSeq(stream, frames[i].at + 1, End(frames[i]))
              /\ End(frames[i]) <= IF i < Len(frames) THEN frames[i + 1].at ELSE Consumed
          BY <1>9, <3>1 DEF IInv, FramesAreStream
        <4>3. /\ FrameAt(frames[i].at, Len(frames[i].raw))'
              /\ frames'[i].raw = SubSeq(stream', frames'[i].at + 1, End(frames[i])')
          BY <1>1, <4>1, <4>2 DEF FrameAt, End, Valid
        <4>4. CASE i < Len(frames)
          BY <1>9, <3>1, <4>1, <4>2, <4>3, <4>4 DEF End
        <4>5. CASE i = Len(frames)
          BY <1>5, <1>9, <3>1, <4>1, <4>2, <4>3, <4>5 DEF End
        <4> QED
          BY <1>9, <3>1, <4>4, <4>5
      <3>2. CASE i = Len(frames) + 1
        <4>1. frames'[i] = f /\ ~(i < Len(frames'))
          BY <1>9, <3>2
        <4>2. FrameAt(f.at, Len(f.raw))' /\ f.raw = SubSeq(stream', f.at + 1, End(f))
          BY <1>1, <1>7, <1>8 DEF FrameAt, Valid
        <4>3. End(f) <= Consumed'
          BY <1>2, <1>3, <1>6
        <4> QED
          BY <4>1, <4>2, <4>3 DEF End, FrameAt, Valid
      <3> QED
        BY <1>9, <2>2, <3>1, <3>2
    <2> QED
      BY <2>1, <2>2 DEF FramesAreStream
  <1> QED
    BY <1>10, <1>11, <1>12 DEF IInv

LEMMA InitIInv == Init => IInv
  <1> SUFFICES ASSUME Init
               PROVE  IInv
    OBVIOUS
  <1>1. TypeOK
    BY EmptySeq DEF Init, TypeOK
  <1>2. Consumed = 0
    BY EmptySeq DEF Init, Consumed
  <1>3. buffer = SubSeq(stream, Consumed + 1, Len(stream))
    BY <1>2, EmptySeq, SubSeqEmpty DEF Init
  <1> QED
    BY <1>1, <1>2, <1>3 DEF Init, IInv, FramesAreStream, ConsumedSettled

LEMMA NextIInv == IInv /\ [Next]_vars => IInv'
  <1> SUFFICES ASSUME IInv, [Next]_vars
               PROVE  IInv'
    OBVIOUS
  <1>1. CASE UNCHANGED vars
    BY <1>1 DEF vars, IInv, TypeOK, FramesAreStream, ConsumedSettled, Consumed, Returned, Refused,
                FrameAt, End, Valid
  <1>2. CASE Feed
    <2>1. PICK n \in 1..MaxChunk : \E chunk \in [1..n -> Byte] : FeedChunk(chunk)
      BY <1>2 DEF Feed
    <2>2. PICK chunk \in [1..n -> Byte] : FeedChunk(chunk)
      BY <2>1
    <2>3. chunk \in Seq(Byte)
      BY <2>1, <2>2, BoundAssumption, IsASeq
    <2> QED
      BY <2>2, <2>3, FeedStep
  <1>3. CASE DropNoStart \/ DropBadFrame
    BY <1>3, DropStep
  <1>4. CASE Emit
    BY <1>4, EmitStep
  <1> QED
    BY <1>1, <1>2, <1>3, <1>4 DEF Next

LEMMA Invariance == Spec => []IInv
  BY InitIInv, NextIInv, PTL DEF Spec

----------------------------------------------------------------------------
(* The theorems. *)

\* The parser keeps its types (FrameParser.feed, lib/crsf_protocol.py:168).
THEOREM TypeCorrect == Spec => []TypeOK
  BY Invariance, PTL DEF IInv

\* What feed returns are pieces of the stream, unchanged, valid, in order and
\* apart from each other; the buffer is what the stream has behind them and the
\* bytes dropped, for every noise and every division into chunks.
THEOREM ReturnsTheStream == Spec => []FramesAreStream
  BY Invariance, PTL DEF IInv

\* A valid frame among the bytes consumed was returned or starts inside one that
\* was: resynchronising byte by byte loses none.
THEOREM LosesNoFrame == Spec => []NoFrameLost
  <1>1. IInv => NoFrameLost
    <2> SUFFICES ASSUME IInv, NEW p \in 0..(Consumed - 1), NEW n \in MinFrame..MaxFrame,
                        FrameAt(p, n)
                 PROVE  Returned(p)
      BY DEF NoFrameLost, Returned
    <2>1. /\ stream \in Seq(Byte) /\ Len(stream) \in Nat /\ p \in Nat /\ n \in Nat /\ n >= 4
          /\ p + n <= Len(stream)
      BY SizeAssumption, LenProperties DEF IInv, TypeOK, MinFrame, FrameAt
    <2>2. /\ Len(SubSeq(stream, p + 1, p + n)) = n
          /\ SubSeq(stream, p + 1, p + n)[2] = stream[p + 2]
      <3>1. /\ Len(SubSeq(stream, p + 1, p + n))
                 = IF p + 1 <= p + n THEN (p + n) - (p + 1) + 1 ELSE 0
            /\ \A i \in 1..((p + n) - (p + 1) + 1) :
                 SubSeq(stream, p + 1, p + n)[i] = stream[(p + 1) + i - 1]
        BY <2>1, ElementOfSeq, SubSeqProperties
      <3>2. 2 \in 1..((p + n) - (p + 1) + 1) /\ (p + 1) + 2 - 1 = p + 2
        BY <2>1
      <3> QED
        BY <2>1, <3>1, <3>2
    <2>3. stream[p + 2] + 2 = n
      BY <2>2 DEF FrameAt, Valid
    <2>4. ~Refused(p)
      BY <2>1, <2>3 DEF Refused, FrameAt
    <2> QED
      BY <2>4 DEF IInv, ConsumedSettled
  <1> QED
    BY <1>1, Invariance, PTL
=============================================================================
