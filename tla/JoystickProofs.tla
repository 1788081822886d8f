--------------------------- MODULE JoystickProofs ---------------------------
(***************************************************************************)
(* Joystick for all targets, sticks and losses: what a receiver unpacks is *)
(* what was packed, and a switch is switched by presses alone.             *)
(***************************************************************************)
EXTENDS Joystick, SequenceTheorems, WellFoundedInduction, TLAPS

----------------------------------------------------------------------------
(* The channel values. *)

\* What is within a half of x * 1.639 is rounded to x on the way back.
LEMMA RoundBack ==
  ASSUME NEW x \in 0 .. 1000, NEW c \in Int, 0 <= c, c <= 1639,
         2000 * c <= 3278 * x + 1000, 3278 * x - 1000 <= 2000 * c
  PROVE  Round(c * 1000, 1639) = x
PROOF BY SMTT(60) DEF Round

LEMMA BackAndThere ==
  ASSUME NEW x \in 0 .. 1000
  PROVE  CrsfToUs(172 + Round(x * 1639, 1000)) = 1000 + x
PROOF
\* round never strays by more than a half.
<1>0. PICK c : c = Round(x * 1639, 1000) OBVIOUS
<1>1. c \in Int /\ 0 <= c /\ c <= 1639
  BY <1>0, SMTT(60) DEF Round
<1>2. Round(c * 1000, 1639) = x
  <2>1. 2000 * c <= 3278 * x + 1000
    BY <1>0, SMTT(60) DEF Round
  <2>2. 3278 * x - 1000 <= 2000 * c
    BY <1>0, SMTT(60) DEF Round
  <2> QED
    BY <1>1, <2>1, <2>2, RoundBack
<1>3. CrsfToUs(172 + c) = 1000 + Round(c * 1000, 1639)
  <2>1. Within(172 + c, 172, 1811) = 172 + c BY <1>1 DEF Within
  <2>2. (172 + c) - 172 = c BY <1>1
  <2> QED BY <2>1, <2>2 DEF CrsfToUs
<1> QED BY <1>0, <1>2, <1>3

\* us_to_crsf and crsf_to_us: the eleven bits of a channel keep its pulse width to
\* the microsecond, for every integer, and one out of range is cut to the range.
THEOREM RoundTrip ==
  ASSUME NEW value \in Int
  PROVE  CrsfToUs(UsToCrsf(value)) = Within(value, 1000, 2000)
PROOF
<1>1. PICK x \in 0 .. 1000 : x = Within(value, 1000, 2000) - 1000 BY DEF Within
<1>2. Within(value, 1000, 2000) = 1000 + x BY <1>1 DEF Within
<1>3. UsToCrsf(value) = 172 + Round(x * 1639, 1000) BY <1>1 DEF UsToCrsf
<1> QED BY <1>2, <1>3, BackAndThere
----------------------------------------------------------------------------
(* The sixteen channels in one payload. *)

Bit(s, k) == IF k \in s THEN 2 ^ k ELSE 0

\* The number whose bits are those in s.
Weight(s) ==
  Bit(s, 0) + Bit(s, 1) + Bit(s, 2) + Bit(s, 3) + Bit(s, 4) + Bit(s, 5) + Bit(s, 6) + Bit(s, 7)
    + Bit(s, 8) + Bit(s, 9) + Bit(s, 10)

LEMMA BitTypes ==
  ASSUME NEW k \in 0 .. 10, NEW s
  PROVE  2 ^ k \in Nat \ {0} /\ Bit(s, k) \in Nat
  <1>1. \/ k = 0 \/ k = 1 \/ k = 2 \/ k = 3 \/ k = 4 \/ k = 5 \/ k = 6 \/ k = 7
        \/ k = 8 \/ k = 9 \/ k = 10
    OBVIOUS
  <1>2. /\ 2 ^ 0 \in Nat \ {0} /\ 2 ^ 1 \in Nat \ {0} /\ 2 ^ 2 \in Nat \ {0} /\ 2 ^ 3 \in Nat \ {0}
        /\ 2 ^ 4 \in Nat \ {0} /\ 2 ^ 5 \in Nat \ {0} /\ 2 ^ 6 \in Nat \ {0} /\ 2 ^ 7 \in Nat \ {0}
        /\ 2 ^ 8 \in Nat \ {0} /\ 2 ^ 9 \in Nat \ {0} /\ 2 ^ 10 \in Nat \ {0}
    OBVIOUS
  <1>3. 2 ^ k \in Nat \ {0}
    BY <1>1, <1>2, Zenon
  <1> QED
    BY <1>3 DEF Bit

LEMMA WeightOfOne ==
  ASSUME NEW s \in SUBSET (0 .. 10), NEW x \in s
  PROVE  Weight(s) = 2 ^ x + Weight(s \ {x}) /\ Weight(s) \in Nat
  <1>1. \A k \in 0 .. 10 : Bit(s, k) \in Nat /\ Bit(s \ {x}, k) = (IF k = x THEN 0 ELSE Bit(s, k))
    BY BitTypes DEF Bit
  <1>2. Bit(s, x) = 2 ^ x /\ 2 ^ x \in Nat
    BY BitTypes DEF Bit
  <1>3. \/ x = 0 \/ x = 1 \/ x = 2 \/ x = 3 \/ x = 4 \/ x = 5 \/ x = 6 \/ x = 7
        \/ x = 8 \/ x = 9 \/ x = 10
    OBVIOUS
  <1> QED
    BY <1>1, <1>2, <1>3, SMTT(60) DEF Weight

LEMMA SumOfBits ==
  ASSUME NEW S \in SUBSET (0 .. 10)
  PROVE  MapThenSumSet(LAMBDA bit : 2 ^ bit, S) = Weight(S)
  <1> DEFINE OneOf(s) == CHOOSE x \in s : TRUE
             Step(f, s) == IF s = {} THEN 0 ELSE 2 ^ OneOf(s) + f[s \ {OneOf(s)}]
             F == CHOOSE f : f = [s \in SUBSET S |-> Step(f, s)]
             W == [s \in SUBSET S |-> Weight(s)]
  <1>1. MapThenSumSet(LAMBDA bit : 2 ^ bit, S) = F[S]
    BY DEF MapThenSumSet, MapThenFoldSet
  <1>2. Weight({}) = 0
    BY DEF Weight, Bit
  <1>3. ASSUME NEW s \in SUBSET S, s # {}
        PROVE  /\ OneOf(s) \in s /\ s \ {OneOf(s)} \in SUBSET S
               /\ Weight(s) = 2 ^ OneOf(s) + Weight(s \ {OneOf(s)})
               /\ Weight(s) \in Nat /\ Weight(s \ {OneOf(s)}) \in Nat
               /\ Weight(s \ {OneOf(s)}) < Weight(s)
    <2>0. OneOf(s) \in s
      BY <1>3, Zenon
    <2>1. PICK x \in s : x = OneOf(s)
      BY <2>0
    <2>2. Weight(s) = 2 ^ x + Weight(s \ {x}) /\ Weight(s) \in Nat
      BY <2>1, WeightOfOne
    <2>3. Weight(s \ {x}) \in Nat
      <3>1. CASE s \ {x} = {}
        <4>1. Weight(s \ {x}) = 0
          BY <1>2, <3>1, Zenon
        <4> QED
          BY <4>1
      <3>2. CASE s \ {x} # {}
        BY <3>2, WeightOfOne
      <3> QED
        BY <3>1, <3>2
    <2>4. 2 ^ x \in Nat \ {0}
      BY BitTypes
    <2> QED
      BY <2>1, <2>2, <2>3, <2>4
  <1>4. F = [s \in SUBSET S |-> Step(F, s)]
    <2>1. \A s \in SUBSET S : W[s] = Step(W, s)
      BY <1>2, <1>3
    <2> HIDE DEF Step
    <2>2. W = [s \in SUBSET S |-> Step(W, s)]
      BY <2>1
    <2> QED
      BY <2>2
  <1> HIDE DEF F, OneOf
  \* Of the sets on which F is wrong take one of the least weight.
  <1> DEFINE Wrong == {n \in Nat : \E s \in SUBSET S : Weight(s) = n /\ F[s] # n}
             R == {ss \in Nat \X Nat : ss[1] < ss[2]}
  <1>5. IsWellFoundedOn(R, Nat)
    BY NatLessThanWellFounded DEF OpToRel
  <1>6. Wrong = {}
    <2> SUFFICES ASSUME Wrong # {}
                 PROVE  FALSE
      OBVIOUS
    <2> HIDE DEF R
    <2>1. PICK n \in Wrong : \A m \in Wrong : ~ (<<m, n>> \in R)
      BY <1>5, WFMin
    <2>2. PICK s \in SUBSET S : Weight(s) = n /\ F[s] # n
      BY <2>1
    <2>3. s # {}
      BY <1>2, <1>4, <2>2
    <2>4. PICK m \in Nat : m = Weight(s \ {OneOf(s)})
      BY <1>3, <2>3
    <2>5. m < n /\ n = 2 ^ OneOf(s) + m
      BY <1>3, <2>2, <2>3, <2>4
    <2>6. F[s] = 2 ^ OneOf(s) + F[s \ {OneOf(s)}]
      BY <1>4, <2>3
    <2>7. m \in Wrong
      BY <1>3, <2>2, <2>3, <2>4, <2>5, <2>6
    <2>8. <<m, n>> \in R
      BY <2>1, <2>4, <2>5 DEF R
    <2> QED
      BY <2>1, <2>7, <2>8
  <1>7. Weight(S) \in Nat
    <2>1. CASE S = {}
      BY <1>2, <2>1
    <2>2. CASE S # {}
      <3>1. S \in SUBSET S
        OBVIOUS
      <3> QED
        BY <1>3, <2>2, <3>1
    <2> QED
      BY <2>1, <2>2
  <1> QED
    BY <1>1, <1>6, <1>7

\* The bits of a number, and the ones that a payload has for a channel.
BitsOf(v) == {bit \in 0 .. 10 : (v \div 2 ^ bit) % 2 = 1}
BitsAt(payload, i) == {bit \in 0 .. 10 : 11 * i + bit \in payload}

\* A number below 2 ^ 11 is the sum of its bits.
LEMMA BitsOfNumber ==
  ASSUME NEW v \in Nat, v < 2048
  PROVE  Weight(BitsOf(v)) = v
  <1>1. /\ v % 4 = (v % 2) + (IF (v \div 2) % 2 = 1 THEN 2 ELSE 0)
        /\ v % 8 = (v % 4) + (IF (v \div 4) % 2 = 1 THEN 4 ELSE 0)
    OBVIOUS
  <1>2. /\ v % 16 = (v % 8) + (IF (v \div 8) % 2 = 1 THEN 8 ELSE 0)
        /\ v % 32 = (v % 16) + (IF (v \div 16) % 2 = 1 THEN 16 ELSE 0)
        /\ v % 64 = (v % 32) + (IF (v \div 32) % 2 = 1 THEN 32 ELSE 0)
    OBVIOUS
  <1>3. /\ v % 128 = (v % 64) + (IF (v \div 64) % 2 = 1 THEN 64 ELSE 0)
        /\ v % 256 = (v % 128) + (IF (v \div 128) % 2 = 1 THEN 128 ELSE 0)
        /\ v % 512 = (v % 256) + (IF (v \div 256) % 2 = 1 THEN 256 ELSE 0)
    OBVIOUS
  <1>4. /\ v % 1024 = (v % 512) + (IF (v \div 512) % 2 = 1 THEN 512 ELSE 0)
        /\ v % 2048 = (v % 1024) + (IF (v \div 1024) % 2 = 1 THEN 1024 ELSE 0)
    OBVIOUS
  <1>5. /\ 2 ^ 0 = 1 /\ 2 ^ 1 = 2 /\ 2 ^ 2 = 4 /\ 2 ^ 3 = 8 /\ 2 ^ 4 = 16 /\ 2 ^ 5 = 32
        /\ 2 ^ 6 = 64 /\ 2 ^ 7 = 128 /\ 2 ^ 8 = 256 /\ 2 ^ 9 = 512 /\ 2 ^ 10 = 1024
    OBVIOUS
  <1>6. /\ (0 \in BitsOf(v) <=> (v \div 1) % 2 = 1) /\ (1 \in BitsOf(v) <=> (v \div 2) % 2 = 1)
        /\ (2 \in BitsOf(v) <=> (v \div 4) % 2 = 1) /\ (3 \in BitsOf(v) <=> (v \div 8) % 2 = 1)
        /\ (4 \in BitsOf(v) <=> (v \div 16) % 2 = 1) /\ (5 \in BitsOf(v) <=> (v \div 32) % 2 = 1)
        /\ (6 \in BitsOf(v) <=> (v \div 64) % 2 = 1) /\ (7 \in BitsOf(v) <=> (v \div 128) % 2 = 1)
        /\ (8 \in BitsOf(v) <=> (v \div 256) % 2 = 1) /\ (9 \in BitsOf(v) <=> (v \div 512) % 2 = 1)
        /\ (10 \in BitsOf(v) <=> (v \div 1024) % 2 = 1)
    BY DEF BitsOf
  <1>7. /\ Bit(BitsOf(v), 0) = v % 2 /\ Bit(BitsOf(v), 1) = (v % 4) - (v % 2)
        /\ Bit(BitsOf(v), 2) = (v % 8) - (v % 4) /\ Bit(BitsOf(v), 3) = (v % 16) - (v % 8)
        /\ Bit(BitsOf(v), 4) = (v % 32) - (v % 16) /\ Bit(BitsOf(v), 5) = (v % 64) - (v % 32)
        /\ Bit(BitsOf(v), 6) = (v % 128) - (v % 64) /\ Bit(BitsOf(v), 7) = (v % 256) - (v % 128)
        /\ Bit(BitsOf(v), 8) = (v % 512) - (v % 256) /\ Bit(BitsOf(v), 9) = (v % 1024) - (v % 512)
        /\ Bit(BitsOf(v), 10) = (v % 2048) - (v % 1024)
    BY <1>1, <1>2, <1>3, <1>4, <1>6, <1>5 DEF Bit
  <1>8. /\ v % 2048 = v /\ v \div 1 = v
        /\ v % 2 \in Nat /\ v % 4 \in Nat /\ v % 8 \in Nat /\ v % 16 \in Nat
        /\ v % 32 \in Nat /\ v % 64 \in Nat /\ v % 128 \in Nat /\ v % 256 \in Nat /\ v % 512 \in Nat
        /\ v % 1024 \in Nat
    OBVIOUS
  <1> DEFINE Sum(s) == Bit(s, 0) + Bit(s, 1) + Bit(s, 2) + Bit(s, 3) + Bit(s, 4) + Bit(s, 5)
  <1>9. Sum(BitsOf(v)) = v % 64
    BY <1>7, <1>8
  <1>10. Weight(BitsOf(v)) = Sum(BitsOf(v)) + Bit(BitsOf(v), 6) + Bit(BitsOf(v), 7)
           + Bit(BitsOf(v), 8) + Bit(BitsOf(v), 9) + Bit(BitsOf(v), 10)
    BY DEF Weight
  <1> HIDE DEF Sum
  <1> QED
    BY <1>7, <1>8, <1>9, <1>10

LEMMA CrsfRange ==
  ASSUME NEW value \in Int
  PROVE  UsToCrsf(value) \in Nat /\ UsToCrsf(value) < 2048
  <1>1. PICK x \in 0 .. 1000 : x = Within(value, 1000, 2000) - 1000
    BY DEF Within
  <1>2. Round(x * 1639, 1000) \in 0 .. 1639
    BY SMTT(60) DEF Round
  <1>3. UsToCrsf(value) = 172 + Round(x * 1639, 1000)
    BY <1>1 DEF UsToCrsf
  <1> QED
    BY <1>2, <1>3

LEMMA PlaceInPayload ==
  ASSUME NEW us \in [Channels -> Int], NEW i \in Channels, NEW bit \in 0 .. 10
  PROVE  11 * i + bit \in Pack(us) <=> (UsToCrsf(us[i]) \div 2 ^ bit) % 2 = 1
  <1>1. (11 * i + bit) \div 11 = i /\ (11 * i + bit) % 11 = bit /\ 11 * i + bit \in 0 .. 175
    BY DEF Channels
  <1>2. 11 * i + bit \in Pack(us)
          <=> /\ 11 * i + bit \in 0 .. 175
              /\ (UsToCrsf(us[(11 * i + bit) \div 11]) \div 2 ^ ((11 * i + bit) % 11)) % 2 = 1
    BY Zenon DEF Pack
  <1> QED
    BY <1>1, <1>2, Zenon

\* make_rc_frame and unpack_channels_us: of the sixteen channels packed one after the
\* other, bit by bit across the bytes, each comes back as its own pulse width, cut to
\* the range, whatever the integers were.
THEOREM PackRoundTrip ==
  ASSUME NEW us \in [Channels -> Int]
  PROVE  UnpackUs(Pack(us)) = [i \in Channels |-> Within(us[i], 1000, 2000)]
  <1>1. ASSUME NEW i \in Channels
        PROVE  Unpack(Pack(us))[i] = UsToCrsf(us[i])
    <2>1. us[i] \in Int
      OBVIOUS
    <2>2. PICK v \in Nat : v = UsToCrsf(us[i]) /\ v < 2048
      BY <2>1, CrsfRange
    <2>3. PICK s : s = BitsAt(Pack(us), i)
      OBVIOUS
    <2>4. s = BitsOf(v)
      <3>1. \A bit \in 0 .. 10 : 11 * i + bit \in Pack(us) <=> (v \div 2 ^ bit) % 2 = 1
        <4> TAKE bit \in 0 .. 10
        <4>1. 11 * i + bit \in Pack(us) <=> (UsToCrsf(us[i]) \div 2 ^ bit) % 2 = 1
          BY PlaceInPayload
        <4> QED
          BY <2>2, <4>1, Zenon
      <3>2. \A bit : bit \in BitsAt(Pack(us), i) <=> bit \in BitsOf(v)
        BY <3>1, Zenon DEF BitsAt, BitsOf
      <3> QED
        BY <2>3, <3>2
    <2>5. Unpack(Pack(us))[i] = MapThenSumSet(LAMBDA bit : 2 ^ bit, s)
      BY <2>3, Zenon DEF Unpack, BitsAt
    <2>6. s \in SUBSET (0 .. 10)
      BY <2>3 DEF BitsAt
    <2>7. MapThenSumSet(LAMBDA bit : 2 ^ bit, s) = Weight(s)
      BY <2>6, SumOfBits
    <2>8. Weight(s) = v
      BY <2>2, <2>4, BitsOfNumber
    <2>9. MapThenSumSet(LAMBDA bit : 2 ^ bit, s) = v
      BY <2>7, <2>8, Zenon
    <2>10. Unpack(Pack(us))[i] = v
      BY <2>5, <2>9
    <2> QED
      BY <2>2, <2>10
  <1>2. \A i \in Channels : UnpackUs(Pack(us))[i] = Within(us[i], 1000, 2000)
    BY <1>1, RoundTrip DEF UnpackUs
  <1> QED
    BY <1>2 DEF UnpackUs

----------------------------------------------------------------------------
(* The strengthening. *)

Samples == [Channels -> Int]
AllTargets == Range(Targets)

Types ==
  /\ isTx12 \in BOOLEAN
  /\ axes \in [0 .. NumAxes - 1 -> Int]
  /\ buttons \in SUBSET (0 .. 11)
  /\ channels \in Samples \cup {None}
  /\ on \in SUBSET Switches
  /\ network \in [AllTargets -> Seq(Samples)]
  /\ sample \in [AllTargets -> Samples \cup {None}]
  /\ frame \in [AllTargets -> Samples \cup {None}]
  /\ presses \in [0 .. 11 -> Nat]
  /\ flips \in [AllTargets -> [Switches -> Nat]]
  /\ overtakes \in Nat

----------------------------------------------------------------------------
(* The way of a switch: its positions in the last frame, in the sample kept, *)
(* in the datagrams on the way and in the loop, from the oldest to the newest. *)

Level(us, b) == IF OnIn(us, b) THEN 1 ELSE 0
LevelNow(b) == IF b \in on THEN 1 ELSE 0
Way(last, kept, sent, now, b) ==
  [i \in 0 .. Len(sent) + 2 |-> IF i = 0 THEN Level(last, b)
                                ELSE IF i = 1 THEN Level(kept, b)
                                ELSE IF i = Len(sent) + 2 THEN now
                                ELSE Level(sent[i - 1], b)]

\* Numbers along a way that never fall, and rise between different positions.
Rises(m, way, number) ==
  \A i, j \in 0 .. m :
    i < j => number[i] <= number[j] /\ (way[i] # way[j] => number[i] < number[j])

\* A way can be numbered from low up to high.
Numbered(last, kept, sent, now, b, low, high) ==
  \E number \in [0 .. Len(sent) + 2 -> Nat] :
    /\ low <= number[0] /\ number[Len(sent) + 2] <= high
    /\ Rises(Len(sent) + 2, Way(last, kept, sent, now, b), number)

\* The presses that have switched, and two for every datagram that was overtaken.
Allowed(b) == presses[b] + 2 * overtakes - (IF b \in buttons \ lastPressed THEN 1 ELSE 0)

\* The changes already received, those still on the way and the presses are counted
\* together: the way can be numbered from the flips up to the presses.
Counted ==
  ~isTx12 => \A t \in AllTargets : \A b \in Switches :
    Numbered(frame[t], sample[t], network[t], LevelNow(b), b, flips[t][b], Allowed(b))

IInv == Types /\ Counted

----------------------------------------------------------------------------
(* Numbers along a way that has changed. *)

\* Some places of a way, in their order, each with its number.
Chosen(m, v, number, n, w, k, g) ==
  /\ number \in [0 .. m -> Nat] /\ g \in [0 .. n -> 0 .. m] /\ k \in [0 .. n -> Int]
  /\ \A i, j \in 0 .. n : i < j => g[i] <= g[j]
  /\ \A i \in 0 .. n : w[i] = v[g[i]] /\ k[i] = number[g[i]]

LEMMA SomePlaces ==
  ASSUME NEW m \in Nat, NEW n \in Nat, NEW v, NEW w, NEW number, NEW g, NEW k,
         Rises(m, v, number), Chosen(m, v, number, n, w, k, g)
  PROVE  k \in [0 .. n -> Nat] /\ Rises(n, w, k)
  <1> USE DEF Chosen
  <1>1. \A i \in 0 .. n : k[i] = number[g[i]] /\ g[i] \in 0 .. m
    OBVIOUS
  <1>2. k \in [0 .. n -> Nat]
    BY <1>1
  <1>3. ASSUME NEW i \in 0 .. n, NEW j \in 0 .. n, i < j
        PROVE  k[i] <= k[j] /\ (w[i] # w[j] => k[i] < k[j])
    <2>1. CASE g[i] = g[j]
      BY <1>1, <1>2, <2>1
    <2>2. CASE g[i] < g[j]
      BY <1>1, <1>3, <2>2 DEF Rises
    <2>3. g[i] <= g[j] /\ g[i] \in Int /\ g[j] \in Int
      BY <1>1, <1>3
    <2> QED
      BY <2>1, <2>2, <2>3
  <1> QED
    BY <1>2, <1>3 DEF Rises

\* The end of a way changes, or is doubled, to the position p.
Extended(m, v, number, n, w, k, p, rise) ==
  /\ number \in [0 .. m -> Nat] /\ k \in [0 .. n -> Int]
  /\ rise \in {0, 1} /\ (rise = 0 => p = v[m])
  /\ \A i \in 0 .. n : w[i] = IF i < m THEN v[i] ELSE p
  /\ \A i \in 0 .. n : k[i] = IF i < m THEN number[i] ELSE number[m] + rise

LEMMA NewEnd ==
  ASSUME NEW m \in Nat, NEW n \in Nat, n >= m, NEW v, NEW w, NEW number, NEW k,
         NEW p, NEW rise, Rises(m, v, number), Extended(m, v, number, n, w, k, p, rise)
  PROVE  k \in [0 .. n -> Nat] /\ Rises(n, w, k)
  <1> USE DEF Extended
  <1>1. \A i \in 0 .. n : k[i] = IF i < m THEN number[i] ELSE number[m] + rise
    OBVIOUS
  <1>0. number[m] \in Nat /\ number[m] + rise \in Nat
    <2>1. m \in 0 .. m
      OBVIOUS
    <2>2. number[m] \in Nat
      BY <2>1
    <2> QED
      BY <2>2
  <1>2. k \in [0 .. n -> Nat]
    <2>1. \A i \in 0 .. n : k[i] \in Nat
      <3> TAKE i \in 0 .. n
      <3>1. i < m => i \in 0 .. m
        OBVIOUS
      <3>2. i < m => number[i] \in Nat
        BY <3>1
      <3> QED
        BY <1>0, <1>1, <3>2
    <2> QED
      BY <2>1
  <1>3. ASSUME NEW i \in 0 .. n, NEW j \in 0 .. n, i < j
        PROVE  k[i] <= k[j] /\ (w[i] # w[j] => k[i] < k[j])
    <2>1. CASE j < m
      <3>1. number[i] <= number[j] /\ (v[i] # v[j] => number[i] < number[j])
        BY <1>3, <2>1 DEF Rises
      <3> QED
        BY <1>1, <1>3, <2>1, <3>1
    <2>2. CASE i < m /\ j >= m
      <3>1. i \in 0 .. m /\ m \in 0 .. m /\ number[i] \in Nat /\ number[m] \in Nat
        BY <2>2
      <3>2. number[i] <= number[m] /\ (v[i] # v[m] => number[i] < number[m])
        BY <2>2, <3>1 DEF Rises
      <3>3. k[i] = number[i] /\ k[j] = number[m] + rise /\ w[i] = v[i] /\ w[j] = p
        BY <1>1, <2>2
      <3>4. CASE rise = 0
        <4>1. p = v[m] /\ number[m] + rise = number[m]
          BY <3>1, <3>4
        <4> QED
          BY <3>2, <3>3, <4>1
      <3>5. CASE rise = 1
        <4>1. number[i] < number[m] + rise /\ number[i] <= number[m] + rise
          BY <3>1, <3>2, <3>5
        <4> QED
          BY <3>3, <4>1
      <3> QED
        BY <3>4, <3>5
    <2>3. CASE i >= m /\ j >= m
      <3>1. k[i] = k[j] /\ w[i] = w[j] /\ k[i] \in Nat
        BY <1>1, <1>2, <2>3
      <3> QED
        BY <3>1
    <2> QED
      BY <1>3, <2>1, <2>2, <2>3
  <1> QED
    BY <1>2, <1>3 DEF Rises

\* A later place of a way comes to the second one: nothing is known of the order
\* there, so that two more are allowed behind it.
Overtaken(m, v, number, n, w, k, g) ==
  /\ number \in [0 .. m -> Nat] /\ g \in [0 .. n -> 0 .. m] /\ k \in [0 .. n -> Int]
  /\ g[0] = 0 /\ \A i, j \in 2 .. n : i < j => g[i] < g[j]
  /\ \A i \in 0 .. n :
       w[i] = v[g[i]] /\ k[i] = IF i < 2 THEN number[0] + i ELSE number[g[i]] + 2

LEMMA Overtaking ==
  ASSUME NEW m \in Nat, NEW n \in Nat, NEW v, NEW w, NEW number, NEW g, NEW k,
         Rises(m, v, number), Overtaken(m, v, number, n, w, k, g)
  PROVE  k \in [0 .. n -> Nat] /\ Rises(n, w, k)
  <1> USE DEF Overtaken
  <1>1. \A i \in 0 .. n : /\ g[i] \in 0 .. m /\ number[g[i]] \in Nat /\ number[0] \in Nat
                          /\ k[i] = IF i < 2 THEN number[0] + i ELSE number[g[i]] + 2
    OBVIOUS
  <1>2. k \in [0 .. n -> Nat]
    <2>1. \A i \in 0 .. n : k[i] \in Nat
      <3> TAKE i \in 0 .. n
      <3>1. number[0] \in Nat /\ number[g[i]] \in Nat /\ i \in Nat
        BY <1>1
      <3>2. k[i] = IF i < 2 THEN number[0] + i ELSE number[g[i]] + 2
        BY <1>1
      <3> QED
        BY ONLY <3>1, <3>2
    <2>2. k \in [0 .. n -> Int]
      OBVIOUS
    <2> QED
      BY ONLY <2>1, <2>2
  <1>3. \A i \in 0 .. n : number[0] <= number[g[i]]
    <2> TAKE i \in 0 .. n
    <2>1. CASE g[i] = 0
      BY <1>1, <2>1
    <2>2. CASE g[i] # 0
      BY <1>1, <2>2 DEF Rises
    <2> QED
      BY <2>1, <2>2
  <1>4. ASSUME NEW i \in 0 .. n, NEW j \in 0 .. n, i < j
        PROVE  k[i] <= k[j] /\ (w[i] # w[j] => k[i] < k[j])
    <2>1. CASE j < 2
      <3>1. i = 0 /\ j = 1
        BY <1>4, <2>1
      <3> QED
        BY <1>1, <3>1
    <2>2. CASE i < 2 /\ j >= 2
      <3>1. k[i] = number[0] + i /\ k[j] = number[g[j]] + 2 /\ number[0] <= number[g[j]]
        BY <1>1, <1>3, <2>2
      <3>2. i \in {0, 1} /\ number[0] \in Nat /\ number[g[j]] \in Nat
        BY <1>1, <2>2
      <3> QED
        BY ONLY <3>1, <3>2
    <2>3. CASE i >= 2
      <3>0. i \in 2 .. n /\ j \in 2 .. n
        BY <1>4, <2>3
      <3>1. g[i] < g[j] /\ g[i] \in 0 .. m /\ g[j] \in 0 .. m
        <4>1. g[i] < g[j]
          BY <1>4, <3>0
        <4> QED
          BY <1>1, <4>1
      <3>2. number[g[i]] <= number[g[j]] /\ (v[g[i]] # v[g[j]] => number[g[i]] < number[g[j]])
        BY <3>1 DEF Rises
      <3>3. k[i] = number[g[i]] + 2 /\ k[j] = number[g[j]] + 2
        BY <1>1, <1>4, <2>3
      <3> QED
        BY <1>1, <3>2, <3>3
    <2> QED
      BY <1>4, <2>1, <2>2, <2>3
  <1> QED
    BY <1>2, <1>4 DEF Rises

----------------------------------------------------------------------------
(* Sequences, and what the loop sends. *)

LEMMA Appended ==
  ASSUME NEW S, NEW s \in Seq(S), NEW e \in S
  PROVE  /\ Append(s, e) \in Seq(S) /\ Len(Append(s, e)) = Len(s) + 1 /\ Len(s) \in Nat
         /\ \A i \in 1 .. Len(s) : Append(s, e)[i] = s[i]
         /\ Append(s, e)[Len(s) + 1] = e
  BY AppendProperties, LenProperties

LEMMA Removed ==
  ASSUME NEW S, NEW s \in Seq(S), NEW n \in DOMAIN s
  PROVE  /\ RemoveAt(s, n) \in Seq(S) /\ Len(RemoveAt(s, n)) = Len(s) - 1
         /\ Len(s) \in Nat /\ n \in 1 .. Len(s) /\ s[n] \in S
         /\ \A i \in 1 .. (Len(s) - 1) : RemoveAt(s, n)[i] = IF i < n THEN s[i] ELSE s[i + 1]
  <1>1. Len(s) \in Nat /\ DOMAIN s = 1 .. Len(s) /\ n \in 1 .. Len(s)
    BY LenProperties
  <1>2. \A i \in 1 .. Len(s) : s[i] \in S
    BY ElementOfSeq
  <1> DEFINE a == SubSeq(s, 1, n - 1)
             b == SubSeq(s, n + 1, Len(s))
  <1>3. a \in Seq(S) /\ Len(a) = n - 1 /\ \A i \in 1 .. (n - 1) : a[i] = s[i]
    <2>1. \A i \in 1 .. (n - 1) : s[i] \in S
      BY <1>1, <1>2
    <2>2. 1 \in Int /\ n - 1 \in Int
      BY <1>1
    <2>3. /\ a \in Seq(S)
          /\ Len(a) = IF 1 <= n - 1 THEN (n - 1) - 1 + 1 ELSE 0
          /\ \A i \in 1 .. ((n - 1) - 1 + 1) : a[i] = s[1 + i - 1]
      BY <2>1, <2>2, SubSeqProperties
    <2> HIDE DEF a
    <2> QED
      BY <1>1, <2>3
  <1>4. b \in Seq(S) /\ Len(b) = Len(s) - n /\ \A i \in 1 .. (Len(s) - n) : b[i] = s[n + i]
    <2>1. \A i \in (n + 1) .. Len(s) : s[i] \in S
      BY <1>1, <1>2
    <2>2. n + 1 \in Int /\ Len(s) \in Int
      BY <1>1
    <2>3. /\ b \in Seq(S)
          /\ Len(b) = IF n + 1 <= Len(s) THEN Len(s) - (n + 1) + 1 ELSE 0
          /\ \A i \in 1 .. (Len(s) - (n + 1) + 1) : b[i] = s[(n + 1) + i - 1]
      BY <2>1, <2>2, SubSeqProperties
    <2> HIDE DEF b
    <2>4. Len(s) - (n + 1) + 1 = Len(s) - n
      BY <1>1
    <2>5. ASSUME NEW i \in 1 .. (Len(s) - n)
          PROVE  b[i] = s[n + i]
      <3>1. (n + 1) + i - 1 = n + i
        BY <1>1
      <3> QED
        BY <2>3, <2>4, <3>1
    <2>6. Len(b) = Len(s) - n
      BY <1>1, <2>3, <2>4
    <2> QED
      BY <2>3, <2>5, <2>6
  <1>5. RemoveAt(s, n) = a \o b
    BY DEF RemoveAt
  <1> HIDE DEF a, b
  <1>6. /\ a \o b \in Seq(S) /\ Len(a \o b) = Len(a) + Len(b)
        /\ \A i \in 1 .. (Len(a) + Len(b)) : (a \o b)[i] = IF i <= Len(a) THEN a[i] ELSE b[i - Len(a)]
    BY <1>3, <1>4, ConcatProperties
  <1>7. Len(a) + Len(b) = Len(s) - 1
    BY <1>1, <1>3, <1>4
  <1>8. ASSUME NEW i \in 1 .. (Len(s) - 1)
        PROVE  RemoveAt(s, n)[i] = IF i < n THEN s[i] ELSE s[i + 1]
    <2>1. CASE i < n
      <3>1. i \in 1 .. (n - 1) /\ i <= Len(a)
        BY <1>1, <1>3, <2>1
      <3> QED
        BY <1>3, <1>5, <1>6, <1>7, <2>1, <3>1
    <2>2. CASE i >= n
      <3>0. i - (n - 1) \in 1 .. (Len(s) - n)
        BY <1>1, <2>2
      <3>1. PICK j \in 1 .. (Len(s) - n) : j = i - Len(a) /\ n + j = i + 1 /\ ~(i <= Len(a))
        <4>1. PICK j \in 1 .. (Len(s) - n) : j = i - (n - 1)
          BY <3>0
        <4>2. n + j = i + 1 /\ ~(i <= n - 1)
          BY <1>1, <2>2, <4>1
        <4> QED
          BY <1>3, <4>1, <4>2
      <3>2. (a \o b)[i] = b[j]
        BY <1>6, <1>7, <3>1
      <3> QED
        BY <1>4, <1>5, <2>2, <3>1, <3>2
    <2> QED
      BY <1>1, <2>1, <2>2
  <1> QED
    BY <1>1, <1>2, <1>5, <1>6, <1>7, <1>8

LEMMA ChannelTypes ==
  ASSUME Types, NEW switchedOn
  PROVE  ChannelsNow(switchedOn) \in Samples /\ ChannelsNow(switchedOn) # None
  <1>1. \A i \in 0 .. 7 : Axis(i) \in Int
    <2>1. axes \in [0 .. NumAxes - 1 -> Int] /\ NumAxes \in Nat
      BY PilotAssumption DEF Types
    <2> TAKE i \in 0 .. 7
    <2>2. CASE i < NumAxes
      <3>1. i \in 0 .. NumAxes - 1
        BY <2>1, <2>2
      <3> QED
        BY <2>1, <2>2, <3>1 DEF Axis
    <2>3. CASE ~(i < NumAxes)
      BY <2>3 DEF Axis
    <2> QED
      BY <2>2, <2>3
  <1>2. \A x \in Int : AxisToUs(x) \in Int /\ -x \in Int
    BY DEF AxisToUs
  <1>3. \A p : ButtonToUs(p) \in Int
    BY DEF ButtonToUs
  <1>4. \A i \in 0 .. 7 : AxisToUs(Axis(i)) \in Int
    BY <1>1, <1>2
  <1>5. AxisToUs(-Axis(1)) \in Int
    BY <1>1, <1>2
  <1>6. Tx12Channels \in Samples
    BY <1>3, <1>4 DEF Tx12Channels, Samples, Channels
  <1>7. GamepadChannels(switchedOn) \in Samples
    <2>1. 0 \in 0 .. 7 /\ 2 \in 0 .. 7 /\ 3 \in 0 .. 7
      OBVIOUS
    <2> QED
      BY <1>3, <1>4, <1>5, <2>1 DEF GamepadChannels, Samples, Channels
  <1> QED
    BY <1>6, <1>7, NoneAssumption DEF ChannelsNow, Samples

\* The loop sends a switch as it stands.
LEMMA SwitchSent ==
  ASSUME Types, ~isTx12, NEW switchedOn, NEW b \in Switches
  PROVE  Level(ChannelsNow(switchedOn), b) = IF b \in switchedOn THEN 1 ELSE 0
  <1>1. ChannelsNow(switchedOn) # None /\ ChannelsNow(switchedOn) = GamepadChannels(switchedOn)
    BY ChannelTypes DEF ChannelsNow
  <1>2. GamepadChannels(switchedOn)[SwitchChannel[b]] = ButtonToUs(b \in switchedOn)
    <2>1. CASE b = 9
      <3>1. SwitchChannel[b] = 4
        BY <2>1 DEF SwitchChannel
      <3> QED
        BY <2>1, <3>1 DEF GamepadChannels, Channels
    <2>2. CASE b \in 0 .. 3
      <3>1. SwitchChannel[b] = 5 + b /\ 5 + b \in 5 .. 12 /\ (5 + b) - 5 = b /\ b \notin Momentary
        BY <2>2 DEF SwitchChannel, Momentary
      <3>2. GamepadChannels(switchedOn)[5 + b]
              = ButtonToUs((5 + b) - 5 \in switchedOn \cup (buttons \cap Momentary))
        BY <2>2 DEF GamepadChannels, Channels
      <3> QED
        BY <3>1, <3>2 DEF ButtonToUs
    <2> QED
      BY <2>1, <2>2 DEF Switches, SwitchChannel
  <1> QED
    BY <1>1, <1>2 DEF Level, OnIn, ButtonToUs

----------------------------------------------------------------------------
(* One step keeps the types. *)

LEMMA InitTypes == Init => Types
  <1> SUFFICES ASSUME Init
               PROVE  Types
    OBVIOUS
  <1>1. isTx12 \in BOOLEAN /\ buttons \in SUBSET (0 .. 11)
    BY RadioAssumption, PilotAssumption DEF Init
  <1>2. axes \in [0 .. NumAxes - 1 -> Int]
    BY DEF Init
  <1>3. presses \in [0 .. 11 -> Nat]
    BY DEF Init
  <1>4. flips \in [AllTargets -> [Switches -> Nat]]
    BY DEF Init, AllTargets
  <1>5. network \in [AllTargets -> Seq(Samples)]
    BY EmptySeq DEF Init, AllTargets
  <1>6. /\ sample \in [AllTargets -> Samples \cup {None}]
        /\ frame \in [AllTargets -> Samples \cup {None}]
    BY DEF Init, AllTargets
  <1>7. channels \in Samples \cup {None} /\ on \in SUBSET Switches /\ overtakes \in Nat
    BY DEF Init
  <1> QED
    BY <1>1, <1>2, <1>3, <1>4, <1>5, <1>6, <1>7 DEF Types

\* What a pass does to what is on the way.
LEMMA PassParts ==
  ASSUME Types, NEW n, PassServing(n)
  PROVE  /\ channels' = ChannelsNow(on') /\ channels' \in Samples
         /\ on' = (IF isTx12 THEN on ELSE Toggled) /\ on' \in SUBSET Switches
         /\ lastPressed' = (IF isTx12 THEN lastPressed ELSE buttons)
         /\ network' \in [AllTargets -> Seq(Samples)]
         /\ \A t \in AllTargets : network'[t] \in {network[t], Append(network[t], channels')}
         /\ UNCHANGED <<pilot, sample, frame, flips, overtakes>>
  <1>1. /\ channels' = ChannelsNow(on') /\ on' = (IF isTx12 THEN on ELSE Toggled)
        /\ lastPressed' = (IF isTx12 THEN lastPressed ELSE buttons)
        /\ UNCHANGED <<pilot, sample, frame, flips, overtakes>>
    BY DEF PassServing
  <1>2. channels' \in Samples
    BY <1>1, ChannelTypes
  <1>3. on' \in SUBSET Switches
    BY <1>1 DEF Types, Toggled, Pressed
  <1>4. network' = [t \in AllTargets |->
                      IF Len(network[t]) < MaxInFlight /\ \E k \in 1 .. n : Targets[k] = t
                      THEN Append(network[t], channels') ELSE network[t]]
    BY DEF PassServing, Send, AllTargets
  <1>5. \A t \in AllTargets : network'[t] \in {network[t], Append(network[t], channels')}
    BY <1>4, Zenon
  <1>6. \A t \in AllTargets : network[t] \in Seq(Samples)
    BY DEF Types
  <1>7. \A t \in AllTargets : Append(network[t], channels') \in Seq(Samples)
    BY <1>2, <1>6, Appended
  <1>8. network' \in [AllTargets -> Seq(Samples)]
    BY <1>4, <1>6, <1>7
  <1> QED
    BY <1>1, <1>2, <1>3, <1>5, <1>8

LEMMA TypesStep ==
  ASSUME Types, Next
  PROVE  Types'
  <1> USE DEF pilot, loop, proxies
  <1>1. CASE Move
    <2>1. axes' \in [0 .. NumAxes - 1 -> Int]
      <3>1. PICK i \in MovedAxes : \E position \in Positions \ {axes[i]} :
              axes' = [axes EXCEPT ![i] = position]
        BY <1>1 DEF Move
      <3>2. PICK position \in Positions : axes' = [axes EXCEPT ![i] = position]
        BY <3>1
      <3>3. position \in Int
        BY PilotAssumption
      <3> QED
        BY <3>2, <3>3 DEF Types
    <2> QED
      BY <1>1, <2>1 DEF Move, Types
  <1>2. CASE Press
    <2>1. PICK b \in MovedButtons \ buttons :
            buttons' = buttons \cup {b} /\ presses' = [presses EXCEPT ![b] = @ + 1]
      BY <1>2 DEF Press
    <2>2. b \in 0 .. 11
      BY PilotAssumption
    <2>3. buttons' \in SUBSET (0 .. 11)
      BY <2>1, <2>2 DEF Types
    <2>4. presses' \in [0 .. 11 -> Nat]
      <3>0. presses \in [0 .. 11 -> Nat]
        BY DEF Types
      <3>1. presses[b] + 1 \in Nat
        <4>1. presses[b] \in Nat
          BY ONLY <2>2, <3>0, Zenon
        <4> QED
          BY ONLY <4>1
      <3>2. presses' = [presses EXCEPT ![b] = presses[b] + 1]
        BY <2>1
      <3> QED
        BY ONLY <3>0, <3>1, <3>2, Zenon
    <2> QED
      BY <1>2, <2>3, <2>4 DEF Press, Types
  <1>3. CASE Release
    <2>1. buttons' \in SUBSET (0 .. 11)
      BY <1>3 DEF Release, Types
    <2> QED
      BY <1>3, <2>1 DEF Release, Types
  <1>4. ASSUME NEW n, PassServing(n)
        PROVE  Types'
    BY <1>4, PassParts DEF Types
  <1>5. ASSUME NEW t \in AllTargets, Deliver(t)
        PROVE  Types'
    <2>1. PICK n \in DOMAIN network[t] :
            /\ overtakes' = overtakes + n - 1
            /\ network' = [network EXCEPT ![t] = RemoveAt(network[t], n)]
            /\ sample' = [sample EXCEPT ![t] = network[t][n]]
            /\ UNCHANGED <<pilot, loop, frame, flips>>
      BY <1>5 DEF Deliver
    <2>2. network[t] \in Seq(Samples)
      BY DEF Types
    <2>3. /\ RemoveAt(network[t], n) \in Seq(Samples) /\ network[t][n] \in Samples
          /\ n \in Nat \ {0}
      BY <2>2, Removed
    <2>4. overtakes' \in Nat
      BY <2>1, <2>3 DEF Types
    <2>5. network' \in [AllTargets -> Seq(Samples)]
      BY <2>1, <2>3 DEF Types
    <2>6. sample' \in [AllTargets -> Samples \cup {None}]
      BY <2>1, <2>3 DEF Types
    <2> QED
      BY <2>1, <2>4, <2>5, <2>6 DEF Types
  <1>6. ASSUME NEW t \in AllTargets, Lose(t)
        PROVE  Types'
    <2>1. PICK n \in DOMAIN network[t] : network' = [network EXCEPT ![t] = RemoveAt(network[t], n)]
      BY <1>6 DEF Lose
    <2>2. network[t] \in Seq(Samples)
      BY DEF Types
    <2>3. RemoveAt(network[t], n) \in Seq(Samples)
      BY <2>2, Removed
    <2>4. network' \in [AllTargets -> Seq(Samples)]
      BY <2>1, <2>3 DEF Types
    <2> QED
      BY <1>6, <2>4 DEF Lose, Types
  <1>7. ASSUME NEW t \in AllTargets, Forward(t)
        PROVE  Types'
    <2>1. frame' \in [AllTargets -> Samples \cup {None}]
      BY <1>7 DEF Forward, Types
    <2>2. flips' \in [AllTargets -> [Switches -> Nat]]
      <3> DEFINE rise(b) == IF OnIn(sample[t], b) # OnIn(frame[t], b) THEN 1 ELSE 0
                 row == [b \in Switches |-> flips[t][b] + rise(b)]
      <3>1. flips' = [flips EXCEPT ![t] = row]
        BY <1>7 DEF Forward
      <3>2. flips \in [AllTargets -> [Switches -> Nat]]
        BY DEF Types
      <3>3. \A b \in Switches : rise(b) \in Nat
        OBVIOUS
      <3> HIDE DEF rise
      <3>4. row \in [Switches -> Nat]
        BY <3>2, <3>3
      <3> HIDE DEF row
      <3> QED
        BY <3>1, <3>2, <3>4
    <2> QED
      BY <1>7, <2>1, <2>2 DEF Forward, Types
  <1> QED
    BY <1>1, <1>2, <1>3, <1>4, <1>5, <1>6, <1>7 DEF Next, Pass, SendRaises, AllTargets

----------------------------------------------------------------------------
(* What each step does to a way and its numbers. *)

\* A way that goes no further than it may.
LEMMA AtMost ==
  ASSUME NEW last, NEW kept, NEW sent \in Seq(Samples), NEW now, NEW b,
         NEW low \in Int, NEW high \in Int,
         Numbered(last, kept, sent, now, b, low, high)
  PROVE  low <= high
  <1> DEFINE m == Len(sent) + 2
  <1>1. PICK number \in [0 .. m -> Nat] :
          /\ low <= number[0] /\ number[m] <= high
          /\ Rises(m, Way(last, kept, sent, now, b), number)
    BY DEF Numbered
  <1>2. m \in Nat /\ 0 < m /\ 0 \in 0 .. m /\ m \in 0 .. m
    BY LenProperties
  <1> HIDE DEF m
  <1>3. number[0] <= number[m] /\ number[0] \in Nat /\ number[m] \in Nat
    BY <1>1, <1>2 DEF Rises
  <1> QED
    BY <1>1, <1>3

LEMMA MoreAllowed ==
  ASSUME NEW last, NEW kept, NEW sent \in Seq(Samples), NEW now, NEW b,
         NEW low \in Int, NEW high \in Int,
         Numbered(last, kept, sent, now, b, low, high),
         NEW more \in Int, high <= more
  PROVE  Numbered(last, kept, sent, now, b, low, more)
  <1> DEFINE m == Len(sent) + 2
  <1>1. PICK number \in [0 .. m -> Nat] :
          /\ low <= number[0] /\ number[m] <= high
          /\ Rises(m, Way(last, kept, sent, now, b), number)
    BY DEF Numbered
  <1>2. m \in Nat /\ m \in 0 .. m
    BY LenProperties
  <1>3. number[m] <= more
    <2> HIDE DEF m
    <2> QED
      BY <1>1, <1>2
  <1> QED
    BY <1>1, <1>3 DEF Numbered

\* The loop has made a pass: rise says whether the switch was switched.
MayAppend(sent, us, after) == after \in {sent, Append(sent, us)}

LEMMA Passed ==
  ASSUME NEW last, NEW kept, NEW sent \in Seq(Samples), NEW now, NEW b,
         NEW low \in Int, NEW high \in Int,
         Numbered(last, kept, sent, now, b, low, high),
         NEW us \in Samples, NEW after, MayAppend(sent, us, after),
         NEW rise \in {0, 1}, rise = 0 => Level(us, b) = now,
         NEW more, more = high + rise
  PROVE  Numbered(last, kept, after, Level(us, b), b, low, more)
  <1> DEFINE m == Len(sent) + 2
             n == Len(after) + 2
             v == Way(last, kept, sent, now, b)
             w == Way(last, kept, after, Level(us, b), b)
  <1>1. PICK number \in [0 .. m -> Nat] :
          low <= number[0] /\ number[m] <= high /\ Rises(m, v, number)
    BY DEF Numbered
  <1>2. PICK k : k = [i \in 0 .. n |-> IF i < m THEN number[i] ELSE number[m] + rise]
    OBVIOUS
  <1>3. /\ Len(sent) \in Nat /\ Len(after) \in {Len(sent), Len(sent) + 1}
        /\ \A i \in 1 .. Len(sent) : after[i] = sent[i]
        /\ Len(after) = Len(sent) + 1 => after[Len(sent) + 1] = us
    <2>1. CASE after = sent
      <3>1. Len(sent) \in Nat
        BY LenProperties
      <3> QED
        BY <2>1, <3>1
    <2>2. CASE after = Append(sent, us)
      BY <2>2, Appended
    <2> QED
      BY <2>1, <2>2 DEF MayAppend
  <1>4. m \in Nat /\ m >= 2 /\ n \in {m, m + 1}
    BY <1>3
  <1>5. \A i \in 0 .. n : w[i] = IF i < m THEN v[i] ELSE Level(us, b)
    <2> TAKE i \in 0 .. n
    <2>1. w[i] = IF i = 0 THEN Level(last, b) ELSE IF i = 1 THEN Level(kept, b)
                 ELSE IF i = n THEN Level(us, b) ELSE Level(after[i - 1], b)
      BY DEF Way
    <2>2. CASE i < m
      <3>1. v[i] = IF i = 0 THEN Level(last, b) ELSE IF i = 1 THEN Level(kept, b)
                   ELSE IF i = m THEN now ELSE Level(sent[i - 1], b)
        BY <1>3, <2>2 DEF Way
      <3>2. i # 0 /\ i # 1 => i - 1 \in 1 .. Len(sent)
        BY <1>3, <2>2
      <3> HIDE DEF n, m, v, w
      <3>3. i # n /\ i # m
        BY <1>4, <2>2
      <3>4. i # 0 /\ i # 1 => after[i - 1] = sent[i - 1]
        BY <1>3, <3>2
      <3> QED
        BY <2>1, <2>2, <3>1, <3>3, <3>4
    <2>3. CASE ~(i < m)
      <3>1. i # 0 /\ i # 1
        BY <1>4, <2>3
      <3>2. CASE i = n
        BY <2>1, <2>3, <3>1, <3>2
      <3>3. CASE i # n
        <4>1. i - 1 = Len(sent) + 1 /\ Len(after) = Len(sent) + 1
          BY <1>3, <2>3, <3>3
        <4> QED
          BY <1>3, <2>1, <2>3, <3>1, <3>3, <4>1
      <3> QED
        BY <3>2, <3>3
    <2> QED
      BY <2>2, <2>3
  <1>6. rise = 0 => Level(us, b) = v[m]
    <2>1. v[m] = now
      BY <1>3 DEF Way
    <2> QED
      BY <2>1
  <1> HIDE DEF m, n, v, w
  <1>7. k \in [0 .. n -> Nat] /\ Rises(n, w, k)
    <2>1. m \in Nat /\ n \in Nat /\ n >= m
      BY <1>4
    <2>2. number \in [0 .. m -> Nat] /\ rise \in Nat
      OBVIOUS
    <2>3. number[m] + rise \in Int
      BY <2>1, <2>2
    <2>4. \A i \in 0 .. n : (IF i < m THEN number[i] ELSE number[m] + rise) \in Int
      BY <2>1, <2>2, <2>3
    <2>5. k \in [0 .. n -> Int]
      BY <1>2, <2>4
    <2>6. \A i \in 0 .. n : k[i] = IF i < m THEN number[i] ELSE number[m] + rise
      BY <1>2, Zenon
    <2>7. PICK p : p = Level(us, b)
      OBVIOUS
    <2>8. (\A i \in 0 .. n : w[i] = IF i < m THEN v[i] ELSE p) /\ (rise = 0 => p = v[m])
      BY <1>5, <1>6, <2>7
    <2>9. rise \in {0, 1}
      OBVIOUS
    <2>10. Extended(m, v, number, n, w, k, p, rise)
      BY ONLY <1>1, <2>5, <2>6, <2>8, <2>9, Zenon DEF Extended
    <2>11. Rises(m, v, number)
      BY <1>1
    <2> QED
      BY ONLY <2>1, <2>10, <2>11, NewEnd
  <1>8. k[0] = number[0] /\ k[n] = number[m] + rise /\ number[m] \in Nat
    <2>1. 0 \in 0 .. n /\ n \in 0 .. n /\ 0 < m /\ ~(n < m) /\ m \in 0 .. m
      BY <1>4
    <2> QED
      BY <1>2, <2>1
  <1>9. k[n] <= more
    BY <1>1, <1>8
  <1> QED
    BY <1>1, <1>7, <1>8, <1>9 DEF Numbered, n, w

\* A datagram is lost.
LEMMA Lost ==
  ASSUME NEW last, NEW kept, NEW sent \in Seq(Samples), NEW now, NEW b,
         NEW low \in Int, NEW high \in Int,
         Numbered(last, kept, sent, now, b, low, high),
         NEW n \in DOMAIN sent
  PROVE  Numbered(last, kept, RemoveAt(sent, n), now, b, low, high)
  <1> DEFINE m == Len(sent) + 2
             v == Way(last, kept, sent, now, b)
             w == Way(last, kept, RemoveAt(sent, n), now, b)
  <1>1. PICK number \in [0 .. m -> Nat] :
          low <= number[0] /\ number[m] <= high /\ Rises(m, v, number)
    BY DEF Numbered
  <1>2. /\ Len(sent) \in Nat /\ n \in 1 .. Len(sent) /\ Len(RemoveAt(sent, n)) = Len(sent) - 1
        /\ \A i \in 1 .. (Len(sent) - 1) :
             RemoveAt(sent, n)[i] = IF i < n THEN sent[i] ELSE sent[i + 1]
    BY Removed
  <1>3. Len(RemoveAt(sent, n)) + 2 = m - 1 /\ m \in Nat /\ m >= 3 /\ n + 1 < m
    BY <1>2
  <1>4. PICK g : g = [i \in 0 .. m - 1 |-> IF i < n + 1 THEN i ELSE i + 1]
    OBVIOUS
  <1>5. PICK k : k = [i \in 0 .. m - 1 |-> number[g[i]]]
    OBVIOUS
  <1>6. \A i \in 0 .. m - 1 : w[i] = v[g[i]]
    <2> TAKE i \in 0 .. m - 1
    <2>0. g[i] \in 0 .. m /\ g[i] = IF i < n + 1 THEN i ELSE i + 1
      BY <1>3, <1>4
    <2>1. w[i] = IF i = 0 THEN Level(last, b) ELSE IF i = 1 THEN Level(kept, b)
                 ELSE IF i = m - 1 THEN now ELSE Level(RemoveAt(sent, n)[i - 1], b)
      BY <1>3 DEF Way
    <2>2. v[g[i]] = IF g[i] = 0 THEN Level(last, b) ELSE IF g[i] = 1 THEN Level(kept, b)
                    ELSE IF g[i] = m THEN now ELSE Level(sent[g[i] - 1], b)
      BY <2>0 DEF Way
    <2>3. CASE i = 0 \/ i = 1
      BY <1>2, <2>0, <2>1, <2>2, <2>3
    <2>4. CASE i # 0 /\ i # 1 /\ i = m - 1
      <3>1. g[i] = m /\ m # 0 /\ m # 1
        BY <1>3, <2>0, <2>4
      <3> QED
        BY <2>1, <2>2, <2>4, <3>1
    <2>5. CASE i # 0 /\ i # 1 /\ i # m - 1
      <3>1. i - 1 \in 1 .. (Len(sent) - 1)
        BY <1>2, <2>5
      <3>2. RemoveAt(sent, n)[i - 1] = IF i - 1 < n THEN sent[i - 1] ELSE sent[(i - 1) + 1]
        BY <1>2, <3>1
      <3> HIDE DEF m, v, w
      <3>3. g[i] # 0 /\ g[i] # 1 /\ g[i] # m /\ (i - 1) + 1 = i
        BY <1>2, <1>3, <2>0, <2>5
      <3>4. sent[g[i] - 1] = RemoveAt(sent, n)[i - 1]
        <4>1. CASE i < n + 1
          <5>1. i - 1 < n /\ g[i] - 1 = i - 1
            BY <1>2, <2>0, <4>1
          <5> QED
            BY <3>2, <5>1
        <4>2. CASE ~(i < n + 1)
          <5>1. ~(i - 1 < n) /\ g[i] - 1 = (i - 1) + 1
            BY <1>2, <2>0, <4>2
          <5> QED
            BY <3>2, <5>1
        <4> QED
          BY <4>1, <4>2
      <3> QED
        BY <2>1, <2>2, <2>5, <3>3, <3>4
    <2> QED
      BY <2>3, <2>4, <2>5
  <1> HIDE DEF m, v, w
  <1>7. g \in [0 .. m - 1 -> 0 .. m] /\ \A i, j \in 0 .. m - 1 : i < j => g[i] <= g[j]
    <2>1. g \in [0 .. m - 1 -> 0 .. m]
      BY <1>2, <1>3, <1>4
    <2>2. \A i \in 0 .. m - 1 : g[i] = IF i < n + 1 THEN i ELSE i + 1
      BY <1>4
    <2>3. ASSUME NEW i \in 0 .. m - 1, NEW j \in 0 .. m - 1, i < j
          PROVE  g[i] <= g[j]
      <3>1. i \in Int /\ j \in Int /\ n \in Int
        BY <1>2, <1>3
      <3>2. /\ g[i] = IF i < n + 1 THEN i ELSE i + 1
            /\ g[j] = IF j < n + 1 THEN j ELSE j + 1
        BY <2>2
      <3> QED
        BY ONLY <2>3, <3>1, <3>2
    <2> QED
      BY <2>1, <2>3
  <1>8. k \in [0 .. m - 1 -> Nat] /\ Rises(m - 1, w, k)
    <2>1. m - 1 \in Nat
      BY <1>3
    <2>2. PICK size \in Nat : size = m - 1
      BY <2>1
    <2>3. k \in [0 .. size -> Int] /\ \A i \in 0 .. size : k[i] = number[g[i]]
      BY <1>5, <1>7, <2>2
    <2>4. /\ g \in [0 .. size -> 0 .. m] /\ \A i, j \in 0 .. size : i < j => g[i] <= g[j]
          /\ \A i \in 0 .. size : w[i] = v[g[i]]
      BY <1>6, <1>7, <2>2
    <2>5. k \in [0 .. size -> Nat] /\ Rises(size, w, k)
      <3>1. m \in Nat /\ size \in Nat /\ number \in [0 .. m -> Nat] /\ Rises(m, v, number)
        BY <1>1, <1>3
      <3>2. Chosen(m, v, number, size, w, k, g)
        BY ONLY <2>3, <2>4, <3>1, Zenon DEF Chosen
      <3> QED
        BY ONLY <3>1, <3>2, SomePlaces
    <2> QED
      BY <2>2, <2>5
  <1>9. k[0] = number[0] /\ k[m - 1] = number[m]
    <2>1. 0 \in 0 .. m - 1 /\ m - 1 \in 0 .. m - 1 /\ g[0] = 0 /\ g[m - 1] = m
      BY <1>2, <1>3, <1>4
    <2> QED
      BY <1>5, <2>1
  <1>10. PICK size : size = m - 1
    OBVIOUS
  <1>11. \E other \in [0 .. size -> Nat] :
           low <= other[0] /\ other[size] <= high /\ Rises(size, w, other)
    BY <1>1, <1>8, <1>9, <1>10
  <1>12. Len(RemoveAt(sent, n)) + 2 = size
    BY <1>3, <1>10
  <1> QED
    BY <1>11, <1>12 DEF Numbered, w

\* A way with one datagram less, from the second place on.
OneLess(m, last, kept, sent, now, b, n) ==
  /\ m \in Nat /\ m >= 3 /\ n \in 1 .. m - 2
  /\ Len(RemoveAt(sent, n)) + 2 = m - 1
  /\ Way(last, sent[n], RemoveAt(sent, n), now, b)[0] = Way(last, kept, sent, now, b)[0]
  /\ Way(last, sent[n], RemoveAt(sent, n), now, b)[1] = Way(last, kept, sent, now, b)[n + 1]
  /\ \A i \in 2 .. m - 1 :
       Way(last, sent[n], RemoveAt(sent, n), now, b)[i]
         = Way(last, kept, sent, now, b)[IF i < n + 1 THEN i ELSE i + 1]

LEMMA Removal ==
  ASSUME NEW last, NEW kept, NEW sent \in Seq(Samples), NEW now, NEW b,
         NEW n \in DOMAIN sent, NEW m, m = Len(sent) + 2
  PROVE  OneLess(m, last, kept, sent, now, b, n)
  <1> DEFINE v == Way(last, kept, sent, now, b)
             w == Way(last, sent[n], RemoveAt(sent, n), now, b)
  <1>1. /\ Len(sent) \in Nat /\ n \in 1 .. Len(sent) /\ Len(RemoveAt(sent, n)) = Len(sent) - 1
        /\ sent[n] \in Samples
        /\ \A i \in 1 .. (Len(sent) - 1) :
             RemoveAt(sent, n)[i] = IF i < n THEN sent[i] ELSE sent[i + 1]
    BY Removed
  <1>2. /\ Len(RemoveAt(sent, n)) + 2 = m - 1 /\ m \in Nat /\ m >= 3
        /\ n + 1 < m /\ n \in 1 .. m - 2
    BY <1>1
  <1>3. \A i \in 0 .. m : v[i] = IF i = 0 THEN Level(last, b) ELSE IF i = 1 THEN Level(kept, b)
                                 ELSE IF i = m THEN now ELSE Level(sent[i - 1], b)
    BY DEF Way
  <1>4. \A i \in 0 .. m - 1 :
          w[i] = IF i = 0 THEN Level(last, b) ELSE IF i = 1 THEN Level(sent[n], b)
                 ELSE IF i = m - 1 THEN now ELSE Level(RemoveAt(sent, n)[i - 1], b)
    BY <1>2 DEF Way
  <1> HIDE DEF v, w
  <1>5. v[0] = Level(last, b) /\ w[0] = Level(last, b) /\ w[1] = Level(sent[n], b)
    <2>1. 0 \in 0 .. m /\ 0 \in 0 .. m - 1 /\ 1 \in 0 .. m - 1
      BY <1>2
    <2> QED
      BY <1>3, <1>4, <2>1
  <1>6. v[n + 1] = Level(sent[n], b)
    <2>1. PICK j \in 0 .. m : j = n + 1 /\ j # 0 /\ j # 1 /\ j # m /\ j - 1 = n
      BY <1>1, <1>2
    <2> QED
      BY <1>3, <2>1
  <1>7. ASSUME NEW i \in 2 .. m - 1
        PROVE  w[i] = v[IF i < n + 1 THEN i ELSE i + 1]
    <2>0. PICK j \in 0 .. m : j = IF i < n + 1 THEN i ELSE i + 1
      BY <1>2
    <2>1. i \in 0 .. m - 1 /\ i # 0 /\ i # 1 /\ j # 0 /\ j # 1
      BY <1>2, <2>0
    <2>2. w[i] = IF i = m - 1 THEN now ELSE Level(RemoveAt(sent, n)[i - 1], b)
      BY <1>4, <2>1
    <2>3. v[j] = IF j = m THEN now ELSE Level(sent[j - 1], b)
      BY <1>3, <2>1
    <2>4. CASE i = m - 1
      <3>1. j = m
        BY <1>2, <2>0, <2>4
      <3> QED
        BY <2>0, <2>2, <2>3, <2>4, <3>1
    <2>5. CASE i # m - 1
      <3>1. i - 1 \in 1 .. (Len(sent) - 1) /\ j # m
        BY <1>1, <1>2, <2>0, <2>5
      <3>2. RemoveAt(sent, n)[i - 1] = IF i - 1 < n THEN sent[i - 1] ELSE sent[(i - 1) + 1]
        BY <1>1, <3>1
      <3>3. sent[j - 1] = RemoveAt(sent, n)[i - 1]
        <4>1. CASE i < n + 1
          <5>1. i - 1 < n /\ j - 1 = i - 1
            BY <1>1, <2>0, <4>1
          <5> QED
            BY <3>2, <5>1
        <4>2. CASE ~(i < n + 1)
          <5>1. ~(i - 1 < n) /\ j - 1 = (i - 1) + 1
            BY <1>1, <2>0, <4>2
          <5> QED
            BY <3>2, <5>1
        <4> QED
          BY <4>1, <4>2
      <3> QED
        BY <2>0, <2>2, <2>3, <2>5, <3>1, <3>3
    <2> QED
      BY <2>4, <2>5
  <1> QED
    BY <1>1, <1>2, <1>5, <1>6, <1>7 DEF v, w, OneLess

\* A datagram arrives: each of those it overtakes may switch back and forth.
LEMMA Delivered ==
  ASSUME NEW last, NEW kept, NEW sent \in Seq(Samples), NEW now, NEW b,
         NEW low \in Int, NEW high \in Int,
         Numbered(last, kept, sent, now, b, low, high),
         NEW n \in DOMAIN sent
  PROVE  Numbered(last, sent[n], RemoveAt(sent, n), now, b, low, high + 2 * (n - 1))
  <1> DEFINE v == Way(last, kept, sent, now, b)
             w == Way(last, sent[n], RemoveAt(sent, n), now, b)
  <1>0. PICK m : m = Len(sent) + 2
    OBVIOUS
  <1>1. PICK number \in [0 .. m -> Nat] :
          low <= number[0] /\ number[m] <= high /\ Rises(m, v, number)
    BY <1>0 DEF Numbered
  <1>2. /\ m \in Nat /\ m >= 3 /\ n \in 1 .. m - 2 /\ Len(RemoveAt(sent, n)) + 2 = m - 1
        /\ v[0] = w[0] /\ w[1] = v[n + 1]
        /\ \A i \in 2 .. m - 1 : w[i] = v[IF i < n + 1 THEN i ELSE i + 1]
    <2>1. OneLess(m, last, kept, sent, now, b, n)
      BY <1>0, Removal
    <2> QED
      BY ONLY <2>1, Zenon DEF OneLess, v, w
  <1> HIDE DEF v, w
  <1>3. PICK size \in Nat : size = m - 1
    BY <1>2
  <1>4. PICK g : g = [i \in 0 .. size |-> IF i = 0 THEN 0 ELSE IF i = 1 THEN n + 1
                                          ELSE IF i < n + 1 THEN i ELSE i + 1]
    OBVIOUS
  <1>5. /\ \A i \in 0 .. size : g[i] = IF i = 0 THEN 0 ELSE IF i = 1 THEN n + 1
                                       ELSE IF i < n + 1 THEN i ELSE i + 1
        /\ g \in [0 .. size -> 0 .. m]
    BY <1>2, <1>3, <1>4
  <1>6. ASSUME NEW i \in 0 .. size
        PROVE  w[i] = v[g[i]]
    <2>1. CASE i = 0 \/ i = 1
      BY <1>2, <1>5, <2>1
    <2>2. CASE i # 0 /\ i # 1
      <3>1. i \in 2 .. m - 1 /\ g[i] = IF i < n + 1 THEN i ELSE i + 1
        BY <1>2, <1>3, <1>5, <2>2
      <3> QED
        BY <1>2, <3>1
    <2> QED
      BY <2>1, <2>2
  <1>7. 0 \in 0 .. size /\ size \in 0 .. size /\ g[0] = 0 /\ g[size] = m /\ size >= 2 /\ m \in 0 .. m
    BY <1>2, <1>3, <1>5
  <1>8. \A i \in 0 .. size : number[g[i]] \in Nat /\ number[0] \in Nat /\ number[m] \in Nat
    BY <1>5, <1>7
  <1>9. CASE n = 1
    <2>1. PICK k : k = [i \in 0 .. size |-> number[g[i]]]
      OBVIOUS
    <2>2. k \in [0 .. size -> Int] /\ \A i \in 0 .. size : k[i] = number[g[i]]
      BY <1>8, <2>1
    <2>3. ASSUME NEW i \in 0 .. size, NEW j \in 0 .. size, i < j
          PROVE  g[i] <= g[j]
      <3>1. /\ g[i] = IF i = 0 THEN 0 ELSE IF i = 1 THEN n + 1 ELSE IF i < n + 1 THEN i ELSE i + 1
            /\ g[j] = IF j = 0 THEN 0 ELSE IF j = 1 THEN n + 1 ELSE IF j < n + 1 THEN j ELSE j + 1
        BY <1>5
      <3>2. i \in Nat /\ j \in Nat
        OBVIOUS
      <3> QED
        BY ONLY <1>9, <2>3, <3>1, <3>2
    <2>4. Chosen(m, v, number, size, w, k, g)
      BY ONLY number \in [0 .. m -> Nat], <1>5, <1>6, <2>2, <2>3, Zenon DEF Chosen
    <2>5. k \in [0 .. size -> Nat] /\ Rises(size, w, k)
      BY ONLY <1>1, <1>2, <1>3, <2>4, SomePlaces
    <2>6. low <= k[0] /\ k[size] <= high + 2 * (n - 1)
      BY <1>1, <1>7, <1>8, <1>9, <2>2
    <2> QED
      BY <1>2, <1>3, <2>5, <2>6 DEF Numbered, w
  <1>10. CASE n # 1
    <2>1. PICK k : k = [i \in 0 .. size |-> IF i < 2 THEN number[0] + i ELSE number[g[i]] + 2]
      OBVIOUS
    <2>2. /\ k \in [0 .. size -> Int]
          /\ \A i \in 0 .. size : k[i] = IF i < 2 THEN number[0] + i ELSE number[g[i]] + 2
      BY <1>8, <2>1
    <2>3. ASSUME NEW i \in 2 .. size, NEW j \in 2 .. size, i < j
          PROVE  g[i] < g[j]
      <3>1. /\ g[i] = IF i < n + 1 THEN i ELSE i + 1
            /\ g[j] = IF j < n + 1 THEN j ELSE j + 1
        BY <1>3, <1>5
      <3>2. i \in Int /\ j \in Int /\ n \in Int
        BY <1>2
      <3> QED
        BY ONLY <2>3, <3>1, <3>2
    <2>4. Overtaken(m, v, number, size, w, k, g)
      BY ONLY number \in [0 .. m -> Nat], <1>5, <1>6, <1>7, <2>2, <2>3, Zenon DEF Overtaken
    <2>5. k \in [0 .. size -> Nat] /\ Rises(size, w, k)
      BY ONLY <1>1, <1>2, <1>3, <2>4, Overtaking
    <2>6. low <= k[0]
      BY <1>1, <1>7, <1>8, <2>2
    <2>7. k[size] <= high + 2 * (n - 1)
      <3>1. k[size] = number[m] + 2
        BY <1>7, <2>2
      <3>2. n \in Int /\ n >= 2
        BY <1>2, <1>10
      <3> QED
        BY <1>1, <1>8, <1>7, <3>1, <3>2
    <2> QED
      BY <1>2, <1>3, <2>5, <2>6, <2>7 DEF Numbered, w
  <1> QED
    BY <1>9, <1>10

\* The sample that is kept goes into a frame.
LEMMA Forwarded ==
  ASSUME NEW last, NEW kept, NEW sent \in Seq(Samples), NEW now, NEW b,
         NEW low \in Int, NEW high \in Int,
         Numbered(last, kept, sent, now, b, low, high),
         NEW rise \in {0, 1}, Level(kept, b) = Level(last, b) => rise = 0
  PROVE  Numbered(kept, kept, sent, now, b, low + rise, high)
  <1> DEFINE v == Way(last, kept, sent, now, b)
             w == Way(kept, kept, sent, now, b)
  <1>0. PICK m : m = Len(sent) + 2
    OBVIOUS
  <1>1. PICK number \in [0 .. m -> Nat] :
          low <= number[0] /\ number[m] <= high /\ Rises(m, v, number)
    BY <1>0 DEF Numbered
  <1>2. m \in Nat /\ m >= 2
    BY <1>0, LenProperties
  <1>3. /\ \A i \in 0 .. m : v[i] = IF i = 0 THEN Level(last, b) ELSE IF i = 1 THEN Level(kept, b)
                                    ELSE IF i = m THEN now ELSE Level(sent[i - 1], b)
        /\ \A i \in 0 .. m : w[i] = IF i = 0 THEN Level(kept, b) ELSE IF i = 1 THEN Level(kept, b)
                                    ELSE IF i = m THEN now ELSE Level(sent[i - 1], b)
    BY <1>0 DEF Way
  <1> HIDE DEF v, w
  <1>4. PICK g : g = [i \in 0 .. m |-> IF i = 0 THEN 1 ELSE i]
    OBVIOUS
  <1>5. g \in [0 .. m -> 0 .. m] /\ \A i \in 0 .. m : g[i] = IF i = 0 THEN 1 ELSE i
    BY <1>2, <1>4
  <1>6. \A i \in 0 .. m : w[i] = v[g[i]]
    <2> TAKE i \in 0 .. m
    <2>1. 1 \in 0 .. m /\ v[1] = Level(kept, b)
      BY <1>2, <1>3
    <2>2. CASE i = 0
      BY <1>3, <1>5, <2>1, <2>2
    <2>3. CASE i # 0
      BY <1>3, <1>5, <2>3
    <2> QED
      BY <2>2, <2>3
  <1>7. \A i, j \in 0 .. m : i < j => g[i] <= g[j]
    BY <1>5
  <1>8. PICK k : k = [i \in 0 .. m |-> number[g[i]]]
    OBVIOUS
  <1>9. k \in [0 .. m -> Int] /\ \A i \in 0 .. m : k[i] = number[g[i]]
    BY <1>5, <1>8
  <1>10. Chosen(m, v, number, m, w, k, g)
    BY ONLY number \in [0 .. m -> Nat], <1>5, <1>6, <1>7, <1>9, Zenon DEF Chosen
  <1>11. k \in [0 .. m -> Nat] /\ Rises(m, w, k)
    BY ONLY <1>1, <1>2, <1>10, SomePlaces
  <1>12. k[0] = number[1] /\ k[m] = number[m]
    <2>1. 0 \in 0 .. m /\ m \in 0 .. m /\ g[0] = 1 /\ g[m] = m
      BY <1>2, <1>5
    <2> QED
      BY <1>9, <2>1
  <1>13. low + rise <= number[1]
    <2>1. 0 \in 0 .. m /\ 1 \in 0 .. m /\ number[0] \in Nat /\ number[1] \in Nat /\ m # 1
      BY <1>2
    <2>2. number[0] <= number[1] /\ (v[0] # v[1] => number[0] < number[1])
      BY <1>1, <2>1 DEF Rises
    <2>3. v[0] = Level(last, b) /\ v[1] = Level(kept, b)
      BY <1>3, <2>1
    <2>4. rise = 1 => number[0] < number[1]
      BY <2>2, <2>3
    <2> QED
      BY <1>1, <2>1, <2>2, <2>4
  <1> QED
    BY <1>0, <1>1, <1>11, <1>12, <1>13 DEF Numbered, w

----------------------------------------------------------------------------
(* One step keeps the count. *)

LEMMA AllowedTypes ==
  ASSUME NEW given \in [0 .. 11 -> Nat], NEW late \in Nat, NEW b \in Switches, NEW c
  PROVE  given[b] + 2 * late - (IF c THEN 1 ELSE 0) \in Int
  <1>1. b \in 0 .. 11
    BY DEF Switches, SwitchChannel
  <1>2. given[b] \in Nat
    BY <1>1
  <1> QED
    BY <1>2

LEMMA CountTypes ==
  ASSUME Types, NEW t \in AllTargets, NEW b \in Switches
  PROVE  /\ b \in 0 .. 11 /\ presses[b] \in Nat /\ overtakes \in Nat
         /\ network[t] \in Seq(Samples) /\ flips[t][b] \in Int /\ Allowed(b) \in Int
  <1>1. b \in 0 .. 11
    BY DEF Switches, SwitchChannel
  <1>2. presses \in [0 .. 11 -> Nat] /\ overtakes \in Nat
    BY DEF Types
  <1>3. presses[b] \in Nat
    BY ONLY <1>1, <1>2, Zenon
  <1>4. network[t] \in Seq(Samples)
    BY DEF Types
  <1>5. flips[t][b] \in Nat
    <2>1. flips[t] \in [Switches -> Nat]
      BY Zenon DEF Types
    <2> QED
      BY ONLY <2>1, b \in Switches, Zenon
  <1>6. Allowed(b) \in Int
    BY <1>2, AllowedTypes DEF Allowed
  <1>7. flips[t][b] \in Int
    BY ONLY <1>5
  <1> QED
    BY <1>1, <1>2, <1>3, <1>4, <1>6, <1>7

LEMMA InitCounted == Init => Counted
  <1> SUFFICES ASSUME Init, NEW t \in AllTargets, NEW b \in Switches
               PROVE  Numbered(frame[t], sample[t], network[t], LevelNow(b), b,
                               flips[t][b], Allowed(b))
    BY DEF Counted
  <1>1. /\ frame[t] = None /\ sample[t] = None /\ network[t] = <<>> /\ LevelNow(b) = 0
        /\ flips[t][b] = 0
    BY DEF Init, AllTargets, LevelNow
  <1>2. b \in 0 .. 11
    BY DEF Switches, SwitchChannel
  <1>3. Allowed(b) = 0
    <2>1. presses[b] = IF b \in buttons THEN 1 ELSE 0
      BY <1>2 DEF Init
    <2>2. overtakes = 0 /\ buttons \ lastPressed = buttons
      BY DEF Init
    <2> QED
      BY <2>1, <2>2 DEF Allowed
  <1>4. Level(None, b) = 0
    BY DEF Level, OnIn
  <1>5. Len(<<>>) + 2 = 2
    BY EmptySeq
  <1>6. \A i \in 0 .. 2 : Way(None, None, <<>>, 0, b)[i] = 0
    BY <1>4, <1>5 DEF Way
  <1>7. PICK number \in [0 .. 2 -> Nat] : number = [i \in 0 .. 2 |-> 0]
    OBVIOUS
  <1>8. Rises(2, Way(None, None, <<>>, 0, b), number) /\ 0 <= number[0] /\ number[2] <= 0
    BY <1>6, <1>7 DEF Rises
  <1>9. Numbered(None, None, <<>>, 0, b, 0, 0)
    BY <1>5, <1>8 DEF Numbered
  <1> QED
    BY <1>1, <1>3, <1>9

\* The pilot does something: nothing on the way changes, and what is allowed does
\* not fall.
LEMMA PilotCounted ==
  ASSUME Types, Counted, Types', NEW t \in AllTargets, NEW b \in Switches, ~isTx12,
         UNCHANGED <<loop, proxies>>, Allowed(b) <= Allowed(b)'
  PROVE  Numbered(frame[t], sample[t], network[t], LevelNow(b), b, flips[t][b], Allowed(b))'
  <1> USE DEF loop, proxies
  <1>1. Numbered(frame[t], sample[t], network[t], LevelNow(b), b, flips[t][b], Allowed(b))
    BY DEF Counted
  <1>2. network[t] \in Seq(Samples) /\ flips[t][b] \in Int /\ Allowed(b) \in Int
    BY CountTypes
  <1>3. Allowed(b)' \in Int
    BY AllowedTypes DEF Types, Allowed
  <1>4. Numbered(frame[t], sample[t], network[t], LevelNow(b), b, flips[t][b], Allowed(b)')
    BY <1>1, <1>2, <1>3, MoreAllowed
  <1>5. LevelNow(b)' = LevelNow(b)
    BY DEF LevelNow
  <1>6. frame' = frame /\ sample' = sample /\ network' = network /\ flips' = flips
    OBVIOUS
  <1> QED
    BY <1>4, <1>5, <1>6

LEMMA PassCounted ==
  ASSUME Types, Counted, NEW n, PassServing(n), NEW t \in AllTargets, NEW b \in Switches,
         ~isTx12
  PROVE  Numbered(frame[t], sample[t], network[t], LevelNow(b), b, flips[t][b], Allowed(b))'
  <1> DEFINE rise == IF b \in buttons \ lastPressed THEN 1 ELSE 0
  <1>1. Numbered(frame[t], sample[t], network[t], LevelNow(b), b, flips[t][b], Allowed(b))
    BY DEF Counted
  <1>2. network[t] \in Seq(Samples) /\ flips[t][b] \in Int /\ Allowed(b) \in Int
    BY CountTypes
  <1>3. /\ channels' = ChannelsNow(on') /\ channels' \in Samples /\ on' = Toggled
        /\ lastPressed' = buttons /\ buttons' = buttons /\ presses' = presses
        /\ network'[t] \in {network[t], Append(network[t], channels')}
        /\ sample' = sample /\ frame' = frame /\ flips' = flips /\ overtakes' = overtakes
    BY PassParts DEF pilot
  <1>4. Level(channels', b) = IF b \in on' THEN 1 ELSE 0
    BY <1>3, SwitchSent
  <1>5. rise \in {0, 1}
    OBVIOUS
  <1>6. rise = 0 => Level(channels', b) = LevelNow(b)
    <2>1. b \notin buttons \ lastPressed => (b \in Toggled <=> b \in on)
      BY DEF Toggled, Pressed
    <2> QED
      BY <1>3, <1>4, <2>1 DEF LevelNow
  <1>7. Allowed(b)' = Allowed(b) + rise
    <2>1. b \in 0 .. 11
      BY DEF Switches, SwitchChannel
    <2>2. presses[b] \in Nat /\ overtakes \in Nat
      BY <2>1 DEF Types
    <2>3. Allowed(b)' = presses[b] + 2 * overtakes - 0
      BY <1>3 DEF Allowed
    <2>4. Allowed(b) = presses[b] + 2 * overtakes - rise
      BY DEF Allowed
    <2> QED
      BY <2>2, <2>3, <2>4
  <1> HIDE DEF rise
  <1>8. Numbered(frame[t], sample[t], network'[t], Level(channels', b), b, flips[t][b],
                 Allowed(b) + rise)
    <2>1. PICK us \in Samples : us = channels'
      BY <1>3
    <2>2. PICK after : after = network'[t] /\ MayAppend(network[t], us, after)
      BY <1>3, <2>1 DEF MayAppend
    <2>3. PICK more : more = Allowed(b) + rise
      OBVIOUS
    <2>4. rise = 0 => Level(us, b) = LevelNow(b)
      BY ONLY <1>6, <2>1
    <2>5. Numbered(frame[t], sample[t], after, Level(us, b), b, flips[t][b], more)
      BY ONLY <1>1, <1>2, <1>5, us \in Samples, <2>2, <2>3, <2>4, Passed
    <2> QED
      BY ONLY <2>1, <2>2, <2>3, <2>5, Zenon
  <1>9. LevelNow(b)' = Level(channels', b)
    BY <1>4 DEF LevelNow
  <1> QED
    BY <1>3, <1>7, <1>8, <1>9

\* A step of the network or of a proxy.
LEMMA ProxyCounted ==
  ASSUME Types, Counted, NEW u \in AllTargets, Deliver(u) \/ Lose(u) \/ Forward(u),
         NEW t \in AllTargets, NEW b \in Switches, ~isTx12
  PROVE  Numbered(frame[t], sample[t], network[t], LevelNow(b), b, flips[t][b], Allowed(b))'
  <1>1. Numbered(frame[t], sample[t], network[t], LevelNow(b), b, flips[t][b], Allowed(b))
    BY DEF Counted
  <1>2. network[t] \in Seq(Samples) /\ flips[t][b] \in Int /\ Allowed(b) \in Int
    BY CountTypes
  <1>3. overtakes \in Nat /\ network \in [AllTargets -> Seq(Samples)] /\ presses[b] \in Int
    <2>1. overtakes \in Nat /\ presses[b] \in Nat
      BY CountTypes
    <2>2. network \in [AllTargets -> Seq(Samples)]
      BY DEF Types
    <2> QED
      BY <2>1, <2>2
  <1>4. isTx12' = isTx12 /\ on' = on /\ lastPressed' = lastPressed
        /\ buttons' = buttons /\ presses' = presses
    BY DEF Deliver, Lose, Forward, pilot, loop
  <1>5. LevelNow(b)' = LevelNow(b)
    BY <1>4 DEF LevelNow
  <1>6. CASE Deliver(u)
    <2>1. PICK n \in DOMAIN network[u] :
            /\ overtakes' = overtakes + n - 1
            /\ network' = [network EXCEPT ![u] = RemoveAt(network[u], n)]
            /\ sample' = [sample EXCEPT ![u] = network[u][n]]
            /\ UNCHANGED <<frame, flips>>
      BY <1>6 DEF Deliver
    <2>2. n \in Nat \ {0}
      BY <1>3, Removed
    <2>3. Allowed(b)' = Allowed(b) + 2 * (n - 1)
      <3>1. Allowed(b)' = presses[b] + 2 * (overtakes + n - 1)
                          - (IF b \in buttons \ lastPressed THEN 1 ELSE 0)
        BY <1>4, <2>1 DEF Allowed
      <3>2. Allowed(b) = presses[b] + 2 * overtakes
                         - (IF b \in buttons \ lastPressed THEN 1 ELSE 0)
        BY DEF Allowed
      <3> QED
        BY <1>3, <2>2, <3>1, <3>2
    <2>4. CASE t = u
      <3>1. Numbered(frame[t], network[t][n], RemoveAt(network[t], n), LevelNow(b), b,
                     flips[t][b], Allowed(b) + 2 * (n - 1))
        BY <1>1, <1>2, <2>1, <2>4, Delivered
      <3>2. network'[t] = RemoveAt(network[t], n) /\ sample'[t] = network[t][n]
        BY <2>1, <2>4 DEF Types
      <3> QED
        BY <1>5, <2>1, <2>3, <3>1, <3>2
    <2>5. CASE t # u
      <3>1. Allowed(b) + 2 * (n - 1) \in Int /\ Allowed(b) <= Allowed(b) + 2 * (n - 1)
        BY <1>2, <2>2
      <3>2. Numbered(frame[t], sample[t], network[t], LevelNow(b), b, flips[t][b],
                     Allowed(b) + 2 * (n - 1))
        BY <1>1, <1>2, <3>1, MoreAllowed
      <3>3. network'[t] = network[t] /\ sample'[t] = sample[t]
        BY <2>1, <2>5 DEF Types
      <3> QED
        BY <1>5, <2>1, <2>3, <3>2, <3>3
    <2> QED
      BY <2>4, <2>5
  <1>7. CASE Lose(u)
    <2>1. PICK n \in DOMAIN network[u] : network' = [network EXCEPT ![u] = RemoveAt(network[u], n)]
      BY <1>7 DEF Lose
    <2>2. sample' = sample /\ frame' = frame /\ flips' = flips /\ overtakes' = overtakes
      BY <1>7 DEF Lose
    <2>3. Allowed(b)' = Allowed(b)
      BY <1>4, <2>2 DEF Allowed
    <2>4. CASE t = u
      <3>1. Numbered(frame[t], sample[t], RemoveAt(network[t], n), LevelNow(b), b,
                     flips[t][b], Allowed(b))
        BY <1>1, <1>2, <2>1, <2>4, Lost
      <3>2. network'[t] = RemoveAt(network[t], n)
        BY <1>3, <2>1, <2>4
      <3> QED
        BY <1>5, <2>2, <2>3, <3>1, <3>2
    <2>5. CASE t # u
      <3>1. network'[t] = network[t]
        BY <1>3, <2>1, <2>5
      <3> QED
        BY <1>1, <1>5, <2>2, <2>3, <3>1
    <2> QED
      BY <2>4, <2>5
  <1>8. CASE Forward(u)
    <2> DEFINE rise(t0, b0) == IF OnIn(sample[t0], b0) # OnIn(frame[t0], b0) THEN 1 ELSE 0
               row == [b0 \in Switches |-> flips[u][b0] + rise(u, b0)]
    <2>1. /\ frame' = [frame EXCEPT ![u] = sample[u]] /\ flips' = [flips EXCEPT ![u] = row]
          /\ sample' = sample /\ network' = network /\ overtakes' = overtakes
      BY <1>8 DEF Forward
    <2>2. Allowed(b)' = Allowed(b)
      BY <1>4, <2>1 DEF Allowed
    <2>3. CASE t = u
      <3>1. rise(t, b) \in {0, 1} /\ (Level(sample[t], b) = Level(frame[t], b) => rise(t, b) = 0)
        <4>1. OnIn(sample[t], b) \in BOOLEAN /\ OnIn(frame[t], b) \in BOOLEAN
          BY DEF OnIn
        <4>2. Level(sample[t], b) = Level(frame[t], b) => (OnIn(sample[t], b) <=> OnIn(frame[t], b))
          BY DEF Level
        <4> QED
          BY <4>1, <4>2
      <3>2. frame'[t] = sample[t] /\ flips'[t][b] = flips[t][b] + rise(t, b)
        BY <2>1, <2>3 DEF Types
      <3> HIDE DEF rise
      <3>3. Numbered(sample[t], sample[t], network[t], LevelNow(b), b,
                     flips[t][b] + rise(t, b), Allowed(b))
        BY <1>1, <1>2, <3>1, Forwarded
      <3> QED
        BY <1>5, <2>1, <2>2, <3>2, <3>3
    <2>4. CASE t # u
      <3> HIDE DEF row
      <3>1. frame'[t] = frame[t] /\ flips'[t] = flips[t]
        BY <2>1, <2>4 DEF Types
      <3> QED
        BY <1>1, <1>5, <2>1, <2>2, <3>1
    <2> QED
      BY <2>3, <2>4
  <1> QED
    BY <1>6, <1>7, <1>8

LEMMA CountedStep ==
  ASSUME IInv, Next
  PROVE  Counted'
  <1>1. Types /\ Counted /\ Types'
    BY TypesStep DEF IInv
  <1>2. isTx12' = isTx12
    BY PassParts, <1>1 DEF Next, Move, Press, Release, Pass, SendRaises, Deliver, Lose, Forward, pilot
  <1> SUFFICES ASSUME ~isTx12, NEW t \in AllTargets, NEW b \in Switches
               PROVE  Numbered(frame[t], sample[t], network[t], LevelNow(b), b,
                               flips[t][b], Allowed(b))'
    BY <1>2 DEF Counted
  <1>3. b \in 0 .. 11 /\ presses[b] \in Nat /\ overtakes \in Nat
    BY <1>1, CountTypes
  <1>4. CASE Move
    <2>1. UNCHANGED <<loop, proxies>> /\ Allowed(b)' = Allowed(b)
      BY <1>4 DEF Move, loop, proxies, Allowed
    <2>2. Allowed(b) <= Allowed(b)'
      <3>1. Allowed(b) \in Int
        BY <1>1, CountTypes
      <3> QED
        BY <2>1, <3>1
    <2> QED
      BY <1>1, <2>1, <2>2, PilotCounted
  <1>5. CASE Press
    <2>1. PICK p \in MovedButtons \ buttons :
            buttons' = buttons \cup {p} /\ presses' = [presses EXCEPT ![p] = @ + 1]
      BY <1>5 DEF Press
    <2>2. UNCHANGED <<loop, proxies>> /\ overtakes' = overtakes /\ lastPressed' = lastPressed
      BY <1>5 DEF Press, loop, proxies
    <2>3. Allowed(b) <= Allowed(b)'
      <3>1. CASE p = b
        <4>1. presses'[b] = presses[b] + 1
          BY <1>1, <1>3, <2>1, <3>1 DEF Types
        <4> QED
          BY <1>3, <2>2, <4>1 DEF Allowed
      <3>2. CASE p # b
        <4>1. presses'[b] = presses[b] /\ (b \in buttons' <=> b \in buttons)
          BY <1>1, <1>3, <2>1, <3>2 DEF Types
        <4> QED
          BY <1>3, <2>2, <4>1 DEF Allowed
      <3> QED
        BY <3>1, <3>2
    <2> QED
      BY <1>1, <2>2, <2>3, PilotCounted
  <1>6. CASE Release
    <2>1. /\ UNCHANGED <<loop, proxies>> /\ overtakes' = overtakes /\ lastPressed' = lastPressed
          /\ presses' = presses /\ (b \in buttons' => b \in buttons)
      BY <1>6 DEF Release, loop, proxies
    <2>2. Allowed(b) <= Allowed(b)'
      BY <1>3, <2>1 DEF Allowed
    <2> QED
      BY <1>1, <2>1, <2>2, PilotCounted
  <1>7. CASE Pass
    BY <1>1, <1>7, PassCounted DEF Pass
  <1>8. CASE SendRaises
    BY <1>1, <1>8, PassCounted DEF SendRaises
  <1>9. ASSUME NEW u \in AllTargets, Deliver(u) \/ Lose(u) \/ Forward(u)
        PROVE  Numbered(frame[t], sample[t], network[t], LevelNow(b), b,
                        flips[t][b], Allowed(b))'
    BY <1>1, <1>9, ProxyCounted
  <1> QED
    BY <1>4, <1>5, <1>6, <1>7, <1>8, <1>9 DEF Next, AllTargets

----------------------------------------------------------------------------
(* The theorems. *)

LEMMA InitIInv == Init => IInv
  BY InitTypes, InitCounted DEF IInv

LEMMA NextIInv == IInv /\ [Next]_vars => IInv'
  <1> SUFFICES ASSUME IInv, [Next]_vars
               PROVE  IInv'
    OBVIOUS
  <1>1. CASE Next
    BY <1>1, TypesStep, CountedStep DEF IInv
  <1>2. CASE UNCHANGED vars
    <2> USE <1>2 DEF vars, pilot, loop, proxies
    <2>1. Types'
      BY DEF IInv, Types
    <2>2. Counted'
      <3>1. \A b \in Switches : LevelNow(b)' = LevelNow(b) /\ Allowed(b)' = Allowed(b)
        BY DEF LevelNow, Allowed
      <3>2. /\ isTx12' = isTx12 /\ frame' = frame /\ sample' = sample /\ network' = network
            /\ flips' = flips
        OBVIOUS
      <3>3. Counted
        BY DEF IInv
      <3> QED
        BY ONLY <3>1, <3>2, <3>3, Zenon DEF Counted
    <2> QED
      BY <2>1, <2>2 DEF IInv
  <1> QED
    BY <1>1, <1>2

\* The inductive invariant holds in every behaviour.
LEMMA Invariance == Spec => []IInv
  BY InitIInv, NextIInv, PTL DEF Spec

\* Every variable keeps its type, for any targets.
THEOREM TypeCorrect == Spec => []Types
  BY Invariance, PTL DEF IInv

\* A switch changes where it is received no more often than its button was pressed,
\* but twice for each datagram that was overtaken (joystick_crsf.py:222).
THEOREM SwitchesArePressed == Spec => []FlipsArePresses
  <1>1. IInv => FlipsArePresses
    <2> SUFFICES ASSUME IInv, ~isTx12, NEW t \in AllTargets, NEW b \in Switches
                 PROVE  flips[t][b] <= presses[b] + 2 * overtakes
      BY DEF FlipsArePresses, AllTargets
    <2>1. Numbered(frame[t], sample[t], network[t], LevelNow(b), b, flips[t][b], Allowed(b))
      BY DEF IInv, Counted
    <2>2. /\ presses[b] \in Nat /\ overtakes \in Nat /\ network[t] \in Seq(Samples)
          /\ flips[t][b] \in Int /\ Allowed(b) \in Int
      BY CountTypes DEF IInv
    <2>3. flips[t][b] <= Allowed(b)
      BY <2>1, <2>2, AtMost
    <2>4. Allowed(b) <= presses[b] + 2 * overtakes
      BY <2>2 DEF Allowed
    <2> QED
      BY <2>2, <2>3, <2>4
  <1> QED
    BY <1>1, Invariance, PTL

\* What a receiver unpacks is what was packed, cut to the range of CRSF
\* (make_rc_frame and unpack_channels_us of lib/crsf_protocol.py).
THEOREM FramesAreReceived == Spec => []FramesAreExact
  <1>1. IInv => FramesAreExact
    <2> SUFFICES ASSUME IInv, NEW t \in AllTargets, frame[t] # None
                 PROVE  Received(t) = InRange(frame[t])
      BY DEF FramesAreExact, AllTargets
    <2>1. frame[t] \in Samples
      BY DEF IInv, Types
    <2> QED
      BY <2>1, PackRoundTrip DEF Received, InRange, Samples
  <1> QED
    BY <1>1, Invariance, PTL
=============================================================================
