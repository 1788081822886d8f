-------------------------- MODULE MlrsClientProofs --------------------------
(***************************************************************************)
(* Proofs about MlrsClient: what a request reads and verifies is what the  *)
(* module has, although the protocol numbers nothing, and which commands   *)
(* go out and when.                                                        *)
(***************************************************************************)
EXTENDS MlrsClient, SequenceTheorems, WellFoundedInduction, TLAPS

----------------------------------------------------------------------------
(* What the variables hold. *)

Item1 == [kind : {"ITEM"}, index : Nat, nr : Nat, val : Values \cup {None}]
Info1 == [kind : {"TX", "INFO"}, index : Nat, nr : Nat, val : Nat]
Messages == Item1 \cup Info1
Frames ==
  [type : {"INFO", "READ"}, id : Nat]
    \cup [type : {"COMMAND"}, id : Commands]
    \cup [type : {"SET"}, id : Indexes, val : Values]
Records == [index : Indexes, val : Values]
Jobs == Requests \cup {[op |-> "devices"]}

Types ==
  /\ pc \in {"idle", "clear", "send", "wait", "read", "found", "flush", "unverified"}
  /\ stage \in {"info", "list", "write", "verify", "run"}
  /\ job \in Jobs
  /\ index \in Nat /\ got \in Seq(Messages) /\ records \in Seq(Records)
  /\ tries \in Nat
  /\ cache = None \/ cache \in Seq(Records)
  /\ inbox \in Seq(Messages) /\ outbound \in Seq(Frames) /\ toModule \in Seq(Frames)
  /\ setting \in [Indexes -> Values] /\ reports \in {0, N}
  /\ requests \in Nat /\ late \in BOOLEAN
  /\ dead \in 0..DeadTime /\ quiet \in 0..DeadTime

\* What each stage of a request may be doing, and what it knows of its job.
Places ==
  /\ pc = "idle" => stage = "info"
  /\ stage = "info" => pc \in {"idle", "clear", "send", "wait", "read", "found"} /\ records = <<>>
  /\ stage = "list" => pc \in {"clear", "send", "wait", "read", "found"}
  /\ stage = "write" => pc \in {"send", "flush"}
  /\ stage = "verify" =>
       pc \in {"clear", "send", "wait", "read", "unverified"} /\ index = job.id /\ cache = None
  /\ stage \in {"write", "verify"} =>
       job.op = "set" /\ job.id \in Indexes /\ job.arg \in Values
  /\ stage = "run" => pc \in {"send", "flush"} /\ job.op = "command"
  /\ pc \in {"clear", "send"} => got = <<>>
  /\ pc = "found" => cache \in Seq(Records)

----------------------------------------------------------------------------
(* The commands. *)

\* A command waits for its confirmation only after its START, and runs only
\* after the confirmation is used up.
Granted ==
  /\ awaiting # None => awaiting \in granted
  /\ stage = "run" => job.id \in granted /\ awaiting # job.id

IsSave(q) == q.type = "COMMAND" /\ q.id = "Save"
Saving == pc = "flush" /\ stage = "run" /\ job.id = "Save"

\* From the slot that takes Save, the dead time and the quiet make up DeadTime,
\* except until the thread notices that the frame is gone.
Quiet ==
  /\ (\E i \in DOMAIN outbound : IsSave(outbound[i])) => Saving
  /\ outbound # <<>> => quiet = DeadTime
  /\ quiet + dead >= DeadTime \/ (Saving /\ outbound = <<>>)

----------------------------------------------------------------------------
(* The frames. *)

First(m) == m.kind = "ITEM" /\ m.nr = 1

\* What any frame of the module says, whenever it was sent.
Sane(m) ==
  \/ m.kind \in {"TX", "INFO"} /\ m.val = reports
  \/ m = EndMarker /\ reports = 0
  \/ m.kind = "ITEM" /\ m.index \in Indexes /\ (m.nr = 1 => m.val \in Values)

\* Only a list without a count is read past its end.
InRange(q) == q.type = "READ" /\ q.id >= N => reports = 0

FramesSane ==
  /\ \A i \in DOMAIN inbox : Sane(inbox[i])
  /\ \A i \in DOMAIN outbound : InRange(outbound[i])
  /\ \A i \in DOMAIN toModule : InRange(toModule[i])

\* What has been taken for the read under way.
GotShape ==
  /\ \A i \in DOMAIN got : Sane(got[i])
  /\ stage = "info" => /\ Len(got) <= 2
                       /\ Len(got) = 2 => got[2].kind = "INFO"
                       /\ Len(got) = 2 <=> pc = "read"
  /\ stage \in {"list", "verify"} /\ got # <<>> =>
       First(got[1]) /\ (got[1] = EndMarker \/ got[1].index = index)
  /\ pc = "read" => got # <<>>

\* A list, whether it is read or kept, has its parameters in order.
InOrder(list) == \A i \in DOMAIN list : list[i].index = i - 1

ListShape ==
  /\ summary # None => summary = reports
  /\ InOrder(records)
  /\ cache # None => InOrder(cache)
  /\ stage = "list" /\ pc # "found" =>
       /\ summary = reports /\ index = Len(records)
       /\ reports # 0 => index < N

----------------------------------------------------------------------------
(* As long as no answer was late. *)

\* The first item of the answer to a read of the parameter i.
FirstItem(i) == IF i < N THEN Item(i, 1) ELSE EndMarker

\* A read waits for the first item of its answer.
Expecting == pc = "wait" /\ stage \in {"list", "verify"} /\ got = <<>>
NoFirst == \A i \in DOMAIN inbox : ~First(inbox[i])
NoRead(frames) == \A i \in DOMAIN frames : frames[i].type # "READ"
NoSet(frames) == \A i \in DOMAIN frames : frames[i].type # "SET"

\* A query is on its way only while it is waited for, behind all other frames.
OneQuery ==
  /\ \A i \in DOMAIN outbound : outbound[i].type = "READ" =>
       i = Len(outbound) /\ outbound[i].id = index /\ Expecting /\ NoFirst /\ NoRead(toModule)
  /\ \A i \in DOMAIN toModule : toModule[i].type = "READ" =>
       i = Len(toModule) /\ outbound = <<>> /\ toModule[i].id = index /\ Expecting /\ NoFirst

\* A first item is the answer to the read under way.
OneAnswer ==
  \A i \in DOMAIN inbox : First(inbox[i]) =>
    /\ Expecting /\ inbox[i] = FirstItem(index)
    /\ NoRead(outbound) /\ NoRead(toModule)
    /\ \A j \in DOMAIN inbox : First(inbox[j]) => j = i

\* No write is on its way once its verification has got something.
SetsOurs ==
  \/ NoSet(outbound) /\ NoSet(toModule)
  \/ pc = "flush" /\ stage = "write"
  \/ stage = "verify" /\ pc \in {"clear", "send", "wait"} /\ got = <<>> /\ NoFirst

GotTrue ==
  stage \in {"list", "verify"} /\ pc \in {"wait", "read"} /\ got # <<>> => got[1] = FirstItem(index)

RecordsFresh ==
  stage = "list" => \A i \in DOMAIN records : records[i].val = setting[records[i].index]

Timely == ~late => OneQuery /\ OneAnswer /\ SetsOurs /\ GotTrue /\ RecordsFresh

IInv ==
  /\ Types /\ Places /\ Granted /\ Quiet /\ FramesSane /\ GotShape /\ ListShape
  /\ Timely /\ ListComplete /\ CacheFresh /\ VerifiedMeansSet

----------------------------------------------------------------------------
(* Induction, stated of a set: the provers cannot instantiate the operator *)
(* of the library's theorems.                                              *)

\* What holds of 0 and is passed on by each number holds of all.
LEMMA SetInduction ==
  ASSUME NEW S, 0 \in S, \A n \in Nat : n \in S => n + 1 \in S
  PROVE  Nat \subseteq S
  <1> DEFINE T == Nat \ S
             R == {ss \in Nat \X Nat : ss[1] < ss[2]}
  <1>1. IsWellFoundedOn(R, Nat)
    BY NatLessThanWellFounded DEF OpToRel
  <1> HIDE DEF R
  <1> SUFFICES ASSUME T # {}
               PROVE  FALSE
    OBVIOUS
  <1>2. PICK x \in T : \A y \in T : ~ (<<y, x>> \in R)
    BY <1>1, WFMin
  <1>3. x \in Nat /\ x # 0 /\ x - 1 \in Nat /\ x - 1 < x
    BY <1>2
  <1>4. x - 1 \in T
    <2>1. CASE x - 1 \in S
      <3>1. (x - 1) + 1 \in S
        BY <1>3, <2>1
      <3> QED
        BY <3>1, <1>2, <1>3
    <2> QED
      BY <2>1, <1>3
  <1>5. <<x - 1, x>> \in R
    BY <1>3 DEF R
  <1> QED
    BY <1>2, <1>4, <1>5

----------------------------------------------------------------------------
(* What the elements of a sequence are after a step. *)

LEMMA AppendElements ==
  ASSUME NEW S, NEW s \in Seq(S), NEW e \in S, NEW t, t = Append(s, e)
  PROVE  /\ t \in Seq(S) /\ Len(t) = Len(s) + 1 /\ t # <<>>
         /\ Len(s) \in Nat /\ DOMAIN s = 1..Len(s) /\ DOMAIN t = 1..(Len(s) + 1)
         /\ t[Len(s) + 1] = e /\ \A i \in DOMAIN s : t[i] = s[i]
  BY AppendProperties, LenProperties

LEMMA TailElements ==
  ASSUME NEW S, NEW s \in Seq(S), s # <<>>, NEW t, t = Tail(s)
  PROVE  /\ t \in Seq(S) /\ Len(t) = Len(s) - 1 /\ Len(s) \in Nat \ {0}
         /\ 1 \in DOMAIN s /\ Head(s) = s[1] /\ s[1] \in S
         /\ \A i \in DOMAIN t : i \in Nat \ {0} /\ i + 1 \in DOMAIN s /\ t[i] = s[i + 1]
  <1>1. /\ t \in Seq(S) /\ Len(t) = Len(s) - 1 /\ Len(s) \in Nat \ {0}
        /\ \A i \in 1..(Len(s) - 1) : t[i] = s[i + 1]
    BY HeadTailProperties, EmptySeq
  <1>2. DOMAIN s = 1..Len(s) /\ DOMAIN t = 1..(Len(s) - 1)
    BY <1>1, LenProperties
  <1> QED
    BY <1>1, <1>2, ElementOfSeq

LEMMA ConcatElements ==
  ASSUME NEW S, NEW s \in Seq(S), NEW u \in Seq(S), NEW t, t = s \o u
  PROVE  /\ t \in Seq(S) /\ Len(t) = Len(s) + Len(u)
         /\ Len(s) \in Nat /\ Len(u) \in Nat
         /\ \A i \in DOMAIN t :
              \/ i \in DOMAIN s /\ t[i] = s[i]
              \/ i - Len(s) \in DOMAIN u /\ t[i] = u[i - Len(s)] /\ i > Len(s)
  <1>1. /\ t \in Seq(S) /\ Len(t) = Len(s) + Len(u)
        /\ \A i \in 1..(Len(s) + Len(u)) : t[i] = IF i <= Len(s) THEN s[i] ELSE u[i - Len(s)]
    BY ConcatProperties
  <1>2. /\ Len(s) \in Nat /\ Len(u) \in Nat
        /\ DOMAIN s = 1..Len(s) /\ DOMAIN u = 1..Len(u) /\ DOMAIN t = 1..(Len(s) + Len(u))
    BY <1>1, LenProperties
  <1> QED
    BY <1>1, <1>2

\* Without the element at i, each keeps its neighbours.
LEMMA RemoveElements ==
  ASSUME NEW S, NEW s \in Seq(S), NEW i \in DOMAIN s, NEW t, t = RemoveAt(s, i)
  PROVE  /\ t \in Seq(S)
         /\ \A k \in DOMAIN t : \E j \in DOMAIN s \ {i} : t[k] = s[j]
  <1>1. Len(s) \in Nat /\ DOMAIN s = 1..Len(s) /\ i \in 1..Len(s)
    BY LenProperties
  <1>2. /\ SubSeq(s, 1, i - 1) \in Seq(S) /\ Len(SubSeq(s, 1, i - 1)) = i - 1
        /\ \A k \in 1..(i - 1) : SubSeq(s, 1, i - 1)[k] = s[k]
    <2>1. \A k \in 1..(i - 1) : s[k] \in S
      BY <1>1, ElementOfSeq
    <2>2. 1 \in Int /\ i - 1 \in Int /\ i - 1 >= 0
      BY <1>1
    <2>3. /\ SubSeq(s, 1, i - 1) \in Seq(S)
          /\ Len(SubSeq(s, 1, i - 1)) = IF 1 <= i - 1 THEN (i - 1) - 1 + 1 ELSE 0
          /\ \A k \in 1..((i - 1) - 1 + 1) : SubSeq(s, 1, i - 1)[k] = s[1 + k - 1]
      BY <2>1, <2>2, SubSeqProperties
    <2> QED
      BY <2>2, <2>3
  <1>3. /\ SubSeq(s, i + 1, Len(s)) \in Seq(S) /\ Len(SubSeq(s, i + 1, Len(s))) = Len(s) - i
        /\ \A k \in 1..(Len(s) - i) : SubSeq(s, i + 1, Len(s))[k] = s[i + k]
    <2>1. \A k \in (i + 1)..Len(s) : s[k] \in S
      BY <1>1, ElementOfSeq
    <2>2. i + 1 \in Int /\ Len(s) \in Int /\ Len(s) - i >= 0
      BY <1>1
    <2>3. /\ SubSeq(s, i + 1, Len(s)) \in Seq(S)
          /\ Len(SubSeq(s, i + 1, Len(s))) = IF i + 1 <= Len(s) THEN Len(s) - (i + 1) + 1 ELSE 0
          /\ \A k \in 1..(Len(s) - (i + 1) + 1) : SubSeq(s, i + 1, Len(s))[k] = s[(i + 1) + k - 1]
      BY <2>1, <2>2, SubSeqProperties
    <2>4. (IF i + 1 <= Len(s) THEN Len(s) - (i + 1) + 1 ELSE 0) = Len(s) - i
      BY <1>1
    <2>5. Len(s) - (i + 1) + 1 = Len(s) - i
      BY <1>1
    <2>6. ASSUME NEW k \in 1..(Len(s) - i)
          PROVE  SubSeq(s, i + 1, Len(s))[k] = s[i + k]
      <3>1. (i + 1) + k - 1 = i + k
        BY <1>1
      <3> QED
        BY <2>3, <2>5, <3>1
    <2> QED
      BY <2>3, <2>4, <2>6
  <1> DEFINE a == SubSeq(s, 1, i - 1)
             b == SubSeq(s, i + 1, Len(s))
  <1> HIDE DEF a, b
  <1>4. t = a \o b
    BY DEF RemoveAt, a, b
  <1>5. /\ a \in Seq(S) /\ b \in Seq(S) /\ Len(a) = i - 1 /\ Len(b) = Len(s) - i
        /\ DOMAIN a = 1..(i - 1) /\ DOMAIN b = 1..(Len(s) - i)
    BY <1>2, <1>3, LenProperties DEF a, b
  <1>6. ASSUME NEW k \in DOMAIN t
        PROVE  \E j \in DOMAIN s \ {i} : t[k] = s[j]
    <2>1. CASE k \in DOMAIN a /\ t[k] = a[k]
      <3>1. k \in DOMAIN s \ {i} /\ a[k] = s[k]
        BY <1>1, <1>2, <1>5, <2>1 DEF a
      <3> QED
        BY <2>1, <3>1
    <2>2. CASE k - Len(a) \in DOMAIN b /\ t[k] = b[k - Len(a)]
      <3>1. PICK m \in 1..(Len(s) - i) : m = k - Len(a)
        BY <1>5, <2>2
      <3>2. i + m \in DOMAIN s \ {i} /\ b[m] = s[i + m]
        BY <1>1, <1>3, <3>1 DEF b
      <3> QED
        BY <2>2, <3>1, <3>2
    <2> QED
      BY <1>4, <1>5, <1>6, <2>1, <2>2, ConcatElements
  <1> QED
    BY <1>4, <1>5, <1>6, ConcatElements

----------------------------------------------------------------------------
(* What the steps make of the sequences of frames. *)

\* Discarding invents no frame.
LEMMA KeptFrames ==
  ASSUME inbox \in Seq(Messages)
  PROVE  /\ Kept \in Seq(Messages)
         /\ \A i \in DOMAIN Kept : \E j \in DOMAIN inbox : Kept[i] = inbox[j]
  <1> DEFINE L == Len(inbox)
             Step1(f, n) == IF n = 0 THEN <<>>
                           ELSE IF Stale(inbox[n]) THEN f[n - 1]
                           ELSE Append(f[n - 1], inbox[n])
             Runs == {n \in Nat : \E f : f = [k \in 0..n |-> Step1(f, k)]}
  <1>1. L \in Nat /\ DOMAIN inbox = 1..L
    BY LenProperties
  <1>2. 0 \in Runs
    <2>1. [k \in 0..0 |-> <<>>] = [k \in 0..0 |-> Step1([j \in 0..0 |-> <<>>], k)]
      OBVIOUS
    <2> QED
      BY <2>1
  <1>3. ASSUME NEW n \in Nat, n \in Runs
        PROVE  n + 1 \in Runs
    <2>1. PICK f : f = [k \in 0..n |-> Step1(f, k)]
      BY <1>3
    <2> DEFINE g == [k \in 0..(n + 1) |-> IF k <= n THEN f[k] ELSE Step1(f, k)]
    <2>2. ASSUME NEW k \in 0..(n + 1)
          PROVE  g[k] = Step1(g, k)
      <3>1. CASE k = 0
        BY <2>1, <3>1
      <3>2. CASE k # 0
        <4>1. k - 1 \in 0..n /\ k - 1 \in 0..(n + 1) /\ g[k - 1] = f[k - 1]
          BY <3>2
        <4>2. Step1(g, k) = Step1(f, k)
          BY <4>1, <3>2
        <4>3. g[k] = Step1(f, k)
          <5>1. CASE k <= n
            <6>1. k \in 0..n /\ g[k] = f[k]
              BY <5>1
            <6> HIDE DEF Step1
            <6> QED
              BY <6>1, <2>1
          <5>2. CASE ~(k <= n)
            BY <5>2
          <5> QED
            BY <5>1, <5>2
        <4> QED
          BY <4>2, <4>3
      <3> QED
        BY <3>1, <3>2
    <2> HIDE DEF Step1
    <2>3. g = [k \in 0..(n + 1) |-> Step1(g, k)]
      BY <2>2
    <2> HIDE DEF g
    <2>4. \E h : h = [k \in 0..(n + 1) |-> Step1(h, k)]
      BY <2>3
    <2>5. n + 1 \in Nat
      OBVIOUS
    <2> QED
      BY <2>4, <2>5
  <1> DEFINE F == CHOOSE f : f = [n \in 0..L |-> Step1(f, n)]
  <1>4. Nat \subseteq Runs
    <2> HIDE DEF Runs
    <2> QED
      BY <1>2, <1>3, SetInduction
  <1>5. F = [n \in 0..L |-> Step1(F, n)]
    <2>1. \E f : f = [n \in 0..L |-> Step1(f, n)]
      BY <1>1, <1>4
    <2> HIDE DEF Step1
    <2> QED
      BY <2>1
  <1>6. Kept = F[L]
    BY DEF Kept
  <1> HIDE DEF F
  <1> DEFINE Good == {n \in Nat : n <= L => /\ F[n] \in Seq(Messages)
                                           /\ \A i \in DOMAIN F[n] : \E j \in DOMAIN inbox : F[n][i] = inbox[j]}
  <1>7. 0 \in Good
    <2>1. F[0] = <<>>
      BY <1>1, <1>5
    <2>2. F[0] \in Seq(Messages) /\ DOMAIN F[0] = {}
      BY <2>1, EmptySeq
    <2> QED
      BY <2>2
  <1>8. ASSUME NEW n \in Nat, n \in Good
        PROVE  n + 1 \in Good
    <2> SUFFICES ASSUME n + 1 <= L
                 PROVE  /\ F[n + 1] \in Seq(Messages)
                        /\ \A i \in DOMAIN F[n + 1] : \E j \in DOMAIN inbox : F[n + 1][i] = inbox[j]
      OBVIOUS
    <2>1. n + 1 \in 0..L /\ n + 1 # 0 /\ (n + 1) - 1 = n /\ n <= L /\ n + 1 \in DOMAIN inbox
      BY <1>1
    <2>2. F[n + 1] = IF Stale(inbox[n + 1]) THEN F[n] ELSE Append(F[n], inbox[n + 1])
      BY <2>1, <1>5
    <2>3. /\ F[n] \in Seq(Messages) 
          /\ \A i \in DOMAIN F[n] : \E j \in DOMAIN inbox : F[n][i] = inbox[j]
      BY <1>8, <2>1
    <2>4. inbox[n + 1] \in Messages
      BY <2>1, ElementOfSeq, <1>1
    <2>5. CASE Stale(inbox[n + 1])
      BY <2>2, <2>3, <2>5
    <2>6. CASE ~Stale(inbox[n + 1])
      <3>1. F[n + 1] = Append(F[n], inbox[n + 1])
        BY <2>2, <2>6
      <3>2. F[n + 1] \in Seq(Messages) /\ Len(F[n + 1]) = Len(F[n]) + 1
        BY <3>1, <2>3, <2>4, AppendProperties
      <3>3. ASSUME NEW i \in DOMAIN F[n + 1]
            PROVE  \E j \in DOMAIN inbox : F[n + 1][i] = inbox[j]
        <4>1. i \in 1..(Len(F[n]) + 1) /\ DOMAIN F[n] = 1..Len(F[n]) /\ Len(F[n]) \in Nat
          BY <3>2, <2>3, LenProperties
        <4>2. CASE i = Len(F[n]) + 1
          <5>1. F[n + 1][i] = inbox[n + 1]
            BY <3>1, <4>2, <2>3, <2>4, AppendProperties
          <5> QED
            BY <5>1, <2>1
        <4>3. CASE i # Len(F[n]) + 1
          <5>1. i \in DOMAIN F[n]
            BY <4>1, <4>3
          <5>2. F[n + 1][i] = F[n][i]
            BY <3>1, <4>1, <5>1, <2>3, <2>4, AppendProperties
          <5> QED
            BY <5>1, <5>2, <2>3
        <4> QED
          BY <4>2, <4>3
      <3> QED
        BY <3>2, <3>3
    <2> QED
      BY <2>5, <2>6
  <1>9. Nat \subseteq Good
    <2> HIDE DEF Good
    <2> QED
      BY <1>7, <1>8, SetInduction
  <1> QED
    BY <1>1, <1>6, <1>9

LEMMA Constants ==
  /\ N \in Nat \ {0} /\ N <= 128 /\ Len(Parts) = N /\ DeadTime \in Nat
  /\ 255 \notin Indexes /\ \A i \in Indexes : i \in Nat /\ i < N
  BY PartsAssumption, CountAssumption DEF N, Indexes

LEMMA JobTypes ==
  ASSUME NEW j \in Jobs
  PROVE  /\ j.op \in {"devices", "params", "get", "set", "command"}
         /\ j.op = "set" => j.id \in Nat
         /\ j.op = "command" => j.id \in Commands
  BY RequestsAssumption DEF Jobs

LEMMA ItemTypes ==
  ASSUME Types
  PROVE  /\ EndMarker \in Messages /\ First(EndMarker) /\ EndMarker.index = 255
         /\ \A i \in Indexes, n \in Nat :
              /\ Item(i, n) \in Messages /\ Sane(Item(i, n)) /\ Item(i, n).index = i
              /\ First(Item(i, n)) => n = 1
         /\ \A kind \in {"TX", "INFO"} :
              InfoItem(kind) \in Messages /\ Sane(InfoItem(kind)) /\ ~First(InfoItem(kind))
  <1>1. EndMarker \in Messages /\ First(EndMarker) /\ EndMarker.index = 255
    BY DEF EndMarker, Messages, Item1, First
  <1>2. ASSUME NEW i \in Indexes, NEW n \in Nat
        PROVE  /\ Item(i, n) \in Messages /\ Sane(Item(i, n)) /\ Item(i, n).index = i
               /\ First(Item(i, n)) => n = 1
    <2>1. setting[i] \in Values /\ i \in Nat
      BY Constants DEF Types
    <2> QED
      BY <2>1 DEF Item, Messages, Item1, Sane, First
  <1>3. ASSUME NEW kind \in {"TX", "INFO"}
        PROVE  InfoItem(kind) \in Messages /\ Sane(InfoItem(kind)) /\ ~First(InfoItem(kind))
    <2>1. reports \in Nat
      BY Constants DEF Types
    <2> QED
      BY <2>1 DEF InfoItem, Messages, Info1, Sane, First
  <1> QED
    BY <1>1, <1>2, <1>3

\* What a frame is answered with.
LEMMA AnswerFrames ==
  ASSUME Types, NEW q \in Frames
  PROVE  /\ Answers(q) \in Seq(Messages)
         /\ \A i \in DOMAIN Answers(q) :
              /\ InRange(q) => Sane(Answers(q)[i])
              /\ First(Answers(q)[i]) =>
                   i = 1 /\ q.type = "READ" /\ Answers(q)[i] = FirstItem(q.id)
  <1>1. CASE q.type = "INFO"
    <2>1. Answers(q) = <<InfoItem("TX"), InfoItem("INFO")>>
      BY <1>1 DEF Answers
    <2> QED
      BY <2>1, ItemTypes
  <1>2. CASE q.type = "READ" /\ q.id < N
    <2>1. q.id \in Indexes
      BY <1>2, Constants DEF Frames, Indexes
    <2>2. Parts[q.id + 1] \in Nat
      BY <2>1, PartsAssumption, Constants, ElementOfSeq DEF Indexes
    <2>3. Answers(q) = [n \in 1..Parts[q.id + 1] |-> Item(q.id, n)]
      BY ONLY <1>2, Zenon DEF Answers
    <2>4. \A n \in 1..Parts[q.id + 1] : Item(q.id, n) \in Messages
      BY <2>1, <2>2, ItemTypes
    <2>5. Answers(q) \in Seq(Messages) /\ DOMAIN Answers(q) = 1..Parts[q.id + 1]
      BY <2>2, <2>3, <2>4, SeqDef
    <2>6. ASSUME NEW i \in DOMAIN Answers(q)
          PROVE  /\ Sane(Answers(q)[i])
                 /\ First(Answers(q)[i]) => i = 1 /\ Answers(q)[i] = FirstItem(q.id)
      <3>1. i \in Nat /\ Answers(q)[i] = Item(q.id, i)
        BY <2>2, <2>3, <2>5
      <3> QED
        BY <1>2, <2>1, <3>1, ItemTypes DEF FirstItem
    <2> QED
      BY <1>2, <2>5, <2>6
  <1>3. CASE q.type = "READ" /\ ~(q.id < N)
    <2>1. q.id >= N
      BY <1>3, Constants DEF Frames
    <2>2. Answers(q) = <<EndMarker>>
      BY <1>3, <2>1 DEF Answers
    <2> QED
      BY <1>3, <2>1, <2>2, ItemTypes DEF Sane, InRange, FirstItem
  <1>4. CASE q.type \notin {"INFO", "READ"}
    <2>1. Answers(q) = <<>>
      BY <1>4 DEF Answers
    <2> QED
      BY <2>1, EmptySeq
  <1> QED
    BY <1>1, <1>2, <1>3, <1>4

\* What comes in: frames of the answer to the first frame on its way, and its
\* first item at most once.
LEMMA ArrivalStep ==
  ASSUME Types, ModuleAnswers, NEW q, q = Head(toModule)
  PROVE  /\ q \in Frames /\ inbox' \in Seq(Messages)
         /\ \A i \in DOMAIN inbox' :
              \/ i \in DOMAIN inbox /\ inbox'[i] = inbox[i]
              \/ \E j \in DOMAIN Answers(q) : inbox'[i] = Answers(q)[j]
         /\ NoFirst => \A i, j \in DOMAIN inbox' :
                         First(inbox'[i]) /\ First(inbox'[j]) => i = j
  <1>1. q \in Frames
    BY HeadTailProperties DEF Types, ModuleAnswers
  <1>0. PICK count \in 0..Len(Answers(q)) :
          \E arrives \in [1..count -> DOMAIN Answers(q)] :
            /\ \A m, n \in 1..count : m < n => arrives[m] < arrives[n]
            /\ inbox' = inbox \o [n \in 1..count |-> Answers(q)[arrives[n]]]
    BY DEF ModuleAnswers
  <1>2. PICK arrives \in [1..count -> DOMAIN Answers(q)] :
          /\ \A m, n \in 1..count : m < n => arrives[m] < arrives[n]
          /\ inbox' = inbox \o [n \in 1..count |-> Answers(q)[arrives[n]]]
    BY <1>0
  <1> DEFINE new == [n \in 1..count |-> Answers(q)[arrives[n]]]
  <1>3. /\ Answers(q) \in Seq(Messages) /\ count \in Nat
        /\ \A i \in DOMAIN Answers(q) : Answers(q)[i] \in Messages
    BY <1>1, <1>2, AnswerFrames, LenProperties, ElementOfSeq
  <1>4. new \in Seq(Messages) /\ DOMAIN new = 1..count
    <2>1. \A n \in 1..count : Answers(q)[arrives[n]] \in Messages
      BY <1>2, <1>3
    <2> QED
      BY <1>3, <2>1, SeqDef
  <1>5. ASSUME NEW n \in DOMAIN new
        PROVE  arrives[n] \in DOMAIN Answers(q) /\ new[n] = Answers(q)[arrives[n]]
    BY <1>2, <1>4
  <1>6. ASSUME NEW m \in DOMAIN new, NEW n \in DOMAIN new, First(new[m]), First(new[n])
        PROVE  m = n
    <2>1. arrives[m] = 1 /\ arrives[n] = 1
      BY <1>1, <1>5, <1>6, AnswerFrames
    <2>2. m \in Nat /\ n \in Nat /\ ~(m < n) /\ ~(n < m)
      BY <1>2, <1>4, <2>1
    <2> QED
      BY <2>2
  <1>7. inbox \in Seq(Messages) /\ inbox' = inbox \o new
    BY <1>2 DEF Types
  <1> HIDE DEF new
  <1>8. /\ inbox' \in Seq(Messages) /\ Len(inbox) \in Nat
        /\ \A i \in DOMAIN inbox' :
             \/ i \in DOMAIN inbox /\ inbox'[i] = inbox[i]
             \/ i - Len(inbox) \in DOMAIN new /\ inbox'[i] = new[i - Len(inbox)]
    BY <1>4, <1>7, ConcatElements
  <1>9. ASSUME NoFirst, NEW i \in DOMAIN inbox', NEW j \in DOMAIN inbox',
               First(inbox'[i]), First(inbox'[j])
        PROVE  i = j
    <2>1. i \in Nat /\ j \in Nat
      BY <1>8, LenProperties
    <2>2. /\ i - Len(inbox) \in DOMAIN new /\ First(new[i - Len(inbox)])
          /\ j - Len(inbox) \in DOMAIN new /\ First(new[j - Len(inbox)])
      BY <1>8, <1>9 DEF NoFirst
    <2>3. i - Len(inbox) = j - Len(inbox)
      BY <1>6, <2>2
    <2> QED
      BY <1>8, <2>1, <2>3
  <1>10. ASSUME NEW i \in DOMAIN inbox', i - Len(inbox) \in DOMAIN new,
                inbox'[i] = new[i - Len(inbox)]
         PROVE  \E j \in DOMAIN Answers(q) : inbox'[i] = Answers(q)[j]
    BY <1>5, <1>10
  <1> QED
    BY <1>1, <1>8, <1>9, <1>10

----------------------------------------------------------------------------
(* Types and places. *)

\* The record of a parameter that was read.
LEMMA RecordTypes ==
  ASSUME Types, GotShape, pc = "read", stage \in {"list", "verify"}, ~AtEnd
  PROVE  Record \in Records /\ Record.index = index /\ Record.val = got[1].val /\ index \in Indexes
  <1>1. got \in Seq(Messages) /\ got # <<>>
    BY DEF Types, GotShape
  <1>2. Head(got) = got[1] /\ 1 \in DOMAIN got
    BY <1>1, TailElements
  <1>3. Sane(got[1]) /\ First(got[1]) /\ got[1].index = index /\ got[1] # EndMarker
    BY <1>1, <1>2 DEF GotShape, AtEnd
  <1> QED
    BY <1>2, <1>3 DEF Record, Records, Sane, First

LEMMA FrameTypes ==
  ASSUME Types, Places, pc = "send"
  PROVE  /\ Frame \in Frames
         /\ Frame.type = "READ" <=> stage \in {"list", "verify"}
         /\ stage \in {"list", "verify"} => Frame.id = index
         /\ Frame.type = "SET" <=> stage = "write"
         /\ Frame.type = "COMMAND" <=> stage = "run"
         /\ stage = "run" => Frame.id = job.id
  <1>1. index \in Nat /\ 0 \in Nat
    BY DEF Types
  <1>2. CASE stage = "info"
    BY <1>1, <1>2 DEF Frame, Frames
  <1>3. CASE stage \in {"list", "verify"}
    BY <1>1, <1>3 DEF Frame, Frames
  <1>4. CASE stage = "write"
    BY <1>4 DEF Frame, Frames, Places
  <1>5. CASE stage = "run"
    <2>1. job.id \in Commands
      BY <1>5, JobTypes DEF Places, Types
    <2> QED
      BY <1>5, <2>1 DEF Frame, Frames
  <1> QED
    BY <1>2, <1>3, <1>4, <1>5 DEF Types

\* What is taken from the frames that have come in.
LEMMA TakeStep ==
  ASSUME Types, Take
  PROVE  \E i \in DOMAIN inbox :
           /\ Wanted(inbox[i]) /\ inbox[i] \in Messages
           /\ got' = Append(got, inbox[i]) /\ got' \in Seq(Messages)
           /\ inbox' \in Seq(Messages)
           /\ \A k \in DOMAIN inbox' : \E j \in DOMAIN inbox \ {i} : inbox'[k] = inbox[j]
  <1>1. PICK i \in DOMAIN inbox :
          Wanted(inbox[i]) /\ got' = Append(got, inbox[i]) /\ inbox' = RemoveAt(inbox, i)
    BY DEF Take
  <1>2. inbox \in Seq(Messages) /\ got \in Seq(Messages)
    BY DEF Types
  <1>3. inbox[i] \in Messages
    BY <1>2, LenProperties, ElementOfSeq
  <1>4. got' \in Seq(Messages)
    BY <1>1, <1>2, <1>3, AppendElements
  <1>5. /\ inbox' \in Seq(Messages)
        /\ \A k \in DOMAIN inbox' : \E j \in DOMAIN inbox \ {i} : inbox'[k] = inbox[j]
    BY <1>1, <1>2, RemoveElements
  <1> QED
    BY <1>1, <1>3, <1>4, <1>5

LEMMA TypesStep ==
  ASSUME Types, Places, GotShape, [Next]_vars
  PROVE  Types'
  <1>0. <<>> \in Seq(Messages) /\ <<>> \in Seq(Records)
    BY EmptySeq
  <1>22. records \in Seq(Records) /\ index \in Nat /\ tries \in Nat
    BY DEF Types
  <1> USE DEF vars, client, link, module, time
  <1>1. CASE Request
    <2>1. /\ pc' \in {"clear", "found"} /\ stage' \in {stage, "info", "list"} /\ index' = 0 /\ got' = <<>>
      BY <1>1 DEF Request, GoTo
    <2>2. job' \in Jobs /\ requests' \in Nat
      BY <1>1 DEF Types, Request, Jobs
    <2>3. UNCHANGED <<records, tries, cache, late, link, module, time>>
      BY <1>1 DEF Request
    <2> QED
      BY <1>0, <2>1, <2>2, <2>3 DEF Types
  <1>2. CASE Clear
    BY <1>2, KeptFrames DEF Types, Clear
  <1>3. CASE Send
    <2>1. outbound' \in Seq(Frames)
      BY <1>3, FrameTypes, AppendElements DEF Types, Send
    <2> QED
      BY <1>3, <2>1 DEF Types, Send
  <1>4. CASE Take
    <2>1. got' \in Seq(Messages) /\ inbox' \in Seq(Messages)
      BY <1>4, TakeStep
    <2>2. pc' \in {"read", "wait"}
      BY <1>4 DEF Take
    <2> QED
      BY <1>4, <2>1, <2>2 DEF Types, Take
  <1>5. CASE InfoRead
    <2>1. /\ pc' \in {"idle", "clear"} /\ stage' \in {"info", "list"} /\ index' = 0 /\ got' = <<>>
          /\ (records' = records \/ records' = <<>>) /\ tries' \in {tries, 0}
      BY <1>5 DEF InfoRead, Answer, GoTo
    <2>2. UNCHANGED <<job, cache, requests, late, link, module, time>>
      BY <1>5 DEF InfoRead
    <2>3. index' \in Nat /\ records' \in Seq(Records) /\ tries' \in Nat
      <3>1. index' \in Nat /\ tries' \in Nat
        BY <1>22, <2>1
      <3>2. records' \in Seq(Records)
        BY <1>0, <1>22, <2>1
      <3> QED
        BY <3>1, <3>2
    <2> QED
      BY <1>0, <2>1, <2>2, <2>3 DEF Types
  <1>6. CASE ListRead
    <2>1. records' \in Seq(Records)
      <3>1. CASE AtEnd
        BY <1>6, <3>1 DEF Types, ListRead
      <3>2. CASE ~AtEnd
        <4>1. Record \in Records
          BY <1>6, <3>2, RecordTypes DEF ListRead
        <4> QED
          BY <1>6, <3>2, <4>1, AppendElements DEF Types, ListRead
      <3> QED
        BY <3>1, <3>2
    <2>2. /\ pc' \in {"found", "clear"} /\ stage' \in {stage, "list"} /\ index' \in {0, index + 1}
          /\ got' = <<>> /\ cache' \in {cache, records'}
      BY <1>6 DEF ListRead, GoTo
    <2>3. UNCHANGED <<job, tries, requests, late, link, module, time>>
      BY <1>6 DEF ListRead
    <2>4. index' \in Nat /\ (cache' = None \/ cache' \in Seq(Records))
      BY <2>1, <2>2 DEF Types
    <2> QED
      BY <1>0, <2>1, <2>2, <2>3, <2>4 DEF Types
  <1>7. CASE TimeOut
    <2>1. late' \in BOOLEAN
      <3>1. \A l \in BOOLEAN :
              (l \/ outbound # <<>> \/ toModule # <<>> \/ \E i \in DOMAIN inbox : Wanted(inbox[i]))
                \in BOOLEAN
        OBVIOUS
      <3> QED
        BY <1>7, <3>1, Zenon DEF TimeOut, Types
    <2>2. /\ pc' \in {"idle", "unverified"} /\ stage' \in {stage, "info"} /\ index' \in {0, index}
          /\ got' = <<>> /\ (records' = records \/ records' = <<>>) /\ tries' \in {tries, 0}
      BY <1>7 DEF TimeOut, Answer, GoTo
    <2>3. UNCHANGED <<job, cache, requests, link, module, time>>
      BY <1>7 DEF TimeOut
    <2>4. index' \in Nat /\ records' \in Seq(Records) /\ tries' \in Nat
      <3>1. index' \in Nat /\ tries' \in Nat
        BY <1>22, <2>2
      <3>2. records' \in Seq(Records)
        BY <1>0, <1>22, <2>2
      <3> QED
        BY <3>1, <3>2
    <2> QED
      BY <1>0, <2>1, <2>2, <2>3, <2>4 DEF Types
  <1>8. CASE AnswerFound
    <2>1. pc' = "idle" /\ stage' = "info" /\ index' = 0 /\ got' = <<>> /\ records' = <<>> /\ tries' = 0
      BY <1>8 DEF AnswerFound, Answer, GoTo
    <2>2. UNCHANGED <<job, cache, requests, late, link, module, time>>
      BY <1>8 DEF AnswerFound
    <2> QED
      BY <1>0, <2>1, <2>2 DEF Types
  <1>9. CASE StartWrite
    <2>1. job.id \in Nat
      BY <1>9, JobTypes DEF Types, StartWrite
    <2> QED
      BY <1>0, <1>9, <2>1 DEF Types, StartWrite, GoTo
  <1>10. CASE Written
    <2>1. job.id \in Nat
      BY <1>10, Constants DEF Places, Written
    <2> QED
      BY <1>0, <1>10, <2>1 DEF Types, Written, GoTo
  <1>11. CASE Verified
    BY <1>0, <1>11 DEF Types, Verified, Answer, GoTo
  <1>12. CASE NotVerified
    <2>1. /\ pc' \in {"idle", "clear"} /\ stage' \in {"info", "verify"} /\ index' \in {0, index}
          /\ got' = <<>> /\ (records' = records \/ records' = <<>>) /\ tries' \in {0, tries + 1}
      BY <1>12 DEF NotVerified, Answer, GoTo
    <2>2. UNCHANGED <<job, cache, requests, late, link, module, time>>
      BY <1>12 DEF NotVerified
    <2>3. index' \in Nat /\ records' \in Seq(Records) /\ tries' \in Nat
      <3>1. index' \in Nat /\ tries' \in Nat
        BY <1>22, <2>1
      <3>2. records' \in Seq(Records)
        BY <1>0, <1>22, <2>1
      <3> QED
        BY <3>1, <3>2
    <2> QED
      BY <1>0, <2>1, <2>2, <2>3 DEF Types
  <1>13. CASE Ask
    BY <1>0, <1>13 DEF Types, Ask, Answer, GoTo
  <1>14. CASE Refuse
    BY <1>0, <1>14 DEF Types, Refuse, Answer, GoTo
  <1>15. CASE Confirm
    BY <1>0, <1>15 DEF Types, Confirm, GoTo
  <1>16. CASE Ran
    BY <1>0, <1>16, Constants DEF Types, Ran, Answer, GoTo
  <1>17. CASE Tick
    BY <1>17, Constants DEF Types, Tick
  <1>18. CASE Slot
    <2>1. toModule' \in Seq(Frames) /\ <<>> \in Seq(Frames)
      BY <1>18, ConcatElements, EmptySeq DEF Types, Slot
    <2>2. quiet' \in 0..DeadTime
      BY <1>18, Constants DEF Types, Slot
    <2> QED
      BY <1>18, <2>1, <2>2 DEF Types, Slot
  <1>19. CASE ModuleAnswers
    <2>1. PICK q : q = Head(toModule)
      OBVIOUS
    <2>2. q \in Frames /\ inbox' \in Seq(Messages)
      BY <1>19, <2>1, ArrivalStep
    <2>3. toModule' \in Seq(Frames)
      BY <1>19, TailElements DEF Types, ModuleAnswers
    <2>4. setting' \in [Indexes -> Values]
      <3>1. setting' = IF q.type = "SET" THEN [setting EXCEPT ![q.id] = q.val] ELSE setting
        BY <1>19, <2>1 DEF ModuleAnswers
      <3>2. q.type = "SET" => q.val \in Values
        BY <2>2 DEF Frames
      <3> QED
        BY <3>1, <3>2 DEF Types
    <2> QED
      BY <1>19, <2>2, <2>3, <2>4 DEF Types, ModuleAnswers
  <1>20. CASE LoseFrame
    <2>1. toModule' \in Seq(Frames)
      BY <1>20, TailElements DEF Types, LoseFrame
    <2> QED
      BY <1>20, <2>1 DEF Types, LoseFrame
  <1>21. CASE UNCHANGED vars
    BY <1>21 DEF Types
  <1> QED
    BY <1>1, <1>2, <1>3, <1>4, <1>5, <1>6, <1>7, <1>8, <1>9, <1>10, <1>11, <1>12, <1>13,
       <1>14, <1>15, <1>16, <1>17, <1>18, <1>19, <1>20, <1>21 DEF Next, ClientStep

LEMMA PlacesStep ==
  ASSUME Types, Places, GotShape, [Next]_vars
  PROVE  Places'
  <1> USE DEF vars, client, link, module, time
  <1>1. CASE Request
    BY <1>1 DEF Types, Places, Request, GoTo
  <1>2. CASE Clear
    BY <1>2 DEF Places, Clear
  <1>3. CASE Send
    BY <1>3 DEF Types, Places, Send
  <1>4. CASE Take
    <2>1. pc' \in {"read", "wait"} /\ stage' = stage /\ pc = "wait"
      BY <1>4 DEF Take
    <2> QED
      BY <1>4, <2>1 DEF Places, Take
  <1>5. CASE InfoRead
    BY <1>5 DEF Places, InfoRead, Answer, GoTo
  <1>6. CASE ListRead
    <2>1. cache' \in Seq(Records) \/ pc' # "found"
      BY <1>6, TypesStep DEF Types, ListRead, GoTo
    <2> QED
      BY <1>6, <2>1 DEF Places, ListRead, GoTo
  <1>7. CASE TimeOut
    BY <1>7 DEF Places, TimeOut, Answer, GoTo
  <1>8. CASE AnswerFound
    BY <1>8 DEF Places, AnswerFound, Answer, GoTo
  <1>9. CASE StartWrite
    <2>1. PICK i \in DOMAIN cache : cache[i].index = job.id
      BY <1>9 DEF StartWrite, Found
    <2>2. cache \in Seq(Records)
      BY <1>9 DEF StartWrite, Found, Places
    <2>3. job.id \in Indexes
      <3>1. cache[i] \in Records
        BY <2>1, <2>2, LenProperties, ElementOfSeq
      <3> QED
        BY <2>1, <3>1 DEF Records
    <2> QED
      BY <1>9, <2>3 DEF Places, StartWrite, GoTo
  <1>10. CASE Written
    BY <1>10 DEF Places, Written, GoTo
  <1>11. CASE Verified
    BY <1>11 DEF Places, Verified, Answer, GoTo
  <1>12. CASE NotVerified
    BY <1>12 DEF Places, NotVerified, Answer, GoTo
  <1>13. CASE Ask
    BY <1>13 DEF Places, Ask, Answer, GoTo
  <1>14. CASE Refuse
    BY <1>14 DEF Places, Refuse, Answer, GoTo
  <1>15. CASE Confirm
    BY <1>15 DEF Places, Confirm, GoTo, Step
  <1>16. CASE Ran
    BY <1>16 DEF Places, Ran, Answer, GoTo
  <1>17. CASE Tick \/ Slot \/ ModuleAnswers \/ LoseFrame \/ UNCHANGED vars
    <2>1. UNCHANGED client
      BY <1>17 DEF Tick, Slot, ModuleAnswers, LoseFrame
    <2> QED
      BY <2>1 DEF Places
  <1> QED
    BY <1>1, <1>2, <1>3, <1>4, <1>5, <1>6, <1>7, <1>8, <1>9, <1>10, <1>11, <1>12, <1>13,
       <1>14, <1>15, <1>16, <1>17 DEF Next, ClientStep

----------------------------------------------------------------------------
(* The commands. *)

\* A step that is none of the command's own changes nothing of what is granted,
\* and starts no run.
LEMMA GrantedStep ==
  ASSUME Types, Places, Granted, [Next]_vars
  PROVE  Granted' /\ (pc' = "send" /\ stage' = "run" => job.id \in granted)
  <1> USE DEF vars, client, link, module, time
  <1>1. CASE Ask
    <2>1. job.id \in Commands
      BY <1>1, JobTypes DEF Ask, Step, Types
    <2>2. stage' = "info" /\ UNCHANGED job
      BY <1>1 DEF Ask, Answer, GoTo
    <2>3. awaiting' # None => awaiting' \in granted'
      BY <1>1 DEF Ask, Granted
    <2> QED
      BY <2>2, <2>3 DEF Granted
  <1>2. CASE Confirm
    <2>1. job.id \in Commands /\ awaiting = job.id /\ job.id # None
      BY <1>2, JobTypes, NoneAssumption DEF Confirm, Step, Types
    <2>2. awaiting' = None /\ stage' = "run" /\ UNCHANGED <<job, granted>>
      BY <1>2 DEF Confirm, GoTo
    <2> QED
      BY <2>1, <2>2 DEF Granted
  <1>3. CASE Ran
    <2>1. stage = "run" /\ stage' = "info" /\ granted' = granted \ {job.id}
          /\ UNCHANGED <<job, awaiting>>
      BY <1>3 DEF Ran, Answer, GoTo
    <2> QED
      BY <2>1 DEF Granted
  <1>4. CASE /\ UNCHANGED <<awaiting, granted>>
             /\ stage' # "run" \/ (stage = "run" /\ UNCHANGED job)
    BY <1>4 DEF Granted
  <1>5. CASE Request
    <2>1. stage' \in {stage, "info", "list"} /\ stage = "info" /\ UNCHANGED <<awaiting, granted>>
      BY <1>5 DEF Request, GoTo, Places
    <2> QED
      BY <1>4, <2>1
  <1>6. CASE Clear \/ Send \/ Take \/ Tick \/ Slot \/ ModuleAnswers \/ LoseFrame \/ UNCHANGED vars
    <2>1. UNCHANGED <<awaiting, granted, stage, job>>
      BY <1>6 DEF Clear, Send, Take, Tick, Slot, ModuleAnswers, LoseFrame
    <2> QED
      BY <1>4, <2>1
  <1>7. CASE InfoRead \/ AnswerFound \/ StartWrite \/ Written \/ Verified \/ NotVerified \/ Refuse
    <2>1. stage' # "run" /\ UNCHANGED <<awaiting, granted>>
      BY <1>7 DEF InfoRead, AnswerFound, StartWrite, Written, Verified, NotVerified, Refuse,
                  Answer, GoTo
    <2> QED
      BY <1>4, <2>1
  <1>8. CASE ListRead \/ TimeOut
    <2>1. stage # "run"
      BY <1>8 DEF ListRead, TimeOut, Places
    <2>2. stage' # "run" /\ UNCHANGED <<awaiting, granted>>
      BY <1>8, <2>1 DEF ListRead, TimeOut, Answer, GoTo
    <2> QED
      BY <1>4, <2>2
  <1> QED
    BY <1>1, <1>2, <1>3, <1>5, <1>6, <1>7, <1>8 DEF Next, ClientStep

\* Save leaves the queue while the thread waits for that, and the dead time starts
\* before the next frame is queued.
LEMMA QuietStep ==
  ASSUME Types, Places, Quiet, [Next]_vars
  PROVE  Quiet' /\ (outbound # <<>> /\ outbound' = <<>> => quiet = DeadTime)
  <1> USE DEF vars, client, link, module, time
  <1>0. /\ DeadTime \in Nat /\ dead \in Nat /\ dead <= DeadTime /\ quiet \in Nat /\ quiet <= DeadTime
        /\ outbound \in Seq(Frames)
    BY Constants DEF Types
  <1>1. CASE Send
    <2>1. quiet = DeadTime
      BY <1>0, <1>1 DEF Send, Quiet, Saving
    <2>2. outbound' = Append(outbound, Frame) /\ UNCHANGED <<dead, quiet, stage, job>>
      BY <1>1 DEF Send
    <2>3. Frame \in Frames
      BY <1>1, FrameTypes DEF Send
    <2>4. outbound' # <<>>
      BY <1>0, <2>2, <2>3, AppendElements
    <2>5. ASSUME NEW i \in DOMAIN outbound', IsSave(outbound'[i])
          PROVE  Saving'
      <3>1. ~(\E j \in DOMAIN outbound : IsSave(outbound[j]))
        BY <1>1 DEF Quiet, Saving, Send
      <3>2. IsSave(Frame)
        BY <1>0, <2>2, <2>3, <2>5, <3>1, AppendElements
      <3>3. stage = "run" /\ job.id = "Save"
        BY <1>1, <3>2, FrameTypes DEF IsSave, Send
      <3> QED
        BY <1>1, <2>2, <3>3 DEF Saving, Send
    <2> QED
      BY <1>0, <2>1, <2>2, <2>4, <2>5 DEF Quiet
  <1>2. CASE Slot
    <2>1. outbound # <<>> /\ outbound' = <<>> /\ quiet = DeadTime /\ UNCHANGED <<dead, pc, stage, job>>
      BY <1>2 DEF Slot, Quiet
    <2>2. CASE \E i \in DOMAIN outbound : IsSave(outbound[i])
      BY <2>1, <2>2, EmptySeq DEF Quiet, Saving
    <2>3. CASE ~(\E i \in DOMAIN outbound : IsSave(outbound[i]))
      <3>1. quiet' = quiet
        BY <1>2, <2>3 DEF Slot, IsSave
      <3> QED
        BY <1>0, <2>1, <3>1, EmptySeq DEF Quiet
    <2> QED
      BY <2>2, <2>3
  <1>3. CASE Tick
    <2>1. UNCHANGED <<outbound, pc, stage, job>>
      BY <1>3 DEF Tick
    <2>2. /\ dead' = IF dead > 0 THEN dead - 1 ELSE 0
          /\ quiet' = IF quiet < DeadTime THEN quiet + 1 ELSE quiet
      BY <1>3 DEF Tick
    <2>3. quiet = DeadTime => quiet' = DeadTime
      BY <1>0, <2>2
    <2>4. quiet + dead >= DeadTime => quiet' + dead' >= DeadTime
      BY <1>0, <2>2
    <2> QED
      BY <2>1, <2>3, <2>4 DEF Quiet, Saving
  <1>4. CASE Ran
    <2>1. outbound = <<>> /\ UNCHANGED <<outbound, quiet>>
      BY <1>4 DEF Ran
    <2>2. dead' = IF job.id = "Save" THEN DeadTime ELSE dead
      BY <1>4 DEF Ran
    <2>3. quiet' + dead' >= DeadTime
      BY <1>0, <2>1, <2>2 DEF Quiet, Saving
    <2> QED
      BY <2>1, <2>3, EmptySeq DEF Quiet
  <1>5. CASE /\ UNCHANGED <<outbound, dead, quiet>>
             /\ ~Saving \/ UNCHANGED <<pc, stage, job>>
    BY <1>5 DEF Quiet, Saving
  <1>6. CASE Clear \/ Take \/ ModuleAnswers \/ LoseFrame \/ UNCHANGED vars
    <2>1. UNCHANGED <<outbound, dead, quiet>> /\ (pc # "flush" \/ UNCHANGED <<pc, stage, job>>)
      BY <1>6 DEF Clear, Take, ModuleAnswers, LoseFrame
    <2> QED
      BY <1>5, <2>1 DEF Saving
  <1>7. CASE \/ Request \/ InfoRead \/ ListRead \/ TimeOut \/ AnswerFound \/ StartWrite \/ Written
             \/ Verified \/ NotVerified \/ Ask \/ Refuse \/ Confirm
    <2>1. UNCHANGED <<outbound, dead, quiet>>
      BY <1>7 DEF Request, InfoRead, ListRead, TimeOut, AnswerFound, StartWrite, Written,
                  Verified, NotVerified, Ask, Refuse, Confirm
    <2>2. ~Saving
      BY <1>7 DEF Request, InfoRead, ListRead, TimeOut, AnswerFound, StartWrite, Written,
                  Verified, NotVerified, Ask, Refuse, Confirm, Found, Step, Saving
    <2> QED
      BY <1>5, <2>1, <2>2
  <1> QED
    BY <1>1, <1>2, <1>3, <1>4, <1>6, <1>7 DEF Next, ClientStep

----------------------------------------------------------------------------
(* The frames, what is taken of them, and the lists that it makes. *)

LEMMA SameReports ==
  ASSUME [Next]_vars
  PROVE  reports' = reports
  BY DEF Next, ClientStep, vars, client, link, module, time, Request, Clear, Send, Take,
         InfoRead, ListRead, TimeOut, AnswerFound, StartWrite, Written, Verified, NotVerified,
         Ask, Refuse, Confirm, Ran, Tick, Slot, ModuleAnswers, LoseFrame

\* The steps of the thread that touch neither the link nor the module.
Local ==
  \/ Request \/ InfoRead \/ ListRead \/ TimeOut \/ AnswerFound \/ StartWrite \/ Written
  \/ Verified \/ NotVerified \/ Ask \/ Refuse \/ Confirm \/ Ran

\* They begin their stage anew.
LEMMA LocalStep ==
  ASSUME Local
  PROVE  /\ UNCHANGED <<link, module>> /\ got' = <<>> /\ pc' \notin {"wait", "read"}
         /\ pc = "wait" => TimeOut
         /\ ~TimeOut => late' = late
  <1> USE DEF vars, client, link, module, time
  <1>1. UNCHANGED <<link, module>>
    BY DEF Local, Request, InfoRead, ListRead, TimeOut, AnswerFound, StartWrite, Written,
           Verified, NotVerified, Ask, Refuse, Confirm, Ran
  <1>2. got' = <<>> /\ pc' \notin {"wait", "read"}
    BY DEF Local, Request, InfoRead, ListRead, TimeOut, AnswerFound, StartWrite, Written,
           Verified, NotVerified, Ask, Refuse, Confirm, Ran, Answer, GoTo
  <1>3. pc = "wait" => TimeOut
    BY DEF Local, Request, InfoRead, ListRead, AnswerFound, StartWrite, Written,
           Verified, NotVerified, Ask, Refuse, Confirm, Ran, Found, Step
  <1>4. ~TimeOut => late' = late
    BY DEF Local, Request, InfoRead, ListRead, AnswerFound, StartWrite, Written,
           Verified, NotVerified, Ask, Refuse, Confirm, Ran
  <1> QED
    BY <1>1, <1>2, <1>3, <1>4

LEMMA FramesSaneStep ==
  ASSUME Types, Places, FramesSane, ListShape, [Next]_vars
  PROVE  FramesSane'
  <1> USE DEF vars, client, link, module, time
  <1>0. /\ inbox \in Seq(Messages) /\ outbound \in Seq(Frames) /\ toModule \in Seq(Frames)
        /\ reports' = reports
    BY SameReports DEF Types
  <1>1. CASE Clear
    <2>1. \A i \in DOMAIN inbox' : Sane(inbox[i])'
      BY <1>0, <1>1, KeptFrames DEF FramesSane, Sane, Clear
    <2> QED
      BY <1>0, <1>1, <2>1 DEF FramesSane, InRange, Clear
  <1>2. CASE Take
    <2>1. \A i \in DOMAIN inbox' : Sane(inbox[i])'
      BY <1>0, <1>2, TakeStep DEF FramesSane, Sane
    <2> QED
      BY <1>0, <1>2, <2>1 DEF FramesSane, InRange, Take
  <1>3. CASE Send
    <2>1. Frame \in Frames /\ InRange(Frame)
      <3>1. stage \in {"list", "verify"} => (index >= N => reports = 0)
        BY <1>3, Constants DEF Types, Places, ListShape, Send
      <3> QED
        BY <1>3, <3>1, FrameTypes DEF InRange, Send
    <2>2. \A i \in DOMAIN outbound' : InRange(outbound'[i])
      BY <1>0, <1>3, <2>1, AppendElements DEF FramesSane, Send
    <2> QED
      BY <1>0, <1>3, <2>2 DEF FramesSane, Sane, InRange, Send
  <1>4. CASE Slot
    <2>1. \A i \in DOMAIN toModule' : InRange(toModule'[i])
      BY <1>0, <1>4, ConcatElements DEF FramesSane, Slot
    <2> QED
      BY <1>0, <1>4, <2>1, EmptySeq DEF FramesSane, Sane, InRange, Slot
  <1>5. CASE ModuleAnswers
    <2>1. PICK q : q = Head(toModule)
      OBVIOUS
    <2>2. toModule # <<>> /\ toModule' = Tail(toModule) /\ outbound' = outbound
      BY <1>5 DEF ModuleAnswers
    <2>3. InRange(q) /\ \A i \in DOMAIN toModule' : InRange(toModule'[i])
      BY <1>0, <2>1, <2>2, TailElements DEF FramesSane
    <2>4. \A i \in DOMAIN inbox' : Sane(inbox'[i])
      BY <1>5, <2>1, <2>3, ArrivalStep, AnswerFrames DEF FramesSane
    <2> QED
      BY <1>0, <2>2, <2>3, <2>4 DEF FramesSane, Sane, InRange
  <1>6. CASE LoseFrame
    <2>1. \A i \in DOMAIN toModule' : InRange(toModule'[i])
      BY <1>0, <1>6, TailElements DEF FramesSane, LoseFrame
    <2> QED
      BY <1>0, <1>6, <2>1 DEF FramesSane, Sane, InRange, LoseFrame
  <1>7. CASE Local \/ Tick \/ UNCHANGED vars
    <2>1. UNCHANGED link
      BY <1>7, LocalStep DEF Tick
    <2> QED
      BY <1>0, <2>1 DEF FramesSane, Sane, InRange
  <1> QED
    BY <1>1, <1>2, <1>3, <1>4, <1>5, <1>6, <1>7 DEF Next, ClientStep, Local

LEMMA GotShapeStep ==
  ASSUME Types, Places, FramesSane, GotShape, [Next]_vars
  PROVE  GotShape'
  <1> USE DEF vars, client, link, module, time
  <1>0. got \in Seq(Messages) /\ inbox \in Seq(Messages) /\ reports' = reports
    BY SameReports DEF Types
  <1>1. CASE Take
    <2>1. PICK i \in DOMAIN inbox :
            Wanted(inbox[i]) /\ inbox[i] \in Messages /\ got' = Append(got, inbox[i])
      BY <1>1, TakeStep
    <2>2. /\ pc = "wait" /\ stage' = stage /\ index' = index
          /\ pc' = IF Complete(got') THEN "read" ELSE "wait"
      BY <1>1 DEF Take
    <2>3. /\ Len(got) \in Nat /\ Len(got') = Len(got) + 1 /\ got' # <<>>
          /\ DOMAIN got = 1..Len(got) /\ DOMAIN got' = 1..(Len(got) + 1)
          /\ got'[Len(got) + 1] = inbox[i] /\ \A k \in DOMAIN got : got'[k] = got[k]
      BY <1>0, <2>1, AppendElements
    <2>4. \A k \in DOMAIN got' : Sane(got'[k])
      BY <2>3, <1>0 DEF FramesSane, GotShape
    <2>5. CASE stage = "info"
      <3>1. Len(got) < 2 /\ (Len(got) = 0 <=> got = <<>>)
        BY <1>0, <2>2, <2>3, <2>5, EmptySeq DEF GotShape
      <3>2. Len(got) = 1 => inbox[i].kind = "INFO"
        BY <2>1, <2>5, <3>1 DEF Wanted
      <3>3. pc' = "read" <=> Len(got') = 2
        BY <2>2, <2>5 DEF Complete
      <3> QED
        BY <1>0, <2>2, <2>3, <2>4, <2>5, <3>1, <3>2, <3>3 DEF GotShape, Sane
    <2>6. CASE stage \in {"list", "verify"}
      <3>1. CASE got = <<>>
        <4>1. got'[1] = inbox[i]
          BY <2>3, <3>1, EmptySeq
        <4>2. First(got'[1]) /\ (got'[1] = EndMarker \/ got'[1].index = index)
          <5>1. Len(got) = 0
            BY <3>1, EmptySeq
          <5> QED
            BY <2>1, <2>6, <4>1, <5>1, ItemTypes DEF Wanted, First
        <4> QED
          BY <1>0, <2>2, <2>3, <2>4, <2>6, <4>2 DEF GotShape, Sane, First
      <3>2. CASE got # <<>>
        <4>1. got'[1] = got[1]
          BY <1>0, <2>3, <3>2, TailElements
        <4> QED
          BY <1>0, <2>2, <2>3, <2>4, <2>6, <3>2, <4>1 DEF GotShape, Sane, First
      <3> QED
        BY <3>1, <3>2
    <2>7. CASE stage \notin {"info", "list", "verify"}
      BY <2>2, <2>7 DEF Places, Types
    <2> QED
      BY <2>5, <2>6, <2>7
  <1>2. CASE got' = <<>> /\ pc' # "read"
    <2>1. DOMAIN got' = {} /\ Len(got') = 0
      BY <1>2, EmptySeq
    <2> QED
      BY <1>2, <2>1 DEF GotShape
  <1>3. CASE UNCHANGED client
    BY <1>0, <1>3 DEF GotShape, Sane, First
  <1>4. CASE Clear \/ Send
    <2>1. got' = <<>> /\ pc' # "read"
      BY <1>4 DEF Clear, Send, Places
    <2> QED
      BY <1>2, <2>1
  <1>5. CASE Local
    BY <1>2, <1>5, LocalStep
  <1>6. CASE Tick \/ Slot \/ ModuleAnswers \/ LoseFrame \/ UNCHANGED vars
    BY <1>3, <1>6 DEF Tick, Slot, ModuleAnswers, LoseFrame
  <1> QED
    BY <1>1, <1>4, <1>5, <1>6 DEF Next, ClientStep, Local

LEMMA ListShapeStep ==
  ASSUME Types, Places, GotShape, ListShape, [Next]_vars
  PROVE  ListShape'
  <1> USE DEF vars, client, link, module, time
  <1>0. /\ records \in Seq(Records) /\ index \in Nat /\ reports' = reports /\ N \in Nat \ {0}
        /\ (records = <<>> => Len(records) = 0)
    BY SameReports, Constants, EmptySeq DEF Types
  <1>1. CASE Request
    <2>1. records = <<>> /\ stage = "info" /\ Len(records) = 0
      BY <1>0, <1>1 DEF Request, Places
    <2>2. UNCHANGED <<records, summary, cache>>
      BY <1>1 DEF Request
    <2>3. stage' = "list" => summary # None /\ index' = 0
      BY <1>1, <2>1 DEF Request, GoTo
    <2> QED
      BY <1>0, <2>1, <2>2, <2>3 DEF ListShape, InOrder
  <1>2. CASE InfoRead
    <2>1. records = <<>> /\ Len(records) = 0
      BY <1>0, <1>2 DEF InfoRead, Places
    <2>2. summary' = reports
      <3>1. got \in Seq(Messages) /\ Len(got) = 2 /\ got[2].kind = "INFO"
        BY <1>2 DEF InfoRead, GotShape, Types
      <3>2. Sane(got[2])
        BY <3>1, LenProperties DEF GotShape
      <3> QED
        BY <1>2, <3>1, <3>2 DEF InfoRead, Sane, EndMarker
    <2>3. /\ index' = 0 /\ stage' \in {"info", "list"} /\ cache' = cache
          /\ (records' = records \/ records' = <<>>)
      BY <1>2 DEF InfoRead, Answer, GoTo
    <2>4. records' = <<>> /\ Len(records') = 0 /\ DOMAIN records' = {}
      BY <2>1, <2>3, EmptySeq
    <2> QED
      BY <1>0, <2>2, <2>3, <2>4 DEF ListShape, InOrder
  <1>3. CASE ListRead
    <2>1. /\ stage = "list" /\ pc = "read" /\ summary = reports /\ index = Len(records)
          /\ (reports # 0 => index < N) /\ InOrder(records) /\ UNCHANGED summary
      BY <1>3 DEF ListRead, ListShape
    <2>2. CASE AtEnd
      <3>1. records' = records /\ cache' = records' /\ pc' = "found"
        BY <1>3, <2>2 DEF ListRead, GoTo
      <3> QED
        BY <1>0, <2>1, <3>1 DEF ListShape, InOrder
    <2>3. CASE ~AtEnd
      <3>1. Record \in Records /\ Record.index = index
        BY <2>1, <2>3, RecordTypes
      <3>2. records' = Append(records, Record)
        BY <1>3, <2>3 DEF ListRead
      <3>3. /\ Len(records') = Len(records) + 1 /\ Len(records) \in Nat
            /\ DOMAIN records = 1..Len(records) /\ DOMAIN records' = 1..(Len(records) + 1)
            /\ records'[Len(records) + 1] = Record
            /\ \A i \in DOMAIN records : records'[i] = records[i]
        BY <1>0, <3>1, <3>2, AppendElements
      <3>4. InOrder(records')
        <4>1. ASSUME NEW i \in DOMAIN records'
              PROVE  records'[i].index = i - 1
          <5>1. CASE i = Len(records) + 1
            BY <2>1, <3>1, <3>3, <5>1
          <5>2. CASE i \in DOMAIN records
            BY <2>1, <3>3, <5>2 DEF InOrder
          <5> QED
            BY <3>3, <5>1, <5>2
        <4> QED
          BY <4>1 DEF InOrder
      <3>5. CASE ListEnds
        <4>1. cache' = records' /\ pc' = "found"
          BY <1>3, <3>5 DEF ListRead, GoTo
        <4> QED
          BY <1>0, <2>1, <3>4, <4>1 DEF ListShape, InOrder
      <3>6. CASE ~ListEnds
        <4>1. cache' = cache /\ stage' = "list" /\ index' = index + 1
          BY <1>3, <2>3, <3>6 DEF ListRead, GoTo
        <4>2. reports # 0 => index + 1 < N
          <5>1. reports \in {0, N}
            BY DEF Types
          <5> QED
            BY <1>0, <2>1, <3>6, <5>1 DEF ListEnds
        <4> QED
          BY <1>0, <2>1, <3>3, <3>4, <4>1, <4>2 DEF ListShape, InOrder
      <3> QED
        BY <3>5, <3>6
    <2> QED
      BY <2>2, <2>3
  <1>4. CASE /\ records' = records \/ records' = <<>>
             /\ cache' = cache \/ cache' = None
             /\ summary' = summary \/ summary' = None
             /\ stage' # "list" \/ UNCHANGED <<stage, index, records, summary>>
             /\ pc = "found" => pc' = "found" \/ stage' # "list"
    <2>1. InOrder(records') /\ (cache' # None => InOrder(cache'))
      BY <1>4, EmptySeq DEF ListShape, InOrder
    <2> QED
      BY <1>0, <1>4, <2>1 DEF ListShape, InOrder
  <1>5. CASE TimeOut
    <2>1. stage' # "list" /\ (records' = records \/ records' = <<>>) /\ UNCHANGED <<summary, cache>>
      BY <1>5 DEF TimeOut, Answer, GoTo
    <2> QED
      BY <1>4, <2>1
  <1>6. CASE \/ AnswerFound \/ StartWrite \/ Written \/ Verified \/ NotVerified
             \/ Ask \/ Refuse \/ Confirm \/ Ran
    <2>1. /\ records' = records \/ records' = <<>>
          /\ cache' = cache \/ cache' = None
          /\ summary' = summary \/ summary' = None
          /\ stage' # "list"
      BY <1>6 DEF AnswerFound, StartWrite, Written, Verified, NotVerified, Ask, Refuse, Confirm,
                  Ran, Answer, GoTo
    <2> QED
      BY <1>4, <2>1
  <1>7. CASE Clear \/ Send \/ Take
    <2>1. UNCHANGED <<records, cache, summary, stage, index>> /\ pc # "found"
      BY <1>7 DEF Clear, Send, Take
    <2> QED
      BY <1>4, <2>1
  <1>8. CASE Tick \/ Slot \/ ModuleAnswers \/ LoseFrame \/ UNCHANGED vars
    <2>1. UNCHANGED client
      BY <1>8 DEF Tick, Slot, ModuleAnswers, LoseFrame
    <2> QED
      BY <1>4, <2>1
  <1> QED
    BY <1>1, <1>2, <1>3, <1>5, <1>6, <1>7, <1>8 DEF Next, ClientStep

----------------------------------------------------------------------------
(* As long as no answer was late. *)

\* Once late, always late; a request that gives up in time leaves nothing behind.
LEMMA LateStays ==
  ASSUME Types, [Next]_vars, ~late'
  PROVE  /\ ~late
         /\ TimeOut => /\ outbound = <<>> /\ toModule = <<>>
                       /\ \A i \in DOMAIN inbox : ~Wanted(inbox[i])
  <1>1. CASE TimeOut
    <2>1. late' = (late \/ outbound # <<>> \/ toModule # <<>> \/ \E i \in DOMAIN inbox : Wanted(inbox[i]))
      BY <1>1 DEF TimeOut
    <2> QED
      BY <2>1, Zenon DEF Types
  <1>2. CASE ~TimeOut
    <2>1. late' = late
      BY <1>2 DEF Next, ClientStep, vars, client, link, module, time, Request, Clear, Send, Take,
             InfoRead, ListRead, AnswerFound, StartWrite, Written, Verified, NotVerified,
             Ask, Refuse, Confirm, Ran, Tick, Slot, ModuleAnswers, LoseFrame
    <2> QED
      BY <1>2, <2>1
  <1> QED
    BY <1>1, <1>2

\* Nothing of a read is on its way when no read waits for its first item.
LEMMA Silence ==
  ASSUME OneQuery, OneAnswer, ~Expecting
  PROVE  NoFirst /\ NoRead(outbound) /\ NoRead(toModule)
  BY DEF OneQuery, OneAnswer, NoFirst, NoRead

LEMMA FirstWanted ==
  ASSUME Expecting, NEW m, First(m), m = FirstItem(index)
  PROVE  Wanted(m)
  <1>1. Len(got) = 0 /\ stage # "info"
    BY EmptySeq DEF Expecting
  <1> QED
    BY <1>1 DEF First, FirstItem, Item, Wanted

\* What is wanted of the answer to a read is its first item, to begin with.
LEMMA WantedFirst ==
  ASSUME Expecting, NEW m, Wanted(m)
  PROVE  First(m)
  <1>1. Len(got) = 0 /\ stage # "info"
    BY EmptySeq DEF Expecting
  <1> QED
    BY <1>1 DEF First, Wanted

\* What changes a setting is a write, and nobody knows the setting then.
LEMMA SettingStep ==
  ASSUME Types, ModuleAnswers, SetsOurs, OneQuery, OneAnswer
  PROVE  \/ setting' = setting
         \/ pc = "flush" /\ stage = "write" /\ NoFirst
         \/ stage = "verify" /\ pc \in {"clear", "send", "wait"} /\ got = <<>> /\ NoFirst
  <1>1. toModule # <<>> /\ toModule \in Seq(Frames)
    BY DEF Types, ModuleAnswers
  <1>2. Head(toModule) = toModule[1] /\ 1 \in DOMAIN toModule
    BY <1>1, TailElements
  <1>3. CASE Head(toModule).type = "SET"
    <2>1. ~NoSet(toModule)
      BY <1>2, <1>3 DEF NoSet
    <2> QED
      BY <2>1, Silence DEF SetsOurs, Expecting
  <1>4. CASE Head(toModule).type # "SET"
    BY <1>4 DEF ModuleAnswers
  <1> QED
    BY <1>3, <1>4

\* The step of the thread that begins a stage anew finds the link silent.
LEMMA LocalSilence ==
  ASSUME Types, Local, ~late', OneQuery, OneAnswer
  PROVE  NoFirst /\ NoRead(outbound) /\ NoRead(toModule)
  <1>1. CASE ~Expecting
    BY <1>1, Silence
  <1>2. CASE Expecting
    <2>1. TimeOut
      BY <1>2, LocalStep DEF Expecting
    <2>2. /\ outbound = <<>> /\ toModule = <<>>
          /\ \A i \in DOMAIN inbox : ~Wanted(inbox[i])
      BY <2>1, LateStays DEF Next, ClientStep
    <2>3. NoFirst
      BY <1>2, <2>2, FirstWanted DEF OneAnswer, NoFirst
    <2> QED
      BY <2>2, <2>3, EmptySeq DEF NoRead
  <1> QED
    BY <1>1, <1>2

\* The read under way has one query, or one answer, on its way, and what it takes
\* for its answer is that.
LEMMA QueriesStep ==
  ASSUME Types, Places, GotShape, OneQuery, OneAnswer, SetsOurs, GotTrue, [Next]_vars, ~late'
  PROVE  OneQuery' /\ OneAnswer' /\ GotTrue'
  <1> USE DEF vars, client, link, module, time
  <1>0. /\ inbox \in Seq(Messages) /\ outbound \in Seq(Frames) /\ toModule \in Seq(Frames)
        /\ got \in Seq(Messages)
    BY DEF Types
  <1>1. CASE NoFirst' /\ NoRead(outbound)' /\ NoRead(toModule)' /\ GotTrue'
    BY <1>1 DEF NoFirst, NoRead, OneQuery, OneAnswer
  <1>2. CASE Local
    <2>1. NoFirst' /\ NoRead(outbound)' /\ NoRead(toModule)'
      BY <1>2, LocalSilence, LocalStep DEF NoFirst, NoRead
    <2>2. GotTrue'
      BY <1>2, LocalStep DEF GotTrue
    <2> QED
      BY <1>1, <2>1, <2>2
  <1>3. CASE Clear
    <2>1. NoFirst /\ NoRead(outbound) /\ NoRead(toModule)
      BY <1>3, Silence DEF Clear, Expecting
    <2>2. NoFirst'
      BY <1>0, <1>3, <2>1, KeptFrames DEF NoFirst, Clear
    <2>3. NoRead(outbound)' /\ NoRead(toModule)' /\ GotTrue'
      BY <1>3, <2>1 DEF NoRead, GotTrue, Clear
    <2> QED
      BY <1>1, <2>2, <2>3
  <1>4. CASE Send
    <2>1. NoFirst /\ NoRead(outbound) /\ NoRead(toModule)
      BY <1>4, Silence DEF Send, Expecting
    <2>2. NoFirst' /\ NoRead(toModule)' /\ got' = <<>> /\ got = <<>>
      BY <1>4, <2>1 DEF NoFirst, NoRead, Send, Places
    <2>3. GotTrue'
      BY <2>2 DEF GotTrue
    <2>4. outbound' = Append(outbound, Frame) /\ Frame \in Frames
      BY <1>4, FrameTypes DEF Send
    <2>5. /\ Len(outbound') = Len(outbound) + 1 /\ Len(outbound) \in Nat
          /\ DOMAIN outbound = 1..Len(outbound) /\ DOMAIN outbound' = 1..(Len(outbound) + 1)
          /\ outbound'[Len(outbound) + 1] = Frame
          /\ \A i \in DOMAIN outbound : outbound'[i] = outbound[i]
      BY <1>0, <2>4, AppendElements
    <2>6. ASSUME NEW i \in DOMAIN outbound', outbound'[i].type = "READ"
          PROVE  i = Len(outbound') /\ outbound'[i].id = index' /\ Expecting'
      <3>1. i = Len(outbound) + 1 /\ Frame.type = "READ"
        BY <2>1, <2>5, <2>6 DEF NoRead
      <3>2. stage \in {"list", "verify"} /\ Frame.id = index
        BY <1>4, <3>1, FrameTypes DEF Send
      <3>3. Expecting' /\ index' = index
        BY <1>4, <2>2, <3>2 DEF Expecting, Send
      <3> QED
        BY <2>5, <3>1, <3>2, <3>3
    <2>7. OneQuery'
      BY <2>2, <2>6 DEF OneQuery, NoRead
    <2>8. OneAnswer'
      BY <2>2 DEF OneAnswer, NoFirst
    <2> QED
      BY <2>3, <2>7, <2>8
  <1>5. CASE Take
    <2>1. PICK i \in DOMAIN inbox :
            /\ Wanted(inbox[i]) /\ inbox[i] \in Messages /\ got' = Append(got, inbox[i])
            /\ \A k \in DOMAIN inbox' : \E j \in DOMAIN inbox \ {i} : inbox'[k] = inbox[j]
      BY <1>5, TakeStep
    <2>2. pc = "wait" /\ UNCHANGED <<stage, index, setting, outbound, toModule>>
      BY <1>5 DEF Take
    <2>3. NoRead(outbound) /\ NoRead(toModule) /\ \A j \in DOMAIN inbox \ {i} : ~First(inbox[j])
      <3>1. CASE Expecting
        <4>1. First(inbox[i])
          BY <2>1, <3>1, WantedFirst
        <4> QED
          BY <4>1 DEF OneAnswer
      <3>2. CASE ~Expecting
        BY <3>2, Silence DEF NoFirst
      <3> QED
        BY <3>1, <3>2
    <2>4. NoFirst' /\ NoRead(outbound)' /\ NoRead(toModule)'
      BY <2>1, <2>2, <2>3 DEF NoFirst, NoRead
    <2>5. GotTrue'
      <3> SUFFICES ASSUME stage \in {"list", "verify"}
                   PROVE  got'[1] = FirstItem(index)
        BY <2>2 DEF GotTrue, FirstItem, Item
      <3>1. CASE got = <<>>
        <4>1. Expecting
          BY <2>2, <3>1 DEF Expecting
        <4>2. First(inbox[i])
          BY <2>1, <4>1, WantedFirst
        <4>3. got'[1] = inbox[i]
          BY <1>0, <2>1, <3>1, AppendElements, EmptySeq
        <4> QED
          BY <4>2, <4>3 DEF OneAnswer
      <3>2. CASE got # <<>>
        <4>1. got'[1] = got[1]
          BY <1>0, <2>1, <3>2, AppendElements, TailElements
        <4> QED
          BY <2>2, <3>2, <4>1 DEF GotTrue
      <3> QED
        BY <3>1, <3>2
    <2> QED
      BY <1>1, <2>4, <2>5
  <1>6. CASE Slot
    <2>1. /\ UNCHANGED <<pc, stage, index, got, inbox, setting>>
          /\ outbound # <<>> /\ outbound' = <<>> /\ toModule' = toModule \o outbound
      BY <1>6 DEF Slot
    <2>2. /\ Len(toModule') = Len(toModule) + Len(outbound)
          /\ Len(toModule) \in Nat /\ Len(outbound) \in Nat
          /\ toModule' \in Seq(Frames)
          /\ \A i \in DOMAIN toModule' :
               \/ i \in DOMAIN toModule /\ toModule'[i] = toModule[i]
               \/ i - Len(toModule) \in DOMAIN outbound /\ toModule'[i] = outbound[i - Len(toModule)]
      BY <1>0, <2>1, ConcatElements
    <2>3. ASSUME NEW i \in DOMAIN toModule', toModule'[i].type = "READ"
          PROVE  i = Len(toModule') /\ toModule'[i].id = index /\ Expecting /\ NoFirst
      <3>1. ~(i \in DOMAIN toModule /\ toModule'[i] = toModule[i])
        BY <2>1, <2>3 DEF OneQuery
      <3>2. /\ i - Len(toModule) \in DOMAIN outbound
            /\ toModule'[i] = outbound[i - Len(toModule)]
        BY <2>2, <3>1
      <3>3. /\ i - Len(toModule) = Len(outbound) /\ toModule'[i].id = index
            /\ Expecting /\ NoFirst
        BY <2>3, <3>2 DEF OneQuery
      <3>4. i \in Nat
        BY <2>2, LenProperties
      <3> QED
        BY <2>2, <3>3, <3>4
    <2>4. OneQuery'
      <3>1. DOMAIN outbound' = {}
        BY <2>1, EmptySeq
      <3> QED
        BY <2>1, <2>3, <3>1 DEF OneQuery, Expecting, NoFirst
    <2>5. OneAnswer'
      <3>1. ASSUME NEW i \in DOMAIN inbox, First(inbox[i])
            PROVE  NoRead(toModule') /\ NoRead(outbound')
        BY <2>1, <2>3, <3>1, EmptySeq DEF NoRead, NoFirst
      <3> QED
        BY <2>1, <3>1 DEF OneAnswer, Expecting, FirstItem, Item
    <2>6. GotTrue'
      BY <2>1 DEF GotTrue, FirstItem, Item
    <2> QED
      BY <2>4, <2>5, <2>6
  <1>7. CASE ModuleAnswers
    <2>1. PICK q : q = Head(toModule)
      OBVIOUS
    <2>2. /\ UNCHANGED <<pc, stage, index, got, outbound>>
          /\ toModule # <<>> /\ toModule' = Tail(toModule)
      BY <1>7 DEF ModuleAnswers
    <2>3. /\ toModule' \in Seq(Frames) /\ Len(toModule') = Len(toModule) - 1
          /\ Len(toModule) \in Nat \ {0}
          /\ 1 \in DOMAIN toModule /\ q = toModule[1] /\ q \in Frames
          /\ \A i \in DOMAIN toModule' :
               i \in Nat \ {0} /\ i + 1 \in DOMAIN toModule /\ toModule'[i] = toModule[i + 1]
      BY <1>0, <2>1, <2>2, TailElements
    <2>4. /\ \A i \in DOMAIN inbox' :
               \/ i \in DOMAIN inbox /\ inbox'[i] = inbox[i]
               \/ \E j \in DOMAIN Answers(q) : inbox'[i] = Answers(q)[j]
          /\ NoFirst => \A i, j \in DOMAIN inbox' :
                          First(inbox'[i]) /\ First(inbox'[j]) => i = j
      BY <1>7, <2>1, ArrivalStep
    <2>5. ASSUME NEW j \in DOMAIN Answers(q), First(Answers(q)[j])
          PROVE  q.type = "READ" /\ Answers(q)[j] = FirstItem(q.id)
      BY <2>3, <2>5, AnswerFrames
    <2>6. CASE q.type = "READ"
      <3>1. Len(toModule) = 1 /\ outbound = <<>> /\ q.id = index /\ Expecting /\ NoFirst
        BY <2>3, <2>6 DEF OneQuery
      <3>2. toModule' = <<>>
        BY <2>3, <3>1, EmptySeq
      <3>3. setting' = setting
        BY <1>7, <2>1, <2>6 DEF ModuleAnswers
      <3>4. OneQuery'
        BY <2>2, <3>1, <3>2, EmptySeq DEF OneQuery
      <3>5. ASSUME NEW i \in DOMAIN inbox', First(inbox'[i])
            PROVE  inbox'[i] = FirstItem(index)
        BY <2>4, <2>5, <3>1, <3>5 DEF NoFirst
      <3>6. NoRead(outbound') /\ NoRead(toModule') /\ Expecting'
        BY <2>2, <3>1, <3>2, EmptySeq DEF NoRead, Expecting
      <3>7. OneAnswer'
        BY <2>2, <2>4, <3>1, <3>3, <3>5, <3>6 DEF OneAnswer, FirstItem, Item
      <3>8. GotTrue'
        BY <2>2, <3>1 DEF GotTrue, Expecting
      <3> QED
        BY <3>4, <3>7, <3>8
    <2>7. CASE q.type # "READ"
      <3>1. \A i \in DOMAIN inbox' : First(inbox'[i]) => i \in DOMAIN inbox /\ inbox'[i] = inbox[i]
        BY <2>4, <2>5, <2>7
      <3>2. NoFirst => NoFirst'
        BY <3>1 DEF NoFirst
      <3>3. \A i \in DOMAIN toModule' : toModule'[i].type = "READ" =>
              i = Len(toModule') /\ outbound = <<>> /\ toModule'[i].id = index /\ Expecting /\ NoFirst
        <4>1. ASSUME NEW i \in DOMAIN toModule', toModule'[i].type = "READ"
              PROVE  /\ i = Len(toModule') /\ outbound = <<>> /\ toModule'[i].id = index
                     /\ Expecting /\ NoFirst
          <5>1. /\ i + 1 = Len(toModule) /\ outbound = <<>> /\ toModule'[i].id = index
                /\ Expecting /\ NoFirst
            BY <2>3, <4>1 DEF OneQuery
          <5> QED
            BY <2>3, <5>1
        <4> QED
          BY <4>1
      <3>4. NoRead(toModule) => NoRead(toModule')
        BY <2>3 DEF NoRead
      <3>5. OneQuery'
        BY <2>2, <3>2, <3>3, <3>4 DEF OneQuery, Expecting
      <3>6. CASE setting' = setting
        <4>1. OneAnswer'
          BY <2>2, <3>1, <3>4, <3>6 DEF OneAnswer, Expecting, FirstItem, Item
        <4>2. GotTrue'
          BY <2>2, <3>6 DEF GotTrue, FirstItem, Item
        <4> QED
          BY <3>5, <4>1, <4>2
      <3>7. CASE setting' # setting
        <4>1. NoFirst' /\ (pc = "flush" \/ got = <<>>)
          BY <1>7, <3>2, <3>7, SettingStep
        <4>2. OneAnswer'
          BY <4>1 DEF OneAnswer, NoFirst
        <4>3. GotTrue'
          BY <2>2, <4>1 DEF GotTrue
        <4> QED
          BY <3>5, <4>2, <4>3
      <3> QED
        BY <3>6, <3>7
    <2> QED
      BY <2>6, <2>7
  <1>8. CASE LoseFrame
    <2>1. /\ UNCHANGED <<pc, stage, index, got, outbound, inbox, setting>>
          /\ toModule # <<>> /\ toModule' = Tail(toModule)
      BY <1>8 DEF LoseFrame
    <2>2. /\ Len(toModule') = Len(toModule) - 1 /\ Len(toModule) \in Nat \ {0}
          /\ \A i \in DOMAIN toModule' :
               i \in Nat \ {0} /\ i + 1 \in DOMAIN toModule /\ toModule'[i] = toModule[i + 1]
      BY <1>0, <2>1, TailElements
    <2>3. ASSUME NEW i \in DOMAIN toModule', toModule'[i].type = "READ"
          PROVE  /\ i = Len(toModule') /\ outbound = <<>> /\ toModule'[i].id = index
                 /\ Expecting /\ NoFirst
      <3>1. /\ i + 1 = Len(toModule) /\ outbound = <<>> /\ toModule'[i].id = index
            /\ Expecting /\ NoFirst
        BY <2>2, <2>3 DEF OneQuery
      <3> QED
        BY <2>2, <3>1
    <2>4. NoRead(toModule) => NoRead(toModule')
      BY <2>2 DEF NoRead
    <2>5. OneQuery'
      BY <2>1, <2>3, <2>4 DEF OneQuery, Expecting, NoFirst
    <2>6. OneAnswer' /\ GotTrue'
      BY <2>1, <2>4 DEF OneAnswer, GotTrue, Expecting, FirstItem, Item
    <2> QED
      BY <2>5, <2>6
  <1>9. CASE Tick \/ UNCHANGED vars
    <2>1. UNCHANGED <<client, link, module>>
      BY <1>9 DEF Tick
    <2> QED
      BY <2>1 DEF OneQuery, OneAnswer, GotTrue, Expecting, NoFirst, NoRead, FirstItem, Item
  <1> QED
    BY <1>2, <1>3, <1>4, <1>5, <1>6, <1>7, <1>8, <1>9 DEF Next, ClientStep, Local

\* No write of an earlier request, or one that its verification did not wait for,
\* reaches the module.
LEMMA SetsStep ==
  ASSUME Types, Places, OneQuery, OneAnswer, SetsOurs, [Next]_vars, ~late'
  PROVE  SetsOurs'
  <1> USE DEF vars, client, link, module, time
  <1>0. /\ inbox \in Seq(Messages) /\ outbound \in Seq(Frames) /\ toModule \in Seq(Frames)
    BY DEF Types
  <1>1. CASE TimeOut
    <2>1. outbound' = <<>> /\ toModule' = <<>>
      BY <1>1, LateStays DEF TimeOut
    <2> QED
      BY <2>1, EmptySeq DEF SetsOurs, NoSet
  <1>2. CASE Written
    <2>1. stage' = "verify" /\ pc' = "clear" /\ got' = <<>> /\ UNCHANGED inbox /\ ~Expecting
      BY <1>2 DEF Written, GoTo, Expecting
    <2> QED
      BY <2>1, Silence DEF SetsOurs, NoFirst
  <1>3. CASE Local /\ ~TimeOut /\ ~Written
    <2>1. pc = "flush" => Ran
      BY <1>3 DEF Local, Request, InfoRead, ListRead, AnswerFound, StartWrite,
           Verified, NotVerified, Ask, Refuse, Confirm, Found, Step
    <2>2. ~(pc = "flush" /\ stage = "write")
      BY <2>1 DEF Ran
    <2>3. pc \notin {"clear", "send", "wait"}
      BY <1>3 DEF Local, Request, InfoRead, ListRead, AnswerFound, StartWrite,
           Verified, NotVerified, Ask, Refuse, Confirm, Found, Step, Ran
    <2> QED
      BY <1>3, <2>2, <2>3, LocalStep DEF SetsOurs, NoSet
  <1>4. CASE Clear
    <2>1. pc = "clear" /\ pc' = "send" /\ UNCHANGED <<stage, got, outbound, toModule>>
      BY <1>4 DEF Clear
    <2>2. NoFirst => NoFirst'
      BY <1>0, <1>4, KeptFrames DEF NoFirst, Clear
    <2> QED
      BY <2>1, <2>2 DEF SetsOurs, NoSet
  <1>5. CASE Send
    <2>1. /\ pc = "send" /\ pc' = IF stage \in {"write", "run"} THEN "flush" ELSE "wait"
          /\ outbound' = Append(outbound, Frame) /\ UNCHANGED <<stage, got, inbox, toModule>>
      BY <1>5 DEF Send
    <2>2. Frame \in Frames /\ (Frame.type = "SET" <=> stage = "write")
      BY <2>1, FrameTypes
    <2>3. CASE stage = "write"
      BY <2>1, <2>3 DEF SetsOurs
    <2>4. CASE stage = "verify" /\ got = <<>> /\ NoFirst
      BY <2>1, <2>4 DEF SetsOurs, NoFirst
    <2>5. CASE stage # "write" /\ NoSet(outbound) /\ NoSet(toModule)
      <3>1. NoSet(outbound')
        BY <1>0, <2>1, <2>2, <2>5, AppendElements DEF NoSet
      <3> QED
        BY <2>1, <2>5, <3>1 DEF SetsOurs
    <2> QED
      BY <2>1, <2>3, <2>4, <2>5 DEF SetsOurs
  <1>6. CASE Take
    <2>1. PICK i \in DOMAIN inbox : Wanted(inbox[i])
      BY <1>6, TakeStep
    <2>2. pc = "wait" /\ UNCHANGED <<stage, outbound, toModule>>
      BY <1>6 DEF Take
    <2>3. ~(stage = "verify" /\ got = <<>> /\ NoFirst)
      BY <2>1, <2>2, WantedFirst DEF Expecting, NoFirst
    <2> QED
      BY <2>2, <2>3 DEF SetsOurs, NoSet
  <1>7. CASE Slot
    <2>1. /\ UNCHANGED <<pc, stage, got, inbox>>
          /\ outbound' = <<>> /\ toModule' = toModule \o outbound
      BY <1>7 DEF Slot
    <2>2. NoSet(outbound) /\ NoSet(toModule) => NoSet(outbound') /\ NoSet(toModule')
      <3>1. \A i \in DOMAIN toModule' :
              \/ i \in DOMAIN toModule /\ toModule'[i] = toModule[i]
              \/ i - Len(toModule) \in DOMAIN outbound /\ toModule'[i] = outbound[i - Len(toModule)]
        BY <1>0, <2>1, ConcatElements
      <3> QED
        BY <2>1, <3>1, EmptySeq DEF NoSet
    <2> QED
      BY <2>1, <2>2 DEF SetsOurs, NoFirst
  <1>8. CASE ModuleAnswers \/ LoseFrame
    <2>1. /\ UNCHANGED <<pc, stage, got, outbound>>
          /\ toModule # <<>> /\ toModule' = Tail(toModule)
      BY <1>8 DEF ModuleAnswers, LoseFrame
    <2>2. /\ Len(toModule') = Len(toModule) - 1 /\ Len(toModule) \in Nat \ {0}
          /\ toModule' \in Seq(Frames)
          /\ 1 \in DOMAIN toModule /\ Head(toModule) = toModule[1] /\ toModule[1] \in Frames
          /\ \A i \in DOMAIN toModule' :
               i \in Nat \ {0} /\ i + 1 \in DOMAIN toModule /\ toModule'[i] = toModule[i + 1]
      BY <1>0, <2>1, TailElements
    <2>3. NoSet(toModule) => NoSet(toModule')
      BY <2>2 DEF NoSet
    <2>4. CASE ModuleAnswers /\ Head(toModule).type = "READ"
      <3>1. Len(toModule) = 1 /\ outbound = <<>>
        BY <2>2, <2>4 DEF OneQuery
      <3>2. toModule' = <<>> /\ outbound' = <<>>
        BY <2>1, <2>2, <3>1, EmptySeq
      <3> QED
        BY <3>2, EmptySeq DEF SetsOurs, NoSet
    <2>5. CASE ModuleAnswers /\ Head(toModule).type # "READ"
      <3>1. PICK q : q = Head(toModule)
        OBVIOUS
      <3>2. \A i \in DOMAIN inbox' : First(inbox'[i]) => i \in DOMAIN inbox /\ inbox'[i] = inbox[i]
        BY <2>2, <2>5, <3>1, ArrivalStep, AnswerFrames
      <3>3. NoFirst => NoFirst'
        BY <3>2 DEF NoFirst
      <3> QED
        BY <2>1, <2>3, <3>3 DEF SetsOurs, NoSet
    <2>6. CASE LoseFrame
      <3>1. NoFirst => NoFirst'
        BY <2>6 DEF LoseFrame, NoFirst
      <3> QED
        BY <2>1, <2>3, <3>1 DEF SetsOurs, NoSet
    <2> QED
      BY <1>8, <2>4, <2>5, <2>6
  <1>9. CASE Tick \/ UNCHANGED vars
    <2>1. UNCHANGED <<client, link, module>>
      BY <1>9 DEF Tick
    <2> QED
      BY <2>1 DEF SetsOurs, NoSet, NoFirst
  <1> QED
    BY <1>1, <1>2, <1>3, <1>4, <1>5, <1>6, <1>7, <1>8, <1>9 DEF Next, ClientStep, Local

\* What was read of a parameter is its setting.
LEMMA TrueRecord ==
  ASSUME Types, GotShape, GotTrue, pc = "read", stage \in {"list", "verify"}, ~AtEnd
  PROVE  Record.val = setting[index]
  <1>1. got # <<>> /\ Record.val = got[1].val /\ index \in Indexes
    BY RecordTypes DEF GotShape
  <1>2. got[1] = FirstItem(index)
    BY <1>1 DEF GotTrue
  <1>3. index < N
    BY <1>1, Constants
  <1> QED
    BY <1>1, <1>2, <1>3 DEF FirstItem, Item

LEMMA RecordsStep ==
  ASSUME Types, Places, GotShape, OneQuery, OneAnswer, SetsOurs, GotTrue, RecordsFresh, [Next]_vars
  PROVE  RecordsFresh'
  <1> USE DEF vars, client, link, module, time
  <1>0. records \in Seq(Records)
    BY DEF Types
  <1>1. CASE stage' # "list" \/ records' = <<>>
    BY <1>1, EmptySeq DEF RecordsFresh
  <1>2. CASE UNCHANGED <<stage, records, setting>>
    BY <1>2 DEF RecordsFresh
  <1>3. CASE Request \/ InfoRead
    <2>1. records = <<>>
      BY <1>3 DEF Request, InfoRead, Places
    <2>2. records' = records \/ records' = <<>>
      BY <1>3 DEF Request, InfoRead, Answer
    <2> QED
      BY <1>1, <2>1, <2>2
  <1>4. CASE ListRead
    <2>1. stage = "list" /\ pc = "read" /\ setting' = setting
      BY <1>4 DEF ListRead
    <2>2. CASE AtEnd
      <3>1. records' = records
        BY <1>4, <2>2 DEF ListRead
      <3> QED
        BY <2>1, <3>1 DEF RecordsFresh
    <2>3. CASE ~AtEnd
      <3>1. Record \in Records /\ Record.index = index /\ Record.val = setting[index]
        BY <2>1, <2>3, RecordTypes, TrueRecord
      <3>2. records' = Append(records, Record)
        BY <1>4, <2>3 DEF ListRead
      <3>3. \A i \in DOMAIN records' : (i \in DOMAIN records /\ records'[i] = records[i])
                                         \/ records'[i] = Record
        BY <1>0, <3>1, <3>2, AppendElements
      <3> QED
        BY <2>1, <3>1, <3>3 DEF RecordsFresh
    <2> QED
      BY <2>2, <2>3
  <1>5. CASE Local /\ ~Request /\ ~InfoRead /\ ~ListRead
    <2>1. stage' # "list"
      BY <1>5 DEF Local, TimeOut, AnswerFound, StartWrite, Written, Verified, NotVerified, Ask,
                  Refuse, Confirm, Ran, Answer, GoTo
    <2> QED
      BY <1>1, <2>1
  <1>6. CASE ModuleAnswers
    <2>1. UNCHANGED <<stage, records>>
      BY <1>6 DEF ModuleAnswers
    <2> QED
      BY <1>1, <1>2, <1>6, <2>1, SettingStep
  <1>7. CASE Clear \/ Send \/ Take \/ Tick \/ Slot \/ LoseFrame \/ UNCHANGED vars
    <2>1. UNCHANGED <<stage, records, setting>>
      BY <1>7 DEF Clear, Send, Take, Tick, Slot, LoseFrame
    <2> QED
      BY <1>2, <2>1
  <1> QED
    BY <1>3, <1>4, <1>5, <1>6, <1>7 DEF Next, ClientStep, Local

LEMMA TimelyStep ==
  ASSUME Types, Places, GotShape, Timely, [Next]_vars
  PROVE  Timely'
  <1> SUFFICES ASSUME ~late'
               PROVE  OneQuery' /\ OneAnswer' /\ SetsOurs' /\ GotTrue' /\ RecordsFresh'
    BY DEF Timely
  <1>1. OneQuery /\ OneAnswer /\ SetsOurs /\ GotTrue /\ RecordsFresh
    BY LateStays DEF Timely
  <1> QED
    BY <1>1, QueriesStep, SetsStep, RecordsStep

----------------------------------------------------------------------------
(* What is kept and reported. *)

LEMMA ListCompleteStep ==
  ASSUME Types, Places, FramesSane, GotShape, ListShape, Timely, ListComplete, [Next]_vars
  PROVE  ListComplete'
  <1> USE DEF vars, client, link, module, time
  <1>0. /\ records \in Seq(Records) /\ index \in Nat /\ reports' = reports
        /\ N \in Nat \ {0} /\ N <= IndexLimit /\ IndexLimit \in Nat
        /\ Len(records) \in Nat /\ DOMAIN records = 1..Len(records)
    BY SameReports, Constants, LenProperties, PartsAssumption, CountAssumption DEF Types
  <1>1. CASE cache' = cache \/ cache' = None
    <2> SUFFICES ASSUME cache' = cache, cache # None, reports # 0 \/ ~late'
                 PROVE  Len(cache) = N /\ \A i \in DOMAIN cache : cache[i].index = i - 1
      BY <1>0, <1>1 DEF ListComplete
    <2>1. reports # 0 \/ ~late
      BY LateStays
    <2> QED
      BY <2>1 DEF ListComplete
  <1>2. CASE ListRead /\ cache' # cache
    <2>1. /\ stage = "list" /\ pc = "read" /\ late' = late /\ cache' = records'
          /\ summary = reports /\ index = Len(records) /\ (reports # 0 => index < N)
          /\ got # <<>>
      BY <1>2 DEF ListRead, ListShape, GotShape
    <2>2. InOrder(cache') \/ cache' = None
      BY ListShapeStep DEF ListShape
    <2>3. CASE AtEnd
      <3>1. records' = records
        BY <1>2, <2>3 DEF ListRead
      <3>2. got[1] = EndMarker
        <4>1. got \in Seq(Messages)
          BY DEF Types
        <4> QED
          BY <2>1, <2>3, <4>1, TailElements DEF AtEnd
      <3>3. reports = 0
        <4>1. Sane(got[1])
          <5>1. got \in Seq(Messages)
            BY DEF Types
          <5>2. 1 \in DOMAIN got
            BY <2>1, <5>1, TailElements
          <5> QED
            BY <5>2 DEF GotShape
        <4> QED
          BY <3>2, <4>1, Constants DEF Sane, EndMarker
      <3>4. ASSUME ~late
            PROVE  index = N
        <4>1. got[1] = FirstItem(index)
          BY <2>1, <3>4 DEF Timely, GotTrue
        <4>2. ~(index < N)
          BY <1>0, <3>2, <4>1, Constants DEF FirstItem, Item, EndMarker, Indexes
        <4>3. ~(N < index)
          <5> SUFFICES ASSUME N < index
                       PROVE  FALSE
            OBVIOUS
          <5>1. N + 1 \in DOMAIN records
            BY <1>0, <2>1
          <5>2. records[N + 1].index = (N + 1) - 1
            BY <5>1 DEF ListShape, InOrder
          <5>3. records[N + 1] \in Records
            BY <1>0, <5>1, ElementOfSeq
          <5> QED
            BY <1>0, <5>2, <5>3, Constants DEF Records
        <4> QED
          BY <1>0, <4>2, <4>3
      <3> QED
        BY <1>0, <2>1, <2>2, <3>1, <3>3, <3>4 DEF ListComplete, InOrder
    <2>4. CASE ~AtEnd
      <3>1. Record \in Records /\ index \in Indexes
        BY <2>1, <2>4, RecordTypes
      <3>2. records' = Append(records, Record) /\ ListEnds
        BY <1>2, <2>4 DEF ListRead
      <3>3. Len(records') = index + 1
        <4>1. records \in Seq(Records) /\ index = Len(records)
          BY <1>0, <2>1
        <4> QED
          BY <3>1, <3>2, <4>1, AppendElements
      <3>4. index + 1 = N
        <4>1. index < N /\ reports \in {0, N} /\ index \in Nat
          BY <1>0, <3>1, Constants DEF Types
        <4>2. CASE reports = 0
          <5>1. index + 1 = IndexLimit
            BY <2>1, <3>2, <4>2 DEF ListEnds
          <5> QED
            BY <1>0, <4>1, <5>1
        <4>3. CASE reports # 0
          BY <2>1, <3>2, <4>1, <4>3 DEF ListEnds
        <4> QED
          BY <4>2, <4>3
      <3> QED
        BY <2>1, <2>2, <3>3, <3>4 DEF ListComplete, InOrder
    <2> QED
      BY <2>3, <2>4
  <1>3. CASE ~ListRead
    <2>1. cache' = cache \/ cache' = None
      BY <1>3 DEF Next, ClientStep, Request, Clear, Send, Take, InfoRead, TimeOut, AnswerFound,
             StartWrite, Written, Verified, NotVerified, Ask, Refuse, Confirm, Ran, Tick, Slot,
             ModuleAnswers, LoseFrame
    <2> QED
      BY <1>1, <2>1
  <1> QED
    BY <1>1, <1>2, <1>3

LEMMA CacheFreshStep ==
  ASSUME Types, Places, GotShape, Timely, CacheFresh, [Next]_vars
  PROVE  CacheFresh'
  <1> USE DEF vars, client, link, module, time
  <1> SUFFICES ASSUME cache' # None, pc' # "flush", ~late'
               PROVE  \A i \in DOMAIN cache' : cache'[i].val = setting'[cache'[i].index]
    BY DEF CacheFresh
  <1>1. OneQuery /\ OneAnswer /\ SetsOurs /\ GotTrue /\ RecordsFresh /\ ~late
    BY LateStays DEF Timely
  <1>2. CASE pc # "flush" /\ UNCHANGED <<cache, setting>>
    BY <1>1, <1>2 DEF CacheFresh
  <1>3. CASE ListRead
    <2>1. CASE cache' = cache
      BY <1>2, <1>3, <2>1 DEF ListRead
    <2>2. CASE cache' # cache
      <3>1. cache' = records' /\ stage' = "list"
        BY <1>3, <2>2 DEF ListRead, GoTo
      <3> QED
        BY <1>1, <3>1, RecordsStep DEF RecordsFresh
    <2> QED
      BY <2>1, <2>2
  <1>4. CASE ModuleAnswers
    <2>1. UNCHANGED <<pc, stage, cache>>
      BY <1>4 DEF ModuleAnswers
    <2> QED
      BY <1>1, <1>2, <1>4, <2>1, SettingStep DEF Places
  <1>5. CASE Written \/ Ran
    BY <1>5 DEF Written, Ran
  <1>6. CASE \/ Request \/ InfoRead \/ TimeOut \/ AnswerFound \/ StartWrite \/ Verified
             \/ NotVerified \/ Ask \/ Refuse \/ Confirm
    <2>1. pc # "flush" /\ UNCHANGED <<cache, setting>>
      BY <1>6 DEF Request, InfoRead, TimeOut, AnswerFound, StartWrite, Verified, NotVerified, Ask,
                  Refuse, Confirm, Found, Step
    <2> QED
      BY <1>2, <2>1
  <1>7. CASE Clear \/ Send \/ Take \/ Tick \/ Slot \/ LoseFrame \/ UNCHANGED vars
    <2>1. (pc = "flush" => pc' = "flush") /\ UNCHANGED <<cache, setting>>
      BY <1>7 DEF Clear, Send, Take, Tick, Slot, LoseFrame
    <2> QED
      BY <1>2, <2>1
  <1> QED
    BY <1>3, <1>4, <1>5, <1>6, <1>7 DEF Next, ClientStep

LEMMA VerifiedStep ==
  ASSUME Types, Places, GotShape, Timely, VerifiedMeansSet, [Next]_vars
  PROVE  VerifiedMeansSet'
  <1> USE DEF vars, client, link, module, time
  <1> SUFFICES ASSUME pc' = "idle", reply' = "verified", ~late'
               PROVE  setting'[job'.id] = job'.arg
    BY DEF VerifiedMeansSet
  <1>1. OneQuery /\ OneAnswer /\ SetsOurs /\ GotTrue /\ RecordsFresh /\ ~late
    BY LateStays DEF Timely
  <1>2. CASE Verified
    <2>1. /\ stage = "verify" /\ pc = "read" /\ ~AtEnd /\ Record.val = job.arg
          /\ UNCHANGED <<job, setting>>
      BY <1>2 DEF Verified
    <2>2. index = job.id
      BY <2>1 DEF Places
    <2> QED
      BY <1>1, <2>1, <2>2, TrueRecord
  <1>3. CASE pc = "idle" /\ UNCHANGED <<reply, job, setting>>
    BY <1>1, <1>3 DEF VerifiedMeansSet
  <1>4. CASE ModuleAnswers
    <2>1. UNCHANGED <<pc, stage, reply, job>>
      BY <1>4 DEF ModuleAnswers
    <2> QED
      BY <1>1, <1>3, <1>4, <2>1, SettingStep
  <1>5. CASE Tick \/ Slot \/ LoseFrame \/ UNCHANGED vars
    <2>1. UNCHANGED <<pc, reply, job, setting>>
      BY <1>5 DEF Tick, Slot, LoseFrame
    <2> QED
      BY <1>3, <2>1
  <1>6. CASE Request \/ Clear \/ Send \/ Take \/ ListRead \/ StartWrite \/ Written \/ Confirm
    <2>1. pc' # "idle"
      BY <1>6 DEF Request, Clear, Send, Take, ListRead, StartWrite, Written, Confirm, GoTo
    <2> QED
      BY <2>1
  <1>7. CASE InfoRead \/ TimeOut \/ AnswerFound \/ NotVerified \/ Ask \/ Refuse \/ Ran
    <2>1. pc' = "idle" => reply' # "verified"
      BY <1>7 DEF InfoRead, TimeOut, AnswerFound, NotVerified, Ask, Refuse, Ran, Answer, GoTo
    <2> QED
      BY <2>1
  <1> QED
    BY <1>2, <1>4, <1>5, <1>6, <1>7 DEF Next, ClientStep

----------------------------------------------------------------------------
(* The invariant, and what it shows. *)

LEMMA InitIInv ==
  ASSUME Init
  PROVE  IInv
  <1>1. /\ inbox = <<>> /\ outbound = <<>> /\ toModule = <<>> /\ got = <<>> /\ records = <<>>
        /\ DOMAIN inbox = {} /\ DOMAIN outbound = {} /\ DOMAIN toModule = {} /\ DOMAIN got = {}
        /\ DOMAIN records = {} /\ Len(got) = 0
    BY EmptySeq DEF Init
  <1>2. /\ pc = "idle" /\ stage = "info" /\ summary = None /\ cache = None /\ awaiting = None
        /\ reply = None /\ dead = 0 /\ quiet = DeadTime
    BY DEF Init
  <1>3. Types
    <2>1. /\ index = 0 /\ tries = 0 /\ requests = 0 /\ late = FALSE /\ job = [op |-> "devices"]
          /\ setting \in [Indexes -> Values] /\ reports \in {0, N}
      BY DEF Init
    <2>2. /\ got \in Seq(Messages) /\ records \in Seq(Records) /\ inbox \in Seq(Messages)
          /\ outbound \in Seq(Frames) /\ toModule \in Seq(Frames)
      BY <1>1, EmptySeq
    <2>3. dead \in 0..DeadTime /\ quiet \in 0..DeadTime
      BY <1>2, Constants
    <2>4. job \in Jobs
      BY <2>1 DEF Jobs
    <2> QED
      BY <1>2, <2>1, <2>2, <2>3, <2>4 DEF Types
  <1>4. Places /\ Granted
    BY <1>1, <1>2 DEF Places, Granted
  <1>5. Quiet
    BY <1>1, <1>2, Constants DEF Quiet
  <1>6. FramesSane /\ GotShape /\ ListShape
    BY <1>1, <1>2 DEF FramesSane, GotShape, ListShape, InOrder
  <1>7. Timely
    BY <1>1, <1>2 DEF Timely, OneQuery, OneAnswer, SetsOurs, NoSet, GotTrue, RecordsFresh
  <1>8. ListComplete /\ CacheFresh
    BY <1>2 DEF ListComplete, CacheFresh
  <1>9. VerifiedMeansSet
    BY <1>2, NoneAssumption DEF VerifiedMeansSet
  <1> QED
    BY <1>3, <1>4, <1>5, <1>6, <1>7, <1>8, <1>9 DEF IInv

LEMMA NextIInv ==
  ASSUME IInv, [Next]_vars
  PROVE  IInv'
  <1>1. /\ Types /\ Places /\ Granted /\ Quiet /\ FramesSane /\ GotShape /\ ListShape
        /\ Timely /\ ListComplete /\ CacheFresh /\ VerifiedMeansSet
    BY DEF IInv
  <1>2. Types' /\ Places' /\ Granted' /\ Quiet'
    BY <1>1, TypesStep, PlacesStep, GrantedStep, QuietStep
  <1>3. FramesSane' /\ GotShape' /\ ListShape' /\ Timely'
    BY <1>1, FramesSaneStep, GotShapeStep, ListShapeStep, TimelyStep
  <1>4. ListComplete' /\ CacheFresh' /\ VerifiedMeansSet'
    BY <1>1, ListCompleteStep, CacheFreshStep, VerifiedStep
  <1> QED
    BY <1>2, <1>3, <1>4 DEF IInv

LEMMA Invariance == Spec => []IInv
  <1>1. Init => IInv
    BY InitIInv
  <1>2. IInv /\ [Next]_vars => IInv'
    BY NextIInv
  <1> QED
    BY <1>1, <1>2, PTL DEF Spec

\* Type correctness: every variable, and every frame on its way, is what its
\* declaration says, for any parameters and commands of the module.
THEOREM TypeCorrect == Spec => []Types
  BY Invariance, PTL DEF IInv

\* A list that is kept has every parameter once and in order, whatever frames are
\* lost, unless an answer was late (mlrs_backend.py:561); with the count of the
\* module known, even then (read_all, mlrs_backend.py:626).
THEOREM ListIsComplete == Spec => []ListComplete
  BY Invariance, PTL DEF IInv

\* What is answered from memory is what the module has, as long as no answer was
\* late: a write, lost or not, leaves no old value (mlrs_backend.py:703).
THEOREM CacheIsFresh == Spec => []CacheFresh
  BY Invariance, PTL DEF IInv

\* The write is not acknowledged and its frame may be lost: when its value was read
\* back the module has it (mlrs_backend.py:707).
THEOREM VerifiedIsSet == Spec => []VerifiedMeansSet
  BY Invariance, PTL DEF IInv

\* A command goes out only if it was started, at most once for each start and never
\* after a cancel (mlrs_backend.py:731).
THEOREM OnlyGrantedRun == Spec => RunsOnlyIfGranted
  <1>1. IInv /\ [Next]_vars => [pc' = "send" /\ stage' = "run" => job.id \in granted]_vars
    BY GrantedStep DEF IInv
  <1> QED
    BY <1>1, Invariance, PTL DEF Spec, RunsOnlyIfGranted

\* Once Save is on its way nothing is sent for the dead time, however late the main
\* loop took it and whatever request comes next (MLRS_SAVE_DEADTIME_S).
THEOREM SaveIsQuiet == Spec => QuietAfterSave
  <1>1. IInv /\ [Next]_vars => [outbound # <<>> /\ outbound' = <<>> => quiet = DeadTime]_vars
    BY QuietStep DEF IInv
  <1> QED
    BY <1>1, Invariance, PTL DEF Spec, QuietAfterSave
=============================================================================
