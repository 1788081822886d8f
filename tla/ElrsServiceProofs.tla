------------------------- MODULE ElrsServiceProofs -------------------------
(***************************************************************************)
(* ElrsService for all modules, tables of names, requests and changes: a   *)
(* request that nothing disturbs is served from the table of the module at *)
(* the line, and a name never acts on a parameter that has another name.   *)
(***************************************************************************)
EXTENDS ElrsService, SequenceTheorems, TLAPS

----------------------------------------------------------------------------
(* The inductive invariant. *)

\* Where the request is, and what it has: nothing is read before the device is
\* known, and only a parameter that was found is written.
Types ==
  /\ attached \in Modules \cup {None} /\ device \in Modules \cup {None}
  /\ pings \in Nat /\ inbound \in Seq(Modules)
  /\ pc \in {"idle", "discover", "read", "act"}
  /\ job \in Jobs
  /\ next \in Nat \ {0} /\ names \in Seq(STRING)
  /\ steady \in BOOLEAN /\ calm \in BOOLEAN
  /\ pc = "discover" => next = FirstNumber(job) /\ names = <<>>
  /\ pc \in {"read", "act"} => job.op # "devices" /\ device # None
  /\ pc = "act" => job \in ByName \cup ByNumber

\* The name of the parameter found is the name asked for, until the module changes.
NamedFound ==
  steady /\ attached # None /\ job \in ByName
    => /\ pc = "act" => Names[attached][next] = job.name
       /\ pc = "idle" /\ reply.ok => Names[attached][reply.number] = job.name

\* While nothing disturbs the request the device is the one at the line, and the
\* answer to its own ping is on its way, or the last frame that waits.
DeviceKnown ==
  calm => /\ attached # None
          /\ device \in {None, attached}
          /\ pc = "discover" => pings > 0 \/ (inbound # <<>> /\ Last(inbound) = attached)

\* The table of the module at the line.
Table == Names[attached]

\* What has been read is the table up to the parameter to read next, and the name
\* asked for was not among it.
ReadSoFar ==
  calm /\ pc \in {"read", "act"}
    => /\ job \in ByNumber => next = job.number
       /\ job \notin ByNumber => next \in 1 .. Len(Table)
       /\ job.op = "params" => Len(names) = next - 1
                               /\ \A i \in 1 .. (next - 1) : names[i] = Table[i]
       /\ job \in ByName => \A i \in 1 .. (next - 1) : Table[i] # job.name
       /\ pc = "act" => /\ next \in 1 .. Len(Table)
                        /\ job \in ByName => Table[next] = job.name

IInv == Types /\ NamedFound /\ DeviceKnown /\ ReadSoFar /\ UndisturbedServed

----------------------------------------------------------------------------
(* Kinds of requests, and what the operators say of them. *)

LEMMA Kinds ==
  ASSUME NEW j \in Jobs
  PROVE  /\ j.op = "devices" => j \notin ByName /\ j \notin ByNumber
         /\ j.op = "params" => j \notin ByName /\ j \notin ByNumber
         /\ j \in ByName => j \notin ByNumber
         /\ j.op \in {"devices", "params"} \/ j \in ByName \/ j \in ByNumber
         /\ j \in ByName => j.op \in {"get", "set"}
         /\ j \in ByNumber => j.op \in {"get", "set"} /\ j.number \in Nat \ {0}
  <1>1. j \in ByName => DOMAIN j = {"op", "name"} /\ j.op \in {"get", "set"}
    BY DEF ByName
  <1>2. j \in ByNumber => DOMAIN j = {"op", "number"} /\ j.op \in {"get", "set"} /\ j.number \in Numbers
    BY DEF ByNumber
  <1>3. j.op \in {"devices", "params"} \/ j \in ByName \/ j \in ByNumber
    BY DEF Jobs
  <1>4. {"op", "name"} # {"op", "number"}
    OBVIOUS
  <1>5. Numbers \subseteq Nat \ {0}
    BY NumbersAssumption
  <1> QED
    BY <1>1, <1>2, <1>3, <1>4, <1>5

LEMMA Tables ==
  ASSUME NEW m \in Modules
  PROVE  /\ Names[m] \in Seq(STRING) /\ Len(Names[m]) \in Nat \ {0} /\ m # None
         /\ DOMAIN Names[m] = 1 .. Len(Names[m])
         /\ \A i \in 1 .. Len(Names[m]) : Names[m][i] \in STRING
  <1>1. Names[m] \in Seq(STRING) /\ Len(Names[m]) >= 1 /\ m # None
    BY NamesAssumption, ModulesAssumption
  <1> QED
    BY <1>1, LenProperties, ElementOfSeq

\* The first one of the name.
Places(s, name) == {i \in 1 .. Len(s) : s[i] = name}

LEMMA FirstOfName ==
  ASSUME NEW s \in Seq(STRING), NEW k \in 1 .. Len(s), NEW name, s[k] = name,
         \A i \in 1 .. (k - 1) : s[i] # name
  PROVE  Places(s, name) # {} /\ Min(Places(s, name)) = k
  <1> DEFINE I == Places(s, name)
  <1>1. Len(s) \in Nat
    BY LenProperties
  <1>2. k \in I /\ \A i \in I : k <= i /\ i \in Nat
    BY <1>1 DEF Places
  <1>3. Min(I) = CHOOSE x \in I : \A y \in I : x <= y
    BY DEF Min
  <1> HIDE DEF I
  <1>4. Min(I) \in I /\ \A y \in I : Min(I) <= y
    BY <1>2, <1>3
  <1>5. PICK m \in Nat : m = Min(I)
    BY <1>2, <1>4
  <1>6. m <= k /\ k <= m
    BY <1>2, <1>4, <1>5
  <1>7. m = k
    BY <1>6
  <1>8. I # {}
    BY <1>2
  <1> QED
    BY <1>5, <1>7, <1>8 DEF I

\* What is due, request by request.
LEMMA Due ==
  ASSUME job \in Jobs, attached \in Modules
  PROVE  /\ job.op = "devices" => Expected = Listed(<<attached>>)
         /\ job.op = "params" => Expected = Listed(Table)
         /\ job \in ByNumber /\ job.number \in 1 .. Len(Table) => Expected = Parameter(job.number)
         /\ job \in ByNumber /\ job.number \notin 1 .. Len(Table) => Expected = Failed("timeout")
         /\ \A k \in 1 .. Len(Table) :
              job \in ByName /\ Table[k] = job.name /\ (\A i \in 1 .. (k - 1) : Table[i] # job.name)
                => Expected = Parameter(k)
         /\ job \in ByName /\ (\A i \in 1 .. Len(Table) : Table[i] # job.name)
              => Expected = Failed("not found")
  <1>0. DOMAIN Names[attached] = 1 .. Len(Names[attached]) /\ Names[attached] \in Seq(STRING)
    BY Tables
  <1>1. /\ job.op = "devices" => Expected = Listed(<<attached>>)
        /\ job.op = "params" => Expected = Listed(Table)
    BY Kinds DEF Expected, Table
  <1>2. job \in ByNumber => Expected = IF job.number \in DOMAIN Names[attached]
                                       THEN Parameter(job.number) ELSE Failed("timeout")
    BY Kinds DEF Expected
  <1>3. job \in ByName => Expected = IF \E i \in DOMAIN Names[attached] : Names[attached][i] = job.name
         THEN Parameter(SelectInSeq(Names[attached], LAMBDA n : n = job.name))
         ELSE Failed("not found")
    BY Kinds DEF Expected
  <1>4. ASSUME NEW k \in 1 .. Len(Table), job \in ByName, Table[k] = job.name,
               \A i \in 1 .. (k - 1) : Table[i] # job.name
        PROVE  Expected = Parameter(k)
    <2>0. Places(Table, job.name) # {} /\ Min(Places(Table, job.name)) = k
      BY <1>0, <1>4, FirstOfName DEF Table
    <2>1. SelectInSeq(Table, LAMBDA n : n = job.name) = k
      <3>1. SelectInSeq(Table, LAMBDA n : n = job.name)
              = IF Places(Table, job.name) # {} THEN Min(Places(Table, job.name)) ELSE 0
        BY DEF SelectInSeq, Places
      <3> QED
        BY <2>0, <3>1
    <2>2. \E i \in DOMAIN Names[attached] : Names[attached][i] = job.name
      BY <1>0, <1>4 DEF Table
    <2> QED
      BY <1>3, <1>4, <2>1, <2>2, Zenon DEF Table
  <1> QED
    BY <1>0, <1>1, <1>2, <1>3, <1>4 DEF Table
----------------------------------------------------------------------------
(* One step keeps each part. *)

LEMMA LastOfModules ==
  ASSUME NEW s \in Seq(Modules), s # <<>>
  PROVE  Last(s) \in Modules /\ Last(s) # None
  <1>1. Len(s) \in Nat /\ Len(s) # 0
    BY LenProperties, EmptySeq
  <1> QED
    BY <1>1, ElementOfSeq, ModulesAssumption DEF Last

LEMMA LastAppended ==
  ASSUME NEW s \in Seq(Modules), NEW m \in Modules
  PROVE  /\ Append(s, m) \in Seq(Modules) /\ Append(s, m) # <<>>
         /\ Last(Append(s, m)) = m
  BY AppendProperties DEF Last

LEMMA Appended ==
  ASSUME NEW S, NEW s \in Seq(S), NEW e \in S
  PROVE  /\ Append(s, e) \in Seq(S) /\ Len(Append(s, e)) = Len(s) + 1
         /\ \A i \in 1 .. Len(s) : Append(s, e)[i] = s[i]
         /\ Append(s, e)[Len(s) + 1] = e
  BY AppendProperties

LEMMA StringAppended ==
  ASSUME NEW s \in Seq(STRING), NEW e \in STRING
  PROVE  /\ Append(s, e) \in Seq(STRING) /\ Len(Append(s, e)) = Len(s) + 1
         /\ \A i \in 1 .. Len(s) : Append(s, e)[i] = s[i]
         /\ Append(s, e)[Len(s) + 1] = e
  <1>1. PICK S : S = STRING
    OBVIOUS
  <1>2. s \in Seq(S) /\ e \in S
    BY <1>1, Zenon
  <1>3. /\ Append(s, e) \in Seq(S) /\ Len(Append(s, e)) = Len(s) + 1
        /\ \A i \in 1 .. Len(s) : Append(s, e)[i] = s[i]
        /\ Append(s, e)[Len(s) + 1] = e
    BY <1>2, Appended
  <1> QED
    BY <1>1, <1>3, Zenon

LEMMA TypesStep ==
  ASSUME Types, Next
  PROVE  Types'
  <1> USE DEF line, vars
  <1>1. CASE Request
    <2>1. job' \in Jobs /\ pc' \in {"discover", "read"} /\ next' = FirstNumber(job') /\ names' = <<>>
      BY <1>1 DEF Request
    <2>2. next' \in Nat \ {0}
      BY <2>1, Kinds DEF FirstNumber
    <2>3. names' \in Seq(STRING)
      BY <2>1, EmptySeq
    <2>4. pings' \in Nat /\ attached' = attached /\ device' = device /\ inbound' = inbound
      BY <1>1 DEF Request, Types
    <2>5. pc' = "read" => job'.op # "devices" /\ device' # None
      BY <1>1 DEF Request
    <2>6. steady' \in BOOLEAN /\ calm' \in BOOLEAN
      BY <1>1, Zenon DEF Request
    <2> QED
      BY <2>1, <2>2, <2>3, <2>4, <2>5, <2>6 DEF Types
  <1>2. CASE Discovered
    <2>1. inbound' \in Seq(Modules) /\ UNCHANGED <<attached, pings, job, next, names, steady>>
      BY <1>2, EmptySeq DEF Discovered, Answer
    <2>2. calm' \in BOOLEAN
      BY <1>2, Zenon DEF Discovered
    <2>3. \/ pc' = "idle" /\ device' = device
          \/ pc' = "read" /\ inbound # <<>> /\ device' = Last(inbound) /\ job.op # "devices"
      BY <1>2, Zenon DEF Discovered, Answer
    <2>4. inbound # <<>> => Last(inbound) \in Modules /\ Last(inbound) # None
      BY LastOfModules DEF Types
    <2> QED
      BY <2>1, <2>2, <2>3, <2>4 DEF Types
  <1>3. CASE Read
    <2>1. /\ inbound' \in Seq(Modules)
          /\ UNCHANGED <<attached, device, pings, job, steady, calm>>
      BY <1>3, EmptySeq DEF Read
    <2>0. attached \in Modules /\ next <= Len(Names[attached]) /\ pc = "read"
      BY <1>3 DEF Read, Readable, Types
    <2>2. next \in 1 .. Len(Names[attached])
      BY <2>0, Tables DEF Types
    <2>3. Names[attached][next] \in STRING
      BY <2>0, <2>2, Tables
    <2>4. /\ next' \in {next, next + 1}
          /\ names' \in {names, Append(names, Names[attached][next])}
          /\ pc' = "idle" \/ (pc' = "act" /\ Found) \/ pc' = "read"
      BY <1>3 DEF Read, Answer
    <2>5. Found => job \in ByName \cup ByNumber
      BY DEF Found
    <2>6. names' \in Seq(STRING)
      BY <2>3, <2>4, StringAppended DEF Types
    <2> QED
      BY <2>0, <2>1, <2>4, <2>5, <2>6 DEF Types
  <1>4. CASE ReadTimesOut
    <2>1. /\ inbound' \in Seq(Modules) /\ pc' = "idle"
          /\ UNCHANGED <<attached, device, pings, job, next, names, steady>>
      BY <1>4, EmptySeq DEF ReadTimesOut, Answer
    <2>2. calm' \in BOOLEAN
      BY <1>4, Zenon DEF ReadTimesOut
    <2> QED
      BY <2>1, <2>2 DEF Types
  <1>5. CASE Write
    <2>1. /\ inbound' \in Seq(Modules) /\ pc' = "idle"
          /\ UNCHANGED <<attached, device, pings, job, next, names, steady, calm>>
      BY <1>5, EmptySeq DEF Write, Answer
    <2> QED
      BY <2>1 DEF Types
  <1>6. CASE PingAnswered
    <2>1. inbound' \in Seq(Modules) /\ pings' \in Nat
      BY <1>6, LastAppended DEF PingAnswered, Types
    <2> QED
      BY <1>6, <2>1 DEF PingAnswered, Types
  <1>7. CASE PingLost
    <2>1. pings' \in Nat
      BY <1>7 DEF PingLost, Types
    <2>2. UNCHANGED <<attached, device, inbound, pc, job, next, names, steady>> /\ calm' = FALSE
      BY <1>7 DEF PingLost
    <2> QED
      BY <2>1, <2>2 DEF Types
  <1>8. CASE Changed
    BY <1>8 DEF Changed, Types
  <1> QED
    BY <1>1, <1>2, <1>3, <1>4, <1>5, <1>6, <1>7, <1>8 DEF Next, Service

LEMMA NamedFoundStep ==
  ASSUME Types, NamedFound, Next
  PROVE  NamedFound'
  <1> USE DEF line, vars
  <1>1. CASE Request
    <2>1. pc' \in {"discover", "read"}
      BY <1>1 DEF Request
    <2> QED
      BY <2>1 DEF NamedFound
  <1>2. CASE Discovered
    <2>1. UNCHANGED <<attached, job, steady>>
      BY <1>2 DEF Discovered
    <2>2. pc' = "read" \/ (pc' = "idle" /\ (job.op = "devices" \/ reply' = Failed("no device")))
      BY <1>2, Zenon DEF Discovered, Answer
    <2>3. job.op = "devices" => job \notin ByName
      BY Kinds DEF Types
    <2>4. ~Failed("no device").ok
      BY DEF Failed
    <2> QED
      BY <2>1, <2>2, <2>3, <2>4 DEF NamedFound
  <1>3. CASE Read
    <2> SUFFICES ASSUME attached # None, job \in ByName
                 PROVE  NamedFound'
      BY <1>3 DEF Read, NamedFound
    <2>1. UNCHANGED <<attached, job, steady>>
      BY <1>3 DEF Read
    <2>2. job \notin ByNumber /\ job.op # "params"
      BY Kinds DEF Types
    <2>3. CASE Found
      <3>1. Names[attached][next] = job.name
        BY <2>2, <2>3 DEF Found
      <3>2. \/ pc' = "idle" /\ reply' = Parameter(next)
            \/ pc' = "act" /\ next' = next
        BY <1>3, <2>3, Zenon DEF Read, Answer
      <3>3. Parameter(next).number = next
        BY DEF Parameter
      <3> QED
        BY <2>1, <3>1, <3>2, <3>3 DEF NamedFound
    <2>4. CASE ~Found
      <3>1. pc' = "read" \/ (pc' = "idle" /\ reply' = Failed("not found"))
        BY <1>3, <2>2, <2>4 DEF Read, Answer
      <3>2. ~Failed("not found").ok
        BY DEF Failed
      <3> QED
        BY <2>1, <3>1, <3>2 DEF NamedFound
    <2> QED
      BY <2>3, <2>4
  <1>4. CASE ReadTimesOut
    <2>1. pc' = "idle" /\ ~reply'.ok
      BY <1>4 DEF ReadTimesOut, Answer, Failed
    <2> QED
      BY <2>1 DEF NamedFound
  <1>5. CASE Write
    <2>1. pc = "act" /\ pc' = "idle" /\ reply' = Parameter(next) /\ UNCHANGED <<attached, job, steady>>
      BY <1>5 DEF Write, Answer
    <2>2. Parameter(next).number = next
      BY DEF Parameter
    <2> QED
      BY <2>1, <2>2 DEF NamedFound
  <1>6. CASE PingAnswered
    BY <1>6 DEF PingAnswered, NamedFound
  <1>7. CASE PingLost
    BY <1>7 DEF PingLost, NamedFound
  <1>8. CASE Changed
    BY <1>8 DEF Changed, NamedFound
  <1> QED
    BY <1>1, <1>2, <1>3, <1>4, <1>5, <1>6, <1>7, <1>8 DEF Next, Service
\* A calm step leaves the module and the table at the line alone.
LEMMA CalmStep ==
  ASSUME Types, Next, calm', pc # "idle" \/ pc' = "idle"
  PROVE  calm /\ attached' = attached /\ Table' = Table
  <1> USE DEF line, vars
  <1>1. CASE Request
    BY <1>1 DEF Request
  <1>2. CASE Discovered
    BY <1>2, Zenon DEF Discovered, Table
  <1>3. CASE ReadTimesOut
    BY <1>3, Zenon DEF ReadTimesOut, Table
  <1>4. CASE Read \/ Write \/ PingAnswered
    BY <1>4 DEF Read, Write, PingAnswered, Table
  <1>5. CASE PingLost \/ Changed
    BY <1>5 DEF PingLost, Changed
  <1> QED
    BY <1>1, <1>2, <1>3, <1>4, <1>5 DEF Next, Service

LEMMA DeviceKnownStep ==
  ASSUME Types, DeviceKnown, Next
  PROVE  DeviceKnown'
  <1> USE DEF line, vars
  <1> SUFFICES ASSUME calm'
               PROVE  DeviceKnown'
    BY DEF DeviceKnown
  <1>1. CASE Request
    <2>1. attached' = attached /\ device' = device /\ attached # None /\ device \in {None, attached}
      BY <1>1, Zenon DEF Request
    <2>2. pc' = "discover" => pings' > 0
      BY <1>1 DEF Request, Types
    <2> QED
      BY <2>1, <2>2 DEF DeviceKnown
  <1>2. CASE Discovered
    <2>1. /\ calm /\ pings = 0 /\ pc = "discover" /\ attached' = attached
          /\ pc' # "discover"
          /\ device' = device \/ (inbound # <<>> /\ device' = Last(inbound))
      BY <1>2, Zenon DEF Discovered, Answer
    <2> QED
      BY <2>1 DEF DeviceKnown
  <1>3. CASE Read
    BY <1>3 DEF Read, Answer, DeviceKnown
  <1>4. CASE ReadTimesOut
    <2>1. calm /\ pc' = "idle" /\ attached' = attached /\ device' = device
      BY <1>4, Zenon DEF ReadTimesOut, Answer
    <2> QED
      BY <2>1 DEF DeviceKnown
  <1>5. CASE Write
    BY <1>5 DEF Write, Answer, DeviceKnown
  <1>6. CASE PingAnswered
    <2>1. attached \in Modules /\ inbound \in Seq(Modules)
      BY <1>6 DEF PingAnswered, Types
    <2>2. inbound' # <<>> /\ Last(inbound') = attached'
      BY <1>6, <2>1, LastAppended DEF PingAnswered
    <2> QED
      BY <1>6, <2>2 DEF PingAnswered, DeviceKnown
  <1>7. CASE PingLost \/ Changed
    BY <1>7 DEF PingLost, Changed
  <1> QED
    BY <1>1, <1>2, <1>3, <1>4, <1>5, <1>6, <1>7 DEF Next, Service

\* Before the first read.
LEMMA ReadStarts ==
  ASSUME NEW j \in Jobs, NEW m \in Modules
  PROVE  /\ j \in ByNumber => FirstNumber(j) = j.number
         /\ j \notin ByNumber => FirstNumber(j) = 1 /\ FirstNumber(j) \in 1 .. Len(Names[m])
         /\ j.op = "params" \/ j \in ByName => FirstNumber(j) = 1
  <1>1. j.op = "params" \/ j \in ByName => j \notin ByNumber
    BY Kinds
  <1>2. 1 \in 1 .. Len(Names[m])
    BY Tables
  <1> QED
    BY <1>1, <1>2 DEF FirstNumber

LEMMA ReadSoFarStep ==
  ASSUME Types, DeviceKnown, ReadSoFar, Next
  PROVE  ReadSoFar'
  <1> USE DEF line, vars
  <1> SUFFICES ASSUME calm', pc' \in {"read", "act"}
               PROVE  ReadSoFar'
    BY DEF ReadSoFar
  <1>0. Len(<<>>) = 0 /\ \A i : i \notin 1 .. 0
    BY EmptySeq
  <1>1. CASE Request
    <2>1. /\ attached' = attached /\ attached \in Modules /\ job' \in Jobs
          /\ next' = FirstNumber(job') /\ names' = <<>> /\ pc' = "read"
      BY <1>1 DEF Request, Types
    <2>2. /\ job' \in ByNumber => next' = job'.number
          /\ job' \notin ByNumber => next' \in 1 .. Len(Names[attached])
          /\ job'.op = "params" \/ job' \in ByName => next' = 1
      BY <2>1, ReadStarts
    <2> QED
      BY <1>0, <2>1, <2>2 DEF ReadSoFar, Table
  <1>2. CASE Discovered
    <2>1. /\ attached' = attached /\ job' = job /\ next' = next /\ names' = names
          /\ calm /\ pc = "discover" /\ pc' = "read"
      BY <1>2, Zenon DEF Discovered, Answer
    <2>2. attached \in Modules /\ next = FirstNumber(job) /\ names = <<>> /\ job \in Jobs
      BY <2>1 DEF Types, DeviceKnown
    <2>3. /\ job \in ByNumber => next = job.number
          /\ job \notin ByNumber => next \in 1 .. Len(Names[attached])
          /\ job.op = "params" \/ job \in ByName => next = 1
      BY <2>2, ReadStarts
    <2> QED
      BY <1>0, <2>1, <2>2, <2>3 DEF ReadSoFar, Table
  <1>3. CASE Read
    <2>1. /\ attached' = attached /\ job' = job /\ calm /\ pc = "read"
          /\ attached # None /\ next <= Len(Table)
      BY <1>3 DEF Read, Readable, Table
    <2>2. attached \in Modules /\ device = attached /\ job \in Jobs /\ next \in Nat \ {0}
            /\ names \in Seq(STRING)
      BY <2>1 DEF Types, DeviceKnown
    <2>3. Len(Table) \in Nat /\ \A i \in 1 .. Len(Table) : Table[i] \in STRING
      BY <2>2, Tables DEF Table
    <2>4. Table' = Table
      BY <2>1 DEF Table
    <2>5. next \in 1 .. Len(Table)
      BY <2>1, <2>2, <2>3
    <2>6. CASE Found
      <3>1. pc' = "act" /\ next' = next /\ names' = names
        BY <1>3, <2>6, Zenon DEF Read, Answer
      <3>2. job \in ByName => job \notin ByNumber
        BY <2>2, Kinds
      <3>3. job \in ByName => Table[next] = job.name
        BY <2>6, <3>2 DEF Found, Table
      <3> QED
        BY <2>1, <2>4, <2>5, <3>1, <3>3 DEF ReadSoFar
    <2>7. CASE ~Found
      <3>1. ~AtEnd /\ pc' = "read" /\ next' = next + 1 /\ names' = Append(names, Table[next])
        BY <1>3, <2>7, Zenon DEF Read, Answer, Table
      <3>2. job \notin ByNumber /\ (job \in ByName => Table[next] # job.name)
        BY <2>7 DEF Found, Table
      <3>3. next < Len(Table)
        BY <2>2, <2>3, <3>1, <3>2 DEF AtEnd, Table
      <3>4. next' \in 1 .. Len(Table)
        BY <2>2, <2>3, <3>1, <3>3
      <3>5. job.op = "params" => Len(names') = next' - 1
                                 /\ \A i \in 1 .. (next' - 1) : names'[i] = Table[i]
        <4> SUFFICES ASSUME job.op = "params"
                     PROVE  Len(names') = next' - 1
                            /\ \A i \in 1 .. (next' - 1) : names'[i] = Table[i]
          OBVIOUS
        <4>1. Len(names) = next - 1 /\ \A i \in 1 .. (next - 1) : names[i] = Table[i]
          BY <2>1 DEF ReadSoFar
        <4>2. /\ Len(names') = Len(names) + 1
              /\ \A i \in 1 .. Len(names) : names'[i] = names[i]
              /\ names'[Len(names) + 1] = Table[next]
          BY <2>2, <2>3, <2>5, <3>1, StringAppended
        <4> QED
          BY <2>2, <3>1, <4>1, <4>2
      <3>6. job \in ByName => \A i \in 1 .. (next' - 1) : Table[i] # job.name
        BY <2>1, <2>2, <3>1, <3>2 DEF ReadSoFar
      <3> QED
        BY <2>1, <2>4, <3>1, <3>2, <3>4, <3>5, <3>6 DEF ReadSoFar
    <2> QED
      BY <2>6, <2>7
  <1>4. CASE ReadTimesOut \/ Write
    BY <1>4 DEF ReadTimesOut, Write, Answer
  <1>5. CASE PingAnswered
    BY <1>5 DEF PingAnswered, ReadSoFar, Table
  <1>6. CASE PingLost \/ Changed
    BY <1>6 DEF PingLost, Changed
  <1> QED
    BY <1>1, <1>2, <1>3, <1>4, <1>5, <1>6 DEF Next, Service
LEMMA ServedStep ==
  ASSUME Types, DeviceKnown, ReadSoFar, UndisturbedServed, Next
  PROVE  UndisturbedServed'
  <1> USE DEF line, vars
  <1> SUFFICES ASSUME calm', pc' = "idle"
               PROVE  reply' = Expected'
    BY DEF UndisturbedServed
  <1>1. CASE Discovered
    <2>1. /\ calm /\ pings = 0 /\ pc = "discover" /\ attached' = attached /\ job' = job
          /\ \/ job.op = "devices"
                /\ reply' = Listed(IF inbound = <<>> THEN <<>> ELSE <<Last(inbound)>>)
             \/ inbound = <<>>
      BY <1>1, Zenon DEF Discovered, Answer
    <2>2. inbound # <<>> /\ Last(inbound) = attached /\ attached \in Modules /\ job \in Jobs
      BY <2>1 DEF DeviceKnown, Types
    <2>3. job.op = "devices" /\ reply' = Listed(<<attached>>)
      BY <2>1, <2>2, Zenon
    <2>4. Expected = Listed(<<attached>>)
      BY <2>2, <2>3, Due
    <2>5. Expected' = Expected
      BY <2>1 DEF Expected
    <2> QED
      BY <2>3, <2>4, <2>5
  <1>2. CASE Read
    <2>1. /\ attached' = attached /\ job' = job /\ calm /\ pc = "read"
          /\ attached # None /\ next <= Len(Table)
      BY <1>2 DEF Read, Readable, Table
    <2>2. attached \in Modules /\ device = attached /\ job \in Jobs /\ next \in Nat \ {0}
            /\ names \in Seq(STRING)
      BY <2>1 DEF Types, DeviceKnown
    <2>3. /\ Len(Table) \in Nat /\ Table \in Seq(STRING)
          /\ \A i \in 1 .. Len(Table) : Table[i] \in STRING
      BY <2>2, Tables DEF Table
    <2>4. next \in 1 .. Len(Table)
      BY <2>1, <2>2, <2>3
    <2>5. Expected' = Expected
      BY <2>1 DEF Expected
    <2>6. CASE Found
      <3>1. reply' = Parameter(next)
        BY <1>2, <2>6, Zenon DEF Read, Answer
      <3>2. CASE job \in ByNumber
        <4>1. next = job.number
          BY <2>1, <3>2 DEF ReadSoFar
        <4> QED
          BY <2>2, <2>4, <2>5, <3>1, <3>2, <4>1, Due
      <3>3. CASE job \notin ByNumber
        <4>1. job \in ByName /\ Table[next] = job.name
          BY <2>6, <3>3 DEF Found, Table
        <4>2. \A i \in 1 .. (next - 1) : Table[i] # job.name
          BY <2>1, <4>1 DEF ReadSoFar
        <4>3. Expected = Parameter(next)
          BY <2>2, <2>4, <4>1, <4>2, Due
        <4> QED
          BY <2>5, <3>1, <4>3
      <3> QED
        BY <3>2, <3>3
    <2>7. CASE ~Found
      <3>1. AtEnd /\ reply' = IF job.op = "params" THEN Listed(Append(names, Table[next]))
                                                  ELSE Failed("not found")
        BY <1>2, <2>1, <2>7, Zenon DEF Read, Answer, Table
      <3>2. job \notin ByNumber /\ (job \in ByName => Table[next] # job.name)
        BY <2>7 DEF Found, Table
      <3>3. next = Len(Table)
        <4>1. next >= Len(Table)
          BY <2>2, <3>1, Zenon DEF AtEnd, Table
        <4>2. next <= Len(Table)
          BY <2>1
        <4> QED
          BY <2>2, <2>3, <4>1, <4>2
      <3>4. CASE job.op = "params"
        <4>1. Len(names) = next - 1 /\ \A i \in 1 .. (next - 1) : names[i] = Table[i]
          BY <2>1, <3>4 DEF ReadSoFar
        <4> DEFINE read == Append(names, Table[next])
        <4>2. /\ read \in Seq(STRING) /\ Len(read) = Len(names) + 1
              /\ \A i \in 1 .. Len(names) : read[i] = names[i]
              /\ read[Len(names) + 1] = Table[next]
          BY <2>2, <2>3, <2>4, StringAppended
        <4> HIDE DEF read
        <4>3. Len(read) = Len(Table) /\ \A i \in 1 .. Len(read) : read[i] = Table[i]
          BY <2>2, <2>3, <3>3, <4>1, <4>2
        <4>4. read = Table
          BY <2>3, <4>2, <4>3, SeqEqual
        <4>5. reply' = Listed(Table)
          BY <3>1, <3>4, <4>4 DEF read
        <4>6. Expected = Listed(Table)
          BY <2>2, <3>4, Due
        <4> QED
          BY <2>5, <4>5, <4>6
      <3>5. CASE job.op # "params"
        <4>1. job \in ByName
          BY <2>1, <2>2, <3>2, <3>5, Kinds DEF Types
        <4>2. \A i \in 1 .. Len(Table) : Table[i] # job.name
          BY <2>1, <2>2, <3>2, <3>3, <4>1 DEF ReadSoFar
        <4>3. Expected = Failed("not found")
          BY <2>2, <4>1, <4>2, Due
        <4> QED
          BY <2>5, <3>1, <3>5, <4>3
      <3> QED
        BY <3>4, <3>5
    <2> QED
      BY <2>6, <2>7
  <1>3. CASE ReadTimesOut
    <2>1. /\ attached' = attached /\ job' = job /\ calm /\ pc = "read" /\ ~Readable
          /\ reply' = Failed("timeout")
      BY <1>3, Zenon DEF ReadTimesOut, Answer
    <2>2. attached \in Modules /\ job \in Jobs /\ next \in Nat \ {0}
      BY <2>1 DEF Types, DeviceKnown
    <2>3. Len(Table) \in Nat /\ next \notin 1 .. Len(Table)
      BY <2>1, <2>2, Tables, ModulesAssumption DEF Readable, Table
    <2>4. job \in ByNumber /\ job.number \notin 1 .. Len(Table)
      BY <2>1, <2>3 DEF ReadSoFar
    <2>5. Expected = Failed("timeout")
      BY <2>2, <2>4, Due
    <2>6. Expected' = Expected
      BY <2>1 DEF Expected
    <2> QED
      BY <2>1, <2>5, <2>6
  <1>4. CASE Write
    <2>1. /\ attached' = attached /\ job' = job /\ calm /\ pc = "act" /\ reply' = Parameter(next)
      BY <1>4 DEF Write, Answer
    <2>2. attached \in Modules /\ job \in Jobs /\ job \in ByName \cup ByNumber
      BY <2>1 DEF Types, DeviceKnown
    <2>3. /\ next \in 1 .. Len(Table)
          /\ job \in ByNumber => next = job.number
          /\ job \in ByName => Table[next] = job.name
                               /\ \A i \in 1 .. (next - 1) : Table[i] # job.name
      BY <2>1 DEF ReadSoFar
    <2>4. Expected = Parameter(next)
      <3>1. CASE job \in ByNumber
        BY <2>2, <2>3, <3>1, Due
      <3>2. CASE job \in ByName
        BY <2>2, <2>3, <3>2, Due
      <3> QED
        BY <2>2, <3>1, <3>2
    <2>5. Expected' = Expected
      BY <2>1 DEF Expected
    <2> QED
      BY <2>1, <2>4, <2>5
  <1>5. CASE PingAnswered
    <2>1. calm /\ pc = "idle" /\ reply' = reply /\ attached' = attached /\ job' = job
      BY <1>5 DEF PingAnswered
    <2>2. Expected' = Expected
      BY <2>1 DEF Expected
    <2> QED
      BY <2>1, <2>2 DEF UndisturbedServed
  <1>6. CASE Request \/ PingLost \/ Changed
    BY <1>6 DEF Request, PingLost, Changed
  <1> QED
    BY <1>1, <1>2, <1>3, <1>4, <1>5, <1>6 DEF Next, Service

----------------------------------------------------------------------------
(* The theorems. *)

LEMMA InitIInv == Init => IInv
  <1> SUFFICES ASSUME Init
               PROVE  IInv
    OBVIOUS
  <1>1. job = [op |-> "devices"] /\ job \in Jobs /\ job.op = "devices"
    BY DEF Init, Jobs
  <1>2. job \notin ByName
    BY <1>1, Kinds
  <1>3. Types
    <2>1. inbound \in Seq(Modules) /\ names \in Seq(STRING) /\ pings \in Nat /\ next \in Nat \ {0}
      BY EmptySeq DEF Init
    <2>2. /\ attached \in Modules \cup {None} /\ device \in Modules \cup {None} /\ pc = "idle"
          /\ steady \in BOOLEAN /\ calm \in BOOLEAN
      BY DEF Init
    <2> QED
      BY <1>1, <2>1, <2>2 DEF Types
  <1>4. NamedFound /\ DeviceKnown /\ ReadSoFar /\ UndisturbedServed
    BY <1>2 DEF Init, NamedFound, DeviceKnown, ReadSoFar, UndisturbedServed
  <1> QED
    BY <1>3, <1>4 DEF IInv

LEMMA NextIInv == IInv /\ [Next]_vars => IInv'
  <1> SUFFICES ASSUME IInv, [Next]_vars
               PROVE  IInv'
    OBVIOUS
  <1>1. CASE Next
    <2>1. Types' /\ NamedFound' /\ DeviceKnown'
      BY <1>1, TypesStep, NamedFoundStep, DeviceKnownStep DEF IInv
    <2>2. ReadSoFar' /\ UndisturbedServed'
      BY <1>1, ReadSoFarStep, ServedStep DEF IInv
    <2> QED
      BY <2>1, <2>2 DEF IInv
  <1>2. CASE UNCHANGED vars
    <2> USE <1>2 DEF vars, line
    <2>1. Types'
      BY DEF IInv, Types
    <2>2. NamedFound' /\ DeviceKnown'
      BY DEF IInv, NamedFound, DeviceKnown
    <2>3. ReadSoFar'
      BY DEF IInv, ReadSoFar, Table
    <2>4. UndisturbedServed'
      <3>1. Expected' = Expected
        BY DEF Expected
      <3> QED
        BY <3>1 DEF IInv, UndisturbedServed
    <2> QED
      BY <2>1, <2>2, <2>3, <2>4 DEF IInv
  <1> QED
    BY <1>1, <1>2

LEMMA Invariance == Spec => []IInv
  BY InitIInv, NextIInv, PTL DEF Spec

\* execute, discover, read_all and find: a request that nothing disturbs is served
\* from the table of the module at the line, for any modules, tables and requests, and
\* after any history: lost answers, timeouts and changes of the module before it.
THEOREM UndisturbedIsServed == Spec => []UndisturbedServed
  <1>1. IInv => UndisturbedServed
    BY DEF IInv
  <1> QED
    BY <1>1, Invariance, PTL

\* find and write: with the device of another module kept too, a get or set by name is
\* answered for a parameter that has this name on the module at the line.
THEOREM NameIsActedOn == Spec => []NamedActedOn
  <1>1. IInv => NamedActedOn
    BY DEF IInv, NamedFound, NamedActedOn
  <1> QED
    BY <1>1, Invariance, PTL
=============================================================================
