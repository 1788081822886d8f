------------------------ MODULE ParameterClientProofs ------------------------
(***************************************************************************)
(* The configuration path for any set of values, size of the entry, number *)
(* of resends, writes and requests: a step is carried out once, an entry   *)
(* is read in order, and, under the conditions that the README gives, each *)
(* answer is that of its own read and a verified value is the module's.    *)
(***************************************************************************)
EXTENDS ParameterClient, SequenceTheorems, TLAPS

----------------------------------------------------------------------------
(* Types. *)

Ids == {"setting", "command"}

\* Frames to the module: reads, writes of the setting and steps of the COMMAND.
ReadFrames == [type : {"READ"}, id : Ids, value : 0..(Chunks - 1), by : Nat]
SetFrames == [type : {"WRITE"}, id : {"setting"}, value : Values, by : Nat]
StepFrames == [type : {"WRITE"}, id : {"command"}, value : Steps \cup {"POLL"}, by : Nat]
Queries == ReadFrames \cup SetFrames \cup StepFrames

\* Its answers: the part of an entry and what is left behind it make up the whole.
Entries ==
  {f \in [type : {"ENTRY"}, id : Ids, part : 0..(Chunks - 1), left : 0..(Chunks - 1),
          val : Values \cup Statuses, by : Nat] :
     IF f.id = "setting" THEN f.part = Chunks - 1 - f.left ELSE f.part = 0 /\ f.left = 0}
Echoes ==
  [type : {"ECHO"}, id : {"setting"}, part : {0}, left : {0}, val : Values, by : Nat]
Answers == Entries \cup Echoes

Reading ==
  [id : Ids, first : Steps \cup {"none"}, chunk : 0..(Chunks - 1), left : 0..Chunks,
   attempts : 0..MaxAttempts, parts : Seq(Entries)]

Types ==
  /\ pc \in {"idle", "query", "pump", "decode", "flush", "echo", "unverified", "dead"}
  /\ job \in Jobs /\ stage \in {"find", "verify", "step"} /\ tries \in 0..WriteTries
  /\ reading \in Reading
  /\ outbound \in Seq(Queries) /\ toModule \in Seq(Queries) /\ inbound \in Seq(Answers)
  /\ setting \in Values /\ status \in Statuses
  /\ reads \in Nat /\ resent \in BOOLEAN /\ applied \in Seq(Nat)

\* How a read goes on: which parameter, how many parts, what is left.
Under == pc \in {"query", "pump"}
Shape ==
  /\ reading.id = Target(job)
  /\ stage = "verify" => job.op = "set"
  /\ stage = "step" => job.op = "command" /\ reading.first = job.arg
  /\ stage # "step" => reading.first = "none"
  /\ pc \in {"flush", "echo", "unverified"} => job.op = "set"
  /\ pc = "unverified" => stage = "verify"
  /\ pc \in {"query", "pump", "decode"} /\ stage = "find" => tries = 0
  /\ Under => /\ Len(reading.parts) = reading.chunk /\ reading.left >= 1
              /\ reading.chunk > 0 => reading.chunk + reading.left <= Chunks
  /\ pc = "pump" => reading.attempts >= 1
  /\ pc = "query" => reading.attempts < MaxAttempts
  /\ pc = "decode" => reading.parts # <<>>
  /\ Len(reading.parts) <= Chunks
  /\ reading.parts # <<>> => reading.parts[Len(reading.parts)].left = reading.left
  /\ \A i \in DOMAIN reading.parts : reading.parts[i].id = reading.id

LEMMA JobTypes ==
  ASSUME NEW j \in Jobs
  PROVE  /\ j.op \in {"get", "set", "command"} /\ Target(j) \in Ids
         /\ j.op = "set" => j.arg \in Values /\ Target(j) = "setting"
         /\ j.op = "command" => j.arg \in Steps /\ Target(j) = "command"
         /\ j.op # "command" => Target(j) = "setting"
  BY DEF Jobs, Target, Ids

\* A read begins.
LEMMA StartedReading ==
  ASSUME NEW id \in Ids, NEW first \in Steps \cup {"none"}
  PROVE  /\ StartRead(id, first) \in Reading
         /\ StartRead(id, first).id = id /\ StartRead(id, first).first = first
         /\ StartRead(id, first).chunk = 0 /\ StartRead(id, first).left = Chunks
         /\ StartRead(id, first).attempts = 0 /\ StartRead(id, first).parts = <<>>
  <1>1. Chunks \in Nat \ {0} /\ MaxAttempts \in Nat \ {0}
    BY CountAssumption
  <1>2. 0 \in 0..(Chunks - 1) /\ Chunks \in 0..Chunks /\ 0 \in 0..MaxAttempts
    BY <1>1
  <1>3. <<>> \in Seq(Entries)
    BY EmptySeq
  <1> QED
    BY <1>2, <1>3 DEF StartRead, Reading

\* What a wanted frame makes of the read.
Taken(f) ==
  [reading EXCEPT !.parts = Append(@, f), !.left = f.left,
                  !.chunk = IF f.left = 0 THEN @ ELSE @ + 1, !.attempts = 0]

LEMMA WantedEntry ==
  ASSUME Types, NEW i \in DOMAIN inbound, Wants(inbound[i])
  PROVE  inbound[i] \in Entries
  <1>1. inbound[i] \in Answers
    BY ElementOfSeq, LenProperties DEF Types
  <1> QED
    BY <1>1 DEF Answers, Echoes, Wants

LEMMA TakenReading ==
  ASSUME Types, Shape, pc = "pump", NEW f \in Entries, Wants(f)
  PROVE  /\ Taken(f) \in Reading
         /\ Taken(f).id = reading.id /\ Taken(f).first = reading.first
         /\ Taken(f).parts = Append(reading.parts, f) /\ Taken(f).left = f.left
         /\ Taken(f).chunk = (IF f.left = 0 THEN reading.chunk ELSE reading.chunk + 1)
         /\ Taken(f).attempts = 0
         /\ f.left # 0 => Taken(f).chunk + f.left <= Chunks
  <1>1. /\ Chunks \in Nat \ {0} /\ reading \in Reading
        /\ reading.chunk \in 0..(Chunks - 1) /\ reading.left \in 0..Chunks
        /\ f.left \in 0..(Chunks - 1) /\ 0 \in 0..MaxAttempts
    BY CountAssumption DEF Types, Reading, Entries
  <1>2. PICK chunk : chunk = IF f.left = 0 THEN reading.chunk ELSE reading.chunk + 1
    OBVIOUS
  <1>3. chunk \in 0..(Chunks - 1) /\ (f.left # 0 => chunk + f.left <= Chunks)
    <2>1. CASE f.left = 0
      BY <1>1, <1>2, <2>1
    <2>2. CASE f.left # 0 /\ reading.chunk = 0
      BY <1>1, <1>2, <2>2
    <2>3. CASE f.left # 0 /\ reading.chunk # 0
      <3>1. f.left = reading.left - 1
        BY <2>3 DEF Wants
      <3>2. reading.chunk + reading.left <= Chunks
        BY <1>1, <2>3 DEF Shape, Under
      <3> QED
        BY <1>1, <1>2, <2>3, <3>1, <3>2
    <2> QED
      BY <2>1, <2>2, <2>3
  <1>4. PICK parts \in Seq(Entries) : parts = Append(reading.parts, f)
    BY <1>1, AppendProperties DEF Reading
  <1>5. Taken(f) = [reading EXCEPT !.parts = parts, !.left = f.left, !.chunk = chunk, !.attempts = 0]
    BY <1>2, <1>4 DEF Taken
  <1>6. f.left \in 0..Chunks
    BY <1>1
  <1> QED
    BY <1>1, <1>2, <1>3, <1>4, <1>5, <1>6 DEF Reading

\* Frames to the module, by what they do there.
IsSet(q) == q.type = "WRITE" /\ q.id = "setting"
IsStep(q) == q.type = "WRITE" /\ q.id = "command" /\ q.value # "POLL"
Asks(q) == q.type = "READ" \/ (q.type = "WRITE" /\ q.id = "command")

\* The frame of the next query.
NextQuery ==
  IF stage = "step" THEN Query("WRITE", reading.id, StepValue)
                    ELSE Query("READ", reading.id, reading.chunk)

LEMMA NextQueryTypes ==
  ASSUME Types, Shape
  PROVE  /\ NextQuery \in Queries /\ NextQuery.by = reads /\ ~IsSet(NextQuery)
         /\ Asks(NextQuery)
         /\ IsStep(NextQuery) => stage = "step" /\ reading.chunk = 0 /\ reading.attempts = 0
  <1>1. reads \in Nat /\ reading.chunk \in 0..(Chunks - 1) /\ reading.id \in Ids
    BY DEF Types, Reading
  <1>2. CASE stage = "step"
    <2>1. job.op = "command" /\ reading.id = "command" /\ job.arg \in Steps
            /\ reading.first = job.arg
      BY <1>2, JobTypes DEF Types, Shape
    <2>2. StepValue \in Steps \cup {"POLL"}
            /\ (StepValue # "POLL" => reading.chunk = 0 /\ reading.attempts = 0)
      BY <2>1 DEF StepValue
    <2>3. NextQuery = [type |-> "WRITE", id |-> "command", value |-> StepValue, by |-> reads]
      BY <1>2, <2>1 DEF NextQuery, Query
    <2> QED
      BY <1>1, <1>2, <2>2, <2>3 DEF Queries, StepFrames, IsSet, IsStep, Asks
  <1>3. CASE stage # "step"
    <2>1. NextQuery = [type |-> "READ", id |-> reading.id, value |-> reading.chunk, by |-> reads]
      BY <1>3 DEF NextQuery, Query
    <2> QED
      BY <1>1, <2>1 DEF Queries, ReadFrames, IsSet, IsStep, Asks
  <1> QED
    BY <1>2, <1>3

\* What the module does with a frame: its answer, of the frame's own read, tells of
\* the setting as it is.
LEMMA ModuleEffect ==
  ASSUME Types, NEW q \in Queries, Module(q)
  PROVE  /\ \/ inbound' = inbound
            \/ \E f \in Answers :
                 /\ inbound' = Append(inbound, f) /\ f.by = q.by
                 /\ f.type = "ENTRY" => Asks(q)
                 /\ f.type = "ENTRY" /\ f.id = "setting" => f.val = setting
         /\ setting' = IF IsSet(q) THEN q.value ELSE setting
         /\ applied' = IF IsStep(q) THEN Append(applied, q.by) ELSE applied
         /\ status' \in Statuses
  <1>1. Chunks \in Nat \ {0} /\ setting \in Values /\ status \in Statuses /\ q.by \in Nat
    BY CountAssumption DEF Types, Queries, ReadFrames, SetFrames, StepFrames
  <1>2. CASE q.type = "READ" /\ q.id = "setting"
    <2>1. Answer(Entry(q, q.value, Chunks - 1 - q.value, setting)) /\ UNCHANGED module
      BY <1>2 DEF Module
    <2>2. q.value \in 0..(Chunks - 1)
      BY <1>2 DEF Queries, ReadFrames, SetFrames, StepFrames
    <2>3. /\ Chunks - 1 - q.value \in 0..(Chunks - 1)
          /\ q.value = Chunks - 1 - (Chunks - 1 - q.value)
      BY <1>1, <2>2
    <2>4. Entry(q, q.value, Chunks - 1 - q.value, setting) \in Entries
      BY <1>1, <1>2, <2>2, <2>3 DEF Entry, Entries, Ids
    <2>5. /\ Entry(q, q.value, Chunks - 1 - q.value, setting).by = q.by
          /\ Entry(q, q.value, Chunks - 1 - q.value, setting).val = setting
      BY DEF Entry
    <2> QED
      BY <1>1, <1>2, <2>1, <2>4, <2>5 DEF Answer, Answers, Asks, IsSet, IsStep, module
  <1>3. CASE q.type = "READ" /\ q.id = "command"
    <2>1. Answer(Entry(q, 0, 0, status)) /\ UNCHANGED module
      BY <1>3 DEF Module
    <2>2. 0 \in 0..(Chunks - 1)
      BY <1>1
    <2>3. Entry(q, 0, 0, status) \in Entries
      BY <1>1, <1>3, <2>2 DEF Entry, Entries, Ids
    <2>4. Entry(q, 0, 0, status).by = q.by /\ Entry(q, 0, 0, status).id = "command"
      BY <1>3 DEF Entry
    <2> QED
      BY <1>1, <1>3, <2>1, <2>3, <2>4 DEF Answer, Answers, Asks, IsSet, IsStep, module
  <1>4. CASE q.type = "WRITE" /\ q.id = "setting"
    <2>1. setting' = q.value /\ Answer(Echo(q)) /\ UNCHANGED <<status, applied>>
      BY <1>4 DEF Module
    <2>2. q.value \in Values
      BY <1>4 DEF Queries, ReadFrames, SetFrames, StepFrames
    <2>3. Echo(q) \in Echoes /\ Echo(q).by = q.by /\ Echo(q).type = "ECHO"
      BY <1>1, <1>4, <2>2 DEF Echo, Echoes
    <2> QED
      BY <1>1, <1>4, <2>1, <2>3 DEF Answer, Answers, IsSet, IsStep
  <1>5. CASE q.type = "WRITE" /\ q.id = "command"
    <2>1. /\ status' \in NextStatuses(q.value) /\ Answer(Entry(q, 0, 0, status'))
          /\ applied' = IF q.value = "POLL" THEN applied ELSE Append(applied, q.by)
          /\ UNCHANGED setting
      BY <1>5 DEF Module
    <2>2. status' \in Statuses /\ 0 \in 0..(Chunks - 1)
      BY <1>1, <2>1 DEF NextStatuses, Statuses
    <2>3. PICK s \in Statuses : s = status'
      BY <2>2
    <2>4. Entry(q, 0, 0, s) \in Entries
      BY <1>1, <1>5, <2>2, <2>3 DEF Entry, Entries, Ids
    <2>5. Entry(q, 0, 0, s).by = q.by /\ Entry(q, 0, 0, s).id = "command"
      BY <1>5 DEF Entry
    <2> QED
      BY <1>5, <2>1, <2>2, <2>3, <2>4, <2>5 DEF Answer, Answers, Asks, IsSet, IsStep
  <1> QED
    BY <1>2, <1>3, <1>4, <1>5 DEF Queries, ReadFrames, SetFrames, StepFrames, Ids

LEMMA FirstFrame ==
  ASSUME Types, toModule # <<>>
  PROVE  /\ Head(toModule) \in Queries /\ Tail(toModule) \in Seq(Queries)
         /\ Head(toModule) = toModule[1] /\ 1 \in DOMAIN toModule
         /\ DOMAIN toModule = 1..Len(toModule) /\ DOMAIN Tail(toModule) = 1..(Len(toModule) - 1)
         /\ Len(toModule) \in Nat \ {0}
         /\ \A i \in 1..(Len(toModule) - 1) : Tail(toModule)[i] = toModule[i + 1]
  <1>1. toModule \in Seq(Queries) /\ Len(toModule) \in Nat \ {0}
    BY EmptySeq DEF Types
  <1>2. /\ Head(toModule) \in Queries /\ Tail(toModule) \in Seq(Queries)
        /\ Head(toModule) = toModule[1] /\ Len(Tail(toModule)) = Len(toModule) - 1
        /\ \A i \in 1..(Len(toModule) - 1) : Tail(toModule)[i] = toModule[i + 1]
    BY <1>1, HeadTailProperties
  <1>3. DOMAIN toModule = 1..Len(toModule) /\ DOMAIN Tail(toModule) = 1..(Len(toModule) - 1)
    BY <1>1, <1>2, LenProperties
  <1> QED
    BY <1>1, <1>2, <1>3

----------------------------------------------------------------------------
(* What every step does to a part of the state. *)

\* The read after a step of the client.
ReadingNext ==
  \/ reading' = reading
  \/ \E id \in Ids, first \in Steps \cup {"none"} : reading' = StartRead(id, first)
  \/ pc = "query" /\ reading' = [reading EXCEPT !.attempts = @ + 1]
  \/ pc = "pump" /\ \E i \in DOMAIN inbound : Wants(inbound[i]) /\ reading' = Taken(inbound[i])

LEMMA ReadingStep ==
  ASSUME Types, Shape, [Next]_vars
  PROVE  ReadingNext /\ reading' \in Reading
  <1>1. ReadingNext
    <2>1. CASE UNCHANGED reading
      BY <2>1 DEF ReadingNext
    <2>2. CASE Request
      <3>1. job' \in Jobs /\ reading' = StartRead(Target(job'), "none")
        BY <2>2 DEF Request
      <3> QED
        BY <3>1, JobTypes DEF ReadingNext
    <2>3. CASE SendQuery
      BY <2>3 DEF SendQuery, ReadingNext
    <2>4. CASE PumpTakes
      BY <2>4 DEF PumpTakes, ReadingNext, Taken
    <2>5. CASE ReadBack
      BY <2>5 DEF ReadBack, ReadingNext, Ids
    <2>6. CASE StartStep
      <3>1. job.arg \in Steps /\ reading' = StartRead("command", job.arg)
        BY <2>6, JobTypes DEF StartStep, Types
      <3> QED
        BY <3>1 DEF ReadingNext, Ids
    <2>7. CASE PumpDrops \/ ResendDue \/ GiveUp \/ DecodeTail \/ AnswerGet \/ Write \/ Flushed
                 \/ AnswerSet \/ AnswerCommand
      BY <2>1, <2>7 DEF PumpDrops, ResendDue, GiveUp, DecodeTail, AnswerGet, Write, Flushed,
                        AnswerSet, AnswerCommand, client
    <2>8. CASE Slot \/ LoseQuery \/ ModuleAnswers \/ CommandEnds \/ UNCHANGED vars
      BY <2>1, <2>8 DEF Slot, LoseQuery, ModuleAnswers, CommandEnds, vars, client
    <2> QED
      BY <2>2, <2>3, <2>4, <2>5, <2>6, <2>7, <2>8 DEF Next, ClientStep
  <1>2. CASE pc = "query" /\ reading' = [reading EXCEPT !.attempts = @ + 1]
    <2>1. reading.attempts < MaxAttempts /\ reading.attempts \in 0..MaxAttempts
            /\ MaxAttempts \in Nat
      BY <1>2, CountAssumption DEF Shape, Types, Reading
    <2>2. PICK n \in 0..MaxAttempts : n = reading.attempts + 1
      BY <2>1
    <2>3. reading' = [reading EXCEPT !.attempts = n]
      BY <1>2, <2>2 DEF Types, Reading
    <2> QED
      BY <1>1, <2>2, <2>3 DEF Types, Reading
  <1>3. ASSUME pc = "pump", NEW i \in DOMAIN inbound, Wants(inbound[i]),
               reading' = Taken(inbound[i])
        PROVE  reading' \in Reading
    BY <1>3, WantedEntry, TakenReading
  <1>4. ASSUME NEW id \in Ids, NEW first \in Steps \cup {"none"}, reading' = StartRead(id, first)
        PROVE  reading' \in Reading
    BY <1>4, StartedReading
  <1> QED
    BY <1>1, <1>2, <1>3, <1>4 DEF ReadingNext, Types

LEMMA TypesStep ==
  ASSUME Types, Shape, [Next]_vars
  PROVE  Types'
  <1> USE DEF module
  <1>1. reading' \in Reading
    BY ReadingStep
  <1>2. <<>> \in Seq(Queries) /\ <<>> \in Seq(Answers)
    BY EmptySeq
  <1>3. CASE Request
    <2>1. 0 \in 0..WriteTries /\ reads' \in Nat
      BY <1>3, CountAssumption DEF Request, Types
    <2> QED
      BY <1>1, <1>3, <2>1 DEF Request, Types
  <1>4. CASE SendQuery
    <2>1. outbound' = Append(outbound, NextQuery)
      BY <1>4 DEF SendQuery, NextQuery
    <2>2. outbound' \in Seq(Queries)
      BY <2>1, NextQueryTypes, AppendProperties DEF Types
    <2>3. resent' \in BOOLEAN
      BY <1>4 DEF SendQuery
    <2> QED
      BY <1>1, <1>4, <2>2, <2>3 DEF SendQuery, Types
  <1>5. CASE PumpTakes
    <2>1. pc' \in {"decode", "query"}
      BY <1>5 DEF PumpTakes
    <2> QED
      BY <1>1, <1>2, <1>5, <2>1 DEF PumpTakes, Types
  <1>6. CASE PumpDrops
    BY <1>1, <1>2, <1>6 DEF PumpDrops, client, Types
  <1>7. CASE ResendDue \/ GiveUp \/ DecodeTail \/ AnswerGet \/ Flushed \/ AnswerSet \/ AnswerCommand
    <2>1. pc' \in {"idle", "query", "dead", "echo", "unverified"}
      BY <1>7 DEF ResendDue, GiveUp, DecodeTail, AnswerGet, Flushed, AnswerSet, AnswerCommand
    <2>2. UNCHANGED <<job, stage, tries, outbound, inbound, toModule, module, reads, resent>>
      BY <1>7 DEF ResendDue, GiveUp, DecodeTail, AnswerGet, Flushed, AnswerSet, AnswerCommand
    <2> QED
      BY <1>1, <2>1, <2>2 DEF Types
  <1>8. CASE Write
    <2>1. /\ job.op = "set" /\ tries < WriteTries
          /\ tries' = tries + 1 /\ outbound' = Append(outbound, Query("WRITE", "setting", job.arg))
          /\ pc' = "flush"
          /\ UNCHANGED <<job, stage, inbound, toModule, module, reads, resent>>
      <3>1. CASE Decoded("find") /\ job.op = "set"
        <4>1. tries = 0 /\ 0 < WriteTries
          BY <3>1, CountAssumption DEF Decoded, Shape
        <4> QED
          BY <1>8, <3>1, <4>1 DEF Write
      <3>2. CASE Refuted /\ tries < WriteTries
        BY <1>8, <3>2 DEF Write, Refuted, Decoded, Shape
      <3> QED
        BY <1>8, <3>1, <3>2 DEF Write
    <2>2. Query("WRITE", "setting", job.arg) \in Queries
      BY <2>1, JobTypes DEF Query, Queries, SetFrames, Types
    <2>3. outbound' \in Seq(Queries) /\ tries' \in 0..WriteTries
      BY <2>1, <2>2, CountAssumption, AppendProperties DEF Types
    <2> QED
      BY <1>1, <2>1, <2>3 DEF Types
  <1>9. CASE ReadBack \/ StartStep
    <2>1. /\ reads' = reads + 1 /\ inbound' = <<>> /\ stage' \in {"verify", "step"} /\ pc' = "query"
          /\ UNCHANGED <<job, tries, resent, outbound, toModule, module>>
      BY <1>9 DEF ReadBack, StartStep
    <2> QED
      BY <1>1, <1>2, <2>1 DEF Types
  <1>10. CASE Slot
    <2>1. toModule \o outbound \in Seq(Queries)
      BY ConcatProperties DEF Types
    <2> QED
      BY <1>1, <1>2, <1>10, <2>1 DEF Slot, client, Types
  <1>11. CASE LoseQuery
    BY <1>1, <1>11, FirstFrame DEF LoseQuery, client, Types
  <1>12. CASE ModuleAnswers
    <2>1. PICK q \in Queries : q = Head(toModule) /\ Module(q)
      BY <1>12, FirstFrame DEF ModuleAnswers
    <2>2. toModule' \in Seq(Queries) /\ UNCHANGED <<client, outbound>>
      BY <1>12, FirstFrame DEF ModuleAnswers
    <2>3. /\ \/ inbound' = inbound
             \/ \E f \in Answers : inbound' = Append(inbound, f)
          /\ setting' = IF IsSet(q) THEN q.value ELSE setting
          /\ applied' = IF IsStep(q) THEN Append(applied, q.by) ELSE applied
          /\ status' \in Statuses
      BY <2>1, ModuleEffect
    <2>4. inbound' \in Seq(Answers)
      <3>1. inbound \in Seq(Answers)
        BY DEF Types
      <3>2. ASSUME NEW f \in Answers, inbound' = Append(inbound, f)
            PROVE  inbound' \in Seq(Answers)
        BY <3>1, <3>2, AppendProperties
      <3> QED
        BY <2>3, <3>1, <3>2
    <2>5. setting' \in Values
      BY <2>3 DEF Types, IsSet, Queries, ReadFrames, SetFrames, StepFrames
    <2>6. applied' \in Seq(Nat)
      <3>1. q.by \in Nat
        BY DEF Queries, ReadFrames, SetFrames, StepFrames
      <3> QED
        BY <2>3, <3>1, AppendProperties DEF Types
    <2> QED
      BY <1>1, <2>2, <2>3, <2>4, <2>5, <2>6 DEF Types, client
  <1>13. CASE CommandEnds
    BY <1>1, <1>13 DEF CommandEnds, client, Types, Statuses
  <1>14. CASE UNCHANGED vars
    BY <1>14 DEF vars, Types
  <1> QED
    BY <1>3, <1>4, <1>5, <1>6, <1>7, <1>8, <1>9, <1>10, <1>11, <1>12, <1>13, <1>14
       DEF Next, ClientStep

LEMMA ShapeStep ==
  ASSUME Types, Shape, [Next]_vars
  PROVE  Shape'
  <1>1. Chunks \in Nat \ {0} /\ MaxAttempts \in Nat \ {0} /\ Len(<<>>) = 0
    BY CountAssumption, EmptySeq
  <1>2. CASE Request
    <2>1. /\ pc' = "query" /\ stage' = "find" /\ tries' = 0 /\ job' \in Jobs
          /\ reading' = StartRead(Target(job'), "none")
      BY <1>2 DEF Request
    <2>2. PICK id \in Ids : id = Target(job')
      BY <2>1, JobTypes
    <2>3. /\ reading'.id = Target(job') /\ reading'.first = "none" /\ reading'.chunk = 0
          /\ reading'.left = Chunks /\ reading'.attempts = 0 /\ reading'.parts = <<>>
      BY <2>1, <2>2, StartedReading
    <2> QED
      BY <1>1, <2>1, <2>3 DEF Shape, Under
  <1>3. CASE SendQuery
    <2>1. /\ pc = "query" /\ pc' = "pump" /\ UNCHANGED <<job, stage, tries>>
          /\ reading' = [reading EXCEPT !.attempts = @ + 1]
      BY <1>3 DEF SendQuery
    <2>2. reading \in Reading /\ reading.attempts \in Nat
      BY DEF Types, Reading
    <2>3. /\ reading'.id = reading.id /\ reading'.first = reading.first
          /\ reading'.chunk = reading.chunk /\ reading'.left = reading.left
          /\ reading'.parts = reading.parts /\ reading'.attempts >= 1
      BY <2>1, <2>2 DEF Reading
    <2> QED
      BY <2>1, <2>3 DEF Shape, Under
  <1>4. CASE PumpTakes
    <2>1. PICK i \in DOMAIN inbound :
            /\ Wants(inbound[i]) /\ reading' = Taken(inbound[i])
            /\ pc' = IF inbound[i].left = 0 THEN "decode" ELSE "query"
      BY <1>4 DEF PumpTakes, Taken
    <2>2. PICK f \in Entries : f = inbound[i]
      BY <2>1, WantedEntry
    <2>3. pc = "pump" /\ UNCHANGED <<job, stage, tries>>
      BY <1>4 DEF PumpTakes
    <2>4. /\ reading'.id = reading.id /\ reading'.first = reading.first
          /\ reading'.parts = Append(reading.parts, f) /\ reading'.left = f.left
          /\ reading'.chunk = (IF f.left = 0 THEN reading.chunk ELSE reading.chunk + 1)
          /\ reading'.attempts = 0
          /\ f.left # 0 => reading'.chunk + f.left <= Chunks
      BY <2>1, <2>2, <2>3, TakenReading
    <2>5. /\ Len(reading.parts) = reading.chunk /\ reading.chunk \in 0..(Chunks - 1)
          /\ reading.parts \in Seq(Entries) /\ f.left \in Nat /\ f.id = reading.id
      BY <2>1, <2>2, <2>3 DEF Shape, Under, Types, Reading, Entries, Wants
    <2>6. /\ Len(reading'.parts) = reading.chunk + 1 /\ reading'.parts # <<>>
          /\ reading'.parts[reading.chunk + 1] = f
          /\ DOMAIN reading'.parts = 1..(reading.chunk + 1)
          /\ \A k \in 1..reading.chunk : reading'.parts[k] = reading.parts[k]
          /\ DOMAIN reading.parts = 1..reading.chunk
      <3>1. /\ Append(reading.parts, f) # <<>>
            /\ Append(reading.parts, f)[Len(reading.parts) + 1] = f
            /\ Append(reading.parts, f) \in Seq(Entries)
            /\ Len(Append(reading.parts, f)) = Len(reading.parts) + 1
            /\ \A k \in 1..Len(reading.parts) : Append(reading.parts, f)[k] = reading.parts[k]
        BY <2>5, AppendProperties
      <3>2. /\ DOMAIN reading.parts = 1..Len(reading.parts)
            /\ DOMAIN Append(reading.parts, f) = 1..(Len(reading.parts) + 1)
        BY <2>5, <3>1, LenProperties
      <3> QED
        BY <2>4, <2>5, <3>1, <3>2
    <2>7. \A k \in DOMAIN reading'.parts : reading'.parts[k].id = reading'.id
      <3> SUFFICES ASSUME NEW k \in 1..(reading.chunk + 1)
                   PROVE  reading'.parts[k].id = reading.id
        BY <2>4, <2>6
      <3>1. CASE k \in 1..reading.chunk
        BY <2>6, <3>1 DEF Shape
      <3>2. CASE k = reading.chunk + 1
        BY <2>5, <2>6, <3>2
      <3> QED
        BY <2>5, <3>1, <3>2
    <2>8. CASE f.left = 0
      <3>1. pc' = "decode"
        BY <2>1, <2>2, <2>8
      <3> QED
        BY <1>1, <2>3, <2>4, <2>5, <2>6, <2>7, <3>1 DEF Shape, Under
    <2>9. CASE f.left # 0
      <3>1. pc' = "query" /\ f.left >= 1
        BY <2>1, <2>2, <2>5, <2>9
      <3> QED
        BY <1>1, <2>3, <2>4, <2>5, <2>6, <2>7, <2>9, <3>1 DEF Shape, Under
    <2> QED
      BY <2>8, <2>9
  <1>5. CASE ResendDue
    BY <1>5 DEF ResendDue, Shape, Under
  <1>6. CASE GiveUp
    BY <1>6 DEF GiveUp, Shape, Under
  <1>7. CASE DecodeTail \/ AnswerGet \/ AnswerSet \/ AnswerCommand
    <2>1. pc' \in {"idle", "dead"} /\ UNCHANGED <<job, stage, tries, reading>>
      BY <1>7 DEF DecodeTail, AnswerGet, AnswerSet, AnswerCommand
    <2> QED
      BY <2>1 DEF Shape, Under
  <1>8. CASE Write \/ Flushed
    <2>1. job.op = "set"
      BY <1>8 DEF Write, Flushed, Refuted, Decoded, Shape
    <2>2. pc' \in {"flush", "echo"} /\ UNCHANGED <<job, stage, reading>>
      BY <1>8 DEF Write, Flushed
    <2> QED
      BY <2>1, <2>2 DEF Shape, Under
  <1>9. CASE ReadBack
    <2>1. /\ pc = "echo" /\ pc' = "query" /\ stage' = "verify" /\ UNCHANGED <<job, tries>>
          /\ reading' = StartRead("setting", "none")
      BY <1>9 DEF ReadBack
    <2>2. /\ reading'.id = "setting" /\ reading'.first = "none" /\ reading'.chunk = 0
          /\ reading'.left = Chunks /\ reading'.attempts = 0 /\ reading'.parts = <<>>
      BY <2>1, StartedReading DEF Ids
    <2>3. job.op = "set" /\ Target(job) = "setting"
      BY <2>1, JobTypes DEF Shape, Types
    <2> QED
      BY <1>1, <2>1, <2>2, <2>3 DEF Shape, Under
  <1>10. CASE StartStep
    <2>1. /\ job.op = "command" /\ pc' = "query" /\ stage' = "step" /\ UNCHANGED <<job, tries>>
          /\ reading' = StartRead("command", job.arg)
      BY <1>10 DEF StartStep
    <2>2. job.arg \in Steps /\ Target(job) = "command"
      BY <2>1, JobTypes DEF Types
    <2>3. /\ reading'.id = "command" /\ reading'.first = job.arg /\ reading'.chunk = 0
          /\ reading'.left = Chunks /\ reading'.attempts = 0 /\ reading'.parts = <<>>
      BY <2>1, <2>2, StartedReading DEF Ids
    <2> QED
      BY <1>1, <2>1, <2>2, <2>3 DEF Shape, Under
  <1>11. CASE UNCHANGED client
    BY <1>11 DEF client, Shape, Under
  <1>12. CASE PumpDrops \/ Slot \/ LoseQuery \/ ModuleAnswers \/ CommandEnds \/ UNCHANGED vars
    BY <1>11, <1>12 DEF PumpDrops, Slot, LoseQuery, ModuleAnswers, CommandEnds, vars, client
  <1> QED
    BY <1>2, <1>3, <1>4, <1>5, <1>6, <1>7, <1>8, <1>9, <1>10, <1>12 DEF Next, ClientStep

\* Parts follow each other: what a frame leaves fixes its place in the entry.
LEMMA ConsecutiveStep ==
  ASSUME Types, Shape, PartsConsecutive, [Next]_vars
  PROVE  PartsConsecutive'
  <1>1. CASE reading'.parts = reading.parts
    BY <1>1 DEF PartsConsecutive
  <1>2. CASE reading'.parts = <<>>
    BY <1>2, EmptySeq DEF PartsConsecutive
  <1>3. ASSUME pc = "pump", NEW i \in DOMAIN inbound, Wants(inbound[i]),
               reading' = Taken(inbound[i])
        PROVE  PartsConsecutive'
    <2>1. PICK f \in Entries : f = inbound[i]
      BY <1>3, WantedEntry
    <2>2. reading'.parts = Append(reading.parts, f) /\ reading.parts \in Seq(Entries)
      BY <1>3, <2>1, TakenReading DEF Types, Reading
    <2> DEFINE n == Len(reading.parts)
    <2>3. /\ n \in Nat /\ n = reading.chunk /\ Len(reading'.parts) = n + 1
          /\ reading'.parts[n + 1] = f
          /\ \A k \in 1..n : reading'.parts[k] = reading.parts[k] /\ reading.parts[k] \in Entries
          /\ DOMAIN reading.parts = 1..n
      BY <1>3, <2>2, AppendProperties, LenProperties, ElementOfSeq DEF Shape, Under
    <2>4. ASSUME n >= 1
          PROVE  f.part = reading.parts[n].part + 1
      <3>1. /\ reading.parts[n] \in Entries /\ reading.parts[n].left = reading.left
            /\ reading.parts[n].id = reading.id
        BY <2>3, <2>4 DEF Shape
      <3>2. f.left = reading.left - 1 /\ f.id = reading.id /\ reading.left >= 1
        BY <1>3, <2>1, <2>3, <2>4 DEF Wants, Shape, Under
      <3>3. /\ Chunks \in Nat \ {0} /\ f.left \in 0..(Chunks - 1) /\ f.part \in 0..(Chunks - 1)
            /\ reading.parts[n].left \in 0..(Chunks - 1) /\ reading.parts[n].part \in 0..(Chunks - 1)
        BY <3>1, CountAssumption DEF Entries
      <3>4. CASE reading.id = "setting"
        BY <3>1, <3>2, <3>3, <3>4 DEF Entries
      <3>5. CASE reading.id # "setting"
        BY <3>1, <3>2, <3>5 DEF Entries
      <3> QED
        BY <3>4, <3>5
    <2> HIDE DEF n
    <2>5. ASSUME NEW k \in 2..Len(reading'.parts)
          PROVE  reading'.parts[k].part = reading'.parts[k - 1].part + 1
      <3>1. k \in Nat /\ k >= 2 /\ k <= n + 1 /\ k - 1 \in 1..n
        BY <2>3, <2>5
      <3>2. CASE k \in 1..n
        <4>1. reading'.parts[k] = reading.parts[k] /\ reading'.parts[k - 1] = reading.parts[k - 1]
          BY <2>3, <3>1, <3>2
        <4>2. k \in 2..Len(reading.parts)
          BY <3>1, <3>2 DEF n
        <4>3. reading.parts[k].part = reading.parts[k - 1].part + 1
          BY <4>2 DEF PartsConsecutive
        <4> QED
          BY <4>1, <4>3
      <3>3. CASE k = n + 1
        <4>1. k - 1 = n /\ n >= 1 /\ n \in 1..n
          BY <2>3, <3>1, <3>3
        <4>2. reading'.parts[k] = f /\ reading'.parts[k - 1] = reading.parts[n]
          BY <2>3, <3>3, <4>1
        <4> QED
          BY <2>4, <4>1, <4>2
      <3> QED
        BY <2>3, <3>1, <3>2, <3>3
    <2> QED
      BY <2>5 DEF PartsConsecutive
  <1>4. CASE pc = "query" /\ reading' = [reading EXCEPT !.attempts = @ + 1]
    BY <1>1, <1>4 DEF Types, Reading
  <1>5. ASSUME NEW id \in Ids, NEW first \in Steps \cup {"none"}, reading' = StartRead(id, first)
        PROVE  PartsConsecutive'
    BY <1>2, <1>5, StartedReading
  <1>6. ReadingNext
    BY ReadingStep
  <1> QED
    BY <1>1, <1>3, <1>4, <1>5, <1>6 DEF ReadingNext

----------------------------------------------------------------------------
(* Frames on their way: those of the link, then those that wait for a slot. *)

Line == toModule \o outbound

LEMMA AppendToSecond ==
  ASSUME NEW S, NEW s \in Seq(S), NEW t \in Seq(S), NEW e \in S
  PROVE  s \o Append(t, e) = Append(s \o t, e)
  <1>1. /\ <<e>> \in Seq(S) /\ s \o t \in Seq(S)
        /\ Append(t, e) = t \o <<e>> /\ Append(s \o t, e) = (s \o t) \o <<e>>
    BY ConcatProperties, AppendIsConcat
  <1> QED
    BY <1>1, ConcatAssociative

LEMMA TailOfFirst ==
  ASSUME NEW S, NEW s \in Seq(S), NEW t \in Seq(S), s # <<>>
  PROVE  s \o t # <<>> /\ (s \o t)[1] = Head(s) /\ Tail(s \o t) = Tail(s) \o t
  <1>1. /\ Len(s) \in Nat \ {0} /\ Len(t) \in Nat
        /\ s \o t \in Seq(S) /\ Len(s \o t) = Len(s) + Len(t)
        /\ \A i \in 1..(Len(s) + Len(t)) :
             (s \o t)[i] = IF i <= Len(s) THEN s[i] ELSE t[i - Len(s)]
    BY ConcatProperties, EmptySeq
  <1>2. s \o t # <<>>
    BY <1>1, EmptySeq
  <1>3. /\ Head(s) = s[1] /\ Tail(s) \in Seq(S) /\ Len(Tail(s)) = Len(s) - 1
        /\ \A i \in 1..(Len(s) - 1) : Tail(s)[i] = s[i + 1]
    BY HeadTailProperties
  <1>4. /\ Tail(s \o t) \in Seq(S) /\ Len(Tail(s \o t)) = Len(s) + Len(t) - 1
        /\ \A i \in 1..(Len(s) + Len(t) - 1) : Tail(s \o t)[i] = (s \o t)[i + 1]
    BY <1>1, <1>2, HeadTailProperties
  <1>5. /\ Tail(s) \o t \in Seq(S) /\ Len(Tail(s) \o t) = Len(s) - 1 + Len(t)
        /\ \A i \in 1..(Len(s) - 1 + Len(t)) :
             (Tail(s) \o t)[i] = IF i <= Len(s) - 1 THEN Tail(s)[i] ELSE t[i - (Len(s) - 1)]
    BY <1>3, ConcatProperties
  <1>6. ASSUME NEW i \in 1..(Len(s) + Len(t) - 1)
        PROVE  Tail(s \o t)[i] = (Tail(s) \o t)[i]
    <2>1. i \in Nat \ {0} /\ i + 1 \in 1..(Len(s) + Len(t)) /\ i \in 1..(Len(s) - 1 + Len(t))
      BY <1>1, <1>6
    <2>2. CASE i <= Len(s) - 1
      <3>1. i + 1 <= Len(s) /\ i \in 1..(Len(s) - 1)
        BY <1>1, <2>1, <2>2
      <3> QED
        BY <1>1, <1>3, <1>4, <1>5, <1>6, <2>1, <2>2, <3>1
    <2>3. CASE ~(i <= Len(s) - 1)
      <3>1. ~(i + 1 <= Len(s)) /\ i + 1 - Len(s) = i - (Len(s) - 1)
        BY <1>1, <2>1, <2>3
      <3> QED
        BY <1>1, <1>4, <1>5, <1>6, <2>1, <2>3, <3>1
    <2> QED
      BY <2>2, <2>3
  <1>7. Tail(s \o t) = Tail(s) \o t
    <2>1. Len(Tail(s \o t)) = Len(Tail(s) \o t)
      BY <1>1, <1>4, <1>5
    <2>2. \A i \in 1..Len(Tail(s \o t)) : Tail(s \o t)[i] = (Tail(s) \o t)[i]
      BY <1>4, <1>6
    <2> QED
      BY <1>4, <1>5, <2>1, <2>2, SeqEqual
  <1>8. (s \o t)[1] = Head(s)
    <2>1. 1 \in 1..(Len(s) + Len(t)) /\ 1 <= Len(s)
      BY <1>1
    <2> QED
      BY <1>1, <1>3, <2>1
  <1> QED
    BY <1>2, <1>7, <1>8

LEMMA LineTypes ==
  ASSUME Types
  PROVE  Line \in Seq(Queries) /\ Len(Line) \in Nat /\ DOMAIN Line = 1..Len(Line)
         /\ \A i \in 1..Len(Line) : Line[i] \in Queries
  <1>1. Line \in Seq(Queries)
    BY ConcatProperties DEF Types, Line
  <1> QED
    BY <1>1, LenProperties, ElementOfSeq

\* The step of a COMMAND that the read under way has still to send.
Unsent == pc = "query" /\ stage = "step" /\ reading.chunk = 0 /\ reading.attempts = 0

\* What the actions do to the frames on their way.
LEMMA LineOf ==
  ASSUME Types, Shape, [Next]_vars
  PROVE  /\ SendQuery => Line' = Append(Line, NextQuery)
         /\ Write => \E q \in SetFrames : Line' = Append(Line, q) /\ q.by = reads
         /\ LoseQuery \/ ModuleAnswers =>
              /\ Line # <<>> /\ Line' = Tail(Line)
              /\ Head(toModule) = Line[1] /\ Head(toModule) \in Queries
         /\ \/ SendQuery \/ Write \/ LoseQuery \/ ModuleAnswers
            \/ Line' = Line /\ applied' = applied
  <1> USE DEF module
  <1>1. SendQuery => Line' = Append(Line, NextQuery)
    <2> SUFFICES ASSUME SendQuery
                 PROVE  Line' = Append(Line, NextQuery)
      OBVIOUS
    <2>1. outbound' = Append(outbound, NextQuery) /\ UNCHANGED toModule
      BY DEF SendQuery, NextQuery
    <2>2. NextQuery \in Queries
      BY NextQueryTypes
    <2> QED
      BY <2>1, <2>2, AppendToSecond DEF Line, Types
  <1>2. Write => \E q \in SetFrames : Line' = Append(Line, q) /\ q.by = reads
    <2> SUFFICES ASSUME Write
                 PROVE  \E q \in SetFrames : Line' = Append(Line, q) /\ q.by = reads
      OBVIOUS
    <2>1. /\ outbound' = Append(outbound, Query("WRITE", "setting", job.arg))
          /\ job.op = "set" /\ UNCHANGED toModule
      BY DEF Write, Refuted, Decoded, Shape
    <2>2. PICK q : q = Query("WRITE", "setting", job.arg)
      OBVIOUS
    <2>3. q \in SetFrames /\ q \in Queries /\ q.by = reads
      BY <2>1, <2>2, JobTypes DEF Query, Queries, SetFrames, Types
    <2>4. Line' = Append(Line, q)
      BY <2>1, <2>2, <2>3, AppendToSecond DEF Line, Types
    <2> QED
      BY <2>3, <2>4
  <1>3. LoseQuery \/ ModuleAnswers =>
          /\ Line # <<>> /\ Line' = Tail(Line)
          /\ Head(toModule) = Line[1] /\ Head(toModule) \in Queries
    <2> SUFFICES ASSUME LoseQuery \/ ModuleAnswers
                 PROVE  /\ Line # <<>> /\ Line' = Tail(Line)
                        /\ Head(toModule) = Line[1] /\ Head(toModule) \in Queries
      OBVIOUS
    <2>1. toModule # <<>> /\ toModule' = Tail(toModule) /\ UNCHANGED outbound
      BY DEF LoseQuery, ModuleAnswers
    <2> QED
      BY <2>1, TailOfFirst, FirstFrame DEF Line, Types
  <1>4. CASE Slot
    <2>1. toModule' = Line /\ outbound' = <<>> /\ UNCHANGED applied
      BY <1>4 DEF Slot, Line
    <2>2. Line' = Line
      BY <2>1, LineTypes, ConcatEmptySeq DEF Line
    <2> QED
      BY <1>1, <1>2, <1>3, <2>1, <2>2
  <1>5. CASE Request \/ PumpTakes \/ PumpDrops \/ ResendDue \/ GiveUp \/ DecodeTail \/ AnswerGet
             \/ Flushed \/ ReadBack \/ AnswerSet \/ StartStep \/ AnswerCommand \/ CommandEnds
             \/ UNCHANGED vars
    <2>1. UNCHANGED <<toModule, outbound, applied>>
      BY <1>5 DEF Request, PumpTakes, PumpDrops, ResendDue, GiveUp, DecodeTail, AnswerGet,
         Flushed, ReadBack, AnswerSet, StartStep, AnswerCommand, CommandEnds, vars
    <2>2. Line' = Line /\ applied' = applied
      BY <2>1 DEF Line
    <2> QED
      BY <1>1, <1>2, <1>3, <2>2
  <1> QED
    BY <1>1, <1>2, <1>3, <1>4, <1>5 DEF Next, ClientStep

\* The frames on their way after a step: the same, one more of the read under way,
\* or all but the first, which the module may have carried out.
LineNext ==
  \/ Line' = Line /\ applied' = applied
  \/ \E q \in Queries :
       /\ Line' = Append(Line, q) /\ q.by = reads /\ (IsStep(q) => Unsent) /\ ~Unsent'
       /\ applied' = applied /\ reads' = reads
  \/ /\ Line # <<>> /\ Line' = Tail(Line) /\ UNCHANGED client
     /\ \/ applied' = applied
        \/ IsStep(Line[1]) /\ applied' = Append(applied, Line[1].by)

LEMMA LineStep ==
  ASSUME Types, Shape, [Next]_vars
  PROVE  LineNext
  <1> USE DEF module
  <1>1. CASE Line' = Line /\ applied' = applied
    BY <1>1 DEF LineNext
  <1>2. CASE SendQuery
    <2>1. pc = "query" /\ pc' = "pump" /\ UNCHANGED <<applied, reads>>
      BY <1>2 DEF SendQuery
    <2>2. NextQuery \in Queries /\ NextQuery.by = reads /\ (IsStep(NextQuery) => Unsent)
      BY <2>1, NextQueryTypes DEF Unsent
    <2>3. ~Unsent'
      BY <2>1 DEF Unsent
    <2> QED
      BY <1>2, <2>1, <2>2, <2>3, LineOf DEF LineNext
  <1>3. CASE Write
    <2>1. pc' = "flush" /\ UNCHANGED <<applied, reads>>
      BY <1>3 DEF Write
    <2>2. PICK q \in SetFrames : Line' = Append(Line, q) /\ q.by = reads
      BY <1>3, LineOf
    <2>3. q \in Queries /\ ~IsStep(q) /\ ~Unsent'
      BY <2>1 DEF Queries, SetFrames, IsStep, Unsent
    <2> QED
      BY <2>1, <2>2, <2>3 DEF LineNext
  <1>4. CASE LoseQuery \/ ModuleAnswers
    <2>1. Line # <<>> /\ Line' = Tail(Line) /\ Line[1] = Head(toModule) /\ Head(toModule) \in Queries
      BY <1>4, LineOf
    <2>2. UNCHANGED client
      BY <1>4 DEF LoseQuery, ModuleAnswers
    <2>3. CASE LoseQuery
      BY <2>1, <2>2, <2>3 DEF LoseQuery, LineNext
    <2>4. CASE ModuleAnswers
      <3>1. PICK q \in Queries : q = Head(toModule) /\ Module(q)
        BY <2>1, <2>4 DEF ModuleAnswers
      <3>2. applied' = IF IsStep(q) THEN Append(applied, q.by) ELSE applied
        BY <3>1, ModuleEffect
      <3>3. q = Line[1]
        BY <2>1, <3>1
      <3> QED
        BY <2>1, <2>2, <3>2, <3>3 DEF LineNext
    <2> QED
      BY <1>4, <2>3, <2>4
  <1> QED
    BY <1>1, <1>2, <1>3, <1>4, LineOf

\* A step is unsent from the start of its read on.
LEMMA UnsentStep ==
  ASSUME Types, Shape, [Next]_vars
  PROVE  /\ reads' \in {reads, reads + 1}
         /\ Unsent' => (Unsent /\ reads' = reads) \/ reads' = reads + 1
  <1>1. CASE UNCHANGED client
    BY <1>1 DEF client, Unsent
  <1>2. CASE Request \/ ReadBack \/ StartStep
    BY <1>2 DEF Request, ReadBack, StartStep
  <1>3. CASE SendQuery \/ GiveUp \/ DecodeTail \/ AnswerGet \/ Flushed \/ AnswerSet \/ AnswerCommand
             \/ Write
    <2>1. pc' # "query" /\ reads' = reads
      BY <1>3 DEF SendQuery, GiveUp, DecodeTail, AnswerGet, Flushed, AnswerSet, AnswerCommand, Write
    <2> QED
      BY <2>1 DEF Unsent
  <1>4. CASE ResendDue
    BY <1>4 DEF ResendDue, Unsent, Shape
  <1>5. CASE PumpTakes
    <2>1. PICK i \in DOMAIN inbound :
            /\ Wants(inbound[i]) /\ reading' = Taken(inbound[i])
            /\ pc' = IF inbound[i].left = 0 THEN "decode" ELSE "query"
      BY <1>5 DEF PumpTakes, Taken
    <2>2. PICK f \in Entries : f = inbound[i]
      BY <2>1, WantedEntry
    <2>3. pc = "pump" /\ reads' = reads
      BY <1>5 DEF PumpTakes
    <2>4. reading'.chunk = (IF f.left = 0 THEN reading.chunk ELSE reading.chunk + 1)
      BY <2>1, <2>2, <2>3, TakenReading
    <2>5. reading.chunk \in Nat
      BY CountAssumption DEF Types, Reading
    <2> QED
      BY <2>1, <2>2, <2>3, <2>4, <2>5 DEF Unsent
  <1>6. CASE PumpDrops \/ Slot \/ LoseQuery \/ ModuleAnswers \/ CommandEnds \/ UNCHANGED vars
    BY <1>1, <1>6 DEF PumpDrops, Slot, LoseQuery, ModuleAnswers, CommandEnds, vars, client
  <1> QED
    BY <1>2, <1>3, <1>4, <1>5, <1>6 DEF Next, ClientStep

\* A read sends its step once; the module carries it out from that frame alone.
StepsOnce ==
  /\ \A i, j \in DOMAIN Line :
       IsStep(Line[i]) /\ IsStep(Line[j]) /\ i # j => Line[i].by # Line[j].by
  /\ \A i \in DOMAIN Line :
       Line[i].by <= reads /\ (Unsent /\ IsStep(Line[i]) => Line[i].by < reads)
  /\ \A k \in DOMAIN applied : applied[k] <= reads /\ (Unsent => applied[k] < reads)
  /\ \A i \in DOMAIN Line, k \in DOMAIN applied : IsStep(Line[i]) => Line[i].by # applied[k]
  /\ StepAppliedOnce

LEMMA StepsOnceStep ==
  ASSUME Types, Shape, StepsOnce, [Next]_vars
  PROVE  StepsOnce'
  <1>1. /\ Line \in Seq(Queries) /\ Len(Line) \in Nat /\ DOMAIN Line = 1..Len(Line)
        /\ \A i \in 1..Len(Line) : Line[i].by \in Nat
    BY LineTypes DEF Queries, ReadFrames, SetFrames, StepFrames
  <1>2. /\ applied \in Seq(Nat) /\ Len(applied) \in Nat /\ DOMAIN applied = 1..Len(applied)
        /\ \A k \in 1..Len(applied) : applied[k] \in Nat
    BY LenProperties, ElementOfSeq DEF Types
  <1>3. /\ reads \in Nat /\ reads' \in {reads, reads + 1}
        /\ Unsent' => (Unsent /\ reads' = reads) \/ reads' = reads + 1
    BY UnsentStep DEF Types
  <1>4. CASE Line' = Line /\ applied' = applied
    BY <1>1, <1>2, <1>3, <1>4 DEF StepsOnce, StepAppliedOnce
  <1>5. ASSUME NEW q \in Queries, Line' = Append(Line, q), q.by = reads, IsStep(q) => Unsent,
               ~Unsent', applied' = applied, reads' = reads
        PROVE  StepsOnce'
    <2>1. /\ DOMAIN Line' = 1..(Len(Line) + 1) /\ Line'[Len(Line) + 1] = q
          /\ \A i \in 1..Len(Line) : Line'[i] = Line[i]
      <3>1. Append(Line, q) \in Seq(Queries) /\ Len(Append(Line, q)) = Len(Line) + 1
              /\ Append(Line, q)[Len(Line) + 1] = q
              /\ \A i \in 1..Len(Line) : Append(Line, q)[i] = Line[i]
        BY <1>1, AppendProperties
      <3> QED
        BY <1>5, <3>1, LenProperties
    <2>2. \A i \in DOMAIN Line' : i = Len(Line) + 1 \/ i \in DOMAIN Line
      BY <1>1, <2>1
    <2>3. ASSUME NEW i \in DOMAIN Line', NEW j \in DOMAIN Line',
                 IsStep(Line'[i]), IsStep(Line'[j]), i # j
          PROVE  Line'[i].by # Line'[j].by
      <3>1. CASE i \in DOMAIN Line /\ j \in DOMAIN Line
        BY <1>1, <2>1, <2>3, <3>1 DEF StepsOnce
      <3>2. CASE i \in DOMAIN Line /\ j = Len(Line) + 1
        BY <1>1, <1>3, <1>5, <2>1, <2>3, <3>2 DEF StepsOnce
      <3>3. CASE j \in DOMAIN Line /\ i = Len(Line) + 1
        BY <1>1, <1>3, <1>5, <2>1, <2>3, <3>3 DEF StepsOnce
      <3> QED
        BY <2>2, <2>3, <3>1, <3>2, <3>3
    <2>4. \A i \in DOMAIN Line' : Line'[i].by <= reads'
      BY <1>1, <1>3, <1>5, <2>1, <2>2 DEF StepsOnce
    <2>5. \A i \in DOMAIN Line', k \in DOMAIN applied : IsStep(Line'[i]) => Line'[i].by # applied[k]
      BY <1>1, <1>2, <1>3, <1>5, <2>1, <2>2 DEF StepsOnce
    <2> QED
      BY <1>5, <2>3, <2>4, <2>5 DEF StepsOnce, StepAppliedOnce, IsStep
  <1>6. ASSUME Line # <<>>, Line' = Tail(Line), UNCHANGED client,
               applied' = applied \/ (IsStep(Line[1]) /\ applied' = Append(applied, Line[1].by))
        PROVE  StepsOnce'
    <2>1. /\ Len(Line) >= 1 /\ DOMAIN Line' = 1..(Len(Line) - 1)
          /\ \A i \in 1..(Len(Line) - 1) : Line'[i] = Line[i + 1]
      <3>1. Tail(Line) \in Seq(Queries) /\ Len(Tail(Line)) = Len(Line) - 1
              /\ \A i \in 1..(Len(Line) - 1) : Tail(Line)[i] = Line[i + 1]
        BY <1>1, <1>6, HeadTailProperties
      <3>2. Len(Line) # 0
        BY <1>1, <1>6, EmptySeq
      <3> QED
        BY <1>1, <1>6, <3>1, <3>2, LenProperties
    <2>2. \A i \in DOMAIN Line' : i + 1 \in DOMAIN Line /\ i + 1 # 1 /\ Line'[i] = Line[i + 1]
      BY <1>1, <2>1
    <2>3. reads' = reads /\ Unsent' = Unsent
      BY <1>6 DEF client, Unsent
    <2>4. \A i, j \in DOMAIN Line' :
            IsStep(Line'[i]) /\ IsStep(Line'[j]) /\ i # j => Line'[i].by # Line'[j].by
      BY <2>1, <2>2 DEF StepsOnce
    <2>5. \A i \in DOMAIN Line' :
            Line'[i].by <= reads /\ (Unsent /\ IsStep(Line'[i]) => Line'[i].by < reads)
      BY <2>2 DEF StepsOnce
    <2>6. CASE applied' = applied
      BY <2>2, <2>3, <2>4, <2>5, <2>6 DEF StepsOnce, StepAppliedOnce, IsStep
    <2>7. CASE IsStep(Line[1]) /\ applied' = Append(applied, Line[1].by)
      <3> DEFINE by == Line[1].by
      <3>1. by \in Nat /\ 1 \in DOMAIN Line
        BY <1>1, <2>1
      <3>2. /\ DOMAIN applied' = 1..(Len(applied) + 1) /\ applied'[Len(applied) + 1] = by
            /\ \A k \in 1..Len(applied) : applied'[k] = applied[k]
        <4>1. Append(applied, by) \in Seq(Nat) /\ Len(Append(applied, by)) = Len(applied) + 1
                /\ Append(applied, by)[Len(applied) + 1] = by
                /\ \A k \in 1..Len(applied) : Append(applied, by)[k] = applied[k]
          BY <1>2, <3>1, AppendProperties
        <4> QED
          BY <2>7, <4>1, LenProperties
      <3>3. \A k \in DOMAIN applied' :
              (k = Len(applied) + 1 /\ applied'[k] = by)
                \/ (k \in DOMAIN applied /\ applied'[k] = applied[k])
        BY <1>2, <3>2
      <3>4. /\ by <= reads /\ (Unsent => by < reads)
            /\ \A k \in DOMAIN applied : applied[k] # by
            /\ \A i \in DOMAIN Line : i # 1 /\ IsStep(Line[i]) => Line[i].by # by
        BY <2>7, <3>1 DEF StepsOnce
      <3>5. \A k \in DOMAIN applied' : applied'[k] <= reads /\ (Unsent => applied'[k] < reads)
        BY <3>3, <3>4 DEF StepsOnce
      <3>6. \A i \in DOMAIN Line', k \in DOMAIN applied' : IsStep(Line'[i]) => Line'[i].by # applied'[k]
        BY <2>2, <3>3, <3>4 DEF StepsOnce
      <3>7. \A i, j \in DOMAIN applied' : i # j => applied'[i] # applied'[j]
        BY <3>3, <3>4 DEF StepsOnce, StepAppliedOnce
      <3> QED
        BY <2>3, <2>4, <2>5, <3>5, <3>6, <3>7 DEF StepsOnce, StepAppliedOnce, IsStep
    <2> QED
      BY <1>6, <2>6, <2>7
  <1>7. LineNext
    BY LineStep
  <1> QED
    BY <1>4, <1>5, <1>6, <1>7 DEF LineNext

----------------------------------------------------------------------------
(* A value read back is the module's, if a slot finds the link empty. *)

Ours == stage = "verify" \/ pc = "echo" \/ (pc = "flush" /\ outbound = <<>>)

\* While a request verifies, no other value than its own is on its way.
SetsOurs ==
  /\ \A i \in DOMAIN outbound : IsSet(outbound[i]) => pc = "flush" /\ outbound[i].value = job.arg
  /\ Ours => \A i \in DOMAIN toModule : IsSet(toModule[i]) => toModule[i].value = job.arg

\* Then the request's value, once it has been told, is the module's.
Told(f) == f.type = "ENTRY" /\ f.id = "setting" /\ f.val = job.arg
ReadTrue ==
  stage = "verify" =>
    /\ \A i \in DOMAIN inbound : Told(inbound[i]) => setting = job.arg
    /\ \A i \in DOMAIN reading.parts : Told(reading.parts[i]) => setting = job.arg
ReplyTrue ==
  reply.op = "set" /\ reply.val = "verified" =>
    pc = "idle" /\ stage = "verify" /\ setting = job.arg

LEMMA SetsOursStep ==
  ASSUME Types, Shape, SetsOurs, Backlog = 0, [Next]_vars
  PROVE  SetsOurs'
  <1>1. /\ outbound \in Seq(Queries) /\ Len(outbound) \in Nat /\ DOMAIN outbound = 1..Len(outbound)
    BY LenProperties DEF Types
  <1>2. ASSUME NEW q \in Queries, outbound' = Append(outbound, q)
        PROVE  /\ DOMAIN outbound' = 1..(Len(outbound) + 1) /\ outbound'[Len(outbound) + 1] = q
               /\ \A i \in 1..Len(outbound) : outbound'[i] = outbound[i]
               /\ outbound' # <<>>
    <2>1. Append(outbound, q) \in Seq(Queries) /\ Len(Append(outbound, q)) = Len(outbound) + 1
            /\ Append(outbound, q)[Len(outbound) + 1] = q /\ Append(outbound, q) # <<>>
            /\ \A i \in 1..Len(outbound) : Append(outbound, q)[i] = outbound[i]
      BY <1>1, AppendProperties
    <2> QED
      BY <1>2, <2>1, LenProperties
  <1>3. CASE Request
    <2>1. pc = "idle" /\ pc' = "query" /\ stage' = "find" /\ UNCHANGED <<outbound, toModule>>
      BY <1>3 DEF Request
    <2> QED
      BY <2>1 DEF SetsOurs, Ours
  <1>4. CASE SendQuery
    <2>1. /\ outbound' = Append(outbound, NextQuery) /\ pc = "query" /\ pc' = "pump"
          /\ UNCHANGED <<toModule, stage, job>>
      BY <1>4 DEF SendQuery, NextQuery
    <2>2. PICK q \in Queries : q = NextQuery /\ ~IsSet(q)
      BY NextQueryTypes
    <2>3. \A i \in DOMAIN outbound : ~IsSet(outbound[i])
      BY <2>1 DEF SetsOurs
    <2>4. \A i \in DOMAIN outbound' : ~IsSet(outbound'[i])
      BY <1>1, <1>2, <2>1, <2>2, <2>3
    <2> QED
      BY <2>1, <2>4 DEF SetsOurs, Ours, IsSet
  <1>5. CASE Write
    <2>1. /\ outbound' = Append(outbound, Query("WRITE", "setting", job.arg)) /\ pc' = "flush"
          /\ job.op = "set" /\ pc # "flush" /\ UNCHANGED <<toModule, stage, job>>
      BY <1>5 DEF Write, Refuted, Decoded, Shape
    <2>2. PICK q : q = Query("WRITE", "setting", job.arg)
      OBVIOUS
    <2>3. q \in Queries /\ q.value = job.arg
      BY <2>1, <2>2, JobTypes DEF Query, Queries, SetFrames, Types
    <2>4. \A i \in DOMAIN outbound : ~IsSet(outbound[i])
      BY <2>1 DEF SetsOurs
    <2>5. outbound' # <<>> /\ \A i \in DOMAIN outbound' : IsSet(outbound'[i]) => outbound'[i].value = job.arg
      BY <1>1, <1>2, <2>1, <2>2, <2>3, <2>4
    <2> QED
      BY <2>1, <2>5 DEF SetsOurs, Ours, IsSet
  <1>6. CASE Slot
    <2>1. toModule' = toModule \o outbound /\ outbound' = <<>> /\ UNCHANGED client
      BY <1>6 DEF Slot
    <2>2. Len(toModule) = 0
      BY <1>6, LenProperties DEF Slot, Types
    <2>3. toModule' = outbound
      BY <2>1, <2>2, EmptySeq, ConcatEmptySeq DEF Types
    <2>4. DOMAIN outbound' = {}
      BY <2>1
    <2> QED
      BY <2>1, <2>3, <2>4 DEF SetsOurs, client, IsSet
  <1>7. CASE LoseQuery \/ ModuleAnswers
    <2>1. toModule # <<>> /\ toModule' = Tail(toModule) /\ UNCHANGED <<client, outbound>>
      BY <1>7 DEF LoseQuery, ModuleAnswers
    <2>2. \A i \in DOMAIN toModule' : i + 1 \in DOMAIN toModule /\ toModule'[i] = toModule[i + 1]
      BY <2>1, FirstFrame
    <2> QED
      BY <2>1, <2>2 DEF SetsOurs, Ours, client, IsSet
  <1>8. CASE Flushed
    <2>1. /\ pc = "flush" /\ outbound = <<>> /\ pc' = "echo"
          /\ UNCHANGED <<job, stage, outbound, toModule>>
      BY <1>8 DEF Flushed
    <2> QED
      BY <2>1 DEF SetsOurs, Ours, IsSet
  <1>9. CASE ReadBack
    <2>1. pc = "echo" /\ pc' = "query" /\ stage' = "verify" /\ UNCHANGED <<job, outbound, toModule>>
      BY <1>9 DEF ReadBack
    <2> QED
      BY <2>1 DEF SetsOurs, Ours, IsSet
  <1>10. CASE StartStep
    <2>1. pc = "decode" /\ pc' = "query" /\ stage' = "step" /\ UNCHANGED <<job, outbound, toModule>>
      BY <1>10 DEF StartStep, Decoded
    <2> QED
      BY <2>1 DEF SetsOurs, Ours, IsSet
  <1>11. CASE PumpTakes \/ ResendDue \/ GiveUp \/ DecodeTail \/ AnswerGet \/ AnswerSet \/ AnswerCommand
    <2>1. /\ pc # "flush" /\ pc' \in {"query", "decode", "idle", "unverified", "dead"}
          /\ UNCHANGED <<job, stage, outbound, toModule>>
      BY <1>11 DEF PumpTakes, ResendDue, GiveUp, DecodeTail, AnswerGet, AnswerSet, AnswerCommand,
           Decoded, Refuted
    <2> QED
      BY <2>1 DEF SetsOurs, Ours, IsSet
  <1>12. CASE PumpDrops \/ CommandEnds \/ UNCHANGED vars
    <2>1. UNCHANGED <<client, outbound, toModule>>
      BY <1>12 DEF PumpDrops, CommandEnds, vars, client
    <2> QED
      BY <2>1 DEF SetsOurs, Ours, IsSet, client
  <1> QED
    BY <1>3, <1>4, <1>5, <1>6, <1>7, <1>8, <1>9, <1>10, <1>11, <1>12 DEF Next, ClientStep

LEMMA VerifiedStep ==
  ASSUME Types, Shape, SetsOurs, ReadTrue, ReplyTrue, [Next]_vars
  PROVE  ReadTrue' /\ ReplyTrue'
  <1> USE DEF module
  <1>1. CASE Request
    <2>1. stage' = "find" /\ reply'.op = "none"
      BY <1>1 DEF Request, NoReply
    <2> QED
      BY <2>1 DEF ReadTrue, ReplyTrue
  <1>2. CASE ReadBack \/ StartStep
    <2>1. /\ pc \in {"echo", "decode"} /\ inbound' = <<>> /\ UNCHANGED <<job, setting, reply>>
          /\ \E id \in Ids, first \in Steps \cup {"none"} : reading' = StartRead(id, first)
      <3>1. CASE ReadBack
        BY <3>1 DEF ReadBack, Ids
      <3>2. CASE StartStep
        <4>1. job.arg \in Steps
          BY <3>2, JobTypes DEF StartStep, Types
        <4> QED
          BY <3>2, <4>1 DEF StartStep, Decoded, Ids
      <3> QED
        BY <1>2, <3>1, <3>2
    <2>2. reading'.parts = <<>>
      BY <2>1, StartedReading
    <2>3. DOMAIN inbound' = {} /\ DOMAIN reading'.parts = {}
      BY <2>1, <2>2
    <2> QED
      BY <2>1, <2>3 DEF ReadTrue, ReplyTrue
  <1>3. CASE PumpTakes
    <2>1. PICK i \in DOMAIN inbound : Wants(inbound[i]) /\ reading' = Taken(inbound[i])
      BY <1>3 DEF PumpTakes, Taken
    <2>2. PICK f \in Entries : f = inbound[i]
      BY <2>1, WantedEntry
    <2>3. pc = "pump" /\ inbound' = <<>> /\ UNCHANGED <<job, stage, setting, reply>>
      BY <1>3 DEF PumpTakes
    <2>4. reading'.parts = Append(reading.parts, f) /\ reading.parts \in Seq(Entries)
      BY <2>1, <2>2, <2>3, TakenReading DEF Types, Reading
    <2>5. \A k \in DOMAIN reading'.parts :
            reading'.parts[k] = f \/ (k \in DOMAIN reading.parts /\ reading'.parts[k] = reading.parts[k])
      <3>1. /\ Len(reading.parts) \in Nat /\ Append(reading.parts, f) \in Seq(Entries)
            /\ Len(Append(reading.parts, f)) = Len(reading.parts) + 1
            /\ Append(reading.parts, f)[Len(reading.parts) + 1] = f
            /\ \A k \in 1..Len(reading.parts) : Append(reading.parts, f)[k] = reading.parts[k]
        BY <2>4, AppendProperties, LenProperties
      <3>2. /\ DOMAIN reading.parts = 1..Len(reading.parts)
            /\ DOMAIN Append(reading.parts, f) = 1..(Len(reading.parts) + 1)
        BY <2>4, <3>1, LenProperties
      <3>3. ASSUME NEW k \in 1..(Len(reading.parts) + 1)
            PROVE  k = Len(reading.parts) + 1 \/ k \in 1..Len(reading.parts)
        BY <3>1
      <3> QED
        BY <2>4, <3>1, <3>2, <3>3
    <2>6. stage = "verify" /\ Told(f) => setting = job.arg
      BY <2>2 DEF ReadTrue
    <2>7. DOMAIN inbound' = {}
      BY <2>3
    <2> QED
      BY <2>3, <2>5, <2>6, <2>7 DEF ReadTrue, ReplyTrue, Told
  <1>4. CASE AnswerSet
    <2>1. pc' = "idle" /\ UNCHANGED <<job, stage, reading, inbound, setting>>
      BY <1>4 DEF AnswerSet
    <2>2. ReadTrue'
      BY <2>1 DEF ReadTrue, Told
    <2>3. CASE Decoded("verify") /\ Value = job.arg /\ reply' = Reply(TRUE, "verified", AskedBy)
      <3> DEFINE n == Len(reading.parts)
      <3>1. stage = "verify" /\ reading.parts # <<>> /\ reading.parts \in Seq(Entries)
        BY <2>3 DEF Decoded, Shape, Types, Reading
      <3>2. n \in DOMAIN reading.parts /\ reading.parts[n] \in Entries
        BY <3>1, EmptySeq, LenProperties, ElementOfSeq
      <3>3. reading.parts[n].id = "setting"
        BY <3>1, <3>2, JobTypes DEF Shape, Types
      <3>4. reading.parts[n].val = job.arg
        BY <2>3 DEF Value, Last
      <3>5. setting = job.arg
        BY <3>1, <3>2, <3>3, <3>4 DEF ReadTrue, Told, Entries
      <3> QED
        BY <2>1, <2>2, <3>1, <3>5 DEF ReplyTrue
    <2>4. CASE reply' = Reply(TRUE, "unverified", 0)
      BY <2>2, <2>4 DEF ReplyTrue, Reply
    <2> QED
      BY <1>4, <2>3, <2>4 DEF AnswerSet
  <1>5. CASE ModuleAnswers
    <2>1. PICK q \in Queries : q = Head(toModule) /\ Module(q)
      BY <1>5, FirstFrame DEF ModuleAnswers
    <2>2. UNCHANGED client /\ toModule # <<>>
      BY <1>5 DEF ModuleAnswers
    <2>3. UNCHANGED <<pc, job, stage, reading, reply>>
      BY <2>2 DEF client
    <2>4. q = toModule[1] /\ 1 \in DOMAIN toModule
      BY <2>1, <2>2, FirstFrame
    <2>5. setting' = IF IsSet(q) THEN q.value ELSE setting
      BY <2>1, ModuleEffect
    <2>6. stage = "verify" => setting' = setting \/ setting' = job.arg
      BY <2>4, <2>5 DEF SetsOurs, Ours
    <2>7. ReplyTrue'
      BY <2>3, <2>6 DEF ReplyTrue
    <2>8. stage = "verify" /\ (\E i \in DOMAIN reading.parts : Told(reading.parts[i])) => setting' = job.arg
      BY <2>6 DEF ReadTrue
    <2>9. CASE inbound' = inbound
      BY <2>3, <2>6, <2>7, <2>8, <2>9 DEF ReadTrue, Told
    <2>10. ASSUME NEW f \in Answers, inbound' = Append(inbound, f),
                  f.type = "ENTRY" => Asks(q),
                  f.type = "ENTRY" /\ f.id = "setting" => f.val = setting
           PROVE  ReadTrue'
      <3>1. /\ inbound \in Seq(Answers) /\ Len(inbound) \in Nat /\ DOMAIN inbound = 1..Len(inbound)
        BY LenProperties DEF Types
      <3>2. /\ Append(inbound, f) \in Seq(Answers) /\ Len(Append(inbound, f)) = Len(inbound) + 1
            /\ Append(inbound, f)[Len(inbound) + 1] = f
            /\ \A k \in 1..Len(inbound) : Append(inbound, f)[k] = inbound[k]
        BY <3>1, AppendProperties
      <3>3. DOMAIN inbound' = 1..(Len(inbound) + 1)
        BY <2>10, <3>2, LenProperties
      <3>4. \A k \in DOMAIN inbound' :
              inbound'[k] = f \/ (k \in DOMAIN inbound /\ inbound'[k] = inbound[k])
        BY <2>10, <3>1, <3>2, <3>3
      <3>5. Told(f) => setting = job.arg
        BY <2>10 DEF Told
      <3>6. Told(f) /\ stage = "verify" => setting' = job.arg
        BY <2>6, <3>5
      <3> QED
        BY <2>3, <2>6, <2>8, <3>4, <3>6 DEF ReadTrue, Told
    <2> QED
      BY <2>1, <2>7, <2>9, <2>10, ModuleEffect
  <1>6. CASE GiveUp \/ DecodeTail \/ AnswerGet \/ AnswerCommand
    <2>1. UNCHANGED <<job, stage, reading, inbound, setting>> /\ pc # "idle"
      BY <1>6 DEF GiveUp, DecodeTail, AnswerGet, AnswerCommand, Decoded
    <2>2. reply' = reply \/ reply'.op # "set" \/ reply'.val # "verified"
      <3>1. CASE GiveUp \/ DecodeTail
        BY <3>1 DEF GiveUp, DecodeTail, Reply
      <3>2. CASE AnswerGet
        BY <3>2 DEF AnswerGet, Reply
      <3>3. CASE AnswerCommand
        BY <3>3 DEF AnswerCommand, Reply, Decoded, Shape
      <3> QED
        BY <1>6, <3>1, <3>2, <3>3
    <2> QED
      BY <2>1, <2>2 DEF ReadTrue, ReplyTrue, Told
  <1>7. CASE SendQuery
    <2>1. /\ pc = "query" /\ UNCHANGED <<job, stage, inbound, setting, reply>>
          /\ reading' = [reading EXCEPT !.attempts = @ + 1]
      BY <1>7 DEF SendQuery
    <2>2. reading'.parts = reading.parts
      BY <2>1 DEF Types, Reading
    <2> QED
      BY <2>1, <2>2 DEF ReadTrue, ReplyTrue, Told
  <1>8. CASE ResendDue \/ Write \/ Flushed
    <2>1. pc # "idle" /\ UNCHANGED <<job, stage, reading, inbound, setting, reply>>
      BY <1>8 DEF ResendDue, Write, Flushed, Refuted, Decoded
    <2> QED
      BY <2>1 DEF ReadTrue, ReplyTrue, Told
  <1>9. CASE PumpDrops \/ Slot \/ LoseQuery \/ CommandEnds \/ UNCHANGED vars
    <2>1. UNCHANGED <<pc, job, stage, reading, setting, reply>> /\ inbound' \in {inbound, <<>>}
      BY <1>9 DEF PumpDrops, Slot, LoseQuery, CommandEnds, vars, client
    <2>2. inbound' = inbound \/ DOMAIN inbound' = {}
      BY <2>1
    <2> QED
      BY <2>1, <2>2 DEF ReadTrue, ReplyTrue, Told
  <1> QED
    BY <1>1, <1>2, <1>3, <1>4, <1>5, <1>6, <1>7, <1>8, <1>9 DEF Next, ClientStep

----------------------------------------------------------------------------
(* Without a resend, and if the first query may be repeated at all before the *)
(* read gives up, no answer is left over for the next read.                  *)

\* A query has been sent and its chunk has not come in.
Asked == Under /\ reading.attempts = 1

\* At most one query is on its way or one entry has come in, that of the read.
Outstanding ==
  ~resent =>
    /\ reading.attempts <= 1
    /\ \A i \in DOMAIN Line : Asks(Line[i]) => Line[i].by = reads /\ Asked
    /\ \A i, j \in DOMAIN Line : Asks(Line[i]) /\ Asks(Line[j]) => i = j
    /\ \A i \in DOMAIN inbound : inbound[i].type = "ENTRY" =>
         inbound[i].by = reads /\ Asked /\ \A j \in DOMAIN Line : ~Asks(Line[j])

LEMMA Appended ==
  ASSUME NEW S, NEW s \in Seq(S), NEW e \in S
  PROVE  /\ Len(s) \in Nat /\ DOMAIN s = 1..Len(s) /\ DOMAIN Append(s, e) = 1..(Len(s) + 1)
         /\ Append(s, e)[Len(s) + 1] = e
         /\ \A i \in DOMAIN Append(s, e) :
              i = Len(s) + 1 \/ (i \in DOMAIN s /\ Append(s, e)[i] = s[i])
  <1>1. /\ Append(s, e) \in Seq(S) /\ Len(s) \in Nat /\ Len(Append(s, e)) = Len(s) + 1
        /\ Append(s, e)[Len(s) + 1] = e
        /\ \A i \in 1..Len(s) : Append(s, e)[i] = s[i]
    BY AppendProperties, LenProperties
  <1>2. DOMAIN s = 1..Len(s) /\ DOMAIN Append(s, e) = 1..(Len(s) + 1)
    BY <1>1, LenProperties
  <1>3. \A i \in 1..(Len(s) + 1) : i = Len(s) + 1 \/ i \in 1..Len(s)
    BY <1>1
  <1> QED
    BY <1>1, <1>2, <1>3

LEMMA Shortened ==
  ASSUME NEW S, NEW s \in Seq(S), s # <<>>
  PROVE  \A i \in DOMAIN Tail(s) :
           i + 1 \in DOMAIN s /\ i + 1 # 1 /\ Tail(s)[i] = s[i + 1] /\ 1 \in DOMAIN s
  <1>1. /\ Tail(s) \in Seq(S) /\ Len(Tail(s)) = Len(s) - 1 /\ Len(s) \in Nat \ {0}
        /\ \A i \in 1..(Len(s) - 1) : Tail(s)[i] = s[i + 1]
    BY HeadTailProperties, EmptySeq
  <1>2. DOMAIN s = 1..Len(s) /\ DOMAIN Tail(s) = 1..(Len(s) - 1)
    BY <1>1, LenProperties
  <1> QED
    BY <1>1, <1>2

LEMMA OutstandingStep ==
  ASSUME Types, Shape, Outstanding, OwnAnswersWithoutResend, MaxAttempts > 1, [Next]_vars
  PROVE  Outstanding' /\ OwnAnswersWithoutResend'
  <1> USE DEF module
  <1> SUFFICES ASSUME ~resent'
               PROVE  Outstanding' /\ OwnAnswersWithoutResend'
    BY DEF Outstanding, OwnAnswersWithoutResend
  <1>1. /\ MaxAttempts \in Nat /\ reading.attempts \in Nat /\ reads \in Nat
        /\ reading.parts \in Seq(Entries) /\ Line \in Seq(Queries) /\ inbound \in Seq(Answers)
    BY CountAssumption, LineTypes DEF Types, Reading
  <1>2. ~resent
    <2>1. CASE SendQuery
      BY <2>1 DEF SendQuery, Types
    <2>2. CASE ~SendQuery
      BY <2>2 DEF Next, ClientStep, Request, PumpTakes, PumpDrops, ResendDue, GiveUp, DecodeTail,
           AnswerGet, Write, Flushed, ReadBack, AnswerSet, StartStep, AnswerCommand, Slot, LoseQuery,
           ModuleAnswers, CommandEnds, client, vars
    <2> QED
      BY <2>1, <2>2
  <1>3. /\ reading.attempts <= 1
        /\ \A i \in DOMAIN Line : Asks(Line[i]) => Line[i].by = reads /\ Asked
        /\ \A i, j \in DOMAIN Line : Asks(Line[i]) /\ Asks(Line[j]) => i = j
        /\ \A i \in DOMAIN inbound : inbound[i].type = "ENTRY" =>
             inbound[i].by = reads /\ Asked /\ \A j \in DOMAIN Line : ~Asks(Line[j])
        /\ \A i \in DOMAIN reading.parts : reading.parts[i].by = reads
    BY <1>2 DEF Outstanding, OwnAnswersWithoutResend
  <1>4. ~GiveUp
    <2>1. reading.attempts # MaxAttempts
      BY <1>1, <1>3
    <2> QED
      BY <2>1 DEF GiveUp
  <1>5. CASE Request \/ ReadBack \/ StartStep
    <2>1. /\ ~Under /\ inbound' \in {inbound, <<>>}
          /\ \E id \in Ids, first \in Steps \cup {"none"} : reading' = StartRead(id, first)
      <3>1. CASE Request
        <4>1. reading' = StartRead(Target(job'), "none") /\ job' \in Jobs
          BY <3>1 DEF Request
        <4>2. Target(job') \in Ids
          BY <4>1, JobTypes
        <4> QED
          BY <3>1, <4>1, <4>2 DEF Request, Under
      <3>2. CASE ReadBack
        BY <3>2 DEF ReadBack, Ids, Under
      <3>3. CASE StartStep
        <4>1. job.arg \in Steps
          BY <3>3, JobTypes DEF StartStep, Types
        <4> QED
          BY <3>3, <4>1 DEF StartStep, Decoded, Ids, Under
      <3> QED
        BY <1>5, <3>1, <3>2, <3>3
    <2>2. reading'.attempts = 0 /\ reading'.parts = <<>>
      BY <2>1, StartedReading
    <2>3. Line' = Line
      BY <1>5 DEF Line, Request, ReadBack, StartStep
    <2>4. /\ \A i \in DOMAIN Line : ~Asks(Line[i])
          /\ \A i \in DOMAIN inbound' : inbound'[i].type # "ENTRY"
      <3>1. DOMAIN <<>> = {}
        OBVIOUS
      <3> QED
        BY <1>3, <2>1, <3>1 DEF Asked
    <2>5. DOMAIN reading'.parts = {}
      BY <2>2
    <2> QED
      BY <2>2, <2>3, <2>4, <2>5 DEF Outstanding, OwnAnswersWithoutResend, Asks
  <1>6. CASE SendQuery
    <2>1. /\ pc' = "pump" /\ reading' = [reading EXCEPT !.attempts = @ + 1] /\ reading.attempts = 0
          /\ UNCHANGED <<inbound, reads>>
      <3>1. ~(reading.attempts > 0)
        BY <1>6 DEF SendQuery
      <3>2. reading.attempts = 0
        BY <1>1, <3>1
      <3> QED
        BY <1>6, <3>2 DEF SendQuery
    <2>2. reading'.attempts = 1 /\ reading'.parts = reading.parts
      BY <1>1, <2>1 DEF Types, Reading
    <2>3. PICK q \in Queries : q = NextQuery /\ q.by = reads
      BY NextQueryTypes
    <2>4. Line' = Append(Line, q)
      BY <1>6, <2>3, LineOf
    <2>5. /\ \A i \in DOMAIN Line : ~Asks(Line[i])
          /\ \A i \in DOMAIN inbound : inbound[i].type # "ENTRY"
      BY <1>3, <2>1 DEF Asked
    <2>6. \A i \in DOMAIN Line' : Asks(Line'[i]) => i = Len(Line) + 1 /\ Line'[i] = q
      BY <1>1, <2>4, <2>5, Appended
    <2> QED
      BY <1>3, <2>1, <2>2, <2>3, <2>5, <2>6 DEF Outstanding, OwnAnswersWithoutResend, Asked, Under, Asks
  <1>7. CASE PumpTakes
    <2>1. PICK i \in DOMAIN inbound :
            /\ Wants(inbound[i]) /\ reading' = Taken(inbound[i])
      BY <1>7 DEF PumpTakes, Taken
    <2>2. PICK f \in Entries : f = inbound[i]
      BY <2>1, WantedEntry
    <2>3. pc = "pump" /\ inbound' = <<>> /\ UNCHANGED <<reads, toModule, outbound>>
      BY <1>7 DEF PumpTakes
    <2>4. reading'.parts = Append(reading.parts, f) /\ reading'.attempts = 0
      BY <2>1, <2>2, <2>3, TakenReading
    <2>5. f.by = reads /\ \A j \in DOMAIN Line : ~Asks(Line[j])
      BY <1>3, <2>1, <2>2 DEF Wants
    <2>6. \A k \in DOMAIN reading'.parts : reading'.parts[k].by = reads
      BY <1>1, <1>3, <2>4, <2>5, Appended
    <2>7. Line' = Line /\ DOMAIN inbound' = {}
      BY <2>3 DEF Line
    <2> QED
      BY <2>3, <2>4, <2>5, <2>6, <2>7 DEF Outstanding, OwnAnswersWithoutResend, Asks
  <1>8. CASE ResendDue
    <2>1. Under /\ Under' /\ UNCHANGED <<reading, reads, Line, inbound>>
      BY <1>8 DEF ResendDue, Under, Line
    <2> QED
      BY <1>3, <2>1 DEF Outstanding, OwnAnswersWithoutResend, Asked, Asks
  <1>9. CASE Write
    <2>1. ~Under /\ UNCHANGED <<reading, reads, inbound>>
      BY <1>9 DEF Write, Refuted, Decoded, Under
    <2>2. PICK q \in SetFrames : Line' = Append(Line, q)
      BY <1>9, LineOf
    <2>3. q \in Queries /\ ~Asks(q)
      BY DEF Queries, SetFrames, Asks
    <2>4. /\ \A i \in DOMAIN Line : ~Asks(Line[i])
          /\ \A i \in DOMAIN inbound : inbound[i].type # "ENTRY"
      BY <1>3, <2>1 DEF Asked
    <2>5. \A i \in DOMAIN Line' : ~Asks(Line'[i])
      BY <1>1, <2>2, <2>3, <2>4, Appended
    <2> QED
      BY <1>3, <2>1, <2>4, <2>5 DEF Outstanding, OwnAnswersWithoutResend, Asks
  <1>10. CASE LoseQuery \/ ModuleAnswers
    <2>1. Line # <<>> /\ Line' = Tail(Line) /\ Line[1] = Head(toModule) /\ Head(toModule) \in Queries
      BY <1>10, LineOf
    <2>2. UNCHANGED <<reading, reads>> /\ Asked' = Asked
      BY <1>10 DEF LoseQuery, ModuleAnswers, client, Asked, Under
    <2>3. \A i \in DOMAIN Line' : i + 1 \in DOMAIN Line /\ i + 1 # 1 /\ Line'[i] = Line[i + 1] /\ 1 \in DOMAIN Line
      BY <1>1, <2>1, Shortened
    <2>4. /\ \A i \in DOMAIN Line' : Asks(Line'[i]) => Line'[i].by = reads /\ Asked
          /\ \A i, j \in DOMAIN Line' : Asks(Line'[i]) /\ Asks(Line'[j]) => i = j
      <3>1. \A i \in DOMAIN Line' : Asks(Line'[i]) => Line'[i].by = reads /\ Asked
        BY <1>3, <2>3
      <3>2. ASSUME NEW i \in DOMAIN Line', NEW j \in DOMAIN Line', Asks(Line'[i]), Asks(Line'[j])
            PROVE  i = j
        <4>1. i + 1 = j + 1
          BY <1>3, <2>3, <3>2
        <4>2. i \in Nat /\ j \in Nat
          <5>1. DOMAIN Tail(Line) = 1..Len(Tail(Line)) /\ Len(Tail(Line)) \in Nat
            BY <1>1, <2>1, HeadTailProperties, LenProperties
          <5> QED
            BY <2>1, <3>2, <5>1
        <4> QED
          BY <4>1, <4>2
      <3> QED
        BY <3>1, <3>2
    <2>5. CASE inbound' = inbound
      BY <1>3, <2>2, <2>3, <2>4, <2>5 DEF Outstanding, OwnAnswersWithoutResend, Asks
    <2>6. ASSUME NEW f \in Answers, inbound' = Append(inbound, f), f.by = Line[1].by,
                 f.type = "ENTRY" => Asks(Line[1])
          PROVE  Outstanding' /\ OwnAnswersWithoutResend'
      <3>1. f.type = "ENTRY" => f.by = reads /\ Asked /\ \A j \in DOMAIN Line' : ~Asks(Line'[j])
        <4> SUFFICES ASSUME f.type = "ENTRY"
                     PROVE  f.by = reads /\ Asked /\ \A j \in DOMAIN Line' : ~Asks(Line'[j])
          OBVIOUS
        <4>1. 1 \in DOMAIN Line
          <5>1. Len(Line) \in Nat \ {0} /\ DOMAIN Line = 1..Len(Line)
            BY <1>1, <2>1, EmptySeq, LenProperties
          <5> QED
            BY <5>1
        <4> QED
          BY <1>3, <2>3, <2>6, <4>1
      <3>2. \A i \in DOMAIN inbound' : inbound'[i].type = "ENTRY" =>
              inbound'[i].by = reads /\ Asked /\ \A j \in DOMAIN Line' : ~Asks(Line'[j])
        BY <1>1, <1>3, <2>3, <2>6, <3>1, Appended
      <3> QED
        BY <1>3, <2>2, <2>4, <3>2 DEF Outstanding, OwnAnswersWithoutResend, Asks
    <2>7. CASE LoseQuery
      BY <2>5, <2>7 DEF LoseQuery
    <2>8. CASE ModuleAnswers
      <3>1. PICK q \in Queries : q = Line[1] /\ Module(q)
        BY <2>1, <2>8 DEF ModuleAnswers
      <3> QED
        BY <2>5, <2>6, <3>1, ModuleEffect
    <2> QED
      BY <1>10, <2>7, <2>8
  <1>11. CASE DecodeTail \/ AnswerGet \/ Flushed \/ AnswerSet \/ AnswerCommand
    <2>1. ~Under /\ UNCHANGED <<reading, reads, Line, inbound>>
      BY <1>11 DEF DecodeTail, AnswerGet, Flushed, AnswerSet, AnswerCommand, Decoded, Refuted, Under, Line
    <2>2. /\ \A i \in DOMAIN Line : ~Asks(Line[i])
          /\ \A i \in DOMAIN inbound : inbound[i].type # "ENTRY"
      BY <1>3, <2>1 DEF Asked
    <2> QED
      BY <1>3, <2>1, <2>2 DEF Outstanding, OwnAnswersWithoutResend, Asks
  <1>12. CASE PumpDrops \/ Slot \/ CommandEnds \/ UNCHANGED vars
    <2>1. UNCHANGED <<reading, reads>> /\ Asked' = Asked /\ inbound' \in {inbound, <<>>}
      BY <1>12 DEF PumpDrops, Slot, CommandEnds, vars, client, Asked, Under
    <2>2. Line' = Line
      BY <1>12, LineOf DEF PumpDrops, Slot, CommandEnds, vars, Line, LineNext
    <2>3. inbound' = inbound \/ DOMAIN inbound' = {}
      BY <2>1
    <2> QED
      BY <1>3, <2>1, <2>2, <2>3 DEF Outstanding, OwnAnswersWithoutResend, Asks
  <1> QED
    BY <1>4, <1>5, <1>6, <1>7, <1>8, <1>9, <1>10, <1>11, <1>12 DEF Next, ClientStep

----------------------------------------------------------------------------
(* The inductive invariant: its parts for any constants, then each condition with *)
(* what it adds.                                                                 *)

Orderly == Types /\ Shape /\ StepsOnce /\ PartsConsecutive
Verifying == SetsOurs /\ ReadTrue /\ ReplyTrue
Answering == Outstanding /\ OwnAnswersWithoutResend

IInv ==
  /\ Orderly
  /\ Backlog = 0 => Verifying
  /\ MaxAttempts > 1 => Answering

LEMMA InitIInv ==
  ASSUME Init
  PROVE  IInv
  <1>1. /\ Chunks \in Nat \ {0} /\ MaxAttempts \in Nat \ {0} /\ WriteTries \in Nat \ {0}
        /\ 0 \in 0..WriteTries
    BY CountAssumption
  <1>2. /\ reading = StartRead("setting", "none")
        /\ StartRead("setting", "none") \in Reading /\ reading.id = "setting"
        /\ reading.first = "none" /\ reading.attempts = 0 /\ reading.parts = <<>>
    BY StartedReading DEF Init, Ids
  <1>3. /\ Len(<<>>) = 0 /\ DOMAIN <<>> = {} /\ Line = <<>>
        /\ <<>> \in Seq(Queries) /\ <<>> \in Seq(Answers) /\ <<>> \in Seq(Nat)
    <2>1. Line = <<>>
      BY ConcatEmptySeq, EmptySeq DEF Init, Line
    <2> QED
      BY <2>1, EmptySeq
  <1>4. Types
    BY <1>1, <1>2, <1>3 DEF Init, Types, Jobs, Statuses
  <1>5. Shape
    BY <1>1, <1>2, <1>3 DEF Init, Shape, Under, Target
  <1>6. StepsOnce
    BY <1>3 DEF Init, StepsOnce, StepAppliedOnce
  <1>7. PartsConsecutive
    BY <1>2, <1>3 DEF PartsConsecutive
  <1>8. Verifying
    BY <1>3 DEF Init, Verifying, SetsOurs, Ours, ReadTrue, ReplyTrue, NoReply
  <1>9. Answering
    BY <1>2, <1>3 DEF Init, Answering, Outstanding, OwnAnswersWithoutResend
  <1> QED
    BY <1>4, <1>5, <1>6, <1>7, <1>8, <1>9 DEF IInv, Orderly

LEMMA NextIInv ==
  ASSUME IInv, [Next]_vars
  PROVE  IInv'
  <1>1. Orderly'
    BY TypesStep, ShapeStep, StepsOnceStep, ConsecutiveStep DEF IInv, Orderly
  <1>2. ASSUME Backlog = 0
        PROVE  Verifying'
    BY <1>2, SetsOursStep, VerifiedStep DEF IInv, Orderly, Verifying
  <1>3. ASSUME MaxAttempts > 1
        PROVE  Answering'
    BY <1>3, OutstandingStep DEF IInv, Orderly, Answering
  <1> QED
    BY <1>1, <1>2, <1>3 DEF IInv

LEMMA Invariance == Spec => []IInv
  BY InitIInv, NextIInv, PTL DEF Spec

----------------------------------------------------------------------------
(* The results. *)

\* elrs_config.py:295 (ParameterClient): whatever is lost, late or doubled, a read
\* stays inside its entry and a request inside its tries.
THEOREM PathTypes == Spec => []TypeOK
  <1>1. IInv => TypeOK
    BY DEF IInv, Orderly, Types, Shape, Reading, TypeOK
  <1> QED
    BY <1>1, Invariance, PTL

\* README.md:291 "Each step is sent to the device once": the module carries the step
\* of a read out at most once, for any number of resends and lost or late frames.
THEOREM StepOnce == Spec => []StepAppliedOnce
  <1>1. IInv => StepAppliedOnce
    BY DEF IInv, Orderly, StepsOnce
  <1> QED
    BY <1>1, Invariance, PTL

\* elrs_config.py:324 (_read_chunks): the parts that a read has put together follow
\* each other, for entries of any length and answers in any number.
THEOREM EntryInOrder == Spec => []PartsConsecutive
  <1>1. IInv => PartsConsecutive
    BY DEF IInv, Orderly
  <1> QED
    BY <1>1, Invariance, PTL

\* README.md:249 "verified by reading them back": a set that reports the value as
\* verified has reached the module, if the frames of one slot have left the link
\* before the next slot sends.
THEOREM VerifiedIsSet ==
  ASSUME Backlog = 0
  PROVE  Spec => []VerifiedMeansSet
  <1>1. IInv => VerifiedMeansSet
    BY DEF IInv, Verifying, ReplyTrue, VerifiedMeansSet
  <1> QED
    BY <1>1, Invariance, PTL

\* elrs_config.py:409 "Each step therefore draws one answer, not a stale extra one":
\* as long as no query had to be repeated, a read is put together from its own answers.
\* The condition says that the first query of a chunk is repeated before its read
\* gives up: elrs_backend.py:65 allows 3 s, a resend is due after 0.5 s.
THEOREM OwnAnswers ==
  ASSUME MaxAttempts > 1
  PROVE  Spec => []OwnAnswersWithoutResend
  <1>1. IInv => OwnAnswersWithoutResend
    BY DEF IInv, Answering
  <1> QED
    BY <1>1, Invariance, PTL
=============================================================================
