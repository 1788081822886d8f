-------------------------- MODULE ParameterClient --------------------------
(***************************************************************************)
(* The configuration path: ParameterClient (lib/elrs_config.py) in the     *)
(* configuration thread, its ProxyConfigTransport (lib/elrs_backend.py)    *)
(* that the proxy's main loop drains and fills, and the transmitter module *)
(* behind a serial link that may lose frames and be late at any time.      *)
(*                                                                         *)
(* The module has one setting, whose entry takes Chunks chunks, and one    *)
(* COMMAND parameter.  A request reads, sets or steps.  A frame carries,   *)
(* for the properties alone, the number of the read that asked for it.     *)
(***************************************************************************)
EXTENDS Naturals, Sequences, SequencesExt, FiniteSets

CONSTANTS
  Values,        \* the values that the setting can take
  Chunks,        \* chunks of the setting's entry
  MaxAttempts,   \* queries per chunk: timeout_seconds over the resend interval
  WriteTries,    \* range(3) of ParameterClient.write
  Steps,         \* COMMAND_STEPS that requests use
  Backlog,       \* frames that the module may still owe an answer at the next slot
  MaxRequests    \* bound of the model: requests

ASSUME ValuesAssumption == Values # {}
ASSUME CountAssumption ==
  /\ Chunks \in Nat \ {0}
  /\ MaxAttempts \in Nat \ {0}
  /\ WriteTries \in Nat \ {0}
  /\ Backlog \in Nat /\ MaxRequests \in Nat
ASSUME StepsAssumption == Steps \subseteq {"START", "CONFIRM", "CANCEL", "POLL"}

VARIABLES
  pc,        \* what the configuration thread is doing
  job,       \* the request it executes
  stage,     \* "find" first, then "verify" or "step"
  tries,     \* writes of this request so far
  reading,   \* the _read_chunks call under way
  outbound,  \* transport.outbound
  inbound,   \* transport.inbound
  toModule,  \* frames on their way to the transmitter module
  setting,   \* the module's setting
  status,    \* the module's state of the COMMAND parameter
  reply,     \* the answer to the last request
  \* History, read by the properties and the bounds alone.
  requests,  \* requests so far
  reads,     \* _read_chunks calls so far
  resent,    \* whether a query has been repeated
  applied    \* the reads whose step the module has carried out, in order

client == <<pc, job, stage, tries, reading, reply, requests, reads, resent>>
module == <<setting, status, applied>>
vars == <<pc, job, stage, tries, reading, outbound, inbound, toModule,
          setting, status, reply, requests, reads, resent, applied>>

----------------------------------------------------------------------------
Jobs == [op : {"get"}, arg : {"none"}] \cup [op : {"set"}, arg : Values]
          \cup [op : {"command"}, arg : Steps]
Statuses == {"READY", "PROGRESS", "CONFIRMATION_NEEDED"}
Target(j) == IF j.op = "command" THEN "command" ELSE "setting"

\* A call of _read_chunks: first is the step of a COMMAND, sent by the first
\* query alone; "none" for a plain read.
StartRead(id, first) ==
  [id |-> id, first |-> first, chunk |-> 0, left |-> Chunks, attempts |-> 0, parts |-> <<>>]

NoReply == [op |-> "none", ok |-> FALSE, val |-> "none", by |-> 0, read |-> 0]
Reply(ok, val, by) == [op |-> job.op, ok |-> ok, val |-> val, by |-> by, read |-> reads]

\* Frames to the module, and its answers: an entry with the chunks that are
\* left after this one, or the echo of a write.
Query(type, id, value) == [type |-> type, id |-> id, value |-> value, by |-> reads]
Entry(q, part, left, val) ==
  [type |-> "ENTRY", id |-> q.id, part |-> part, left |-> left, val |-> val, by |-> q.by]
Echo(q) ==
  [type |-> "ECHO", id |-> q.id, part |-> 0, left |-> 0, val |-> q.value, by |-> q.by]

Init ==
  /\ pc = "idle"
  /\ job = [op |-> "get", arg |-> "none"]
  /\ stage = "find"
  /\ tries = 0
  /\ reading = StartRead("setting", "none")
  /\ outbound = <<>>
  /\ inbound = <<>>
  /\ toModule = <<>>
  /\ setting \in Values
  /\ status = "READY"
  /\ reply = NoReply
  /\ requests = 0
  /\ reads = 0
  /\ resent = FALSE
  /\ applied = <<>>

----------------------------------------------------------------------------
(* The configuration thread. *)

\* A request arrives; every one starts by reading its parameter (find).
Request ==
  /\ pc = "idle"
  /\ requests < MaxRequests
  /\ requests' = requests + 1
  /\ job' \in Jobs
  /\ stage' = "find"
  /\ tries' = 0
  /\ reading' = StartRead(Target(job'), "none")
  /\ reads' = reads + 1
  /\ reply' = NoReply
  /\ pc' = "query"
  /\ UNCHANGED <<outbound, inbound, toModule, resent, module>>

\* Defect: the step is repeated by every query.
ValueRepeated == IF reading.first # "none" THEN reading.first ELSE "POLL"

\* The value of the next query: the step in the first one, POLL in the others.
StepValue ==
  IF reading.first # "none" /\ reading.chunk = 0 /\ reading.attempts = 0
  THEN reading.first ELSE "POLL"

\* One query of _read_chunks, the first of its chunk or a resend.
SendQuery ==
  /\ pc = "query"
  /\ outbound' = Append(outbound,
       IF stage = "step" THEN Query("WRITE", reading.id, StepValue)
                         ELSE Query("READ", reading.id, reading.chunk))
  /\ reading' = [reading EXCEPT !.attempts = @ + 1]
  /\ resent' = (resent \/ reading.attempts > 0)
  /\ pc' = "pump"
  /\ UNCHANGED <<job, stage, tries, inbound, toModule, module, reply, requests,
                 reads>>

\* Defects of the test below: without the type; without the chunks left.
WantsAnyType(f) ==
  /\ f.id = reading.id
  /\ reading.chunk = 0 \/ f.left = reading.left - 1
WantsAnyChunk(f) == f.type = "ENTRY" /\ f.id = reading.id

\* The want of _pump: any chunk will do as the first one.
Wants(f) ==
  /\ f.type = "ENTRY"
  /\ f.id = reading.id
  /\ reading.chunk = 0 \/ f.left = reading.left - 1

\* transport.poll empties the queue, and the frames behind the wanted one go too.
PumpTakes ==
  /\ pc = "pump"
  /\ \E i \in DOMAIN inbound :
       /\ Wants(inbound[i])
       /\ \A j \in 1..(i - 1) : ~Wants(inbound[j])
       /\ reading' = [reading EXCEPT
            !.parts = Append(@, inbound[i]),
            !.left = inbound[i].left,
            !.chunk = IF inbound[i].left = 0 THEN @ ELSE @ + 1,
            !.attempts = 0]
       /\ pc' = IF inbound[i].left = 0 THEN "decode" ELSE "query"
  /\ inbound' = <<>>
  /\ UNCHANGED <<job, stage, tries, outbound, toModule, module, reply, requests,
                 reads, resent>>

PumpDrops ==
  /\ pc = "pump"
  /\ inbound # <<>>
  /\ \A i \in DOMAIN inbound : ~Wants(inbound[i])
  /\ inbound' = <<>>
  /\ UNCHANGED <<client, outbound, toModule, module>>

\* The resend interval passes without the wanted answer.
ResendDue ==
  /\ pc = "pump"
  /\ reading.attempts < MaxAttempts
  /\ pc' = "query"
  /\ UNCHANGED <<job, stage, tries, reading, reply, requests, reads, resent, outbound,
                 inbound, toModule, module>>

\* Defect: a verifying read has no deadline, and the thread waits on.
GiveUpUncaught ==
  /\ pc = "pump"
  /\ reading.attempts = MaxAttempts
  /\ stage # "verify"
  /\ pc' = "idle" /\ reply' = Reply(FALSE, "timeout", reads)
  /\ UNCHANGED <<job, stage, tries, reading, requests, reads, resent, outbound, inbound,
                 toModule, module>>

\* The read times out: a verifying read goes on to the next write, the others
\* end the request with an error.
GiveUp ==
  /\ pc = "pump"
  /\ reading.attempts = MaxAttempts
  /\ IF stage = "verify"
     THEN pc' = "unverified" /\ UNCHANGED reply
     ELSE pc' = "idle" /\ reply' = Reply(FALSE, "timeout", reads)
  /\ UNCHANGED <<job, stage, tries, reading, requests, reads, resent, outbound, inbound,
                 toModule, module>>

\* Chunks are told apart by what they leave, so a late last chunk can pass for
\* the first one: the entry is then only its tail.
Whole(parts) == parts[1].part = 0

\* The tail of an entry does not decode: ValueError is answered, IndexError
\* ends the thread, since ConfigUdpServer.run does not catch it.
DecodeTail ==
  /\ pc = "decode"
  /\ ~Whole(reading.parts)
  /\ \/ pc' = "dead" /\ UNCHANGED reply
     \/ pc' = "idle" /\ reply' = Reply(FALSE, "garbled", 0)
  /\ UNCHANGED <<job, stage, tries, reading, requests, reads, resent, outbound, inbound,
                 toModule, module>>

Decoded(step) == pc = "decode" /\ Whole(reading.parts) /\ stage = step
Value == Last(reading.parts).val
AskedBy == Last(reading.parts).by

\* get: the value found is the answer.
AnswerGet ==
  /\ Decoded("find")
  /\ job.op = "get"
  /\ reply' = Reply(TRUE, Value, AskedBy)
  /\ pc' = "idle"
  /\ UNCHANGED <<job, stage, tries, reading, requests, reads, resent, outbound, inbound,
                 toModule, module>>

\* The value read back is not the one written, or could not be read back.
Refuted == pc = "unverified" \/ (Decoded("verify") /\ Value # job.arg)

\* set: queue the write frame.
Write ==
  /\ \/ Decoded("find") /\ job.op = "set"
     \/ Refuted /\ tries < WriteTries
  /\ tries' = tries + 1
  /\ outbound' = Append(outbound, Query("WRITE", "setting", job.arg))
  /\ pc' = "flush"
  /\ UNCHANGED <<job, stage, reading, inbound, toModule, module, reply, requests,
                 reads, resent>>

\* transport.flush returns once the main loop has taken the frame.
Flushed ==
  /\ pc = "flush"
  /\ outbound = <<>>
  /\ pc' = "echo"
  /\ UNCHANGED <<job, stage, tries, reading, reply, requests, reads, resent, outbound,
                 inbound, toModule, module>>

\* The pump for the echo drops every frame, wanted or not; then the value is
\* read back.
ReadBack ==
  /\ pc = "echo"
  /\ inbound' = <<>>
  /\ stage' = "verify"
  /\ reading' = StartRead("setting", "none")
  /\ reads' = reads + 1
  /\ pc' = "query"
  /\ UNCHANGED <<job, tries, reply, requests, resent, outbound, toModule, module>>

\* Defect: a value that could not be read back passes for verified.
AnswerSetBlindly ==
  /\ \/ Decoded("verify") /\ Value = job.arg /\ reply' = Reply(TRUE, "verified", AskedBy)
     \/ Refuted /\ tries = WriteTries /\ reply' = Reply(TRUE, "verified", 0)
  /\ pc' = "idle"
  /\ UNCHANGED <<job, stage, tries, reading, requests, reads, resent, outbound, inbound,
                 toModule, module>>

\* set: the value read back decides, after as many writes as there are tries.
AnswerSet ==
  /\ \/ Decoded("verify") /\ Value = job.arg /\ reply' = Reply(TRUE, "verified", AskedBy)
     \/ Refuted /\ tries = WriteTries /\ reply' = Reply(TRUE, "unverified", 0)
  /\ pc' = "idle"
  /\ UNCHANGED <<job, stage, tries, reading, requests, reads, resent, outbound, inbound,
                 toModule, module>>

\* command_step: drop what has come in so far, then send the step.
StartStep ==
  /\ Decoded("find")
  /\ job.op = "command"
  /\ inbound' = <<>>
  /\ stage' = "step"
  /\ reading' = StartRead("command", job.arg)
  /\ reads' = reads + 1
  /\ pc' = "query"
  /\ UNCHANGED <<job, tries, reply, requests, resent, outbound, toModule, module>>

AnswerCommand ==
  /\ Decoded("step")
  /\ reply' = Reply(TRUE, Value, AskedBy)
  /\ pc' = "idle"
  /\ UNCHANGED <<job, stage, tries, reading, requests, reads, resent, outbound, inbound,
                 toModule, module>>

ClientStep ==
  \/ SendQuery \/ PumpTakes \/ PumpDrops \/ ResendDue \/ GiveUp
  \/ DecodeTail \/ AnswerGet \/ Write \/ Flushed \/ ReadBack \/ AnswerSet
  \/ StartStep \/ AnswerCommand

----------------------------------------------------------------------------
(* The main loop of the proxy. *)

\* A slot of the loop: drain_outbound, and the burst goes to the module.
Slot ==
  /\ outbound # <<>>
  /\ Len(toModule) <= Backlog
  /\ toModule' = toModule \o outbound
  /\ outbound' = <<>>
  /\ UNCHANGED <<client, inbound, module>>

----------------------------------------------------------------------------
(* The link and the transmitter module, from the protocol's step table.  All *)
(* the time that a query and its answer take is spent in toModule: the answer *)
(* is given as it is parsed by the main loop and observed.                    *)

\* The answer reaches transport.inbound, or is lost on the way.
Answer(f) ==
  \/ inbound' = Append(inbound, f)
  \/ UNCHANGED inbound

\* How the COMMAND parameter answers a step; POLL and misplaced steps change nothing.
NextStatuses(step) ==
  CASE step = "START" /\ status = "READY"                 -> {"PROGRESS", "CONFIRMATION_NEEDED"}
    [] step = "CONFIRM" /\ status = "CONFIRMATION_NEEDED" -> {"PROGRESS"}
    [] step = "CANCEL"                                    -> {"READY"}
    [] OTHER                                              -> {status}

Module(q) ==
  \/ /\ q.type = "READ" /\ q.id = "setting"
     /\ Answer(Entry(q, q.value, Chunks - 1 - q.value, setting))
     /\ UNCHANGED module
  \/ /\ q.type = "READ" /\ q.id = "command"
     /\ Answer(Entry(q, 0, 0, status))
     /\ UNCHANGED module
  \/ /\ q.type = "WRITE" /\ q.id = "setting"
     /\ setting' = q.value
     /\ Answer(Echo(q))
     /\ UNCHANGED <<status, applied>>
  \/ /\ q.type = "WRITE" /\ q.id = "command"
     /\ status' \in NextStatuses(q.value)
     /\ Answer(Entry(q, 0, 0, status'))
     /\ applied' = IF q.value = "POLL" THEN applied ELSE Append(applied, q.by)
     /\ UNCHANGED setting

ModuleAnswers ==
  /\ toModule # <<>>
  /\ toModule' = Tail(toModule)
  /\ Module(Head(toModule))
  /\ UNCHANGED <<client, outbound>>

LoseQuery ==
  /\ toModule # <<>>
  /\ toModule' = Tail(toModule)
  /\ UNCHANGED <<client, outbound, inbound, module>>

\* The command that runs comes to its end.
CommandEnds ==
  /\ status = "PROGRESS"
  /\ status' = "READY"
  /\ UNCHANGED <<client, outbound, inbound, toModule, setting, applied>>

Next == Request \/ ClientStep \/ Slot \/ LoseQuery \/ ModuleAnswers \/ CommandEnds

\* The thread runs, the main loop keeps giving it slots, and no frame stays on
\* the link for ever: it is answered or lost, every one of them perhaps.
Fairness ==
  /\ WF_vars(ClientStep)
  /\ WF_vars(Slot)
  /\ WF_vars(ModuleAnswers \/ LoseQuery)

Spec == Init /\ [][Next]_vars /\ Fairness

----------------------------------------------------------------------------
TypeOK ==
  /\ pc \in {"idle", "query", "pump", "decode", "flush", "echo", "unverified", "dead"}
  /\ job \in Jobs
  /\ stage \in {"find", "verify", "step"}
  /\ tries \in 0..WriteTries
  /\ reading.chunk \in 0..(Chunks - 1) /\ reading.left \in 0..Chunks
  /\ reading.attempts \in 0..MaxAttempts
  /\ Len(reading.parts) <= Chunks
  /\ setting \in Values /\ status \in Statuses

\* README.md:291 "Each step is sent to the device once": whatever is lost or
\* late, and however often the read repeats its query, the module carries a step
\* out at most once.
StepAppliedOnce == \A i, j \in DOMAIN applied : i # j => applied[i] # applied[j]

\* elrs_config.py:409 "Each step therefore draws one answer, not a stale extra
\* one": the status that a command request reports is an answer to its own
\* queries.  A resend of the read before leaves a second answer, which arrives
\* after the drop of line 415 and is taken for this one.
StepAnsweredByItself ==
  pc = "idle" /\ reply.op = "command" /\ reply.ok => reply.by = reply.read

\* As long as no query had to be repeated, every answer belongs to the read
\* that takes it, whatever the order of requests.
OwnAnswersWithoutResend ==
  ~resent => \A i \in DOMAIN reading.parts : reading.parts[i].by = reads

\* Late and doubled chunks never disorder an entry: its parts follow each other
\* up to the last one, though the first may be missing.
PartsConsecutive ==
  \A i \in 2..Len(reading.parts) : reading.parts[i].part = reading.parts[i - 1].part + 1

\* README.md:249 "verified by reading them back": a set that reports the value
\* as verified has reached the module, late answers and lost writes included.
VerifiedMeansSet ==
  pc = "idle" /\ reply.op = "set" /\ reply.val = "verified" => setting = job.arg

\* Every request comes to its end, with a dead module as well: the thread
\* answers it or dies of an entry that it cannot decode.
RequestEnds == pc = "query" ~> pc \in {"idle", "dead"}
=============================================================================
