----------------------------- MODULE MlrsClient -----------------------------
(***************************************************************************)
(* MlrsClient and MlrsConfigService (lib/mlrs_backend.py): the configurator *)
(* protocol of mLRS, which knows neither numbers nor acknowledgements.  A  *)
(* parameter comes in two to four items; past the last one the module      *)
(* sends an end marker; the module must be left alone for four seconds     *)
(* after Save.  One request is executed at a time; the frames go through   *)
(* the transport that the main loop drains in its slots.                   *)
(***************************************************************************)
EXTENDS Naturals, Sequences, SequencesExt

CONSTANTS
  Values,        \* the values that a parameter can take
  Parts,         \* items of each parameter: Parts[i + 1] of parameter i
  IndexLimit,    \* 128, the indexes that a parameter can have
  ReadTries,     \* range(3) of write
  DeadTime,      \* MLRS_SAVE_DEADTIME_S, in ticks
  Commands,      \* the synthetic commands, "Save" among them
  Requests,      \* the requests that clients send
  None,          \* no value
  MaxRequests    \* bound of the model: requests

N == Len(Parts)
Indexes == 0..(N - 1)

ASSUME PartsAssumption == Parts \in Seq(2..4) /\ N \in 1..IndexLimit
ASSUME CountAssumption ==
  /\ ReadTries \in Nat \ {0} /\ DeadTime \in Nat
  /\ IndexLimit \in 1..128 /\ MaxRequests \in Nat
ASSUME NoneAssumption == None \notin Commands /\ None # "verified"
ASSUME RequestsAssumption == \A r \in Requests :
  \/ r.op \in {"devices", "params"} /\ r \in [op : {"devices", "params"}]
  \/ r.op = "get" /\ r \in [op : {"get"}, id : Nat]
  \/ r.op = "set" /\ r \in [op : {"set"}, id : Nat, arg : Values \cup {None}]
  \/ r.op = "command" /\ r \in [op : {"command"}, id : Commands,
                                arg : {"START", "CONFIRM", "CANCEL", "POLL"}]

VARIABLES
  pc,        \* what the configuration thread is doing
  stage,     \* what for: "info", "list", "write", "verify" or "run"
  job,       \* the request
  index,     \* the parameter that is read
  got,       \* the items of it so far
  records,   \* the list so far
  tries,     \* reads of a verification so far
  summary,   \* self.summary: the parameter count it tells, or none
  cache,     \* self.parameter_cache, or none
  awaiting,  \* self.awaiting_confirmation
  dead,      \* ticks until command_dead_until
  reply,     \* the answer to the last request
  inbox,     \* transport.inbound and self.pending, which continues it
  outbound,  \* transport.outbound
  toModule,  \* frames on their way to the module
  setting,   \* the module's parameters
  reports,   \* the parameter count it tells, 0 with firmware that does not
  \* History, read by the properties and the bounds alone.
  requests,  \* requests so far
  late,      \* an answer came, or may still come, after its deadline
  granted,   \* commands started, and neither cancelled nor run since
  quiet      \* ticks since Save was taken for the module, up to DeadTime

client == <<pc, stage, job, index, got, records, tries, summary, cache, awaiting,
            reply, requests, late, granted>>
link == <<inbox, outbound, toModule>>
module == <<setting, reports>>
time == <<dead, quiet>>
vars == <<client, link, module, time>>

Init ==
  /\ pc = "idle" /\ stage = "info" /\ job = [op |-> "devices"]
  /\ index = 0 /\ got = <<>> /\ records = <<>> /\ tries = 0
  /\ summary = None /\ cache = None /\ awaiting = None /\ reply = None
  /\ inbox = <<>> /\ outbound = <<>> /\ toModule = <<>>
  /\ setting \in [Indexes -> Values]
  /\ reports \in {0, N}
  /\ requests = 0 /\ late = FALSE /\ granted = {}
  /\ dead = 0 /\ quiet = DeadTime

----------------------------------------------------------------------------
(* The frames. *)

Item(i, n) == [kind |-> "ITEM", index |-> i, nr |-> n, val |-> IF n = 1 THEN setting[i] ELSE None]
EndMarker == [kind |-> "ITEM", index |-> 255, nr |-> 1, val |-> None]
InfoItem(kind) == [kind |-> kind, index |-> 0, nr |-> 1, val |-> reports]

\* What the module answers.
Answers(q) ==
  CASE q.type = "INFO" -> <<InfoItem("TX"), InfoItem("INFO")>>
    [] q.type = "READ" -> IF q.id < N THEN [n \in 1..Parts[q.id + 1] |-> Item(q.id, n)]
                                      ELSE <<EndMarker>>
    [] OTHER           -> <<>>

\* Without the ones that the request under way may not see from an earlier one:
\* the end marker has an index of its own and stays.
Stale(m) ==
  IF stage = "info" THEN m.kind \in {"TX", "INFO"}
                    ELSE m.kind = "ITEM" /\ m.index = index

\* Defect: any parameter's item will do.
WantedAnyIndex(m) ==
  IF stage = "info" THEN m.kind = IF got = <<>> THEN "TX" ELSE "INFO"
                    ELSE m.kind = "ITEM" /\ m.nr = Len(got) + 1

\* The predicate of the _wait under way.
Wanted(m) ==
  IF stage = "info"
  THEN m.kind = IF got = <<>> THEN "TX" ELSE "INFO"
  ELSE /\ m.kind = "ITEM" /\ m.nr = Len(got) + 1
       /\ m.index = index \/ m = EndMarker

Complete(items) ==
  IF stage = "info" THEN Len(items) = 2
                    ELSE Head(items) = EndMarker \/ Len(items) = Parts[index + 1]
AtEnd == Head(got) = EndMarker
Record == [index |-> index, val |-> Head(got).val]

----------------------------------------------------------------------------
(* The configuration thread. *)

GoTo(label, for, i) == pc' = label /\ stage' = for /\ index' = i /\ got' = <<>>

\* execute returns: the local variables of its calls are gone.
Answer(r) ==
  /\ reply' = r
  /\ records' = <<>> /\ tries' = 0
  /\ GoTo("idle", "info", 0)

\* execute: devices and params ask the module anew; the others look the
\* parameter up, in the cache if there is one.
Request ==
  /\ pc = "idle"
  /\ requests < MaxRequests
  /\ requests' = requests + 1
  /\ job' \in Requests
  /\ reply' = None
  /\ CASE job'.op \in {"devices", "params"} -> GoTo("clear", "info", 0)
       [] cache # None                      -> GoTo("found", stage, 0)
       [] summary # None                    -> GoTo("clear", "list", 0)
       [] OTHER                             -> GoTo("clear", "info", 0)
  /\ UNCHANGED <<records, tries, summary, cache, awaiting, late, granted, link, module,
                 time>>

\* _discard: the stale frames are dropped, the others keep their order.
Kept ==
  LET kept[n \in 0..Len(inbox)] ==
        IF n = 0 THEN <<>>
        ELSE IF Stale(inbox[n]) THEN kept[n - 1]
        ELSE Append(kept[n - 1], inbox[n])
  IN  kept[Len(inbox)]

\* Late items of an earlier read are dropped before the dead time is waited for.
Clear ==
  /\ pc = "clear"
  /\ inbox' = Kept
  /\ pc' = "send"
  /\ UNCHANGED <<stage, job, index, got, records, tries, summary, cache, awaiting, reply,
                 requests, late, granted, outbound, toModule, module, time>>

Frame ==
  CASE stage = "info"               -> [type |-> "INFO", id |-> 0]
    [] stage \in {"list", "verify"} -> [type |-> "READ", id |-> index]
    [] stage = "write"              -> [type |-> "SET", id |-> job.id, val |-> job.arg]
    [] stage = "run"                -> [type |-> "COMMAND", id |-> job.id]

\* _queue_command, when the dead time is over.
Send ==
  /\ pc = "send"
  /\ dead = 0
  /\ outbound' = Append(outbound, Frame)
  /\ pc' = IF stage \in {"write", "run"} THEN "flush" ELSE "wait"
  /\ UNCHANGED <<stage, job, index, got, records, tries, summary, cache, awaiting, reply,
                 requests, late, granted, inbox, toModule, module, time>>

\* _take: the first wanted frame; the others keep their places.
Take ==
  /\ pc = "wait"
  /\ \E i \in DOMAIN inbox :
       /\ Wanted(inbox[i])
       /\ \A j \in 1..(i - 1) : ~Wanted(inbox[j])
       /\ got' = Append(got, inbox[i])
       /\ inbox' = RemoveAt(inbox, i)
       /\ pc' = IF Complete(got') THEN "read" ELSE "wait"
  /\ UNCHANGED <<stage, job, index, records, tries, summary, cache, awaiting, reply,
                 requests, late, granted, outbound, toModule, module, time>>

\* request_info returns; devices is answered, the others read the list.
InfoRead ==
  /\ pc = "read" /\ stage = "info"
  /\ summary' = got[2].val
  /\ IF job.op = "devices"
     THEN Answer("ok")
     ELSE GoTo("clear", "list", 0) /\ UNCHANGED <<records, tries, reply>>
  /\ UNCHANGED <<job, cache, awaiting, requests, late, granted, link,
                 module, time>>

\* Defect: the last parameter is left out.
ListEndsEarly == index + 2 = summary

\* The list ends with its count, or without one at the last index.
ListEnds == index + 1 = IF summary = 0 THEN IndexLimit ELSE summary

\* read_all: the next parameter, until the count or the end marker.
ListRead ==
  /\ pc = "read" /\ stage = "list"
  /\ records' = IF AtEnd THEN records ELSE Append(records, Record)
  /\ IF AtEnd \/ ListEnds
     THEN /\ cache' = records'
          /\ GoTo("found", stage, 0)
     ELSE /\ GoTo("clear", "list", index + 1)
          /\ UNCHANGED cache
  /\ UNCHANGED <<job, tries, summary, awaiting, reply, requests, late, granted, link,
                 module, time>>

\* A deadline passes: reading for a request ends the request, a verification
\* goes on to its next read.
TimeOut ==
  /\ pc = "wait"
  /\ late' = (late \/ outbound # <<>> \/ toModule # <<>> \/ \E i \in DOMAIN inbox : Wanted(inbox[i]))
  /\ IF stage = "verify"
     THEN GoTo("unverified", stage, index) /\ UNCHANGED <<records, tries, reply>>
     ELSE Answer("timeout")
  /\ UNCHANGED <<job, summary, cache, awaiting, requests, granted, link, module, time>>

Found(id) == pc = "found" /\ \E i \in DOMAIN cache : cache[i].index = id

\* params and get are answered; a parameter that the list has not is an error,
\* and so is a value that the parameter does not allow.
AnswerFound ==
  /\ pc = "found"
  /\ \/ job.op = "params" /\ Answer("ok")
     \/ job.op = "get" /\ Answer(IF Found(job.id) THEN "ok" ELSE "error")
     \/ job.op = "set" /\ ~(Found(job.id) /\ job.arg \in Values) /\ Answer("error")
  /\ UNCHANGED <<job, summary, cache, awaiting,
                 requests, late, granted, link, module, time>>

\* write: the frame, without clearing anything before it.
StartWrite ==
  /\ job.op = "set" /\ Found(job.id) /\ job.arg \in Values
  /\ GoTo("send", "write", job.id)
  /\ UNCHANGED <<job, records, tries, summary, cache, awaiting, reply, requests, late,
                 granted, link, module, time>>

\* Defect: the cache survives the write.
WrittenCached ==
  /\ pc = "flush" /\ stage = "write"
  /\ outbound = <<>>
  /\ summary' = None
  /\ GoTo("clear", "verify", job.id)
  /\ UNCHANGED <<job, records, tries, cache, awaiting, reply, requests, late, granted,
                 link, module, time>>

\* The main loop has taken the write: what is known of the module is void.
Written ==
  /\ pc = "flush" /\ stage = "write"
  /\ outbound = <<>>
  /\ summary' = None /\ cache' = None
  /\ GoTo("clear", "verify", job.id)
  /\ UNCHANGED <<job, records, tries, awaiting, reply, requests, late, granted, link,
                 module, time>>

\* Defect: a parameter that could not be read back passes for verified.
VerifiedBlindly ==
  /\ stage = "verify" /\ pc \in {"read", "unverified"}
  /\ pc = "read" => Record.val = job.arg
  /\ Answer("verified")
  /\ UNCHANGED <<job, summary, cache, awaiting,
                 requests, late, granted, link, module, time>>

\* The value read back is the one written.
Verified ==
  /\ stage = "verify" /\ pc = "read"
  /\ ~AtEnd /\ Record.val = job.arg
  /\ Answer("verified")
  /\ UNCHANGED <<job, summary, cache, awaiting,
                 requests, late, granted, link, module, time>>

\* Defect: no end to the reads.
NotVerifiedAgain ==
  /\ stage = "verify"
  /\ pc = "unverified" \/ (pc = "read" /\ (AtEnd \/ Record.val # job.arg))
  /\ GoTo("clear", "verify", index)
  /\ UNCHANGED <<job, records, tries, summary, cache, awaiting, reply, requests, late,
                 granted, link, module, time>>

\* Another value, the end marker or nothing: read again, or report it.
NotVerified ==
  /\ stage = "verify"
  /\ pc = "unverified" \/ (pc = "read" /\ (AtEnd \/ Record.val # job.arg))
  /\ IF tries + 1 = ReadTries
     THEN Answer("unverified")
     ELSE GoTo("clear", "verify", index) /\ tries' = tries + 1 /\ UNCHANGED <<records, reply>>
  /\ UNCHANGED <<job, summary, cache, awaiting, requests, late, granted, link,
                 module, time>>

Step(s) == pc = "found" /\ job.op = "command" /\ job.arg = s

\* command_step without CONFIRM: START asks for it, CANCEL drops it.
Ask ==
  /\ \/ Step("START") /\ awaiting' = job.id /\ granted' = granted \cup {job.id}
     \/ Step("CANCEL") /\ awaiting' = (IF awaiting = job.id THEN None ELSE awaiting)
                       /\ granted' = granted \ {job.id}
     \/ Step("POLL") /\ UNCHANGED <<awaiting, granted>>
  /\ Answer(IF awaiting' = job.id THEN "confirm" ELSE "ok")
  /\ UNCHANGED <<job, summary, cache, requests, late,
                 link, module, time>>

\* CONFIRM of a command that does not wait for it.
Refuse ==
  /\ Step("CONFIRM") /\ awaiting # job.id
  /\ Answer("error")
  /\ UNCHANGED <<job, summary, cache, awaiting,
                 requests, late, granted, link, module, time>>

\* Defect: the confirmation stays, for another CONFIRM to run the command again.
ConfirmKept ==
  /\ Step("CONFIRM") /\ awaiting = job.id
  /\ GoTo("send", "run", 0)
  /\ UNCHANGED <<job, records, tries, summary, cache, awaiting, reply, requests, late,
                 granted, link, module, time>>

Confirm ==
  /\ Step("CONFIRM") /\ awaiting = job.id
  /\ awaiting' = None
  /\ GoTo("send", "run", 0)
  /\ UNCHANGED <<job, records, tries, summary, cache, reply, requests, late, granted,
                 link, module, time>>

\* Defect: no dead time.
RanWithoutDeadTime ==
  /\ pc = "flush" /\ stage = "run"
  /\ outbound = <<>>
  /\ summary' = None /\ cache' = None
  /\ granted' = granted \ {job.id}
  /\ Answer("ok")
  /\ UNCHANGED <<job, awaiting, requests, late, link,
                 module, time>>

\* The main loop has taken the command: after Save the dead time starts.
Ran ==
  /\ pc = "flush" /\ stage = "run"
  /\ outbound = <<>>
  /\ summary' = None /\ cache' = None
  /\ dead' = IF job.id = "Save" THEN DeadTime ELSE dead
  /\ granted' = granted \ {job.id}
  /\ Answer("ok")
  /\ UNCHANGED <<job, awaiting, requests, late, link,
                 module, quiet>>

ClientStep ==
  \/ Clear \/ Send \/ Take \/ InfoRead \/ ListRead \/ TimeOut \/ AnswerFound
  \/ StartWrite \/ Written \/ Verified \/ NotVerified \/ Ask \/ Refuse \/ Confirm \/ Ran

----------------------------------------------------------------------------
(* Time, the main loop, the link and the module. *)

Tick ==
  /\ dead > 0 \/ quiet < DeadTime
  /\ dead' = IF dead > 0 THEN dead - 1 ELSE 0
  /\ quiet' = IF quiet < DeadTime THEN quiet + 1 ELSE quiet
  /\ UNCHANGED <<client, link, module>>

\* drain_outbound in a slot; the burst goes to the module.
Slot ==
  /\ outbound # <<>>
  /\ toModule' = toModule \o outbound
  /\ outbound' = <<>>
  /\ quiet' = IF \E i \in DOMAIN outbound : outbound[i].type = "COMMAND" /\ outbound[i].id = "Save"
              THEN 0 ELSE quiet
  /\ UNCHANGED <<client, inbox, module, dead>>

\* The module takes a frame and answers; any item of the answer may be lost.
ModuleAnswers ==
  /\ toModule # <<>>
  /\ LET q == Head(toModule)
     IN /\ setting' = IF q.type = "SET" THEN [setting EXCEPT ![q.id] = q.val] ELSE setting
        /\ \E count \in 0..Len(Answers(q)) : \E arrives \in [1..count -> DOMAIN Answers(q)] :
             /\ \A m, n \in 1..count : m < n => arrives[m] < arrives[n]
             /\ inbox' = inbox \o [n \in 1..count |-> Answers(q)[arrives[n]]]
  /\ toModule' = Tail(toModule)
  /\ UNCHANGED <<client, outbound, reports, time>>

LoseFrame ==
  /\ toModule # <<>>
  /\ toModule' = Tail(toModule)
  /\ UNCHANGED <<client, inbox, outbound, module, time>>

Next == Request \/ ClientStep \/ Tick \/ Slot \/ ModuleAnswers \/ LoseFrame

\* The thread runs, time passes and the main loop has its slots; the module
\* need not do anything.
Fairness == WF_vars(ClientStep) /\ WF_vars(Tick) /\ WF_vars(Slot)

Spec == Init /\ [][Next]_vars /\ Fairness

----------------------------------------------------------------------------
\* A list that is kept has every parameter once, in order, unless its end was
\* told by a marker that came too late for an earlier list (mlrs_backend.py:561
\* takes the marker for any index): lost frames alone, and lists whose count is
\* known, never truncate it.
ListComplete ==
  cache # None /\ (reports # 0 \/ ~late) =>
    /\ Len(cache) = N
    /\ \A i \in DOMAIN cache : cache[i].index = i - 1

\* What get answers from memory is what the module has: as long as no answer
\* was late, no write, lost or not, leaves an old value in the cache.
CacheFresh ==
  cache # None /\ pc # "flush" /\ ~late =>
    \A i \in DOMAIN cache : cache[i].val = setting[cache[i].index]

\* A set that reports its value as verified has reached the module, though the
\* write is not acknowledged and its frame may have been lost.
VerifiedMeansSet ==
  pc = "idle" /\ reply = "verified" /\ ~late => setting[job.id] = job.arg

\* "mLRS commands are single mBridge messages" that START does not send: a
\* command goes out only if it was started, at most once for each start, and
\* never after a cancel, whatever other commands were started in between.
RunsOnlyIfGranted == [][pc' = "send" /\ stage' = "run" => job.id \in granted]_vars

\* mlrs_backend.py: MLRS_SAVE_DEADTIME_S.  Once Save is on its way nothing is
\* sent for the dead time, however late the main loop took it from the queue
\* and whatever request comes next.
QuietAfterSave == [][outbound # <<>> /\ outbound' = <<>> => quiet = DeadTime]_vars

\* Every request is answered, with a module that does not answer as well.
RequestEnds == pc # "idle" ~> pc = "idle"
=============================================================================
