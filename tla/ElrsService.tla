----------------------------- MODULE ElrsService -----------------------------
(***************************************************************************)
(* ElrsConfigService.execute (lib/elrs_backend.py) with discover, read_all *)
(* and find of ParameterClient (lib/elrs_config.py): the device is         *)
(* discovered by the first request and kept, and lists and names are       *)
(* looked up with one read per number.  What a read does on the wire is in *)
(* ParameterClient; here it is one step, which succeeds or times out.  The *)
(* module at the serial line may be switched off and replaced at any time. *)
(***************************************************************************)
EXTENDS Naturals, Sequences, SequencesExt

CONSTANTS
  Modules,      \* modules that may be at the line
  Names,        \* the names of a module's parameters, by their numbers
  Wanted,       \* names that requests ask for
  Numbers,      \* numbers that requests ask for
  None,
  MaxRequests,  \* bound of the model: requests
  MaxChanges    \* bound of the model: how often the module is changed

ASSUME ModulesAssumption == None \notin Modules
ASSUME NamesAssumption ==
  Names \in [Modules -> Seq(STRING)] /\ \A m \in Modules : Len(Names[m]) >= 1
ASSUME NumbersAssumption ==
  Numbers \subseteq Nat \ {0} /\ MaxRequests \in Nat /\ MaxChanges \in Nat

VARIABLES
  attached,  \* the module at the line, None while it is off
  device,    \* self.device: the module whose DEVICE_INFO is kept
  pings,     \* DEVICE_PING frames that are not answered yet
  inbound,   \* DEVICE_INFO frames that wait in transport.inbound
  pc,        \* "idle", "discover", "read", "act" on the parameter found
  job,       \* the request
  next,      \* the number of the parameter to read
  names,     \* the names read so far
  reply,     \* the answer to the last request
  \* History, read by the properties and the bounds alone.
  requests, changes,
  steady,    \* no change of the module since the request began
  calm       \* nor any loss or delay, and no device kept of another module

line == <<attached, changes>>
vars == <<attached, device, pings, inbound, pc, job, next, names, reply, requests, changes,
          steady, calm>>

----------------------------------------------------------------------------
ByName == [op : {"get", "set"}, name : Wanted]
ByNumber == [op : {"get", "set"}, number : Numbers]
Jobs == {[op |-> "devices"], [op |-> "params"]} \cup ByName \cup ByNumber

\* The answers: a list of devices or names, the parameter acted on, or an error.
Listed(items) == [ok |-> TRUE, items |-> items]
Parameter(number) == [ok |-> TRUE, number |-> number]
Failed(error) == [ok |-> FALSE, error |-> error]

Init ==
  /\ attached \in Modules
  /\ device = None /\ pings = 0 /\ inbound = <<>>
  /\ pc = "idle" /\ job = [op |-> "devices"] /\ next = 1 /\ names = <<>>
  /\ reply = Failed("none")
  /\ requests = 0 /\ changes = 0 /\ steady = TRUE /\ calm = FALSE

\* Lists and names start at number 1.
FirstNumber(j) == IF j \in ByNumber THEN j.number ELSE 1

\* execute: every request but devices needs the transmitter first.
Request ==
  /\ pc = "idle"
  /\ requests < MaxRequests
  /\ requests' = requests + 1
  /\ job' \in Jobs
  /\ next' = FirstNumber(job') /\ names' = <<>>
  /\ IF job'.op = "devices" \/ device = None
     THEN pc' = "discover" /\ pings' = pings + 1
     ELSE pc' = "read" /\ UNCHANGED pings
  /\ steady' = TRUE
  /\ calm' = (attached # None /\ device \in {None, attached})
  /\ UNCHANGED <<line, device, inbound, reply>>

Answer(r) == reply' = r /\ pc' = "idle" /\ UNCHANGED <<next, names>>

\* discover collects what comes in for two seconds, and what came in before.  All
\* of it is from the transmitter, for observe lets nothing else through, and the
\* last one counts.
Discovered ==
  /\ pc = "discover"
  /\ inbound' = <<>>
  /\ calm' = (calm /\ pings = 0)
  /\ IF job.op = "devices"
     THEN Answer(Listed(IF inbound = <<>> THEN <<>> ELSE <<Last(inbound)>>)) /\ UNCHANGED device
     ELSE IF inbound = <<>>
     THEN Answer(Failed("no device")) /\ UNCHANGED device
     ELSE device' = Last(inbound) /\ pc' = "read" /\ UNCHANGED <<reply, next, names>>
  /\ UNCHANGED <<line, pings, job, requests, steady>>

----------------------------------------------------------------------------
Readable == attached # None /\ next <= Len(Names[attached])

\* Defect: the name is looked up in the table of the device kept.
FoundInKept ==
  job \in ByNumber \/ (job \in ByName /\ next <= Len(Names[device])
                                      /\ Names[device][next] = job.name)

\* find: the parameter asked for by number is the one; by name the first that
\* has the name.
Found ==
  job \in ByNumber \/ (job \in ByName /\ Names[attached][next] = job.name)

\* Defect: the last number is left out of the range.
AtEndEarly == job \notin ByNumber /\ next + 1 >= Len(Names[device])

\* range(1, device.parameter_count + 1) is used up.
AtEnd == job \notin ByNumber /\ next >= Len(Names[device])

\* One read, by read_all or find, is answered.
Read ==
  /\ pc = "read"
  /\ Readable
  /\ inbound' = <<>>
  /\ IF Found
     THEN IF job.op = "get" THEN Answer(Parameter(next))
          ELSE pc' = "act" /\ UNCHANGED <<reply, next, names>>
     ELSE IF ~AtEnd
     THEN next' = next + 1 /\ names' = Append(names, Names[attached][next])
            /\ UNCHANGED <<pc, reply>>
     ELSE Answer(IF job.op = "params" THEN Listed(Append(names, Names[attached][next]))
                                      ELSE Failed("not found"))
  /\ UNCHANGED <<line, device, pings, job, requests, steady, calm>>

\* One read times out, and the request with it.
ReadTimesOut ==
  /\ pc = "read"
  /\ inbound' = <<>>
  /\ Answer(Failed("timeout"))
  /\ calm' = (calm /\ ~Readable)
  /\ UNCHANGED <<line, device, pings, job, requests, steady>>

\* write, to the number that was found: verified, or not, which is no error.
Write ==
  /\ pc = "act"
  /\ inbound' = <<>>
  /\ Answer(Parameter(next))
  /\ UNCHANGED <<line, device, pings, job, requests, steady, calm>>

Service == Discovered \/ Read \/ ReadTimesOut \/ Write

----------------------------------------------------------------------------
(* The module and the line. *)

PingAnswered ==
  /\ pings > 0 /\ attached # None
  /\ pings' = pings - 1
  /\ inbound' = Append(inbound, attached)
  /\ UNCHANGED <<line, device, pc, job, next, names, reply, requests, steady, calm>>

PingLost ==
  /\ pings > 0
  /\ pings' = pings - 1
  /\ calm' = FALSE
  /\ UNCHANGED <<line, device, inbound, pc, job, next, names, reply, requests, steady>>

\* Switched off, replaced, or back with other firmware.
Changed ==
  /\ changes < MaxChanges
  /\ changes' = changes + 1
  /\ attached' \in (Modules \cup {None}) \ {attached}
  /\ steady' = FALSE /\ calm' = FALSE
  /\ UNCHANGED <<device, pings, inbound, pc, job, next, names, reply, requests>>

Next == Request \/ Service \/ PingAnswered \/ PingLost \/ Changed

Spec == Init /\ [][Next]_vars

----------------------------------------------------------------------------
Expected ==
  CASE job.op = "devices" -> Listed(<<attached>>)
    [] job.op = "params"  -> Listed(Names[attached])
    [] job \in ByNumber   -> IF job.number \in DOMAIN Names[attached]
                             THEN Parameter(job.number) ELSE Failed("timeout")
    [] job \in ByName     ->
         IF \E i \in DOMAIN Names[attached] : Names[attached][i] = job.name
         THEN Parameter(SelectInSeq(Names[attached], LAMBDA n : n = job.name))
         ELSE Failed("not found")

\* README.md:199 "read_all() loops 1..parameter_count, where parameter_count
\* comes from the module's own DEVICE_INFO": a request that nothing disturbs gets
\* the whole table, the first parameter of the name, or the error that is due,
\* whatever earlier requests met: a module that was off, answers that were lost
\* or late, or another module, as long as that was not the one whose device is
\* kept.
UndisturbedServed == pc = "idle" /\ calm => reply = Expected

\* README.md:199 "Every one of those is decoded live": with the device of another
\* module kept as well, a get or set by name acts on a parameter that has this
\* name on the module at the line, for find compares the names that it reads.
\* Only a module changed between the two is hit by its number.
NamedActedOn ==
  pc = "idle" /\ steady /\ attached # None /\ job \in ByName /\ reply.ok
    => Names[attached][reply.number] = job.name
=============================================================================
