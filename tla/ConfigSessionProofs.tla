------------------------- MODULE ConfigSessionProofs -------------------------
(***************************************************************************)
(* The configuration thread, alone and between its clients and the module, *)
(* for any set of clients, any number of requests and any size of the      *)
(* socket's buffer: every request has one reply, which reaches the client  *)
(* as the answer to that request; and what a client may conclude of the    *)
(* COMMAND it has run.                                                     *)
(***************************************************************************)
EXTENDS ConfigSession, SequenceTheorems, TLAPS

----------------------------------------------------------------------------
(* The thread: one reply for each request, in their order. *)

\* The thread is between two requests.
BetweenRequests == pc \in {"top", "recv", "ended"}

\* Requests are numbered as they were sent; those up to the one under way have
\* their replies.
Numbered ==
  /\ answered \in Seq(Nat) /\ request.n \in Nat
  /\ sent = request.n + Len(inbox)
  /\ \A i \in DOMAIN inbox : inbox[i].n = request.n + i
  /\ \A i \in DOMAIN answered : answered[i] = i
  /\ Len(answered) = IF BetweenRequests THEN request.n ELSE request.n - 1

\* A step of the thread takes the next request or answers the one it has.
LEMMA ThreadNumbered ==
  ASSUME NEW S, inbox \in Seq(S), Numbered, ThreadStep
  PROVE  Numbered' /\ inbox' \in Seq(S)
  <1>1. Len(inbox) \in Nat /\ Len(answered) \in Nat /\ answered \in Seq(Nat) /\ request.n \in Nat
    BY LenProperties DEF Numbered
  <1>2. CASE Recv
    <2>1. /\ pc = "recv" /\ pc' = "parse" /\ inbox # <<>>
          /\ request' = Head(inbox) /\ inbox' = Tail(inbox) /\ UNCHANGED <<sent, answered>>
      BY <1>2 DEF Recv, Goto
    <2>2. /\ Len(inbox) >= 1 /\ Len(inbox') = Len(inbox) - 1 /\ inbox' \in Seq(S)
          /\ \A i \in 1..(Len(inbox) - 1) : inbox'[i] = inbox[i + 1]
      BY <1>1, <2>1, HeadTailProperties, EmptySeq
    <2>3. DOMAIN inbox = 1..Len(inbox) /\ DOMAIN inbox' = 1..(Len(inbox) - 1)
      BY <2>2, LenProperties
    <2>4. request'.n = request.n + 1
      BY <2>1, <2>2, <2>3 DEF Numbered
    <2>5. ASSUME NEW i \in DOMAIN inbox'
          PROVE  inbox'[i].n = request'.n + i
      <3>1. i \in Nat /\ i + 1 \in DOMAIN inbox /\ inbox'[i] = inbox[i + 1]
        BY <1>1, <2>2, <2>3, <2>5
      <3>2. inbox[i + 1].n = request.n + (i + 1)
        BY <3>1 DEF Numbered
      <3>3. inbox'[i].n = inbox[i + 1].n
        BY <3>1
      <3>4. request.n + (i + 1) = (request.n + 1) + i
        BY <1>1, <3>1
      <3> QED
        BY <2>4, <3>2, <3>3, <3>4
    <2>6. BetweenRequests /\ ~BetweenRequests'
      BY <2>1 DEF BetweenRequests
    <2> QED
      BY <1>1, <2>1, <2>2, <2>4, <2>5, <2>6 DEF Numbered
  <1>3. CASE SendReply
    <2>1. /\ pc = "reply" /\ pc' = "top" /\ answered' = Append(answered, request.n)
          /\ UNCHANGED <<inbox, sent, request>>
      BY <1>3 DEF SendReply, Goto, Keep
    <2>2. Len(answered) = request.n - 1 /\ BetweenRequests'
      BY <2>1 DEF Numbered, BetweenRequests
    <2>3. /\ answered' \in Seq(Nat) /\ Len(answered') = request.n
          /\ \A i \in DOMAIN answered' : answered'[i] = i
      BY <1>1, <2>1, <2>2 DEF Numbered
    <2> QED
      BY <1>1, <2>1, <2>2, <2>3 DEF Numbered
  <1>4. CASE /\ UNCHANGED <<inbox, sent, request, answered>>
             /\ BetweenRequests' <=> BetweenRequests
    BY <1>4 DEF Numbered
  <1>5. CASE Top \/ RecvTimeout
    BY <1>4, <1>5 DEF Top, RecvTimeout, Goto, Keep, BetweenRequests
  <1>6. CASE Reject \/ Die \/ Query \/ QueueStep \/ Write \/ Flushed \/ ReplyFails
    BY <1>4, <1>6 DEF Reject, Die, Query, QueueStep, Write, Flushed, ReplyFails, Goto, Keep, BetweenRequests
  <1>7. CASE WaitTimesOut
    BY <1>4, <1>7 DEF WaitTimesOut, Goto, Keep, BetweenRequests
  <1>8. CASE WaitAnswered
    BY <1>4, <1>8 DEF WaitAnswered, AfterFind, Goto, Keep, BetweenRequests
  <1> QED
    BY <1>2, <1>3, <1>5, <1>6, <1>7, <1>8 DEF ThreadStep

\* A request that is sent gets the next number.
LEMMA SendNumbered ==
  ASSUME NEW S, inbox \in Seq(S), Numbered, NEW r \in S, r.n = sent + 1,
         sent' = sent + 1, inbox' = Append(inbox, r), UNCHANGED <<pc, request, answered>>
  PROVE  Numbered' /\ inbox' \in Seq(S)
  <1>1. Len(inbox) \in Nat /\ request.n \in Nat
    BY LenProperties DEF Numbered
  <1>2. /\ inbox' \in Seq(S) /\ Len(inbox') = Len(inbox) + 1
        /\ DOMAIN inbox' = 1..(Len(inbox) + 1) /\ DOMAIN inbox = 1..Len(inbox)
        /\ \A i \in 1..Len(inbox) : inbox'[i] = inbox[i]
        /\ inbox'[Len(inbox) + 1] = r
    BY <1>1, AppendProperties, LenProperties
  <1>3. ASSUME NEW i \in DOMAIN inbox'
        PROVE  inbox'[i].n = request.n + i
    <2>1. CASE i \in 1..Len(inbox)
      BY <1>2, <2>1 DEF Numbered
    <2>2. CASE i = Len(inbox) + 1
      <3>1. inbox'[i].n = sent + 1 /\ sent = request.n + Len(inbox)
        BY <1>2, <2>2 DEF Numbered
      <3> QED
        BY <1>1, <2>2, <3>1
    <2> QED
      BY <1>1, <1>2, <1>3, <2>1, <2>2
  <1> QED
    BY <1>1, <1>2, <1>3 DEF Numbered, BetweenRequests

LEMMA NumberedReplies == Numbered => OneReplyEach
  BY DEF Numbered, OneReplyEach, BetweenRequests

----------------------------------------------------------------------------
(* Types of the session. *)

States == {"READY", "PROGRESS", "CONFIRMATION_NEEDED"}
Moves == {"START", "CONFIRM", "CANCEL", "POLL"}

OtherRequest == [n : Nat, kind : Kinds]
ClientRequest ==
  {r \in [n : Nat, kind : {"read", "step"}, step : Moves \cup {"none"},
          from : Clients, socket : Nat, ask : Nat] : r.kind = "step" => r.step \in Moves}
Requests == OtherRequest \cup ClientRequest

Outcome == {"finished", "cancelled", "failed", "gone"}

Session ==
  [at : {"idle", "asking", "state", "ended"}, phase : {"find", "loop", "decline", "leave"},
   asks : Nat, socket : Nat, seen : States \cup {"none"}, cancelled : BOOLEAN,
   outcome : Outcome \cup {"none"}, took : Nat, over : BOOLEAN]

SessionTypeOK ==
  /\ inbox \in Seq(Requests) /\ request \in Requests \cup {NoRequest}
  /\ device \in States /\ steps \in Seq(Moves)
  /\ result \in States \cup {"error"}
  /\ session \in [Clients -> Session]
  /\ clean \in BOOLEAN
  /\ sent \in Nat

\* A request of one of the clients, as FromClient.
OfClient(r) == r.kind \in {"read", "step"}

LEMMA ClientRequests ==
  ASSUME NEW r \in Requests \cup {NoRequest}, OfClient(r)
  PROVE  r \in ClientRequest
  BY OthersAssumption DEF OfClient, Requests, OtherRequest, NoRequest

\* What the thread is at fits the request it has.
StepOfRequest ==
  /\ pc \in {"step", "stepping"} => request.kind = "step"
  /\ pc \in {"write", "flush", "readback"} => request.kind = "set"
  /\ pc \in {"top", "recv", "ended", "parse", "wait"} => result = "error"

\* The request that Ask sends, or nothing, and what it makes of the client.
Asks(c, step, phase, cancelled) ==
  [NewSession EXCEPT
     !.at = "asking", !.phase = phase, !.asks = session[c].asks + 1, !.socket = Socket(c),
     !.cancelled = cancelled, !.over = session[c].over /\ step # "START"]
Sending(c, step) ==
  [n |-> sent + 1, kind |-> IF step = "none" THEN "read" ELSE "step", step |-> step,
   from |-> c, socket |-> Socket(c), ask |-> session[c].asks + 1]

Phases == {"find", "loop", "decline", "leave"}

LEMMA AskEffect ==
  ASSUME SessionTypeOK, NEW c \in Clients, NEW step \in Moves \cup {"none"},
         NEW phase \in Phases, NEW cancelled \in BOOLEAN, Ask(c, step, phase, cancelled)
  PROVE  /\ session' = [session EXCEPT ![c] = Asks(c, step, phase, cancelled)]
         /\ Asks(c, step, phase, cancelled) \in Session
         /\ Sending(c, step) \in ClientRequest
         /\ \/ sent' = sent + 1 /\ inbox' = Append(inbox, Sending(c, step))
            \/ UNCHANGED <<sent, inbox>>
         /\ UNCHANGED <<main, pc, request, tries, pending, answered, exchange>>
  <1>1. session[c] \in Session /\ session[c].asks \in Nat /\ session[c].over \in BOOLEAN
    BY DEF SessionTypeOK, Session
  <1>2. Socket(c) \in Nat
    BY <1>1 DEF Socket
  <1>3. Asks(c, step, phase, cancelled) \in Session
    <2>1. NewSession \in Session
      BY DEF NewSession, Session
    <2>2. \A n \in Nat, k \in Nat, o \in BOOLEAN :
            [NewSession EXCEPT !.at = "asking", !.phase = phase, !.asks = n, !.socket = k,
                               !.cancelled = cancelled, !.over = o] \in Session
      BY <2>1 DEF Session, Phases
    <2>3. session[c].asks + 1 \in Nat /\ (session[c].over /\ step # "START") \in BOOLEAN
      BY <1>1
    <2> QED
      BY <1>2, <2>2, <2>3 DEF Asks
  <1>4. Sending(c, step) \in ClientRequest
    BY <1>1, <1>2 DEF Sending, ClientRequest, SessionTypeOK
  <1>5. /\ session' = [session EXCEPT ![c] = Asks(c, step, phase, cancelled)]
        /\ \/ sent' = sent + 1 /\ inbox' = Append(inbox, Sending(c, step))
           \/ UNCHANGED <<sent, inbox>>
        /\ UNCHANGED <<main, pc, request, tries, pending, answered, exchange>>
    BY DEF Ask, Asks, Sending
  <1> QED
    BY <1>3, <1>4, <1>5

\* The ways in which a client asks: what it sends, from where.
LEMMA ClientEffect ==
  ASSUME SessionTypeOK, NEW c \in Clients, ClientStep(c)
  PROVE  \/ \E step \in Moves \cup {"none"}, phase \in Phases, cancelled \in BOOLEAN :
              /\ Ask(c, step, phase, cancelled)
              /\ \/ phase = "find" /\ step = "none"
                 \/ phase = "loop" /\ step = "START"
                 \/ /\ phase = "loop" /\ step \in Moves /\ session[c].at = "state"
                    /\ session[c].phase = "loop" /\ session[c].seen # "READY"
                 \/ phase \in {"decline", "leave"} /\ step = "CANCEL"
         \/ \E outcome \in Outcome :
              /\ End(c, outcome)
              /\ session[c].at \in {"asking", "state"}
              /\ outcome = "finished" => Sees(c, "loop", "READY")
              /\ \/ outcome \in {"failed", "gone"}
                 \/ Sees(c, "loop", "READY")
                 \/ session[c].at = "state" /\ session[c].phase \in {"decline", "leave"}
  <1>1. session[c] \in Session /\ session[c].cancelled \in BOOLEAN
    BY DEF SessionTypeOK, Session
  <1>2. CASE Begin(c)
    BY <1>2 DEF Begin, Moves, Phases
  <1>3. CASE StartFound(c)
    BY <1>3 DEF StartFound, Moves, Phases
  <1>4. CASE Yes(c) \/ Poll(c) \/ Escape(c)
    BY <1>1, <1>4 DEF Yes, Poll, Escape, Sees, Moves, Phases
  <1>5. CASE No(c)
    BY <1>5 DEF No, Sees, Moves, Phases
  <1>6. CASE Interrupt(c)
    BY <1>6 DEF Interrupt, Guarded, Moves, Phases
  <1>7. CASE Ends(c)
    BY <1>7 DEF Ends, Sees, Outcome
  <1>8. CASE Leaves(c)
    BY <1>8 DEF Leaves, Outcome
  <1>9. CASE Killed(c) \/ GivesUp(c)
    BY <1>9 DEF Killed, GivesUp, Failure, Outcome
  <1> QED
    BY <1>2, <1>3, <1>4, <1>5, <1>6, <1>7, <1>8, <1>9 DEF ClientStep

\* What a reply makes of a client.
Told(c, r, state) ==
  IF state = "error" THEN Left(c, Failure(c))
  ELSE [session[c] EXCEPT !.at = "state", !.seen = state, !.took = r.ask]

LEMMA Records ==
  ASSUME SessionTypeOK, NEW c \in Clients
  PROVE  /\ \A outcome \in Outcome : Left(c, outcome) \in Session
         /\ \A r \in ClientRequest, state \in States \cup {"error"} : Told(c, r, state) \in Session
  <1>1. /\ session[c] \in Session /\ session[c].over \in BOOLEAN /\ session[c].asks \in Nat
        /\ NewSession \in Session
    BY DEF SessionTypeOK, Session, NewSession
  <1>2. \A outcome \in Outcome : Left(c, outcome) \in Session
    BY <1>1 DEF Left, Session, Outcome
  <1>3. ASSUME NEW r \in ClientRequest, NEW state \in States \cup {"error"}
        PROVE  Told(c, r, state) \in Session
    <2>1. CASE state = "error"
      BY <1>2, <2>1 DEF Told, Failure, Outcome
    <2>2. CASE state # "error"
      <3>1. r.ask \in Nat /\ state \in States
        BY <1>3, <2>2 DEF ClientRequest
      <3> QED
        BY <1>1, <2>2, <3>1 DEF Told, Session
    <2> QED
      BY <2>1, <2>2
  <1> QED
    BY <1>2, <1>3

\* The module: what a step carried out, or the end of the command, changes.
LEMMA CarriedStates ==
  ASSUME NEW step, device \in States, NEW d \in Carried(step)
  PROVE  /\ d \in States
         /\ step = "START" => d # "READY"
         /\ step # "CANCEL" /\ device # "READY" => d # "READY"
         /\ step = "CANCEL" => d = "READY"
  BY DEF Carried, States

LEMMA ObservedSession ==
  ASSUME SessionTypeOK, Observed
  PROVE  /\ session' \in [Clients -> Session]
         /\ \A c \in Clients :
              /\ session'[c].over = (session[c].over
                   \/ (device # "READY" /\ device' = "READY" /\ session[c].at # "ended"))
              /\ session'[c].at = session[c].at /\ session'[c].phase = session[c].phase
              /\ session'[c].asks = session[c].asks /\ session'[c].socket = session[c].socket
              /\ session'[c].seen = session[c].seen /\ session'[c].outcome = session[c].outcome
              /\ session'[c].took = session[c].took
  <1>1. \A c \in Clients : session[c] \in Session /\ session[c].over \in BOOLEAN
    BY DEF SessionTypeOK, Session
  <1>2. CASE device # "READY" /\ device' = "READY"
    <2>1. session' = [c \in Clients |-> [session[c] EXCEPT !.over = session[c].at # "ended" \/ @]]
      BY <1>2 DEF Observed
    <2>2. ASSUME NEW c \in Clients
          PROVE  /\ session'[c] \in Session
                 /\ session'[c].over = (session[c].at # "ended" \/ session[c].over)
                 /\ session'[c].at = session[c].at /\ session'[c].phase = session[c].phase
                 /\ session'[c].asks = session[c].asks /\ session'[c].socket = session[c].socket
                 /\ session'[c].seen = session[c].seen /\ session'[c].outcome = session[c].outcome
                 /\ session'[c].took = session[c].took
      <3>1. PICK o \in BOOLEAN : o = (session[c].at # "ended" \/ session[c].over)
        OBVIOUS
      <3>2. session'[c] = [session[c] EXCEPT !.over = o]
        BY <2>1, <3>1
      <3> QED
        BY <1>1, <3>1, <3>2 DEF Session
    <2> QED
      BY <1>1, <1>2, <2>1, <2>2
  <1>3. CASE ~(device # "READY" /\ device' = "READY")
    BY <1>1, <1>3 DEF Observed, SessionTypeOK
  <1> QED
    BY <1>2, <1>3

\* Taking a request from the socket.
LEMMA RecvEffect ==
  ASSUME SessionTypeOK, Recv
  PROVE  /\ inbox' \in Seq(Requests) /\ request' \in Requests
         /\ 1 \in DOMAIN inbox /\ request' = inbox[1]
         /\ \A i \in DOMAIN inbox' : i + 1 \in DOMAIN inbox /\ inbox'[i] = inbox[i + 1]
         /\ pc = "recv" /\ pc' = "parse" /\ UNCHANGED sent
  <1>1. inbox \in Seq(Requests) /\ inbox # <<>>
    BY DEF SessionTypeOK, Recv
  <1>2. /\ Head(inbox) = inbox[1] /\ Head(inbox) \in Requests /\ Tail(inbox) \in Seq(Requests)
        /\ Len(inbox) >= 1 /\ Len(inbox) \in Nat /\ Len(Tail(inbox)) = Len(inbox) - 1
        /\ \A i \in 1..(Len(inbox) - 1) : Tail(inbox)[i] = inbox[i + 1]
    BY <1>1, HeadTailProperties, EmptySeq, LenProperties
  <1>3. DOMAIN inbox = 1..Len(inbox) /\ DOMAIN Tail(inbox) = 1..(Len(inbox) - 1)
    BY <1>1, <1>2, LenProperties
  <1>4. request' = Head(inbox) /\ inbox' = Tail(inbox) /\ pc = "recv" /\ pc' = "parse" /\ sent' = sent
    BY DEF Recv, Goto
  <1> QED
    BY <1>2, <1>3, <1>4

\* A reply that reaches its client.
LEMMA ReplyEffect ==
  ASSUME SessionTypeOK, ThreadReplies
  PROVE  /\ pc = "reply" /\ pc' = "top" /\ result' = "error"
         /\ UNCHANGED <<request, inbox, sent, device, steps, clean>>
         /\ \/ UNCHANGED session
            \/ /\ request \in ClientRequest
               /\ session[request.from].at = "asking"
               /\ session[request.from].socket = request.socket
               /\ session' = [session EXCEPT ![request.from] = Told(request.from, request, result)]
               /\ Told(request.from, request, result) \in Session
  <1>1. /\ pc = "reply" /\ pc' = "top" /\ result' = "error"
        /\ UNCHANGED <<request, inbox, sent, device, steps, clean>>
    BY DEF ThreadReplies, SendReply, Goto, Keep
  <1>2. FromClient => request \in ClientRequest
    BY ClientRequests DEF FromClient, OfClient, SessionTypeOK
  <1>3. CASE UNCHANGED session
    BY <1>1, <1>3
  <1>4. CASE /\ FromClient
             /\ session[request.from].at = "asking"
             /\ session[request.from].socket = request.socket
             /\ session' = [session EXCEPT ![request.from] = IF result = "error"
                  THEN Left(request.from, Failure(request.from))
                  ELSE [@ EXCEPT !.at = "state", !.seen = result, !.took = request.ask]]
    <2>1. request \in ClientRequest /\ request.from \in Clients /\ result \in States \cup {"error"}
      BY <1>2, <1>4 DEF ClientRequest, SessionTypeOK
    <2>2. session' = [session EXCEPT ![request.from] = Told(request.from, request, result)]
      BY <1>4, <2>1 DEF Told, SessionTypeOK
    <2>3. Told(request.from, request, result) \in Session
      BY <2>1, Records
    <2> QED
      BY <1>1, <1>4, <2>1, <2>2, <2>3
  <1> QED
    BY <1>3, <1>4 DEF ThreadReplies

LEMMA SessionTypeStep == SessionTypeOK /\ StepOfRequest /\ [SessionNext]_all => SessionTypeOK'
  <1> SUFFICES ASSUME SessionTypeOK, StepOfRequest, [SessionNext]_all
               PROVE  SessionTypeOK'
    OBVIOUS
  <1> USE DEF exchange, vars
  <1>1. CASE UNCHANGED all
    BY <1>1 DEF all, SessionTypeOK
  <1>2. ASSUME NEW c \in Clients, ClientStep(c)
        PROVE  SessionTypeOK'
    <2>1. ASSUME NEW step \in Moves \cup {"none"}, NEW phase \in Phases, NEW cancelled \in BOOLEAN,
                 Ask(c, step, phase, cancelled)
          PROVE  SessionTypeOK'
      <3>1. /\ session' = [session EXCEPT ![c] = Asks(c, step, phase, cancelled)]
            /\ Asks(c, step, phase, cancelled) \in Session
            /\ Sending(c, step) \in ClientRequest
            /\ \/ sent' = sent + 1 /\ inbox' = Append(inbox, Sending(c, step))
               \/ UNCHANGED <<sent, inbox>>
            /\ UNCHANGED <<main, pc, request, tries, pending, answered, exchange>>
        BY <2>1, AskEffect
      <3>2. session' \in [Clients -> Session]
        BY <3>1 DEF SessionTypeOK
      <3>3. inbox' \in Seq(Requests) /\ sent' \in Nat
        <4>1. Sending(c, step) \in Requests /\ inbox \in Seq(Requests) /\ sent \in Nat
          BY <3>1 DEF SessionTypeOK, Requests
        <4> QED
          BY <3>1, <4>1, AppendProperties
      <3> QED
        BY <3>1, <3>2, <3>3 DEF SessionTypeOK
    <2>2. ASSUME NEW outcome \in Outcome, End(c, outcome)
          PROVE  SessionTypeOK'
      <3>1. session' = [session EXCEPT ![c] = Left(c, outcome)] /\ UNCHANGED <<vars, exchange>>
        BY <2>2 DEF End
      <3>2. session' \in [Clients -> Session]
        BY <3>1, Records DEF SessionTypeOK
      <3> QED
        BY <3>1, <3>2 DEF SessionTypeOK
    <2> QED
      BY <1>2, <2>1, <2>2, ClientEffect
  <1>3. CASE ThreadMoves
    <2>1. CASE Recv
      <3>1. inbox' \in Seq(Requests) /\ request' \in Requests /\ UNCHANGED sent
        BY <2>1, RecvEffect
      <3> QED
        BY <1>3, <3>1 DEF ThreadMoves, SessionTypeOK
    <2>2. CASE Top \/ RecvTimeout \/ Reject \/ Die \/ Query \/ Write \/ Flushed \/ ReplyFails
      BY <1>3, <2>2 DEF ThreadMoves, Top, RecvTimeout, Reject, Die, Query, Write, Flushed, ReplyFails, Keep,
                        SessionTypeOK
    <2> QED
      BY <1>3, <2>1, <2>2 DEF ThreadMoves
  <1>4. CASE ThreadTimesOut
    BY <1>4 DEF ThreadTimesOut, WaitTimesOut, Keep, SessionTypeOK
  <1>5. CASE ThreadAnswered
    <2>1. result' \in States \cup {"error"} /\ clean' \in BOOLEAN
      BY <1>5 DEF ThreadAnswered, SessionTypeOK
    <2> QED
      BY <1>5, <2>1 DEF ThreadAnswered, WaitAnswered, Keep, SessionTypeOK
  <1>6. CASE ThreadQueuesStep
    <2>1. steps' = Append(steps, request.step) /\ request.kind = "step"
      BY <1>6 DEF ThreadQueuesStep, QueueStep, StepOfRequest
    <2>2. request.step \in Moves
      BY <2>1, ClientRequests DEF SessionTypeOK, OfClient, ClientRequest
    <2>3. steps' \in Seq(Moves)
      BY <2>1, <2>2, AppendProperties DEF SessionTypeOK
    <2> QED
      BY <1>6, <2>1, <2>3 DEF ThreadQueuesStep, QueueStep, Keep, SessionTypeOK
  <1>7. CASE ThreadReplies
    <2>1. /\ result' = "error" /\ UNCHANGED <<request, inbox, sent, device, steps, clean>>
          /\ \/ UNCHANGED session
             \/ /\ request \in ClientRequest
                /\ session' = [session EXCEPT ![request.from] = Told(request.from, request, result)]
                /\ Told(request.from, request, result) \in Session
      BY <1>7, ReplyEffect
    <2>2. session' \in [Clients -> Session]
      BY <2>1 DEF SessionTypeOK
    <2> QED
      BY <2>1, <2>2 DEF SessionTypeOK
  <1>8. CASE OthersSend
    <2>1. PICK kind \in Kinds : inbox' = Append(inbox, [n |-> sent', kind |-> kind])
      BY <1>8 DEF OthersSend, ClientSends
    <2>2. sent' \in Nat /\ [n |-> sent', kind |-> kind] \in Requests
      BY <1>8 DEF OthersSend, ClientSends, SessionTypeOK, Requests, OtherRequest
    <2>3. inbox' \in Seq(Requests)
      BY <2>1, <2>2, AppendProperties DEF SessionTypeOK
    <2> QED
      BY <1>8, <2>2, <2>3 DEF OthersSend, ClientSends, SessionTypeOK
  <1>9. CASE ModuleTakes
    <2>1. steps' \in Seq(Moves)
      BY <1>9, HeadTailProperties DEF ModuleTakes, SessionTypeOK
    <2>2. device' \in States /\ clean' \in BOOLEAN
      BY <1>9, CarriedStates DEF ModuleTakes, SessionTypeOK
    <2>3. session' \in [Clients -> Session]
      BY <1>9, ObservedSession DEF ModuleTakes
    <2> QED
      BY <1>9, <2>1, <2>2, <2>3 DEF ModuleTakes, SessionTypeOK
  <1>10. CASE CommandEnds
    <2>1. session' \in [Clients -> Session] /\ device' \in States
      BY <1>10, ObservedSession DEF CommandEnds, States
    <2> QED
      BY <1>10, <2>1 DEF CommandEnds, SessionTypeOK
  <1>11. CASE MainMoves(Drain) \/ MainMoves(Close) \/ MainMoves(Join)
    BY <1>11 DEF MainMoves, Drain, Close, Join, SessionTypeOK
  <1> QED
    BY <1>1, <1>2, <1>3, <1>4, <1>5, <1>6, <1>7, <1>8, <1>9, <1>10, <1>11 DEF SessionNext, Thread

\* A step of the session is one of its parts; what clients and the module do
\* leaves the thread alone.
LEMMA SessionParts ==
  ASSUME SessionTypeOK, [SessionNext]_all
  PROVE  \/ UNCHANGED all
         \/ \E c \in Clients, step \in Moves \cup {"none"}, phase \in Phases, cancelled \in BOOLEAN :
              Ask(c, step, phase, cancelled) /\ ClientStep(c)
         \/ \E c \in Clients, outcome \in Outcome :
              End(c, outcome) /\ ClientStep(c)
         \/ ThreadMoves \/ ThreadTimesOut \/ ThreadAnswered \/ ThreadQueuesStep \/ ThreadReplies
         \/ OthersSend \/ ModuleTakes \/ CommandEnds
         \/ MainMoves(Drain) \/ MainMoves(Close) \/ MainMoves(Join)
  <1>1. ASSUME NEW c \in Clients, ClientStep(c)
        PROVE  \/ \E step \in Moves \cup {"none"}, phase \in Phases, cancelled \in BOOLEAN :
                    Ask(c, step, phase, cancelled)
               \/ \E outcome \in Outcome : End(c, outcome)
    BY <1>1, ClientEffect
  <1> QED
    BY <1>1 DEF SessionNext, Thread

LEMMA NumberedStep == SessionTypeOK /\ Numbered /\ [SessionNext]_all => Numbered'
  <1> SUFFICES ASSUME SessionTypeOK, Numbered, [SessionNext]_all
               PROVE  Numbered'
    OBVIOUS
  <1> USE DEF exchange, vars
  <1>1. inbox \in Seq(Requests)
    BY DEF SessionTypeOK
  <1>2. CASE UNCHANGED <<inbox, sent, request, answered, pc>>
    BY <1>2 DEF Numbered, BetweenRequests
  <1>3. ASSUME NEW r \in Requests, r.n = sent + 1, sent' = sent + 1, inbox' = Append(inbox, r),
               UNCHANGED <<pc, request, answered>>
        PROVE  Numbered'
    BY <1>1, <1>3, SendNumbered
  <1>4. ASSUME NEW c \in Clients, NEW step \in Moves \cup {"none"}, NEW phase \in Phases,
               NEW cancelled \in BOOLEAN, Ask(c, step, phase, cancelled)
        PROVE  Numbered'
    <2>1. /\ Sending(c, step) \in ClientRequest
          /\ \/ sent' = sent + 1 /\ inbox' = Append(inbox, Sending(c, step))
             \/ UNCHANGED <<sent, inbox>>
          /\ UNCHANGED <<pc, request, answered>>
      BY <1>4, AskEffect
    <2>2. Sending(c, step) \in Requests /\ Sending(c, step).n = sent + 1
      BY <2>1 DEF Requests, Sending
    <2> QED
      BY <1>2, <1>3, <2>1, <2>2
  <1>5. ASSUME NEW c \in Clients, NEW outcome, End(c, outcome)
        PROVE  Numbered'
    BY <1>2, <1>5 DEF End
  <1>6. CASE Thread
    <2>1. ThreadStep
      BY <1>6 DEF Thread, ThreadMoves, ThreadTimesOut, ThreadAnswered, ThreadQueuesStep,
                  ThreadReplies, ThreadStep
    <2> QED
      BY <1>1, <2>1, ThreadNumbered
  <1>7. CASE OthersSend
    <2>1. PICK kind \in Kinds : inbox' = Append(inbox, [n |-> sent', kind |-> kind])
      BY <1>7 DEF OthersSend, ClientSends
    <2>2. sent' = sent + 1 /\ UNCHANGED <<pc, request, answered>> /\ sent \in Nat
      BY <1>7 DEF OthersSend, ClientSends, SessionTypeOK
    <2>3. [n |-> sent', kind |-> kind] \in Requests
      BY <2>2 DEF Requests, OtherRequest
    <2> QED
      BY <1>3, <2>1, <2>2, <2>3
  <1>8. CASE UNCHANGED all \/ ModuleTakes \/ CommandEnds \/ MainMoves(Drain) \/ MainMoves(Close)
               \/ MainMoves(Join)
    BY <1>2, <1>8 DEF all, ModuleTakes, CommandEnds, MainMoves, Drain, Close, Join
  <1> QED
    BY <1>4, <1>5, <1>6, <1>7, <1>8, SessionParts DEF Thread

LEMMA StepOfRequestStep ==
  SessionTypeOK /\ StepOfRequest /\ [SessionNext]_all => StepOfRequest'
  <1> SUFFICES ASSUME SessionTypeOK, StepOfRequest, [SessionNext]_all
               PROVE  StepOfRequest'
    OBVIOUS
  <1> USE DEF exchange, vars
  <1>1. CASE UNCHANGED <<pc, request, result>>
    BY <1>1 DEF StepOfRequest
  <1>2. ASSUME NEW c \in Clients, NEW step, NEW phase, NEW cancelled,
               Ask(c, step, phase, cancelled)
        PROVE  StepOfRequest'
    BY <1>1, <1>2 DEF Ask
  <1>3. ASSUME NEW c \in Clients, NEW outcome, End(c, outcome)
        PROVE  StepOfRequest'
    BY <1>1, <1>3 DEF End
  <1>4. CASE ThreadMoves
    BY <1>4 DEF ThreadMoves, Top, RecvTimeout, Recv, Reject, Die, Query, Write, Flushed, ReplyFails, Goto, Keep,
                StepOfRequest
  <1>5. CASE ThreadTimesOut
    BY <1>5 DEF ThreadTimesOut, WaitTimesOut, Goto, Keep, StepOfRequest
  <1>6. CASE ThreadAnswered
    BY <1>6 DEF ThreadAnswered, WaitAnswered, AfterFind, Goto, Keep, StepOfRequest
  <1>7. CASE ThreadQueuesStep
    BY <1>7 DEF ThreadQueuesStep, QueueStep, Goto, Keep, StepOfRequest
  <1>8. CASE ThreadReplies
    BY <1>8, ReplyEffect DEF StepOfRequest
  <1>9. CASE OthersSend \/ UNCHANGED all \/ ModuleTakes \/ CommandEnds \/ MainMoves(Drain)
               \/ MainMoves(Close) \/ MainMoves(Join)
    BY <1>1, <1>9 DEF all, OthersSend, ClientSends, ModuleTakes, CommandEnds, MainMoves, Drain,
                      Close, Join
  <1> QED
    BY <1>2, <1>3, <1>4, <1>5, <1>6, <1>7, <1>8, <1>9, SessionParts

----------------------------------------------------------------------------
(* Requests on their way: each reply is that of the request it answers. *)

\* The requests that wait in the socket, and with them the one the thread has last
\* taken.
Waiting == {inbox[i] : i \in DOMAIN inbox}
Line == {request} \cup Waiting

\* The request that some client sends in this step.
IsSent(r) ==
  \E c \in Clients, step \in Moves \cup {"none"}, phase \in Phases, cancelled \in BOOLEAN :
    Ask(c, step, phase, cancelled) /\ ClientStep(c) /\ r = Sending(c, step) /\ sent' = sent + 1

\* Asking adds the request to those that wait, unless it is lost.
LEMMA AskLine ==
  ASSUME SessionTypeOK, NEW c \in Clients, NEW step \in Moves \cup {"none"},
         NEW phase \in Phases, NEW cancelled \in BOOLEAN, Ask(c, step, phase, cancelled)
  PROVE  /\ request' = request
         /\ \A r \in Waiting' : r \in Waiting \/ r = Sending(c, step)
  <1>1. /\ \/ inbox' = Append(inbox, Sending(c, step))
           \/ inbox' = inbox
        /\ request' = request
    BY AskEffect
  <1>2. CASE inbox' = inbox
    BY <1>1, <1>2 DEF Waiting
  <1>3. CASE inbox' = Append(inbox, Sending(c, step))
    <2>1. /\ DOMAIN inbox = 1..Len(inbox) /\ DOMAIN inbox' = 1..(Len(inbox) + 1)
          /\ Len(inbox) \in Nat /\ inbox'[Len(inbox) + 1] = Sending(c, step)
          /\ \A i \in 1..Len(inbox) : inbox'[i] = inbox[i]
      BY <1>3, AppendProperties, LenProperties DEF SessionTypeOK
    <2>2. ASSUME NEW i \in DOMAIN inbox'
          PROVE  inbox'[i] \in Waiting \/ inbox'[i] = Sending(c, step)
      <3>1. CASE i \in 1..Len(inbox)
        BY <2>1, <3>1 DEF Waiting
      <3>2. CASE i = Len(inbox) + 1
        BY <2>1, <3>2
      <3> QED
        BY <2>1, <2>2, <3>1, <3>2
    <2> QED
      BY <1>1, <2>2 DEF Waiting
  <1> QED
    BY <1>1, <1>2, <1>3

\* Nothing comes into the line but what a client asks, and the requests of others.
LEMMA WaitingStep ==
  ASSUME SessionTypeOK, [SessionNext]_all
  PROVE  /\ request' \in Line
         /\ \A r \in Waiting' : OfClient(r) => r \in Waiting \/ IsSent(r)
  <1> USE DEF exchange, vars
  <1>1. CASE UNCHANGED <<inbox, request>>
    BY <1>1 DEF Line, Waiting
  <1>2. ASSUME NEW c \in Clients, NEW step \in Moves \cup {"none"}, NEW phase \in Phases,
               NEW cancelled \in BOOLEAN, Ask(c, step, phase, cancelled), ClientStep(c)
        PROVE  request' = request /\ \A r \in Waiting' : r \in Waiting \/ IsSent(r)
    <2>1. request' = request /\ \A r \in Waiting' : r \in Waiting \/ r = Sending(c, step)
      BY <1>2, AskLine
    <2>2. CASE UNCHANGED inbox
      BY <2>1, <2>2 DEF Waiting
    <2>3. CASE sent' = sent + 1
      BY <1>2, <2>1, <2>3 DEF IsSent
    <2> QED
      BY <1>2, <2>2, <2>3, AskEffect
  <1>3. CASE Recv
    BY <1>3, RecvEffect DEF Line, Waiting
  <1>4. CASE OthersSend
    <2>1. PICK kind \in Kinds : inbox' = Append(inbox, [n |-> sent', kind |-> kind])
      BY <1>4 DEF OthersSend, ClientSends
    <2>2. request' = request
      BY <1>4 DEF OthersSend, ClientSends
    <2>3. /\ DOMAIN inbox = 1..Len(inbox) /\ DOMAIN inbox' = 1..(Len(inbox) + 1)
          /\ Len(inbox) \in Nat /\ inbox'[Len(inbox) + 1] = [n |-> sent', kind |-> kind]
          /\ \A i \in 1..Len(inbox) : inbox'[i] = inbox[i]
      <3>1. inbox \in Seq(Requests) /\ [n |-> sent', kind |-> kind] \in Requests
        BY <1>4 DEF SessionTypeOK, OthersSend, ClientSends, Requests, OtherRequest
      <3> QED
        BY <2>1, <3>1, AppendProperties, LenProperties
    <2>4. ASSUME NEW i \in DOMAIN inbox', OfClient(inbox'[i])
          PROVE  inbox'[i] \in Waiting
      <3>1. CASE i \in 1..Len(inbox)
        BY <2>3, <3>1 DEF Waiting
      <3>2. CASE i = Len(inbox) + 1
        BY <2>1, <2>3, <2>4, <3>2, OthersAssumption DEF OfClient
      <3> QED
        BY <2>3, <2>4, <3>1, <3>2
    <2> QED
      BY <2>2, <2>4 DEF Line, Waiting
  <1>5. CASE ThreadMoves /\ ~Recv
    BY <1>1, <1>5 DEF ThreadMoves, Top, RecvTimeout, Reject, Die, Query, Write, Flushed, ReplyFails, Keep
  <1>6. CASE \/ UNCHANGED all \/ ThreadTimesOut \/ ThreadAnswered \/ ThreadQueuesStep
             \/ ThreadReplies \/ ModuleTakes \/ CommandEnds
             \/ MainMoves(Drain) \/ MainMoves(Close) \/ MainMoves(Join)
    BY <1>1, <1>6 DEF all, ThreadTimesOut, WaitTimesOut, ThreadAnswered, WaitAnswered,
         ThreadQueuesStep, QueueStep, ThreadReplies, SendReply, Keep, ModuleTakes, CommandEnds,
         MainMoves, Drain, Close, Join
  <1>7. ASSUME NEW c \in Clients, NEW outcome, End(c, outcome)
        PROVE  UNCHANGED <<inbox, request>>
    BY <1>7 DEF End
  <1> QED
    BY <1>1, <1>2, <1>3, <1>4, <1>5, <1>6, <1>7, SessionParts DEF Line

LEMMA LineStep ==
  ASSUME SessionTypeOK, [SessionNext]_all, NEW r \in Line', OfClient(r)
  PROVE  r \in Line \/ IsSent(r)
  BY WaitingStep DEF Line

LEMMA LineTypes ==
  ASSUME SessionTypeOK, NEW r \in Line
  PROVE  /\ r \in Requests \cup {NoRequest}
         /\ OfClient(r) => r \in ClientRequest
  <1>1. r \in Requests \cup {NoRequest}
    BY DEF Line, Waiting, SessionTypeOK
  <1> QED
    BY <1>1, ClientRequests

\* What a step makes of one client: another request, the end of its command, the
\* reply to the request under way, or nothing but the news of the module.
Same(c) ==
  /\ session'[c].at = session[c].at /\ session'[c].phase = session[c].phase
  /\ session'[c].asks = session[c].asks /\ session'[c].socket = session[c].socket
  /\ session'[c].seen = session[c].seen /\ session'[c].outcome = session[c].outcome
  /\ session'[c].took = session[c].took

AskOf(c) ==
  \E step \in Moves \cup {"none"}, phase \in Phases, cancelled \in BOOLEAN :
    Ask(c, step, phase, cancelled) /\ session'[c] = Asks(c, step, phase, cancelled)
EndOf(c) ==
  \E outcome \in Outcome :
    End(c, outcome) /\ session'[c] = Left(c, outcome)
ReplyTo(c) ==
  /\ ThreadReplies
  /\ request \in ClientRequest /\ c = request.from
  /\ session[c].at = "asking" /\ session[c].socket = request.socket
  /\ session'[c] = Told(c, request, result)

LEMMA OneClient ==
  ASSUME SessionTypeOK, [SessionNext]_all, NEW c \in Clients
  PROVE  \/ AskOf(c) /\ ClientStep(c)
         \/ EndOf(c) /\ ClientStep(c)
         \/ ReplyTo(c)
         \/ Same(c)
  <1> USE DEF exchange, vars
  <1>1. session \in [Clients -> Session]
    BY DEF SessionTypeOK
  <1>2. CASE session'[c] = session[c]
    BY <1>2 DEF Same
  <1>3. ASSUME NEW d \in Clients, NEW step \in Moves \cup {"none"}, NEW phase \in Phases,
               NEW cancelled \in BOOLEAN, Ask(d, step, phase, cancelled), ClientStep(d)
        PROVE  (c = d /\ AskOf(c)) \/ session'[c] = session[c]
    <2>1. session' = [session EXCEPT ![d] = Asks(d, step, phase, cancelled)]
      BY <1>3, AskEffect
    <2>2. c = d => session'[c] = Asks(c, step, phase, cancelled)
      BY <1>1, <2>1
    <2>3. c # d => session'[c] = session[c]
      BY <1>1, <2>1
    <2> QED
      BY <1>3, <2>2, <2>3 DEF AskOf
  <1>4. ASSUME NEW d \in Clients, NEW outcome \in Outcome,
               End(d, outcome), ClientStep(d)
        PROVE  (c = d /\ EndOf(c)) \/ session'[c] = session[c]
    <2>1. session' = [session EXCEPT ![d] = Left(d, outcome)]
      BY <1>4 DEF End
    <2>2. c = d => session'[c] = Left(c, outcome)
      BY <1>1, <2>1
    <2>3. c # d => session'[c] = session[c]
      BY <1>1, <2>1
    <2> QED
      BY <1>4, <2>2, <2>3 DEF EndOf
  <1>5. CASE ThreadReplies
    <2>1. CASE /\ request \in ClientRequest
               /\ session[request.from].at = "asking"
               /\ session[request.from].socket = request.socket
               /\ session' = [session EXCEPT ![request.from] = Told(request.from, request, result)]
      <3>1. c = request.from => ReplyTo(c)
        BY <1>1, <1>5, <2>1 DEF ReplyTo
      <3>2. c # request.from => session'[c] = session[c]
        BY <1>1, <2>1
      <3> QED
        BY <1>2, <3>1, <3>2
    <2>2. CASE UNCHANGED session
      BY <1>2, <2>2
    <2> QED
      BY <1>5, <2>1, <2>2, ReplyEffect
  <1>6. CASE ModuleTakes \/ CommandEnds
    BY <1>6, ObservedSession DEF ModuleTakes, CommandEnds, Same
  <1>7. CASE \/ UNCHANGED all \/ ThreadMoves \/ ThreadTimesOut \/ ThreadAnswered
             \/ ThreadQueuesStep \/ OthersSend
             \/ MainMoves(Drain) \/ MainMoves(Close) \/ MainMoves(Join)
    BY <1>2, <1>7 DEF all, ThreadMoves, ThreadTimesOut, ThreadAnswered, ThreadQueuesStep,
                      OthersSend, MainMoves
  <1> QED
    BY <1>2, <1>3, <1>4, <1>5, <1>6, <1>7, SessionParts

\* The state of a client after each of the three.
LEMMA AskedClient ==
  ASSUME SessionTypeOK, NEW c \in Clients, AskOf(c)
  PROVE  /\ session'[c].at = "asking" /\ session'[c].outcome = "none"
         /\ session'[c].asks = session[c].asks + 1 /\ session'[c].socket = session[c].asks + 1
  BY DEF AskOf, Asks, Socket, NewSession

LEMMA EndedClient ==
  ASSUME SessionTypeOK, NEW c \in Clients, EndOf(c)
  PROVE  /\ session'[c].at = "ended" /\ session'[c].outcome # "none"
         /\ session'[c].asks = session[c].asks
  BY DEF EndOf, Left, NewSession, Outcome

LEMMA ToldClient ==
  ASSUME SessionTypeOK, NEW c \in Clients, ReplyTo(c)
  PROVE  \/ /\ result = "error" /\ session'[c].at = "ended"
            /\ session'[c].outcome \in {"failed", "gone"} /\ session'[c].asks = session[c].asks
         \/ /\ result # "error" /\ session'[c].at = "state" /\ session'[c].seen = result
            /\ session'[c].took = request.ask /\ session'[c].asks = session[c].asks
            /\ session'[c].phase = session[c].phase /\ session'[c].outcome = session[c].outcome
            /\ session'[c].over = session[c].over
  <1>1. session[c] \in Session
    BY DEF SessionTypeOK
  <1>2. session'[c] = Told(c, request, result)
    BY DEF ReplyTo
  <1>3. CASE result = "error"
    BY <1>2, <1>3 DEF Told, Left, Failure, NewSession
  <1>4. CASE result # "error"
    BY <1>1, <1>2, <1>4 DEF Told, Session
  <1> QED
    BY <1>3, <1>4

\* Each request has a socket of its own, and the requests of a client are asked in
\* the order in which they are numbered, the one it waits for last.
Sockets ==
  /\ \A r \in Line : OfClient(r) =>
       /\ r.n <= sent /\ r.socket = r.ask /\ r.ask <= session[r.from].asks
  /\ \A r, s \in Line :
       OfClient(r) /\ OfClient(s) /\ r.from = s.from /\ r.n < s.n => r.ask < s.ask
  /\ \A c \in Clients : session[c].at = "asking" => session[c].socket = session[c].asks

LEMMA SentGrows ==
  ASSUME SessionTypeOK, [SessionNext]_all
  PROVE  sent' = sent \/ sent' = sent + 1
  <1> USE DEF exchange, vars
  <1>1. sent \in Nat
    BY DEF SessionTypeOK
  <1>2. CASE sent' = sent
    BY <1>1, <1>2
  <1>3. CASE sent' = sent + 1
    BY <1>1, <1>3
  <1>4. CASE OthersSend
    BY <1>3, <1>4 DEF OthersSend, ClientSends
  <1>5. ASSUME NEW c \in Clients, NEW step \in Moves \cup {"none"}, NEW phase \in Phases,
               NEW cancelled \in BOOLEAN, Ask(c, step, phase, cancelled)
        PROVE  sent' = sent + 1 \/ sent' = sent
    BY <1>5, AskEffect
  <1>6. ASSUME NEW c \in Clients, NEW outcome, End(c, outcome)
        PROVE  sent' = sent
    BY <1>6 DEF End
  <1>7. CASE ThreadMoves
    BY <1>2, <1>7 DEF ThreadMoves, Top, RecvTimeout, Recv, Reject, Die, Query, Write, Flushed, ReplyFails, Keep
  <1>8. CASE \/ UNCHANGED all \/ ThreadTimesOut \/ ThreadAnswered \/ ThreadQueuesStep
             \/ ThreadReplies \/ ModuleTakes \/ CommandEnds
             \/ MainMoves(Drain) \/ MainMoves(Close) \/ MainMoves(Join)
    BY <1>2, <1>8 DEF all, ThreadTimesOut, WaitTimesOut, ThreadAnswered, WaitAnswered,
         ThreadQueuesStep, QueueStep, ThreadReplies, SendReply, Keep, ModuleTakes, CommandEnds,
         MainMoves, Drain, Close, Join
  <1> QED
    BY <1>2, <1>3, <1>4, <1>5, <1>6, <1>7, <1>8, SessionParts

LEMMA SocketsStep ==
  ASSUME SessionTypeOK, Sockets, OwnReply, [SessionNext]_all
  PROVE  Sockets' /\ OwnReply'
  <1>1. \A c \in Clients : session[c] \in Session /\ session[c].asks \in Nat
    BY DEF SessionTypeOK, Session
  <1>2. \A r \in Line : OfClient(r) =>
          r.n \in Nat /\ r.ask \in Nat /\ r.socket \in Nat /\ r.from \in Clients
    BY LineTypes DEF ClientRequest
  <1>3. sent \in Nat /\ (sent' = sent \/ sent' = sent + 1)
    BY SentGrows DEF SessionTypeOK
  <1> DEFINE New(c, r) == /\ AskOf(c) /\ ClientStep(c) /\ sent' = sent + 1
                          /\ r.n = sent + 1 /\ r.from = c
                          /\ r.ask = session[c].asks + 1 /\ r.socket = r.ask
  <1>4. \A r \in Line' : OfClient(r) => r \in Line \/ \E c \in Clients : New(c, r)
    <2> SUFFICES ASSUME NEW r \in Line', OfClient(r), r \notin Line
                 PROVE  \E c \in Clients : New(c, r)
      OBVIOUS
    <2>1. PICK c \in Clients, step \in Moves \cup {"none"}, phase \in Phases, cancelled \in BOOLEAN :
            Ask(c, step, phase, cancelled) /\ ClientStep(c) /\ r = Sending(c, step)
              /\ sent' = sent + 1
      BY LineStep DEF IsSent
    <2>2. AskOf(c)
      <3>1. session' = [session EXCEPT ![c] = Asks(c, step, phase, cancelled)]
        BY <2>1, AskEffect
      <3>2. session'[c] = Asks(c, step, phase, cancelled)
        BY <3>1 DEF SessionTypeOK
      <3> QED
        BY <2>1, <3>2 DEF AskOf
    <2> QED
      BY <2>1, <2>2 DEF Sending, Socket
  <1>6. \A c \in Clients : AskOf(c) =>
          /\ session'[c].at = "asking" /\ session'[c].asks = session[c].asks + 1
          /\ session'[c].socket = session[c].asks + 1
    BY AskedClient
  <1>7. \A c \in Clients : ReplyTo(c) =>
          /\ session'[c].asks = session[c].asks
          /\ \/ session'[c].at = "ended"
             \/ session'[c].at = "state" /\ session'[c].took = request.ask
    BY ToldClient
  <1>8. \A c \in Clients : EndOf(c) => session'[c].at = "ended" /\ session'[c].asks = session[c].asks
    BY EndedClient
  <1>9. \A c \in Clients : AskOf(c) \/ EndOf(c) \/ ReplyTo(c) \/ Same(c)
    BY OneClient
  <1> HIDE DEF New
  <1>10. ASSUME NEW r \in Line', OfClient(r)
         PROVE  r.n <= sent' /\ r.socket = r.ask /\ r.ask <= session'[r.from].asks
    <2>1. CASE r \in Line
      <3>1. /\ r.n <= sent /\ r.socket = r.ask /\ r.n \in Nat /\ r.ask \in Nat /\ r.from \in Clients
            /\ r.ask <= session[r.from].asks
        BY <1>2, <1>10, <2>1 DEF Sockets
      <3>2. r.n <= sent'
        BY <1>3, <3>1
      <3>3. \/ session'[r.from].asks = session[r.from].asks
            \/ session'[r.from].asks = session[r.from].asks + 1
        BY <1>6, <1>7, <1>8, <1>9, <3>1 DEF Same
      <3> QED
        BY <1>1, <3>1, <3>2, <3>3
    <2>2. ASSUME NEW c \in Clients, New(c, r)
          PROVE  r.n <= sent' /\ r.socket = r.ask /\ r.ask <= session'[r.from].asks
      BY <1>1, <1>3, <1>6, <2>2 DEF New
    <2> QED
      BY <1>4, <1>10, <2>1, <2>2
  <1>11. ASSUME NEW r \in Line', NEW s \in Line', OfClient(r), OfClient(s), r.from = s.from, r.n < s.n
         PROVE  r.ask < s.ask
    <2>1. CASE r \in Line /\ s \in Line
      BY <1>11, <2>1 DEF Sockets
    <2>2. ASSUME NEW c \in Clients, New(c, s), r \in Line
          PROVE  r.ask < s.ask
      <3>1. r.from = c
        BY <1>11, <2>2 DEF New
      <3>2. r.ask <= session[c].asks /\ r.ask \in Nat
        BY <1>2, <1>11, <2>2, <3>1 DEF Sockets
      <3> QED
        BY <1>1, <2>2, <3>2 DEF New
    <2>3. ASSUME NEW c \in Clients, New(c, r), s \in Line
          PROVE  FALSE
      <3>1. s.n <= sent /\ s.n \in Nat
        BY <1>2, <1>11, <2>3 DEF Sockets
      <3> QED
        BY <1>3, <1>11, <2>3, <3>1 DEF New
    <2>4. ASSUME NEW c \in Clients, New(c, r), NEW d \in Clients, New(d, s)
          PROVE  FALSE
      BY <1>3, <1>11, <2>4 DEF New
    <2> QED
      BY <1>4, <1>11, <2>1, <2>2, <2>3, <2>4
  <1>12. ASSUME NEW c \in Clients
         PROVE  /\ session'[c].at = "asking" => session'[c].socket = session'[c].asks
                /\ session'[c].at = "state" => session'[c].took = session'[c].asks
    <2>1. CASE AskOf(c)
      BY <1>6, <2>1
    <2>2. CASE EndOf(c)
      BY <1>8, <2>2
    <2>3. CASE ReplyTo(c)
      <3>1. /\ request \in ClientRequest /\ request.from = c /\ OfClient(request)
            /\ session[c].at = "asking" /\ session[c].socket = request.socket
        BY <2>3 DEF ReplyTo, ClientRequest, OfClient
      <3>2. request.socket = request.ask /\ session[c].socket = session[c].asks
        BY <3>1 DEF Sockets, Line
      <3> QED
        BY <1>7, <2>3, <3>1, <3>2
    <2>4. CASE Same(c)
      BY <2>4 DEF Same, Sockets, OwnReply
    <2> QED
      BY <1>9, <2>1, <2>2, <2>3, <2>4
  <1>13. Sockets'
    BY <1>10, <1>11, <1>12 DEF Sockets, OfClient
  <1>14. OwnReply'
    BY <1>12 DEF OwnReply
  <1> QED
    BY <1>13, <1>14

----------------------------------------------------------------------------
(* What a client may conclude from a READY that it is told. *)

\* A client in its loop whose command has not ended since it asked for the start,
\* and a request whose reply will reach the client.
Running(c) == clean /\ session[c].phase = "loop" /\ ~session[c].over
Awaits(r) ==
  /\ OfClient(r) /\ session[r.from].at = "asking" /\ session[r.from].socket = r.socket

\* The step of the request under way is the last in the transport's queue.
StepLast == pc = "stepping" /\ steps # <<>> => steps[Len(steps)] = request.step

\* From the moment that its START is carried out until the command ends, what a
\* client is told, and what the module is in, is never READY.
StartTaken ==
  /\ \A c \in Clients :
       Running(c) /\ session[c].at = "state" => device # "READY" /\ session[c].seen # "READY"
  /\ \A r \in Line : Awaits(r) /\ Running(r.from) =>
       r.kind = "step" /\ (r.step # "START" => device # "READY")
  /\ Awaits(request) /\ Running(request.from) =>
       /\ (pc = "stepping" /\ steps = <<>>) => device # "READY"
       /\ (pc = "reply" /\ result # "error") => (result # "READY" /\ device # "READY")

\* A client that asks or ends: nobody else is touched, and its earlier requests are
\* not those it waits for.
LEMMA AskAlone ==
  ASSUME SessionTypeOK, Sockets, NEW c \in Clients, NEW step \in Moves \cup {"none"},
         NEW phase \in Phases, NEW cancelled \in BOOLEAN, Ask(c, step, phase, cancelled)
  PROVE  /\ \A d \in Clients \ {c} : session'[d] = session[d]
         /\ session'[c].at = "asking" /\ session'[c].phase = phase
         /\ session'[c].over = (session[c].over /\ step # "START")
         /\ session'[c].outcome = "none"
         /\ UNCHANGED <<pc, request, device, steps, result, clean>>
         /\ \A r \in Line' : Awaits(r)' =>
              \/ r \in Line /\ r.from # c /\ Awaits(r)
              \/ r = Sending(c, step) /\ r.from = c
         /\ Awaits(request)' => request.from # c /\ Awaits(request)
  <1>1. /\ session' = [session EXCEPT ![c] = Asks(c, step, phase, cancelled)]
        /\ UNCHANGED <<pc, request, device, steps, result, clean>>
    BY AskEffect DEF exchange
  <1>2. (\A d \in Clients \ {c} : session'[d] = session[d])
          /\ session'[c] = Asks(c, step, phase, cancelled)
    BY <1>1 DEF SessionTypeOK
  <1>3. session[c].over \in BOOLEAN /\ session[c].asks \in Nat
    BY DEF SessionTypeOK, Session
  <1>4. /\ session'[c].at = "asking" /\ session'[c].phase = phase
        /\ session'[c].socket = session[c].asks + 1
        /\ session'[c].over = (session[c].over /\ step # "START")
        /\ session'[c].outcome = "none"
    BY <1>2, <1>3 DEF Asks, NewSession, Socket
  <1>5. ASSUME NEW r \in Line, Awaits(r)'
        PROVE  r.from # c /\ Awaits(r)
    <2>1. OfClient(r) /\ session'[r.from].at = "asking" /\ session'[r.from].socket = r.socket
      BY <1>5 DEF Awaits, OfClient
    <2>2. r.from \in Clients /\ r.ask \in Nat /\ r.socket = r.ask
      BY <2>1, LineTypes DEF ClientRequest, Sockets
    <2>3. r.from # c
      <3>1. SUFFICES ASSUME r.from = c PROVE FALSE
        OBVIOUS
      <3>2. r.ask <= session[c].asks
        BY <2>1, <3>1 DEF Sockets
      <3> QED
        BY <1>3, <1>4, <2>1, <2>2, <3>1, <3>2
    <2> QED
      BY <1>2, <2>1, <2>2, <2>3 DEF Awaits
  <1>6. \A r \in Line' : r \in Line \/ (r = Sending(c, step) /\ r.from = c)
    BY AskLine DEF Line, Sending
  <1> QED
    BY <1>1, <1>2, <1>4, <1>5, <1>6 DEF Line

LEMMA EndAlone ==
  ASSUME SessionTypeOK, NEW c \in Clients, NEW outcome \in Outcome,
         End(c, outcome)
  PROVE  /\ \A d \in Clients \ {c} : session'[d] = session[d]
         /\ session'[c].at = "ended" /\ session'[c].over = session[c].over
         /\ session'[c].outcome = outcome
         /\ UNCHANGED <<pc, request, inbox, device, steps, result, clean>>
         /\ \A r \in Line' : Awaits(r)' => r \in Line /\ r.from # c /\ Awaits(r)
  <1>1. session' = [session EXCEPT ![c] = Left(c, outcome)]
        /\ UNCHANGED <<pc, request, inbox, device, steps, result, clean>>
    BY DEF End, vars, exchange
  <1>2. (\A d \in Clients \ {c} : session'[d] = session[d]) /\ session'[c] = Left(c, outcome)
    BY <1>1 DEF SessionTypeOK
  <1>3. /\ session'[c].at = "ended" /\ session'[c].over = session[c].over
        /\ session'[c].outcome = outcome
    BY <1>2 DEF Left, NewSession
  <1>4. ASSUME NEW r \in Line', Awaits(r)'
        PROVE  r \in Line /\ r.from # c /\ Awaits(r)
    <2>1. OfClient(r) /\ session'[r.from].at = "asking" /\ session'[r.from].socket = r.socket
      BY <1>4 DEF Awaits, OfClient
    <2>2. r \in Line
      BY <1>1, <1>4 DEF Line, Waiting
    <2>3. r.from \in Clients /\ r.from # c
      BY <1>3, <2>1, <2>2, LineTypes DEF ClientRequest
    <2> QED
      BY <1>2, <2>1, <2>2, <2>3 DEF Awaits
  <1> QED
    BY <1>1, <1>2, <1>3, <1>4

\* A step of the thread, the module or the main loop leaves nothing new in the line.
LEMMA OtherLine ==
  ASSUME SessionTypeOK, [SessionNext]_all, ~\E c \in Clients : ClientStep(c)
  PROVE  \A r \in Line' : OfClient(r) => r \in Line
  BY LineStep DEF IsSent

\* A client's step keeps the three.
LEMMA StartAsked ==
  ASSUME SessionTypeOK, Sockets, StartTaken, FinishedMeansEnded, NEW c \in Clients, ClientStep(c)
  PROVE  StartTaken' /\ FinishedMeansEnded'
  <1>1. ASSUME NEW step \in Moves \cup {"none"}, NEW phase \in Phases, NEW cancelled \in BOOLEAN,
               Ask(c, step, phase, cancelled),
               \/ phase = "find" /\ step = "none"
               \/ phase = "loop" /\ step = "START"
               \/ /\ phase = "loop" /\ step \in Moves /\ session[c].at = "state"
                  /\ session[c].phase = "loop" /\ session[c].seen # "READY"
               \/ phase \in {"decline", "leave"} /\ step = "CANCEL"
        PROVE  StartTaken' /\ FinishedMeansEnded'
    <2>1. /\ \A d \in Clients \ {c} : session'[d] = session[d]
          /\ session'[c].at = "asking" /\ session'[c].phase = phase
          /\ session'[c].over = (session[c].over /\ step # "START")
          /\ session'[c].outcome = "none"
          /\ UNCHANGED <<pc, request, device, steps, result, clean>>
          /\ \A r \in Line' : Awaits(r)' =>
               \/ r \in Line /\ r.from # c /\ Awaits(r)
               \/ r = Sending(c, step) /\ r.from = c
          /\ Awaits(request)' => request.from # c /\ Awaits(request)
      BY <1>1, AskAlone
    <2>2. \A d \in Clients \ {c} : Running(d)' <=> Running(d)
      BY <2>1 DEF Running
    <2>3. \A d \in Clients : Running(d)' /\ session'[d].at = "state"
            => device' # "READY" /\ session'[d].seen # "READY"
      BY <2>1, <2>2 DEF StartTaken
    <2>4. ASSUME NEW r \in Line', Awaits(r)', Running(r.from)'
          PROVE  r.kind = "step" /\ (r.step # "START" => device' # "READY")
      <3>1. CASE r \in Line /\ r.from # c /\ Awaits(r)
        <4>1. r.from \in Clients
          BY <3>1, LineTypes DEF Awaits, ClientRequest
        <4> QED
          BY <2>1, <2>2, <2>4, <3>1, <4>1 DEF StartTaken
      <3>2. CASE r = Sending(c, step) /\ r.from = c
        <4>1. phase = "loop"
          BY <2>1, <2>4, <3>2 DEF Running
        <4>2. step \in Moves /\ r.kind = "step" /\ r.step = step
          BY <1>1, <3>2, <4>1 DEF Sending, Moves
        <4>3. step # "START" => Running(c) /\ session[c].at = "state"
          BY <1>1, <2>1, <2>4, <3>2, <4>1 DEF Running
        <4> QED
          BY <2>1, <4>2, <4>3 DEF StartTaken
      <3> QED
        BY <2>1, <2>4, <3>1, <3>2
    <2>5. Awaits(request)' /\ Running(request.from)' =>
             /\ (pc' = "stepping" /\ steps' = <<>>) => device' # "READY"
             /\ (pc' = "reply" /\ result' # "error") => (result' # "READY" /\ device' # "READY")
      <3> SUFFICES ASSUME Awaits(request)', Running(request.from)'
                   PROVE  /\ (pc = "stepping" /\ steps = <<>>) => device # "READY"
                          /\ (pc = "reply" /\ result # "error")
                               => (result # "READY" /\ device # "READY")
        BY <2>1
      <3>1. request.from \in Clients \ {c} /\ Awaits(request)
        BY <2>1, LineTypes DEF Awaits, ClientRequest, Line
      <3> QED
        BY <2>1, <2>2, <3>1 DEF StartTaken
    <2>6. FinishedMeansEnded'
      BY <2>1 DEF FinishedMeansEnded
    <2>7. StartTaken'
      BY <2>1, <2>3, <2>4, <2>5 DEF StartTaken
    <2> QED
      BY <2>6, <2>7
  <1>2. ASSUME NEW outcome \in Outcome, End(c, outcome),
               outcome = "finished" => Sees(c, "loop", "READY")
        PROVE  StartTaken' /\ FinishedMeansEnded'
    <2>1. /\ \A d \in Clients \ {c} : session'[d] = session[d]
          /\ session'[c].at = "ended" /\ session'[c].over = session[c].over
          /\ session'[c].outcome = outcome
          /\ UNCHANGED <<pc, request, inbox, device, steps, result, clean>>
          /\ \A r \in Line' : Awaits(r)' => r \in Line /\ r.from # c /\ Awaits(r)
      BY <1>2, EndAlone
    <2>2. \A d \in Clients \ {c} : Running(d)' <=> Running(d)
      BY <2>1 DEF Running
    <2>3. \A r \in Line' : Awaits(r)' => r \in Line /\ r.from \in Clients \ {c} /\ Awaits(r)
      BY <2>1, LineTypes DEF Awaits, ClientRequest
    <2>4. request \in Line' /\ request' = request
      BY <2>1 DEF Line
    <2>5. StartTaken'
      BY <2>1, <2>2, <2>3, <2>4 DEF StartTaken
    <2>6. clean /\ outcome = "finished" => session[c].over
      <3> SUFFICES ASSUME clean, outcome = "finished", ~session[c].over
                   PROVE  FALSE
        BY DEF SessionTypeOK, Session
      <3>1. Running(c) /\ session[c].at = "state" /\ session[c].seen = "READY"
        BY <1>2 DEF Sees, Running
      <3> QED
        BY <3>1 DEF StartTaken
    <2>7. FinishedMeansEnded'
      BY <2>1, <2>6 DEF FinishedMeansEnded
    <2> QED
      BY <2>5, <2>7
  <1> QED
    BY <1>1, <1>2, ClientEffect

\* So does one of the thread, the module or the main loop.
LEMMA StartOther ==
  ASSUME SessionTypeOK, StepOfRequest, StepLast, StartTaken, FinishedMeansEnded,
         [SessionNext]_all, ~\E c \in Clients : ClientStep(c)
  PROVE  StartTaken' /\ FinishedMeansEnded'
  <1> USE DEF exchange, vars
  <1>1. \A r \in Line' : OfClient(r) => r \in Line /\ r \in ClientRequest /\ r.from \in Clients
    BY OtherLine, LineTypes DEF ClientRequest
  <1>2. request \in Line /\ request' \in Line'
    BY DEF Line
  <1> DEFINE Replied ==
        Awaits(request) /\ Running(request.from) =>
          /\ (pc = "stepping" /\ steps = <<>>) => device # "READY"
          /\ (pc = "reply" /\ result # "error") => (result # "READY" /\ device # "READY")
  <1>3. ASSUME UNCHANGED <<session, device>>, clean' => clean, Replied'
        PROVE  StartTaken' /\ FinishedMeansEnded'
    <2>1. \A c \in Clients : Running(c)' => Running(c)
      BY <1>3 DEF Running
    <2>2. \A r \in Line' : Awaits(r)' => r \in Line /\ Awaits(r) /\ r.from \in Clients
      BY <1>1, <1>3 DEF Awaits, OfClient
    <2>3. \A c \in Clients :
            Running(c)' /\ session'[c].at = "state" => device' # "READY" /\ session'[c].seen # "READY"
      BY <1>3, <2>1 DEF StartTaken
    <2>4. \A r \in Line' : Awaits(r)' /\ Running(r.from)' =>
            r.kind = "step" /\ (r.step # "START" => device' # "READY")
      BY <1>3, <2>1, <2>2 DEF StartTaken
    <2>5. FinishedMeansEnded'
      BY <1>3 DEF FinishedMeansEnded
    <2> QED
      BY <1>3, <2>3, <2>4, <2>5 DEF StartTaken
  <1>4. CASE UNCHANGED <<session, device, pc, request, steps, result>> /\ (clean' => clean)
    <2>1. Replied'
      BY <1>4 DEF StartTaken, Awaits, OfClient, Running
    <2> QED
      BY <1>3, <1>4, <2>1
  <1>5. CASE ThreadMoves
    <2>1. UNCHANGED <<device, steps, result, session, clean>>
      BY <1>5 DEF ThreadMoves
    <2>2. pc' # "stepping"
      BY <1>5 DEF ThreadMoves, Top, RecvTimeout, Recv, Reject, Die, Query, Write, Flushed, ReplyFails, Goto
    <2>3. pc' = "reply" => result' = "error"
      BY <1>5 DEF ThreadMoves, Top, RecvTimeout, Recv, Reject, Die, Query, Write, Flushed, ReplyFails, Goto,
                  StepOfRequest
    <2> QED
      BY <1>3, <2>1, <2>2, <2>3
  <1>6. CASE ThreadTimesOut
    BY <1>3, <1>6 DEF ThreadTimesOut, WaitTimesOut, Goto
  <1>7. CASE ThreadAnswered
    <2>1. /\ UNCHANGED <<device, steps, session, request>> /\ steps = <<>>
          /\ clean' = (clean /\ result' = device)
          /\ pc \in {"wait", "stepping", "readback"} /\ pc' # "stepping"
          /\ pc = "wait" => pc' = AfterFind
      BY <1>7 DEF ThreadAnswered, WaitAnswered, Goto, Keep, AfterFind
    <2>2. Replied'
      <3> SUFFICES ASSUME Awaits(request)', Running(request.from)', pc' = "reply"
                   PROVE  result' # "READY" /\ device' # "READY"
        BY <2>1
      <3>1. Awaits(request) /\ Running(request.from) /\ clean /\ result' = device
        BY <2>1 DEF Awaits, OfClient, Running, SessionTypeOK
      <3>2. request.kind = "step"
        BY <1>2, <3>1 DEF StartTaken
      <3>3. pc = "stepping"
        BY <2>1, <3>2 DEF AfterFind, StepOfRequest
      <3> QED
        BY <2>1, <3>1, <3>3 DEF StartTaken
    <2> QED
      BY <1>3, <2>1, <2>2
  <1>8. CASE ThreadQueuesStep
    <2>1. /\ UNCHANGED <<device, result, session, clean>> /\ pc' = "stepping"
          /\ steps' = Append(steps, request.step)
      BY <1>8 DEF ThreadQueuesStep, QueueStep, Goto
    <2>2. steps' # <<>>
      BY <2>1 DEF SessionTypeOK
    <2> QED
      BY <1>3, <2>1, <2>2
  <1>9. CASE ThreadReplies
    <2>1. /\ pc' = "top" /\ pc = "reply" /\ UNCHANGED <<request, inbox, device, clean>>
          /\ \/ UNCHANGED session
             \/ /\ request \in ClientRequest
                /\ session[request.from].at = "asking"
                /\ session[request.from].socket = request.socket
                /\ session' = [session EXCEPT ![request.from] = Told(request.from, request, result)]
      BY <1>9, ReplyEffect
    <2>2. CASE UNCHANGED session
      BY <1>3, <2>1, <2>2
    <2>3. CASE ~UNCHANGED session
      <3>1. PICK c \in Clients : /\ c = request.from /\ session[c].at = "asking"
                                 /\ session[c].socket = request.socket
                                 /\ session' = [session EXCEPT ![c] = Told(c, request, result)]
                                 /\ request \in ClientRequest
        BY <2>1, <2>3 DEF ClientRequest
      <3>2. (\A d \in Clients \ {c} : session'[d] = session[d])
              /\ session'[c] = Told(c, request, result)
        BY <3>1 DEF SessionTypeOK
      <3>3. ReplyTo(c)
        BY <1>9, <3>1, <3>2 DEF ReplyTo
      <3>4. \/ session'[c].at = "ended" /\ session'[c].outcome \in {"failed", "gone"}
            \/ /\ result # "error" /\ session'[c].at = "state" /\ session'[c].seen = result
               /\ session'[c].phase = session[c].phase /\ session'[c].outcome = session[c].outcome
               /\ session'[c].over = session[c].over
        BY <3>3, ToldClient
      <3>5. Awaits(request) /\ \A d \in Clients \ {c} : Running(d)' <=> Running(d)
        BY <2>1, <3>1, <3>2 DEF Awaits, Running, OfClient, ClientRequest
      <3>6. \A d \in Clients :
              Running(d)' /\ session'[d].at = "state" => device' # "READY" /\ session'[d].seen # "READY"
        <4>1. Running(c)' /\ session'[c].at = "state" => device' # "READY" /\ session'[c].seen # "READY"
          BY <2>1, <3>1, <3>4, <3>5 DEF StartTaken, Running
        <4> QED
          BY <2>1, <3>2, <3>5, <4>1 DEF StartTaken
      <3>7. \A r \in Line' : Awaits(r)' => r \in Line /\ Awaits(r) /\ r.from \in Clients \ {c}
        <4> SUFFICES ASSUME NEW r \in Line', Awaits(r)'
                     PROVE  r \in Line /\ Awaits(r) /\ r.from \in Clients \ {c}
          OBVIOUS
        <4>1. OfClient(r) /\ session'[r.from].at = "asking" /\ session'[r.from].socket = r.socket
          BY DEF Awaits, OfClient
        <4>2. r \in Line /\ r.from \in Clients /\ r.from # c
          BY <1>1, <3>4, <4>1
        <4> QED
          BY <3>2, <4>1, <4>2 DEF Awaits
      <3>8. \A r \in Line' : Awaits(r)' /\ Running(r.from)' =>
              r.kind = "step" /\ (r.step # "START" => device' # "READY")
        BY <2>1, <3>5, <3>7 DEF StartTaken
      <3>9. Replied'
        BY <2>1
      <3>10. FinishedMeansEnded'
        BY <2>1, <3>2, <3>4 DEF FinishedMeansEnded
      <3> QED
        BY <3>6, <3>8, <3>9, <3>10 DEF StartTaken
    <2> QED
      BY <2>2, <2>3
  <1>10. CASE ModuleTakes \/ CommandEnds
    <2>1. UNCHANGED <<pc, request, inbox, result>> /\ Observed /\ (clean' => clean)
      <3>1. clean \in BOOLEAN
        BY DEF SessionTypeOK
      <3>2. CASE ModuleTakes
        BY <3>1, <3>2 DEF ModuleTakes
      <3>3. CASE CommandEnds
        BY <3>3 DEF CommandEnds
      <3> QED
        BY <1>10, <3>2, <3>3
    <2>2. \A c \in Clients :
            /\ session'[c].over = (session[c].over
                 \/ (device # "READY" /\ device' = "READY" /\ session[c].at # "ended"))
            /\ Same(c)
      BY <2>1, ObservedSession DEF Same
    <2>3. \A c \in Clients : Running(c)' =>
            Running(c) /\ ((device # "READY" /\ session[c].at # "ended") => device' # "READY")
      BY <2>1, <2>2 DEF Running, Same
    <2>4. \A r \in Line' : Awaits(r)' => r \in Line /\ Awaits(r) /\ r.from \in Clients
      BY <1>1, <2>2 DEF Awaits, OfClient, Same
    <2>5. \A c \in Clients :
            Running(c)' /\ session'[c].at = "state" => device' # "READY" /\ session'[c].seen # "READY"
      BY <2>2, <2>3 DEF StartTaken, Same
    <2>6. \A r \in Line' : Awaits(r)' /\ Running(r.from)' =>
            r.kind = "step" /\ (r.step # "START" => device' # "READY")
      <3> SUFFICES ASSUME NEW r \in Line', Awaits(r)', Running(r.from)'
                   PROVE  r.kind = "step" /\ (r.step # "START" => device' # "READY")
        OBVIOUS
      <3>1. r \in Line /\ Awaits(r) /\ r.from \in Clients
        BY <2>4
      <3>2. r.kind = "step" /\ (r.step # "START" => device # "READY")
        BY <2>3, <3>1 DEF StartTaken
      <3> QED
        BY <2>3, <3>1, <3>2 DEF Awaits
    <2>7. Replied'
      <3> SUFFICES ASSUME Awaits(request)', Running(request.from)'
                   PROVE  /\ (pc = "stepping" /\ steps' = <<>>) => device' # "READY"
                          /\ (pc = "reply" /\ result # "error")
                               => (result # "READY" /\ device' # "READY")
        BY <2>1
      <3>1. Awaits(request) /\ Running(request.from) /\ request.from \in Clients
        BY <1>2, <2>1, <2>3, <2>4
      <3>2. device # "READY" => device' # "READY"
        BY <2>1, <2>3, <3>1 DEF Awaits
      <3>3. pc = "reply" /\ result # "error" => result # "READY" /\ device' # "READY"
        BY <3>1, <3>2 DEF StartTaken
      <3>4. ASSUME pc = "stepping", steps' = <<>>
            PROVE  device' # "READY"
        <4>1. CASE steps = <<>>
          BY <3>1, <3>2, <3>4, <4>1 DEF StartTaken
        <4>2. CASE steps # <<>>
          <5>1. CASE request.step # "START"
            BY <1>2, <3>1, <3>2, <5>1 DEF StartTaken
          <5>2. CASE request.step = "START"
            <6>1. ModuleTakes
              BY <1>10, <3>4, <4>2 DEF CommandEnds
            <6>2. steps' = Tail(steps) /\ clean'
              BY <2>1, <6>1 DEF ModuleTakes, Running
            <6>3. Len(steps) = 1 /\ Head(steps) = steps[1]
              <7>1. Len(steps) >= 1 /\ Len(steps) \in Nat /\ Len(Tail(steps)) = Len(steps) - 1
                      /\ Head(steps) = steps[1]
                BY <4>2, HeadTailProperties, EmptySeq, LenProperties DEF SessionTypeOK
              <7>2. Len(Tail(steps)) = 0
                BY <3>4, <6>2, EmptySeq
              <7> QED
                BY <7>1, <7>2
            <6>4. Head(steps) = "START"
              BY <3>4, <4>2, <5>2, <6>3 DEF StepLast
            <6>5. device' \in Carried(Head(steps))
              BY <2>1, <6>1, <6>2 DEF ModuleTakes, Running
            <6> QED
              BY <6>4, <6>5, CarriedStates DEF SessionTypeOK
          <5> QED
            BY <5>1, <5>2
        <4> QED
          BY <4>1, <4>2
      <3> QED
        BY <3>3, <3>4
    <2>8. FinishedMeansEnded'
      BY <2>1, <2>2 DEF FinishedMeansEnded, Same
    <2> QED
      BY <2>5, <2>6, <2>7, <2>8 DEF StartTaken
  <1>11. CASE OthersSend \/ UNCHANGED all \/ MainMoves(Drain) \/ MainMoves(Close) \/ MainMoves(Join)
    BY <1>4, <1>11 DEF all, OthersSend, ClientSends, MainMoves, Drain, Close, Join
  <1> QED
    BY <1>5, <1>6, <1>7, <1>8, <1>9, <1>10, <1>11, SessionParts

LEMMA StepLastStep ==
  ASSUME SessionTypeOK, StepLast, [SessionNext]_all
  PROVE  StepLast'
  <1> USE DEF exchange, vars
  <1>1. CASE UNCHANGED <<pc, steps, request>>
    BY <1>1 DEF StepLast
  <1>2. CASE pc' # "stepping"
    BY <1>2 DEF StepLast
  <1>3. ASSUME NEW c \in Clients, NEW step \in Moves \cup {"none"}, NEW phase \in Phases,
               NEW cancelled \in BOOLEAN, Ask(c, step, phase, cancelled)
        PROVE  UNCHANGED <<pc, steps, request>>
    BY <1>3 DEF Ask
  <1>4. ASSUME NEW c \in Clients, NEW outcome, End(c, outcome)
        PROVE  UNCHANGED <<pc, steps, request>>
    BY <1>4 DEF End
  <1>5. CASE ThreadMoves \/ ThreadTimesOut \/ ThreadReplies
    BY <1>2, <1>5 DEF ThreadMoves, Top, RecvTimeout, Recv, Reject, Die, Query, Write, Flushed, ReplyFails, Goto,
                      ThreadTimesOut, WaitTimesOut, ThreadReplies, SendReply
  <1>6. CASE ThreadAnswered
    BY <1>2, <1>6 DEF ThreadAnswered, WaitAnswered, AfterFind, Goto
  <1>7. CASE ThreadQueuesStep
    <2>1. steps' = Append(steps, request.step) /\ request' = request /\ request.kind = request.kind
      BY <1>7 DEF ThreadQueuesStep, QueueStep, Keep
    <2>2. Len(steps) \in Nat /\ Len(steps') = Len(steps) + 1 /\ steps'[Len(steps) + 1] = request.step
      BY <2>1, LenProperties DEF SessionTypeOK
    <2> QED
      BY <2>1, <2>2 DEF StepLast
  <1>8. CASE ModuleTakes
    <2>1. steps # <<>> /\ steps' = Tail(steps) /\ UNCHANGED <<pc, request>>
      BY <1>8 DEF ModuleTakes
    <2>2. ASSUME steps' # <<>>
          PROVE  steps'[Len(steps')] = steps[Len(steps)]
      <3>1. /\ Len(steps) \in Nat /\ Len(steps) >= 1 /\ Len(steps') = Len(steps) - 1
            /\ steps' \in Seq(Moves)
            /\ \A i \in 1..(Len(steps) - 1) : steps'[i] = steps[i + 1]
        BY <2>1, HeadTailProperties, EmptySeq, LenProperties DEF SessionTypeOK
      <3>2. Len(steps') >= 1
        BY <2>2, <3>1, EmptySeq, LenProperties
      <3>3. (Len(steps) - 1) \in 1..(Len(steps) - 1) /\ (Len(steps) - 1) + 1 = Len(steps)
        BY <3>1, <3>2
      <3> QED
        BY <3>1, <3>3
    <2> QED
      BY <2>1, <2>2 DEF StepLast
  <1>9. CASE OthersSend \/ UNCHANGED all \/ CommandEnds \/ MainMoves(Drain)
               \/ MainMoves(Close) \/ MainMoves(Join)
    BY <1>1, <1>9 DEF all, OthersSend, ClientSends, CommandEnds, MainMoves, Drain, Close, Join
  <1> QED
    BY <1>1, <1>3, <1>4, <1>5, <1>6, <1>7, <1>8, <1>9, SessionParts

----------------------------------------------------------------------------
(* Who leaves the module idle. *)

\* A client that will yet be told of the command, or has left without its end.
Engaged(c) ==
  \/ session[c].at = "asking"
  \/ session[c].outcome \in {"failed", "gone"}
  \/ /\ session[c].at = "state"
     /\ session[c].phase = "find" \/ (session[c].phase = "loop" /\ session[c].seen # "READY")
Leaving(c) == session[c].phase \in {"decline", "leave"}

Outcomes == \A c \in Clients : session[c].outcome = "none" <=> session[c].at # "ended"

\* Who has a request in the socket still waits, or has left without the end of its command.
Owned ==
  \A r \in Waiting : OfClient(r) =>
    session[r.from].at = "asking" \/ session[r.from].outcome \in {"failed", "gone"}

\* A client that leaves waits for the reply to its CANCEL, and that says READY only
\* of a module that is READY.
CancelLast ==
  \A r \in Line : Awaits(r) /\ Leaving(r.from) => r.kind = "step" /\ r.step = "CANCEL"
Cancelled ==
  clean /\ Awaits(request) /\ Leaving(request.from) =>
    /\ (pc = "stepping" /\ steps = <<>>) => device = "READY"
    /\ (pc = "reply" /\ result # "error") => device = "READY"
ResultTrue ==
  clean /\ pc = "reply" /\ result # "error" =>
    steps = <<>> /\ (result = "READY" => device = "READY")

\* The command runs, or a step that may start it is on its way.
Busy ==
  \/ device # "READY" \/ steps # <<>>
  \/ \E r \in Waiting : r.kind = "step"
  \/ pc \in {"parse", "wait", "step"} /\ request.kind = "step"
BusyHeld == clean /\ Busy => \E c \in Clients : Engaged(c)

Idle == Outcomes /\ Owned /\ CancelLast /\ Cancelled /\ ResultTrue /\ BusyHeld

LEMMA IdleLeft == SessionTypeOK /\ Idle => LeftIdle
  <1> SUFFICES ASSUME SessionTypeOK, Idle, clean,
                      \A c \in Clients :
                        session[c].at = "idle" \/ session[c].outcome \in {"finished", "cancelled"}
               PROVE  /\ device = "READY" /\ steps = <<>>
                      /\ \A i \in DOMAIN inbox : inbox[i].kind # "step"
    BY DEF LeftIdle
  <1>1. \A c \in Clients : ~Engaged(c)
    BY DEF Idle, Outcomes, Engaged
  <1>2. ~Busy
    BY <1>1 DEF Idle, BusyHeld
  <1> QED
    BY <1>2 DEF Busy, Waiting

\* The client whose reply is due has nothing else in the socket.
LEMMA NoLaterRequest ==
  ASSUME SessionTypeOK, Numbered, Sockets, Awaits(request), NEW r \in Waiting, OfClient(r)
  PROVE  r.from # request.from
  <1> SUFFICES ASSUME r.from = request.from
               PROVE  FALSE
    OBVIOUS
  <1>1. PICK i \in DOMAIN inbox : r = inbox[i]
    BY DEF Waiting
  <1>2. i \in Nat \ {0} /\ request.n \in Nat /\ r.n = request.n + i
    <2>1. DOMAIN inbox = 1..Len(inbox)
      BY LenProperties DEF SessionTypeOK
    <2> QED
      BY <1>1, <2>1 DEF Numbered
  <1>3. request \in Line /\ r \in Line /\ OfClient(request) /\ request.n < r.n
    BY <1>2 DEF Line, Awaits
  <1>4. request.ask < r.ask
    BY <1>3 DEF Sockets
  <1>5. /\ r.ask <= session[r.from].asks /\ r.ask \in Nat
        /\ session[r.from].asks \in Nat /\ r.from \in Clients
        /\ request.ask \in Nat /\ request.ask = session[r.from].asks
    <2>1. r.from \in Clients /\ r.ask \in Nat /\ request.ask \in Nat
      BY <1>3, LineTypes DEF ClientRequest
    <2>2. session[r.from].at = "asking" /\ session[r.from].socket = request.socket
      BY DEF Awaits
    <2> QED
      BY <1>3, <2>1, <2>2 DEF Sockets, SessionTypeOK, Session
  <1> QED
    BY <1>4, <1>5

LEMMA IdleAsked ==
  ASSUME SessionTypeOK, Sockets, Idle, NEW c \in Clients, ClientStep(c)
  PROVE  Idle'
  <1>1. ASSUME NEW step \in Moves \cup {"none"}, NEW phase \in Phases, NEW cancelled \in BOOLEAN,
               Ask(c, step, phase, cancelled),
               phase \in {"decline", "leave"} => step = "CANCEL"
        PROVE  Idle'
    <2>1. /\ \A d \in Clients \ {c} : session'[d] = session[d]
          /\ session'[c].at = "asking" /\ session'[c].phase = phase
          /\ session'[c].outcome = "none"
          /\ UNCHANGED <<pc, request, device, steps, result, clean>>
          /\ \A r \in Line' : Awaits(r)' =>
               \/ r \in Line /\ r.from # c /\ Awaits(r)
               \/ r = Sending(c, step) /\ r.from = c
          /\ Awaits(request)' => request.from # c /\ Awaits(request)
      BY <1>1, AskAlone
    <2>2. Outcomes'
      BY <2>1 DEF Outcomes, Idle
    <2>3. Owned'
      <3> SUFFICES ASSUME NEW r \in Waiting', OfClient(r)
                   PROVE  session'[r.from].at = "asking" \/ session'[r.from].outcome \in {"failed", "gone"}
        BY DEF Owned, OfClient
      <3>1. r \in Waiting \/ r.from = c
        BY <1>1, AskLine DEF Sending
      <3>2. CASE r.from = c
        BY <2>1, <3>2
      <3>3. CASE r \in Waiting /\ r.from # c
        <4>1. r.from \in Clients
          BY <3>3, LineTypes DEF Line, ClientRequest
        <4> QED
          BY <2>1, <3>3, <4>1 DEF Owned, Idle
      <3> QED
        BY <3>1, <3>2, <3>3
    <2>4. CancelLast'
      <3> SUFFICES ASSUME NEW r \in Line', Awaits(r)', Leaving(r.from)'
                   PROVE  r.kind = "step" /\ r.step = "CANCEL"
        BY DEF CancelLast
      <3>1. CASE r \in Line /\ r.from # c /\ Awaits(r)
        <4>1. r.from \in Clients
          BY <3>1, LineTypes DEF Awaits, ClientRequest
        <4>2. Leaving(r.from)
          BY <2>1, <3>1, <4>1 DEF Leaving
        <4> QED
          BY <3>1, <4>2 DEF CancelLast, Idle
      <3>2. CASE r = Sending(c, step) /\ r.from = c
        BY <1>1, <2>1, <3>2 DEF Leaving, Sending
      <3> QED
        BY <2>1, <3>1, <3>2
    <2>5. Cancelled'
      <3> SUFFICES ASSUME clean, Awaits(request)', Leaving(request.from)'
                   PROVE  /\ (pc = "stepping" /\ steps = <<>>) => device = "READY"
                          /\ (pc = "reply" /\ result # "error") => device = "READY"
        BY <2>1 DEF Cancelled
      <3>1. request.from \in Clients \ {c} /\ Awaits(request)
        BY <2>1, LineTypes DEF Awaits, ClientRequest, Line
      <3>2. Leaving(request.from)
        BY <2>1, <3>1 DEF Leaving
      <3> QED
        BY <3>1, <3>2 DEF Cancelled, Idle
    <2>6. ResultTrue'
      BY <2>1 DEF ResultTrue, Idle
    <2>7. BusyHeld'
      BY <2>1 DEF BusyHeld, Engaged
    <2> QED
      BY <2>2, <2>3, <2>4, <2>5, <2>6, <2>7 DEF Idle
  <1>2. ASSUME NEW outcome \in Outcome, End(c, outcome),
               session[c].at \in {"asking", "state"},
               \/ outcome \in {"failed", "gone"}
               \/ Sees(c, "loop", "READY")
               \/ session[c].at = "state" /\ session[c].phase \in {"decline", "leave"}
        PROVE  Idle'
    <2>1. /\ \A d \in Clients \ {c} : session'[d] = session[d]
          /\ session'[c].at = "ended" /\ session'[c].outcome = outcome
          /\ UNCHANGED <<pc, request, inbox, device, steps, result, clean>>
          /\ \A r \in Line' : Awaits(r)' => r \in Line /\ r.from # c /\ Awaits(r)
      BY <1>2, EndAlone
    <2>2. outcome \in {"failed", "gone"} \/ (~Engaged(c) /\ session[c].at = "state")
      BY <1>2 DEF Sees, Engaged, Idle, Outcomes
    <2>3. Outcomes'
      BY <1>2, <2>1 DEF Outcomes, Outcome, Idle
    <2>4. Owned'
      <3> SUFFICES ASSUME NEW r \in Waiting, OfClient(r)
                   PROVE  session'[r.from].at = "asking" \/ session'[r.from].outcome \in {"failed", "gone"}
        BY <2>1 DEF Owned, OfClient, Waiting
      <3>1. r.from \in Clients
        BY LineTypes DEF Line, ClientRequest
      <3>2. session[r.from].at = "asking" \/ session[r.from].outcome \in {"failed", "gone"}
        BY DEF Owned, Idle
      <3>3. CASE r.from = c
        BY <2>1, <2>2, <3>2, <3>3 DEF Engaged
      <3>4. CASE r.from # c
        BY <2>1, <3>1, <3>2, <3>4
      <3> QED
        BY <3>3, <3>4
    <2>5. \A r \in Line' : Awaits(r)' => r \in Line /\ r.from \in Clients \ {c} /\ Awaits(r)
      BY <2>1, LineTypes DEF Awaits, ClientRequest
    <2>6. \A d \in Clients \ {c} : Leaving(d)' <=> Leaving(d)
      BY <2>1 DEF Leaving
    <2>7. CancelLast'
      BY <2>5, <2>6 DEF CancelLast, Idle
    <2>8. Cancelled'
      <3>1. request \in Line' /\ request' = request
        BY <2>1 DEF Line
      <3> QED
        BY <2>1, <2>5, <2>6, <3>1 DEF Cancelled, Idle
    <2>9. ResultTrue'
      BY <2>1 DEF ResultTrue, Idle
    <2>10. BusyHeld'
      <3>1. Busy' <=> Busy
        BY <2>1 DEF Busy, Waiting
      <3>2. outcome \in {"failed", "gone"} => Engaged(c)'
        BY <2>1 DEF Engaged
      <3>3. \A d \in Clients \ {c} : Engaged(d) => Engaged(d)'
        BY <2>1 DEF Engaged
      <3> QED
        BY <2>1, <2>2, <3>1, <3>2, <3>3 DEF BusyHeld, Idle
    <2> QED
      BY <2>3, <2>4, <2>7, <2>8, <2>9, <2>10 DEF Idle
  <1> QED
    BY <1>1, <1>2, ClientEffect DEF Sees

LEMMA IdleOther ==
  ASSUME SessionTypeOK, StepOfRequest, Numbered, Sockets, StepLast, Idle,
         [SessionNext]_all, ~\E c \in Clients : ClientStep(c)
  PROVE  Idle'
  <1> USE DEF exchange, vars
  <1>1. \A r \in Line' : OfClient(r) => r \in Line /\ r \in ClientRequest /\ r.from \in Clients
    BY OtherLine, LineTypes DEF ClientRequest
  <1>2. /\ \A r \in Waiting' : OfClient(r) => r \in Waiting /\ r.from \in Clients
        /\ request \in Line /\ request' \in Line'
    BY <1>1, WaitingStep DEF IsSent, Line
  <1>3. clean' => clean
    <2>1. CASE UNCHANGED clean
      BY <2>1
    <2>2. CASE ThreadAnswered
      BY <2>2 DEF ThreadAnswered, SessionTypeOK
    <2>3. CASE ModuleTakes
      BY <2>3 DEF ModuleTakes
    <2> QED
      BY <2>1, <2>2, <2>3, SessionParts DEF all, ThreadMoves, ThreadTimesOut, ThreadQueuesStep,
         ThreadReplies, OthersSend, CommandEnds, MainMoves
  <1>4. ASSUME \A c \in Clients : Same(c),
               Busy' /\ clean' => Busy, Cancelled', ResultTrue'
        PROVE  Idle'
    <2>1. \A c \in Clients : (Engaged(c)' <=> Engaged(c)) /\ (Leaving(c)' <=> Leaving(c))
      BY <1>4 DEF Engaged, Leaving, Same
    <2>2. Outcomes'
      BY <1>4 DEF Outcomes, Same, Idle
    <2>3. Owned'
      <3> SUFFICES ASSUME NEW r \in Waiting', OfClient(r)
                   PROVE  session'[r.from].at = "asking" \/ session'[r.from].outcome \in {"failed", "gone"}
        BY DEF Owned, OfClient
      <3> QED
        BY <1>2, <1>4 DEF Owned, Same, Idle
    <2>4. CancelLast'
      <3> SUFFICES ASSUME NEW r \in Line', Awaits(r)', Leaving(r.from)'
                   PROVE  r.kind = "step" /\ r.step = "CANCEL"
        BY DEF CancelLast
      <3>1. r \in Line /\ r.from \in Clients
        BY <1>1 DEF Awaits, OfClient
      <3> QED
        BY <1>4, <2>1, <3>1 DEF CancelLast, Awaits, OfClient, Same, Idle
    <2>5. BusyHeld'
      BY <1>3, <1>4, <2>1 DEF BusyHeld, Idle
    <2> QED
      BY <1>4, <2>2, <2>3, <2>4, <2>5 DEF Idle
  <1>5. UNCHANGED session => \A c \in Clients : Same(c)
    BY DEF Same
  <1>6. ASSUME UNCHANGED <<session, device, steps, result, clean, pc, request>>
        PROVE  Idle'
    <2>1. Busy' => Busy
      BY <1>2, <1>6 DEF Busy, OfClient
    <2>2. Cancelled'
      BY <1>6 DEF Cancelled, Awaits, OfClient, Leaving, Idle
    <2>3. ResultTrue'
      BY <1>6 DEF ResultTrue, Idle
    <2> QED
      BY <1>4, <1>5, <1>6, <2>1, <2>2, <2>3
  <1>7. CASE ThreadMoves
    <2>1. UNCHANGED <<device, steps, result, session, clean>>
      BY <1>7 DEF ThreadMoves
    <2>2. pc' # "stepping" /\ (pc' = "reply" => result' = "error")
      BY <1>7 DEF ThreadMoves, Top, RecvTimeout, Recv, Reject, Die, Query, Write, Flushed, ReplyFails, Goto,
                  StepOfRequest
    <2>3. Busy' => Busy
      <3>1. CASE Recv
        <4>1. request' \in Waiting
          BY <3>1, RecvEffect DEF Waiting
        <4> QED
          BY <1>2, <2>1, <4>1 DEF Busy, OfClient
      <3>2. CASE Query
        BY <1>2, <2>1, <3>2 DEF Busy, OfClient, Query, Keep
      <3>3. CASE Top \/ RecvTimeout \/ Reject \/ Die \/ Write \/ Flushed \/ ReplyFails
        <4>1. pc' \notin {"parse", "wait", "step"}
          BY <3>3 DEF Top, RecvTimeout, Reject, Die, Write, Flushed, ReplyFails, Goto
        <4> QED
          BY <1>2, <2>1, <4>1 DEF Busy, OfClient
      <3> QED
        BY <1>7, <3>1, <3>2, <3>3 DEF ThreadMoves
    <2>4. Cancelled' /\ ResultTrue'
      BY <2>2 DEF Cancelled, ResultTrue
    <2> QED
      BY <1>4, <1>5, <2>1, <2>3, <2>4
  <1>8. CASE ThreadTimesOut
    <2>1. /\ UNCHANGED <<device, steps, session, clean>> /\ result' = "error"
          /\ pc' \in {"write", "reply"}
      BY <1>8 DEF ThreadTimesOut, WaitTimesOut, Goto
    <2>2. Busy' => Busy
      BY <1>2, <2>1 DEF Busy, OfClient
    <2>3. Cancelled' /\ ResultTrue'
      BY <2>1 DEF Cancelled, ResultTrue
    <2> QED
      BY <1>4, <1>5, <2>1, <2>2, <2>3
  <1>9. CASE ThreadAnswered
    <2>1. /\ UNCHANGED <<device, steps, session, request>> /\ steps = <<>>
          /\ clean' = (clean /\ result' = device)
          /\ pc \in {"wait", "stepping", "readback"} /\ pc' # "stepping"
          /\ pc = "wait" => pc' = AfterFind
          /\ pc' = "step" => pc = "wait"
          /\ pc' \notin {"parse", "wait"}
      BY <1>9 DEF ThreadAnswered, WaitAnswered, Goto, Keep, AfterFind
    <2>2. Busy' => Busy
      BY <1>2, <2>1 DEF Busy, OfClient
    <2>3. ResultTrue'
      <3> SUFFICES ASSUME clean', result' = "READY"
                   PROVE  device = "READY"
        BY <2>1 DEF ResultTrue
      <3> QED
        BY <2>1 DEF SessionTypeOK
    <2>4. Cancelled'
      <3> SUFFICES ASSUME clean', Awaits(request)', Leaving(request.from)', pc' = "reply"
                   PROVE  device = "READY"
        BY <2>1 DEF Cancelled
      <3>1. clean /\ Awaits(request) /\ Leaving(request.from)
        BY <1>3, <2>1 DEF Awaits, OfClient, Leaving
      <3>2. request.kind = "step"
        BY <1>2, <3>1 DEF CancelLast, Idle
      <3>3. pc = "stepping"
        BY <2>1, <3>2 DEF AfterFind, StepOfRequest
      <3> QED
        BY <2>1, <3>1, <3>3 DEF Cancelled, Idle
    <2> QED
      BY <1>4, <1>5, <2>1, <2>2, <2>3, <2>4
  <1>10. CASE ThreadQueuesStep
    <2>1. /\ UNCHANGED <<device, result, session, clean>> /\ pc = "step" /\ pc' = "stepping"
          /\ steps' = Append(steps, request.step)
      BY <1>10 DEF ThreadQueuesStep, QueueStep, Goto
    <2>2. steps' # <<>> /\ request.kind = "step"
      BY <2>1 DEF SessionTypeOK, StepOfRequest
    <2>3. Busy
      BY <2>1, <2>2 DEF Busy
    <2>4. Cancelled' /\ ResultTrue'
      BY <2>1, <2>2 DEF Cancelled, ResultTrue
    <2> QED
      BY <1>4, <1>5, <2>1, <2>3, <2>4
  <1>11. CASE ThreadReplies
    <2>1. /\ pc' = "top" /\ pc = "reply"
          /\ UNCHANGED <<request, inbox, sent, device, steps, clean>>
          /\ \/ UNCHANGED session
             \/ /\ request \in ClientRequest
                /\ session[request.from].at = "asking"
                /\ session[request.from].socket = request.socket
                /\ session' = [session EXCEPT ![request.from] = Told(request.from, request, result)]
      BY <1>11, ReplyEffect
    <2>2. Busy' => Busy
      BY <1>2, <2>1 DEF Busy, OfClient
    <2>3. Cancelled' /\ ResultTrue'
      BY <2>1 DEF Cancelled, ResultTrue
    <2>4. CASE UNCHANGED session
      BY <1>4, <1>5, <2>2, <2>3, <2>4
    <2>5. CASE ~UNCHANGED session
      <3>1. PICK c \in Clients : /\ c = request.from /\ session[c].at = "asking"
                                 /\ session[c].socket = request.socket
                                 /\ session' = [session EXCEPT ![c] = Told(c, request, result)]
                                 /\ request \in ClientRequest
        BY <2>1, <2>5 DEF ClientRequest
      <3>2. (\A d \in Clients \ {c} : session'[d] = session[d])
              /\ session'[c] = Told(c, request, result)
        BY <3>1 DEF SessionTypeOK
      <3>3. ReplyTo(c)
        BY <1>11, <3>1, <3>2 DEF ReplyTo
      <3>4. \/ session'[c].at = "ended" /\ session'[c].outcome \in {"failed", "gone"}
            \/ /\ result # "error" /\ session'[c].at = "state" /\ session'[c].seen = result
               /\ session'[c].phase = session[c].phase /\ session'[c].outcome = session[c].outcome
        BY <3>3, ToldClient
      <3>5. Awaits(request)
        BY <3>1 DEF Awaits, OfClient, ClientRequest
      <3>6. \A r \in Waiting : OfClient(r) => r.from \in Clients \ {c}
        <4> SUFFICES ASSUME NEW r \in Waiting, OfClient(r)
                     PROVE  r.from \in Clients \ {c}
          OBVIOUS
        <4>1. r.from # c
          BY <3>1, <3>5, NoLaterRequest
        <4> QED
          BY <4>1, LineTypes DEF Line, ClientRequest
      <3>7. Outcomes'
        BY <3>1, <3>2, <3>4 DEF Outcomes, Idle
      <3>8. Owned'
        <4>1. Waiting' = Waiting
          BY <2>1 DEF Waiting
        <4> QED
          BY <3>2, <3>6, <4>1 DEF Owned, OfClient, Idle
      <3>9. CancelLast'
        <4> SUFFICES ASSUME NEW r \in Line', Awaits(r)', Leaving(r.from)'
                     PROVE  r.kind = "step" /\ r.step = "CANCEL"
          BY DEF CancelLast
        <4>1. r \in Line /\ r.from \in Clients /\ session'[r.from].at = "asking"
          BY <1>1 DEF Awaits, OfClient
        <4>2. r.from # c
          BY <3>4, <4>1
        <4>3. Awaits(r) /\ Leaving(r.from)
          BY <3>2, <4>1, <4>2 DEF Awaits, OfClient, Leaving
        <4> QED
          BY <4>1, <4>3 DEF CancelLast, Idle
      <3>10. BusyHeld'
        <4> SUFFICES ASSUME clean, Busy', ~Engaged(c)'
                     PROVE  \E d \in Clients : Engaged(d)'
          BY <2>1 DEF BusyHeld
        <4>1. result # "error" /\ session'[c].at = "state" /\ session'[c].seen = result
                /\ session'[c].phase = session[c].phase
          BY <3>4 DEF Engaged
        <4>2. session[c].phase \in Phases
          BY DEF SessionTypeOK, Session, Phases
        <4>3. Leaving(c) \/ result = "READY"
          BY <4>1, <4>2 DEF Engaged, Leaving, Phases
        <4>4. device = "READY" /\ steps = <<>>
          BY <2>1, <3>1, <3>5, <4>1, <4>3 DEF Cancelled, ResultTrue, Idle
        <4>5. PICK r \in Waiting : r.kind = "step"
          BY <2>1, <4>4 DEF Busy, Waiting
        <4>6. OfClient(r) /\ r.from \in Clients \ {c}
          BY <3>6, <4>5 DEF OfClient
        <4>7. session[r.from].at = "asking" \/ session[r.from].outcome \in {"failed", "gone"}
          BY <4>6 DEF Owned, Idle
        <4> QED
          BY <3>2, <4>6, <4>7 DEF Engaged
      <3> QED
        BY <2>3, <3>7, <3>8, <3>9, <3>10 DEF Idle
    <2> QED
      BY <2>4, <2>5
  <1>12. CASE ModuleTakes
    <2>1. /\ UNCHANGED <<pc, request, inbox, result>> /\ Observed
          /\ steps # <<>> /\ steps' = Tail(steps)
          /\ clean' => device' \in Carried(Head(steps))
      BY <1>12 DEF ModuleTakes
    <2>2. \A c \in Clients : Same(c)
      BY <2>1, ObservedSession DEF Same
    <2>3. Busy
      BY <2>1 DEF Busy
    <2>4. ResultTrue'
      BY <1>3, <2>1 DEF ResultTrue, Idle
    <2>5. Cancelled'
      <3> SUFFICES ASSUME clean', Awaits(request)', Leaving(request.from)'
                   PROVE  /\ (pc = "stepping" /\ steps' = <<>>) => device' = "READY"
                          /\ (pc = "reply" /\ result # "error") => device' = "READY"
        BY <2>1 DEF Cancelled
      <3>1. request.from \in Clients /\ Awaits(request) /\ Leaving(request.from)
        BY <1>1, <1>2, <2>1, <2>2 DEF Awaits, OfClient, Leaving, Same
      <3>2. ~(pc = "reply" /\ result # "error")
        BY <1>3, <2>1 DEF ResultTrue, Idle
      <3>3. ASSUME pc = "stepping", steps' = <<>>
            PROVE  device' = "READY"
        <4>1. Len(steps) = 1 /\ Head(steps) = steps[1]
          <5>1. Len(steps) >= 1 /\ Len(steps) \in Nat /\ Len(Tail(steps)) = Len(steps) - 1
                  /\ Head(steps) = steps[1]
            BY <2>1, HeadTailProperties, EmptySeq, LenProperties DEF SessionTypeOK
          <5>2. Len(Tail(steps)) = 0
            BY <2>1, <3>3, EmptySeq
          <5> QED
            BY <5>1, <5>2
        <4>2. Head(steps) = request.step
          BY <2>1, <3>3, <4>1 DEF StepLast
        <4>3. request.step = "CANCEL"
          BY <1>2, <3>1 DEF CancelLast, Idle
        <4> QED
          BY <2>1, <4>2, <4>3, CarriedStates DEF SessionTypeOK
      <3> QED
        BY <3>2, <3>3
    <2> QED
      BY <1>4, <2>2, <2>3, <2>4, <2>5
  <1>13. CASE CommandEnds
    <2>1. /\ UNCHANGED <<pc, request, inbox, steps, result, clean>> /\ Observed
          /\ device = "PROGRESS" /\ device' = "READY"
      BY <1>13 DEF CommandEnds
    <2>2. \A c \in Clients : Same(c)
      BY <2>1, ObservedSession DEF Same
    <2>3. Busy
      BY <2>1 DEF Busy
    <2>4. ResultTrue' /\ Cancelled'
      BY <2>1 DEF ResultTrue, Cancelled, Idle
    <2> QED
      BY <1>4, <2>2, <2>3, <2>4
  <1>14. CASE OthersSend \/ UNCHANGED all \/ MainMoves(Drain) \/ MainMoves(Close) \/ MainMoves(Join)
    BY <1>6, <1>14 DEF all, OthersSend, ClientSends, MainMoves, Drain, Close, Join
  <1> QED
    BY <1>7, <1>8, <1>9, <1>10, <1>11, <1>12, <1>13, <1>14, SessionParts

----------------------------------------------------------------------------
(* The invariant, and what it means for the clients. *)

IInv ==
  /\ SessionTypeOK /\ StepOfRequest /\ Numbered
  /\ Sockets /\ OwnReply
  /\ StepLast /\ StartTaken /\ FinishedMeansEnded
  /\ Idle

LEMMA InitIInv == SessionInit => IInv
  <1> SUFFICES ASSUME SessionInit
               PROVE  IInv
    OBVIOUS
  <1> USE DEF SessionInit, Init
  <1>1. \A c \in Clients : session[c] = NewSession
    OBVIOUS
  <1>2. NewSession \in Session
    BY DEF NewSession, Session
  <1>3. /\ inbox = <<>> /\ inbox \in Seq(Requests) /\ steps = <<>> /\ steps \in Seq(Moves)
        /\ answered = <<>> /\ answered \in Seq(Nat) /\ Len(inbox) = 0 /\ Len(answered) = 0
        /\ DOMAIN inbox = {} /\ DOMAIN answered = {}
    BY EmptySeq, LenProperties
  <1>4. SessionTypeOK
    BY <1>1, <1>2, <1>3 DEF SessionTypeOK, States
  <1>5. StepOfRequest
    BY DEF StepOfRequest
  <1>6. Numbered
    BY <1>3 DEF Numbered, BetweenRequests, NoRequest
  <1>7. Waiting = {} /\ \A r \in Line : ~OfClient(r)
    BY <1>3 DEF Line, Waiting, OfClient, NoRequest
  <1>8. Sockets /\ OwnReply
    BY <1>1, <1>7 DEF Sockets, OwnReply, NewSession
  <1>9. StepLast /\ StartTaken /\ FinishedMeansEnded
    BY <1>1, <1>7 DEF StepLast, StartTaken, FinishedMeansEnded, NewSession, Awaits, Line
  <1>10. Outcomes /\ Owned /\ CancelLast
    BY <1>1, <1>7 DEF Outcomes, Owned, CancelLast, NewSession, Awaits
  <1>11. ResultTrue /\ Cancelled /\ BusyHeld
    BY <1>3, <1>7 DEF ResultTrue, Cancelled, BusyHeld, Busy
  <1> QED
    BY <1>4, <1>5, <1>6, <1>8, <1>9, <1>10, <1>11 DEF IInv, Idle

LEMMA NextIInv == IInv /\ [SessionNext]_all => IInv'
  <1> SUFFICES ASSUME IInv, [SessionNext]_all
               PROVE  IInv'
    OBVIOUS
  <1> USE DEF IInv
  <1>1. SessionTypeOK' /\ StepOfRequest' /\ Numbered' /\ Sockets' /\ OwnReply' /\ StepLast'
    BY SessionTypeStep, StepOfRequestStep, NumberedStep, SocketsStep, StepLastStep
  <1>2. CASE \E c \in Clients : ClientStep(c)
    BY <1>1, <1>2, StartAsked, IdleAsked
  <1>3. CASE ~\E c \in Clients : ClientStep(c)
    BY <1>1, <1>3, StartOther, IdleOther
  <1> QED
    BY <1>2, <1>3

LEMMA Invariance == SessionSpec => []IInv
  BY InitIInv, NextIInv, PTL DEF SessionSpec

\* The thread answers the requests in their order, each once, whatever clients,
\* module and main loop do (ConfigUdpServer.run, lib/elrs_backend.py:298).
THEOREM AnsweredOnce == SessionSpec => []OneReplyEach
  <1>1. IInv => OneReplyEach
    BY NumberedReplies DEF IInv
  <1> QED
    BY <1>1, Invariance, PTL

\* A client that acts on a reply acts on that to its latest request, also when it
\* timed out on earlier ones, went back to its menu and asked again, and their
\* requests still wait for the thread (udp_request, config_client.py:33; run_tui,
\* config_client.py:302).
THEOREM RepliesOwn == SessionSpec => []OwnReply
  <1>1. IInv => OwnReply
    BY DEF IInv
  <1> QED
    BY <1>1, Invariance, PTL

\* A command that a client reports as finished has come to an end since its start
\* was asked for (the loops of config_client.py:160 and :308).
THEOREM FinishedEnded == SessionSpec => []FinishedMeansEnded
  <1>1. IInv => FinishedMeansEnded
    BY DEF IInv
  <1> QED
    BY <1>1, Invariance, PTL

\* Clients that have all left their command finished or cancelled leave the module
\* idle, with no step on its way to it (config_client.py:160 and :308).
THEOREM NobodyLeftBehind == SessionSpec => []LeftIdle
  <1>1. IInv => LeftIdle
    BY IdleLeft DEF IInv
  <1> QED
    BY <1>1, Invariance, PTL
=============================================================================
