---------------------------- MODULE ConfigSession ----------------------------
(***************************************************************************)
(* Clients that run a COMMAND of the module (config_client.py) through the *)
(* configuration thread of ConfigServer: the popup of the screen and the   *)
(* shell's command, each a loop of steps, one UDP request per step.        *)
(* Datagrams are lost, answers come after the client has given up and gone *)
(* on to its next request, users interrupt, clients share the one command, *)
(* and the proxy may shut down.                                            *)
(***************************************************************************)
EXTENDS ConfigServer

CONSTANTS
  Clients,  \* those that run the command
  Popups,   \* the clients that do so in the popup of the screen
  MaxAsks,  \* bound of the model: requests of one client
  OthersIn  \* bound of the model: the first requests, which may be those of others

ASSUME ClientsAssumption == Popups \subseteq Clients
ASSUME SessionBounds == MaxAsks \in Nat /\ OthersIn \in Nat
\* Reads and steps are those of Clients; others send the rest.
ASSUME OthersAssumption == Kinds \cap {"read", "step"} = {}

VARIABLES
  device,   \* the module's state of the COMMAND parameter
  steps,    \* steps on their way to the module
  result,   \* the state last read for the request under way, or "error"
  session,  \* what each client does
  \* History, read by the properties alone.
  clean     \* no step was lost and no late answer taken for another

all == <<vars, device, steps, result, session, clean>>
exchange == <<device, steps, result, clean>>

\* at: what the client is doing.  phase: "find" the parameter, the "loop" of
\* steps, a prompt that was answered with no ("decline"), Ctrl-C ("leave").
\* socket: the socket of its request.  outcome: how the last run of the command
\* went; "gone" is a program that has ended with an exception.  For the
\* properties alone, asks counts the client's requests, took is the
\* request whose reply it acts on, and over says whether the command has come to
\* an end since it asked for the start.
NewSession ==
  [at |-> "idle", phase |-> "find", asks |-> 0, socket |-> 0, seen |-> "none",
   cancelled |-> FALSE, outcome |-> "none", took |-> 0, over |-> FALSE]

SessionInit ==
  /\ Init
  /\ device = "READY" /\ steps = <<>> /\ result = "error"
  /\ session = [c \in Clients |-> NewSession]
  /\ clean = TRUE

----------------------------------------------------------------------------
(* The clients. *)

\* Defect: one socket for all requests of a client.
OneSocket(c) == 1

\* with socket.socket: each request has a socket of its own.
Socket(c) == session[c].asks + 1

\* udp_request: one datagram, which may be lost, and no retry.
Ask(c, step, phase, cancelled) ==
  /\ session[c].asks < MaxAsks
  /\ session' = [session EXCEPT ![c] = [NewSession EXCEPT
       !.at = "asking", !.phase = phase, !.asks = session[c].asks + 1, !.socket = Socket(c),
       !.cancelled = cancelled, !.over = session[c].over /\ step # "START"]]
  /\ \/ /\ Len(inbox) < InboxSize
        /\ sent < MaxRequests
        /\ sent' = sent + 1
        /\ inbox' = Append(inbox,
             [n |-> sent', kind |-> IF step = "none" THEN "read" ELSE "step", step |-> step,
              from |-> c, socket |-> Socket(c), ask |-> session[c].asks + 1])
     \/ UNCHANGED <<sent, inbox>>
  /\ UNCHANGED <<main, pc, request, tries, pending, answered, exchange>>

Left(c, outcome) ==
  [NewSession EXCEPT !.at = "ended", !.outcome = outcome, !.asks = session[c].asks,
                     !.over = session[c].over]

End(c, outcome) ==
  /\ session' = [session EXCEPT ![c] = Left(c, outcome)]
  /\ UNCHANGED <<vars, exchange>>

\* TimeoutError and ProxyError: run_tui catches them around the popup, and shows
\* its menu again; anywhere else they end the program.
Failure(c) == IF c \in Popups /\ session[c].phase = "loop" THEN "failed" ELSE "gone"

\* The menu of run_tui has the number of the parameter.  After a popup that did
\* not fail the list is read again, and the shell asks for the number first.
Begin(c) ==
  \/ /\ c \in Popups
     /\ session[c].at = "idle" \/ session[c].outcome = "failed"
     /\ Ask(c, "START", "loop", FALSE)
  \/ /\ IF c \in Popups THEN session[c].outcome \in {"finished", "cancelled"}
                        ELSE session[c].at = "idle"
     /\ Ask(c, "none", "find", FALSE)

Sees(c, phase, state) ==
  session[c].at = "state" /\ session[c].phase = phase /\ session[c].seen = state

StartFound(c) ==
  /\ session[c].at = "state" /\ session[c].phase = "find"
  /\ Ask(c, "START", "loop", FALSE)

Yes(c) ==
  /\ Sees(c, "loop", "CONFIRMATION_NEEDED")
  /\ Ask(c, "CONFIRM", "loop", FALSE)

No(c) ==
  /\ Sees(c, "loop", "CONFIRMATION_NEEDED")
  /\ Ask(c, "CANCEL", IF c \in Popups THEN "loop" ELSE "decline", TRUE)

Poll(c) ==
  /\ Sees(c, "loop", "PROGRESS")
  /\ Ask(c, "POLL", "loop", session[c].cancelled)

\* Escape, in the popup.
Escape(c) ==
  /\ c \in Popups
  /\ Sees(c, "loop", "PROGRESS")
  /\ Ask(c, "CANCEL", "loop", TRUE)

\* Defect: the loop goes on only as long as the command makes progress.
EndsAtPrompt(c) ==
  /\ \E state \in {"READY", "CONFIRMATION_NEEDED"} : Sees(c, "loop", state)
  /\ End(c, IF session[c].cancelled THEN "cancelled" ELSE "finished")

\* The state READY ends the loop.
Ends(c) ==
  /\ Sees(c, "loop", "READY")
  /\ End(c, IF session[c].cancelled THEN "cancelled" ELSE "finished")

\* The shell's CANCEL is its last request, whatever the reply says.
Leaves(c) ==
  /\ session[c].at = "state" /\ session[c].phase \in {"decline", "leave"}
  /\ End(c, "cancelled")

Guarded(c) ==
  /\ c \notin Popups
  /\ session[c].at \in {"asking", "state"} /\ session[c].phase \in {"loop", "decline"}

\* Defect: Ctrl-C leaves at once.
InterruptSilently(c) == Guarded(c) /\ End(c, "cancelled")

\* Ctrl-C in the loop, while a reply is due, in a prompt or between two polls:
\* the socket is closed and CANCEL is sent from a new one.
Interrupt(c) == Guarded(c) /\ Ask(c, "CANCEL", "leave", TRUE)

\* Ctrl-C anywhere else ends the program.
Killed(c) ==
  /\ session[c].at \in {"asking", "state"}
  /\ ~Guarded(c)
  /\ End(c, "gone")

\* No reply in time: TimeoutError leaves the loop, without a CANCEL.
GivesUp(c) == session[c].at = "asking" /\ End(c, Failure(c))

ClientStep(c) ==
  \/ Begin(c) \/ StartFound(c) \/ Yes(c) \/ No(c) \/ Poll(c) \/ Escape(c) \/ Ends(c)
  \/ Leaves(c) \/ Interrupt(c) \/ Killed(c) \/ GivesUp(c)

----------------------------------------------------------------------------
(* The configuration thread, and the answers of the module. *)

FromClient == request.kind \in {"read", "step"}

ThreadMoves ==
  /\ \/ Top \/ RecvTimeout \/ Recv \/ Reject \/ Die \/ Query \/ Write \/ Flushed \/ ReplyFails
  /\ UNCHANGED <<device, steps, result, session, clean>>

ThreadTimesOut ==
  /\ WaitTimesOut
  /\ result' = "error"
  /\ UNCHANGED <<device, steps, session, clean>>

\* The answer to a step, or to the POLL that repeats it; where the read before it
\* was repeated, an answer to that read may be taken for it.
ThreadAnswered ==
  /\ WaitAnswered
  /\ steps = <<>>
  /\ result' \in IF pc = "stepping" THEN {device, result} ELSE {device}
  /\ clean' = (clean /\ result' = device)
  /\ UNCHANGED <<device, steps, session>>

ThreadQueuesStep ==
  /\ QueueStep
  /\ steps' = Append(steps, request.step)
  /\ UNCHANGED <<device, result, session, clean>>

\* The reply goes to the socket of its request: it is lost, or comes to the
\* client that still waits there.  An error reply raises ProxyError.
ThreadReplies ==
  /\ SendReply
  /\ \/ UNCHANGED session
     \/ /\ FromClient
        /\ session[request.from].at = "asking"
        /\ session[request.from].socket = request.socket
        /\ session' = [session EXCEPT ![request.from] = IF result = "error"
             THEN Left(request.from, Failure(request.from))
             ELSE [@ EXCEPT !.at = "state", !.seen = result, !.took = request.ask]]
  /\ result' = "error"
  /\ UNCHANGED <<device, steps, clean>>

Thread == ThreadMoves \/ ThreadTimesOut \/ ThreadAnswered \/ ThreadQueuesStep \/ ThreadReplies

MainMoves(A) == A /\ UNCHANGED <<session, exchange>>

\* Other clients send what they like.
OthersSend == sent < OthersIn /\ ClientSends /\ UNCHANGED <<session, exchange>>

----------------------------------------------------------------------------
(* The module. *)

Carried(step) ==
  CASE step = "START" /\ device = "READY"                 -> {"PROGRESS", "CONFIRMATION_NEEDED"}
    [] step = "CONFIRM" /\ device = "CONFIRMATION_NEEDED" -> {"PROGRESS"}
    [] step = "CANCEL"                                    -> {"READY"}
    [] OTHER                                              -> {device}

Observed ==
  session' = IF device # "READY" /\ device' = "READY"
             THEN [c \in Clients |-> [session[c] EXCEPT !.over = session[c].at # "ended" \/ @]]
             ELSE session

\* A step that has left the queue is carried out, or lost on the link.
ModuleTakes ==
  /\ steps # <<>> /\ ~pending
  /\ steps' = Tail(steps)
  /\ \/ device' \in Carried(Head(steps)) /\ UNCHANGED clean
     \/ UNCHANGED device /\ clean' = FALSE
  /\ Observed
  /\ UNCHANGED <<vars, result>>

CommandEnds ==
  /\ device = "PROGRESS"
  /\ device' = "READY"
  /\ Observed
  /\ UNCHANGED <<vars, steps, result, clean>>

SessionNext ==
  \/ \E c \in Clients : ClientStep(c)
  \/ Thread \/ OthersSend \/ ModuleTakes \/ CommandEnds
  \/ MainMoves(Drain) \/ MainMoves(Close) \/ MainMoves(Join)

SessionSpec ==
  /\ SessionInit /\ [][SessionNext]_all
  /\ WF_all(Thread) /\ WF_all(MainMoves(Drain)) /\ WF_all(MainMoves(Join))

----------------------------------------------------------------------------
\* README.md:266 "Replies return to the source address and port of each request":
\* a client that has given up a request, and sends the next one from the menu
\* after a time-out or CANCEL after Ctrl-C, never takes the late reply to the
\* first for the reply to the second.
OwnReply == \A c \in Clients : session[c].at = "state" => session[c].took = session[c].asks

\* README.md:295 "READY: finished (or never started)": unless a frame was lost or
\* late, a command that is reported as finished has run to its end, or someone
\* has cancelled it, since the client asked for its start.
FinishedMeansEnded ==
  \A c \in Clients :
    clean /\ session[c].outcome = "finished" => session[c].over

\* README.md:231 "Ctrl-C cancels it", README.md:251 "Esc or Left cancels a running
\* command": when every client has left with the command finished or cancelled,
\* the module is idle and will remain so, whoever started, confirmed and
\* cancelled when, and whatever datagrams were lost.  Only a client whose last
\* attempt failed or was killed leaves a command behind that runs or waits for a
\* confirmation; one that has tried again after a failure does not.
LeftIdle ==
  /\ clean
  /\ \A c \in Clients :
       session[c].at = "idle" \/ session[c].outcome \in {"finished", "cancelled"}
  => /\ device = "READY" /\ steps = <<>>
     /\ \A i \in DOMAIN inbox : inbox[i].kind # "step"
=============================================================================
