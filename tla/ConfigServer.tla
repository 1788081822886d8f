---------------------------- MODULE ConfigServer ----------------------------
(***************************************************************************)
(* The life of the configuration thread (ConfigUdpServer,                  *)
(* lib/elrs_backend.py) beside the main loop of run_proxy: one request at  *)
(* a time from the UDP socket to its reply, the transport queue that only  *)
(* the main loop drains, and the shutdown in which the main loop waits for *)
(* the thread.  What a request does on the wire is in ParameterClient.     *)
(***************************************************************************)
EXTENDS Naturals, Sequences

CONSTANTS
  Kinds,        \* the kinds of requests that clients send
  WriteTries,   \* range(3) of ParameterClient.write
  InboxSize,    \* requests that the socket buffers
  MaxRequests   \* bound of the model on the requests sent

\* "read" waits for answers with a timeout, "step" does so twice, "set" flushes
\* as well, "malformed" fails in parse_config_request and "refused" with an
\* exception that run catches.  Two kinds raise one that it does not: "overflow" is a set of an
\* integer that its parameter cannot hold (OverflowError once the parameter has
\* been found), "notText" a JSON object whose command is no text (AttributeError).
ASSUME KindsAssumption ==
  Kinds \subseteq {"read", "step", "set", "malformed", "refused", "overflow", "notText"}
ASSUME CountAssumption ==
  /\ WriteTries \in Nat \ {0}
  /\ InboxSize \in Nat \ {0}
  /\ MaxRequests \in Nat

VARIABLES
  main,      \* the main thread: "running", "closing" in close(), "closed"
  pc,        \* the configuration thread
  request,   \* the request it has received
  tries,     \* write frames queued for it
  pending,   \* does the transport's outbound queue hold a frame?
  inbox,     \* datagrams waiting in the socket
  sent,      \* history: requests that clients have sent
  answered   \* history: requests in the order of their replies

vars == <<main, pc, request, tries, pending, inbox, sent, answered>>

NoRequest == [n |-> 0, kind |-> "none"]
StopEvent == main # "running"

Init ==
  /\ main = "running"
  /\ pc = "top"
  /\ request = NoRequest
  /\ tries = 0
  /\ pending = FALSE
  /\ inbox = <<>>
  /\ sent = 0
  /\ answered = <<>>

ClientSends ==
  /\ sent < MaxRequests
  /\ Len(inbox) < InboxSize
  /\ sent' = sent + 1
  /\ \E kind \in Kinds : inbox' = Append(inbox, [n |-> sent', kind |-> kind])
  /\ UNCHANGED <<main, pc, request, tries, pending, answered>>

----------------------------------------------------------------------------
(* ConfigUdpServer.run *)

Goto(step) == pc' = step
Keep == UNCHANGED <<main, inbox, sent>>

\* while not self.stop_event.is_set()
Top ==
  /\ pc = "top"
  /\ Goto(IF StopEvent THEN "ended" ELSE "recv")
  /\ Keep /\ UNCHANGED <<request, tries, pending, answered>>

\* socket.timeout after 0.1 s: look at the stop event again.
RecvTimeout ==
  /\ pc = "recv"
  /\ inbox = <<>>
  /\ Goto("top")
  /\ Keep /\ UNCHANGED <<request, tries, pending, answered>>

Recv ==
  /\ pc = "recv"
  /\ inbox # <<>>
  /\ request' = Head(inbox)
  /\ inbox' = Tail(inbox)
  /\ tries' = 0
  /\ Goto("parse")
  /\ UNCHANGED <<main, sent, pending, answered>>

\* Defect: a malformed request is skipped.
RejectSilently ==
  /\ pc = "parse"
  /\ request.kind \in {"malformed", "refused"}
  /\ Goto(IF request.kind = "malformed" THEN "top" ELSE "reply")
  /\ Keep /\ UNCHANGED <<request, tries, pending, answered>>

\* A request that does not parse, or that raises an exception run catches, is
\* answered with an error.
Reject ==
  /\ pc = "parse"
  /\ request.kind \in {"malformed", "refused"}
  /\ Goto("reply")
  /\ Keep /\ UNCHANGED <<request, tries, pending, answered>>

\* Any other exception leaves run: the thread is gone.
Die ==
  /\ pc = "parse"
  /\ request.kind = "notText"
  /\ Goto("dead")
  /\ Keep /\ UNCHANGED <<request, tries, pending, answered>>

\* The first query of the parameter, which a set and a step have to find as well.
Query ==
  /\ pc = "parse"
  /\ request.kind \in {"read", "step", "set", "overflow"}
  /\ pending' = TRUE
  /\ Goto("wait")
  /\ Keep /\ UNCHANGED <<request, tries, answered>>

\* Defect: a read without a deadline.
ReadbackTimesOut ==
  /\ pc = "readback"
  /\ Goto(IF tries < WriteTries THEN "write" ELSE "reply")
  /\ Keep /\ UNCHANGED <<request, tries, pending, answered>>

\* Nobody answers within timeout_seconds.
WaitTimesOut ==
  /\ pc \in {"wait", "stepping", "readback"}
  /\ Goto(IF pc = "readback" /\ tries < WriteTries THEN "write" ELSE "reply")
  /\ Keep /\ UNCHANGED <<request, tries, pending, answered>>

\* What comes after the parameter has been read: encode_parameter_value raises
\* for an overflow, before anything is written.
AfterFind ==
  CASE request.kind = "set"      -> "write"
    [] request.kind = "step"     -> "step"
    [] request.kind = "overflow" -> "dead"
    [] OTHER                     -> "reply"

\* An answer to a query, which the main loop had to send and to receive; it may
\* have ended since.
WaitAnswered ==
  /\ pc \in {"wait", "stepping", "readback"}
  /\ ~pending
  /\ \/ pc = "wait" /\ Goto(AfterFind)
     \/ pc \in {"stepping", "readback"} /\ Goto("reply")
     \/ pc = "readback" /\ tries < WriteTries /\ Goto("write")
  /\ Keep /\ UNCHANGED <<request, tries, pending, answered>>

\* command_step: the step is queued once, behind the answers already here.
QueueStep ==
  /\ pc = "step"
  /\ pending' = TRUE
  /\ Goto("stepping")
  /\ Keep /\ UNCHANGED <<request, tries, answered>>

\* queue(write_frame)
Write ==
  /\ pc = "write"
  /\ tries' = tries + 1
  /\ pending' = TRUE
  /\ Goto("flush")
  /\ Keep /\ UNCHANGED <<request, answered>>

\* flush() returns when the queue is empty, and has no timeout.
Flushed ==
  /\ pc = "flush"
  /\ ~pending
  /\ pending' = TRUE
  /\ Goto("readback")
  /\ Keep /\ UNCHANGED <<request, tries, answered>>

SendReply ==
  /\ pc = "reply"
  /\ answered' = Append(answered, request.n)
  /\ Goto("top")
  /\ Keep /\ UNCHANGED <<request, tries, pending>>

\* An OSError of sendto, a reply too long for a datagram or no route, is not caught.
ReplyFails ==
  /\ pc = "reply"
  /\ Goto("dead")
  /\ Keep /\ UNCHANGED <<request, tries, pending, answered>>

ThreadStep ==
  \/ Top \/ RecvTimeout \/ Recv \/ Reject \/ Die \/ Query \/ WaitTimesOut
  \/ WaitAnswered \/ QueueStep \/ Write \/ Flushed \/ SendReply \/ ReplyFails

----------------------------------------------------------------------------
(* The main thread. *)

\* A slot of the loop empties the transport's queue.
Drain ==
  /\ main = "running"
  /\ pending
  /\ pending' = FALSE
  /\ UNCHANGED <<main, pc, request, tries, inbox, sent, answered>>

\* The loop ends: KeyboardInterrupt, or an OSError of the serial port.  The
\* finally clause sets the stop event and joins the thread.
Close ==
  /\ main = "running"
  /\ main' = "closing"
  /\ UNCHANGED <<pc, request, tries, pending, inbox, sent, answered>>

\* join() returns, and both sockets and the serial port are closed.
Join ==
  /\ main = "closing"
  /\ pc \in {"ended", "dead"}
  /\ main' = "closed"
  /\ UNCHANGED <<pc, request, tries, pending, inbox, sent, answered>>

Next == ClientSends \/ ThreadStep \/ Drain \/ Close \/ Join

\* Both threads keep running; clients and the user owe nothing.
Spec ==
  /\ Init /\ [][Next]_vars
  /\ WF_vars(ThreadStep) /\ WF_vars(Drain) /\ WF_vars(Join)

----------------------------------------------------------------------------
TypeOK ==
  /\ main \in {"running", "closing", "closed"}
  /\ pc \in {"top", "recv", "parse", "wait", "step", "stepping", "write", "flush", "readback", "reply",
             "ended", "dead"}
  /\ request.kind \in Kinds \cup {"none"}
  /\ tries \in 0..WriteTries
  /\ pending \in BOOLEAN
  /\ Len(inbox) <= InboxSize

\* README.md:285 "Every response is JSON" to the source of its request: replies
\* come in the order of the requests, one for each that the thread has taken
\* from the socket and finished, also for those it took while it was told to
\* stop.
OneReplyEach ==
  /\ \A i \in DOMAIN answered : answered[i] = i
  /\ pc \in {"top", "recv", "ended"} => Len(answered) = request.n

\* A read or a step never holds up the shutdown: it times out with nobody left to
\* send its queries (elrs_config.py:340).
ReadsLetGo ==
  (main = "closing" /\ pc \in {"wait", "stepping"} /\ request.kind \in {"read", "step"})
    ~> main = "closed"

\* elrs_backend.py:700 "Shutdown requested.": the proxy then ends.  A set that is
\* still being written flushes a queue that nobody drains any more, and close()
\* waits for it for ever.
ShutdownEnds == main = "closing" ~> main = "closed"
=============================================================================
