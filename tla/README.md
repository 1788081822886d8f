# crsfproxy in TLA+

crsfproxy carries the RC channels of a UDP source to a CRSF transmitter module on a serial line, sends the telemetry of the module to a UDP target, and offers a UDP port through which clients list, read and write the parameters of the module (ExpressLRS or mLRS).
Beside it the repository has a simulated receiver for SITL, a configuration client and a joystick source.

This directory holds specifications of those parts, runs of the model checker TLC on small instances of them, and proofs checked by TLAPS.
`PROJECT.json` lists the components, the runs, the definitions with the source lines that they model, a mutant of the code for each property, the hazards and the theorems.

## 1. Inventory

| Component | Source | State | Operations | Talks to |
| --- | --- | --- | --- | --- |
| Deadline schedule | `lib/schedule.py` | start, period, slot | `due`, `next_due` | RC bridge, receiver simulator |
| RC bridge loop | `lib/elrs_backend.py` `run_proxy` | newest sample and its time, two sequence numbers, schedule, time of the next status poll | drain the RC socket, choose a frame, write a burst, pause, shut down | UDP source, serial port, transport |
| Serial input and telemetry output | `lib/elrs_backend.py` `run_proxy`, `handleCrsfPacket` | frame parser, telemetry socket | read a chunk, take junk off, hand on frames | module, transport, telemetry target |
| CRSF frame parser | `lib/crsf_protocol.py` | buffer, two counters | `feed` | serial input, simulator |
| Configuration transport | `lib/elrs_backend.py` `ProxyConfigTransport` | inbound and outbound queue, status | `queue`, `poll`, `flush`, `drain_outbound`, `observe` | main thread on one side, configuration thread on the other |
| ELRS parameter client | `lib/elrs_config.py` | the read under way, device records | discover, find, read, write, command step | transport |
| mLRS client and service | `lib/mlrs_backend.py` | summary, cached list, awaited confirmation, dead time | devices, params, get, set, command | transport |
| Configuration server | `lib/elrs_backend.py` `ConfigUdpServer` | thread, socket, stop event | receive, parse, execute, reply, close | clients, a service, main thread |
| Receiver simulator | `crsf_rx_sim.py` | channels, link, policy, connection, parser, two schedules | both sockets, connect, read, send RC and link frames | UDP source, controlling program, TCP flight controller |
| Configuration client | `config_client.py` | the state that the last step reported, whether it was cancelled | one request per step: start, confirm, poll, cancel; the screen's menu | configuration server |
| CRSF codec | `lib/crsf_protocol.py` | none | channel scaling, parameter decoding | all of the above |
| RC packet format | `lib/rc_packet.py` | none | `encode`, `decode` | joystick, bridge, simulator |
| Radio records | `lib/radio.py`, the backends | none | constants of a radio | command line |
| Joystick source | `joystick_crsf.py` | armed, latched buttons, the buttons of the last pass | read, map to channels, send to each target | bridge, simulator |
| Handset session | `lib/elrs_backend.py` | serial port | sniff, link | nothing in the proxy |
| Command line | `crsfproxy.py` | options | parse | all |

Two threads run in the proxy.
The main thread is `run_proxy`, which never blocks except in a serial write and in its sleep; the configuration thread is `ConfigUdpServer.run`, which executes one request at a time and blocks in `poll`, `flush` and `recvfrom`.
They share the two queues of the transport: the configuration thread queues frames which the main thread puts into its next burst, and the main thread observes frames which the configuration thread polls.

Hard to test, and what the properties are for (the full list, line by line, is `hazards`):

* the two threads between the queue and the burst, and between a stop event and the end of a request;
* a serial write that times out with any part of its burst on the wire;
* answers that carry no number: resends, losses and late answers of two radio protocols;
* chunks of a byte stream that are cut anywhere;
* schedules that are polled late, with a floating point quotient at exact deadlines;
* connections that are lost at any step of a pass;
* two clients that step through the one command of the module, with replies that are lost or late and users who interrupt;
* a device that is remembered and a module that is replaced;
* datagrams of the joystick that are lost or overtaken, while a button changes meaning with each press.

What makes each component correct: the schedule keeps its rate and never bursts; the bridge sends the newest sample, once, in time, and neither loses nor reorders control frames; the parser and the input hand on every valid frame and no other; the clients report a value as verified only if the module has it and run a step or a command at most once per request; the service acts on the parameter that was named; the server answers each request and lets the proxy end; a command client leaves no command behind unless it says so; the joystick's channels arrive exactly and a switch never moves by itself; the simulator notices a lost source and does not mix connections.

## 2. Modules

| Module | Models | Checked in run | Proofs |
| --- | --- | --- | --- |
| `Schedule` | arithmetic of `DeadlineSchedule`, operators only | through the modules below | with the modules that use it |
| `ScheduleClock` | a schedule and the loop that polls it | `schedule` | `VirtualReceiverProofs` |
| `RcBridge` | transmit path of `run_proxy` | `rc_bridge` | `RcBridgeProofs` |
| `LatestValue` | what the RC path promises: a register | refined in `rc_bridge` | `RcBridgeProofs` |
| `ParameterClient` | ELRS client, transport, main loop's slots, link, module | `parameter_client`, `stale_step` | `ParameterClientProofs` |
| `ConfigServer` | configuration thread beside the main thread | `config_session`, `shutdown_hangs` | `ConfigSessionProofs` |
| `ConfigSession` | command loops of `config_client.py`, composed with `ConfigServer` and the module's command | `config_session` | `ConfigSessionProofs` |
| `ElrsService`, `MCElrsService` | `ElrsConfigService` with discovery, lists and names | `elrs_service` | `ElrsServiceProofs` |
| `FrameParser`, `MCFrameParser` | `FrameParser.feed` | `frame_parser` | `FrameParserProofs` |
| `SerialInput`, `MCSerialInput` | receiving side of `run_proxy`, with an instance of `FrameParser` | `serial_input` | |
| `MlrsClient`, `MCMlrsClient` | mLRS client and service, transport, link, module | `mlrs_client` | `MlrsClientProofs` |
| `VirtualReceiver` | `crsf_rx_sim.py`, with two schedules | `virtual_receiver` | `VirtualReceiverProofs` |
| `RcFormat` | scaling and packing of channels, operators only | through `Joystick` | `JoystickProofs` |
| `Joystick`, `MCJoystick` | `joystick_crsf.py`, the network, what a proxy keeps and forwards | `joystick` | `JoystickProofs` |

`RcBridge`, `ScheduleClock` and `VirtualReceiver` extend `Schedule`; `ConfigSession` extends `ConfigServer`; `Joystick` extends `RcFormat`; `SerialInput` instantiates `FrameParser`; `RcBridge` instantiates `LatestValue` with `latest <- channels, delivered <- wireRc`.
The configuration path is cut where the code cuts it: `RcBridge` sees the configuration thread as whoever queues frames, `ParameterClient` and `MlrsClient` see the main loop as whoever drains the queue, `ConfigServer` sees a request as the sequence of waits, flushes and read-backs that the clients make, and `ElrsService` sees a read as one step that succeeds or times out.

Variables keep the names of the code; variables under "History" exist for the properties, and the bounds, alone.
Operators whose comment starts with "Defect" are not part of a specification: each is an action or a helper with a plausible mistake, and the mutants of `PROJECT.json` put it in place of the definition that follows it.

### Time

Time is counted in ticks.
`RcBridge` reads the clock once per pass, as the code does (`now = loop_start`), so time stands still within a pass and a pass takes between `LoopPeriod` and `MaxGap` ticks, or `WriteTimeout` longer when a write timed out.
`VirtualReceiver` has two clocks, the start of the pass and the time now, since connecting may take `OpenTime` within a pass.
The clients have no clock: a timeout may happen at any moment at which the code waits, which covers every ratio between the timeouts and the delays of the link. The number of resends per chunk is bounded by `MaxAttempts`, the quotient of the two times in the code.

### Module by module

* **ScheduleClock.** One action, `Check`: the loop's pass takes any time, then `due` returns False (`TooEarly`) or True (`Fire`). The quotient `(now - start) / period` is a float, so that at an exact deadline its floor may come out one too small; `FloatQuotients` offers both.
* **RcBridge.** `pc` is the place in the loop: drain, serial, slot, collect, write, pause or overrun. `RecvRc` takes one datagram, well formed or not; `SlotDue` consumes the slot, queues the status poll and chooses between live, held and no RC; `CollectControl` is `drain_outbound`, separate from `SlotDue` because the other thread may queue in between; a write returns, times out with any prefix of the burst on the wire, or fails. A time-out may also report a burst that was written whole, since pyserial looks at the clock after each chunk it hands to the driver. `Stop` is a KeyboardInterrupt or a failed read at any step.
* **ParameterClient.** `Request` starts with the read that finds the parameter; `SendQuery`, `PumpTakes`, `PumpDrops`, `ResendDue` and `GiveUp` are the turns of `_read_chunks` and `_pump`; `Write`, `Flushed`, `ReadBack` and `AnswerSet` are the verified write; `StartStep` and `AnswerCommand` are `command_step`. The link loses any frame and answers after any time. The transmitter module is external and follows the protocol's table of steps.
* **ConfigServer.** `pc` is the place in `run`; a request is of a kind that decides which exceptions it raises. `Die`, the overflow in `AfterFind` and `ReplyFails` are the exceptions that nobody catches. `main` is running, closing in `close()`, or closed.
* **ConfigSession.** `session[c].at` is what a client does: idle, asking (a request is out), state (it has the reply), ended. `Ask` is `udp_request`: a socket of its own, one datagram, no retry. `Begin`, `StartFound`, `Yes`, `No`, `Poll`, `Escape` and `Ends` are the loops of `run_command_popup` and `run_command_cli`, which differ in where CANCEL goes and in what Ctrl-C does: `Interrupt` in the shell, `Killed` elsewhere. `GivesUp` is the TimeoutError; as the ProxyError of an error reply, it ends the shell, while `run_tui` catches it around the popup (`Failure`) and shows its menu, from which `Begin` starts the command again. The module's COMMAND, `device`, is shared; `Carried` is its table of steps.
* **ElrsService.** `Request` starts with the discovery or, once a device is kept, with the first read; `Discovered`, `Read`, `ReadTimesOut` and `Write` are the rest of `execute`. `Changed` switches the module off or puts another in its place.
* **RcFormat.** `Pack` and `Unpack` speak of bit positions where the code shifts a big integer; `Round` is Python's `round`, with ties to even. The quotients are floats in the code; a tie, the one value at which the rounding could go wrong, is exact.
* **Joystick.** `Pass` is one turn of the loop with a `sendto` for each target; `SendRaises` is the turn in which one fails. `AxisToUs` truncates like the code; for each of the 2001 positions that `round(..., 3)` leaves, the float expression was evaluated and agrees with it. `Deliver` may take any datagram on the way.
* **FrameParser.** One action per turn of the loop of `feed`; the CRC is a parameter.
* **SerialInput.** `ReadChunk` takes any prefix of what has arrived, strips eight bytes behind `$X` and feeds the rest; every frame then passes `observe`, `sendto` and `handleCrsfPacket`, each with its way of ending the loop. `transport.inbound` is not polled here.
* **MlrsClient.** `Clear`, `Send`, `Take` and `TimeOut` are the primitives; `InfoRead`, `ListRead`, the write and its read-backs and the synthetic commands are built on them; `stage` says for what the thread waits.
* **VirtualReceiver.** One action per step of a pass. Any failure after the connection was opened ends the pass in `Disconnect`.

## 3. Runs

A run with expectation "violation" checks one statement of a document or comment which the code does not keep; its counterexample is the finding of the same name.

| Run | Question | Bounds | States |
| --- | --- | --- | --- |
| `schedule` | does a polled schedule keep its rate, skip instead of bursting, stay on its grid? | period 3, passes of 0 to 7 ticks, 30 ticks | 518 |
| `rc_bridge` | the transmit loop against source, thread, time-outs and shutdown | period 3, hold 0 or 6, 3 datagrams, socket of 2, 2 control frames, 1 time-out, 9 ticks | 15 M |
| `parameter_client` | the ELRS client over a link that loses, delays and answers resends | 2 requests, 2 chunks, 2 queries per chunk, 2 writes, 2 values | 0.5 M |
| `stale_step` | "Each step therefore draws one answer, not a stale extra one" | 1 request | violated |
| `config_session` | two command clients, other requests, thread, queue and shutdown | 4 requests in the socket, the first of anybody, 4 kinds of others, 3 asked by each client, inbox of 2, a screen and a shell | 2.9 M |
| `shutdown_hangs` | "Shutdown requested." | 1 request | violated |
| `frame_parser` | every stream in every division | 8 bytes over 5 values, chunks of 1 or 2, frames of up to 5 | 1.4 M |
| `serial_input` | junk, cuts, blocked and failing telemetry | 2 of 8 frames of real types, 3 prefixes, every cut | 3.7 M |
| `mlrs_client` | lists, cache, writes, commands and dead time | 3 requests, 2 parameters of 3 and 2 items, 2 reads, 1 tick of dead time | 2.0 M |
| `virtual_receiver` | lost sources, lost connections, rates | 6 ticks, 2 datagrams waiting, 1 control request | 8.7 M |
| `elrs_service` | lists, names and numbers with a device that is kept | 4 requests, 2 modules of 4 and 2 parameters, 2 changes | 0.17 M |
| `joystick` | sticks and switches from pilot to receiver | 2 moves, 1 stick, 2 buttons, 1 target, 2 datagrams on the way, 1 overtaken | 0.19 M |

Why the bounds are enough:

* `schedule`: a pass of 7 ticks misses two slots of 3; every later state repeats an earlier one modulo the period. The proofs drop the bounds.
* `rc_bridge`: three datagrams into a socket of two fill it, and leave one to replace and one to come during a pass; 9 ticks hold three slots, a hold that runs out, two status polls and a write that times out. Two control frames suffice for order and loss.
* `parameter_client`: two requests are the fewest in which a late answer of one meets the other; two chunks, two queries and two writes have each a first and a last.
* `config_session`: four requests that reach the socket are a start, a confirmation and a poll of one client with a start or a cancel of the other in between; those that are lost on the way do not count, so that a client may time out, start again from its menu and time out again while its first request still waits. Three requests of a client are the shell's search for the parameter, START, and CONFIRM, CANCEL or Ctrl-C. The first request may be anybody's, so that the thread may be busy or dead when the clients begin; requests that a client has given up fill the inbox.
* `elrs_service`: four requests are one that fills the device, one disturbed, one that is served with a device of before and one with its own; the tables differ in order and count, and one has a name twice.
* `joystick`: two moves and a button held at the start are three presses of one button, or a press of each and a stick that moves; two datagrams can overtake each other. Both mappings are checked. The stick's position is one that truncation instead of rounding would spoil; the theorem `RoundTrip` has the other values.
* `frame_parser`: with frames of four and five bytes eight bytes hold two frames, or a false start whose inside is a frame, whole or cut; five byte values give an address, sizes below, within and above the bounds, and wrong check bytes. The check byte is a sum weighted by place.
* `serial_input`: two frames are one before and one behind the junk or the cut. Types, addresses, sizes and the eight bytes of junk are those of the code; the CRC is a sum, and `FrameParser` does not depend on which function it is.
* `mlrs_client`: three requests are a list, a write or a command, and the request that meets its effects. `IndexLimit` 4 stands for the 128 indexes that a module can have.
* `virtual_receiver`: six ticks hold a time-out of the source, an open that takes its time, a loss and the delay of the next attempt, and three slots of RC, which is what a burst needs.

`CHECK_DEADLOCK FALSE` is set in every run, because each system may stop: the bounds use up the clock, the requests or the stream, and the proxy is meant to end.

### What holds only under a condition

Some properties carry a condition because the code keeps them only there; each was seen to fail without it.

* `ForwardedOnceWhenHealthy` and `AgeBoundedWhenHealthy` need that no write timed out. Line 692 of `elrs_backend.py` leaves the sample fresh although it may have left, so the next slot sends it again; and freshness is a sequence number without an age, so after a series of time-outs an old sample goes out as live.
* `ControlConserved` needs the same, and that the loop runs: the control frames of a burst that times out or fails are gone.
* `StatusOnTime` counts from the time at which the poll is due to the slot that queues it, and holds at every step of a pass.
* `OwnAnswersWithoutResend` needs that no query was repeated, and that a query is repeated before its read gives up (`MaxAttempts > 1`, the hypothesis of the theorem `OwnAnswers`): otherwise the answer to a read that was given up would meet the next one. The code allows 3 s (`elrs_backend.py:65`) and repeats after 0.5 s (`elrs_config.py:345`). With a resend an answer may be one to an earlier read, which is the finding `stale_step`.
* In `ParameterClient` the module answers before the next slot brings more than `Backlog` frames (0 in the runs, and the hypothesis of the theorem `VerifiedIsSet`). If it may fall behind without bound, a read-back can take an answer given before the write, and `VerifiedMeansSet` fails.
* `ListComplete` of `MlrsClient` holds if the module tells its parameter count, or if no answer came late: the end marker of a list has no index, so a late one ends the next list.
* `CacheFresh` and `VerifiedMeansSet` of `MlrsClient` need that no answer was late.
* `JunkCostsNoFrame` and `AnswersArrive` need that no read was cut in front of `$X` inside a frame. Line 579 of `elrs_backend.py` takes eight bytes off every chunk that starts with `$X`, also when the read began inside a frame; README.md:172 of the repository says that each valid frame is forwarded.
* `OneReplyEach` speaks of requests that the thread has finished. Three exceptions are not caught by `ConfigUdpServer.run` (line 313) and end the thread, so that the proxy goes on without its configuration port: the OverflowError of a set of an integer that its parameter cannot hold (`crsf_protocol.py:319`), the AttributeError of a JSON object whose command is no text (`elrs_backend.py:197`), and an OSError of `sendto` (line 316).
* `OwnReply` rests on each request having a port of its own. That the system does not give the port of a request that was given up to the next one at once is assumed.
* `ReadsLetGo` speaks of reads and steps; a set is the finding `shutdown_hangs`.
* In `ConfigSession` the requests of others are neither reads nor steps (`OthersAssumption`): these are the clients' own, so that whoever reads or steps is one whose state the session holds.
* `FinishedMeansEnded` and `LeftIdle` need that no step was lost between proxy and module and that no late answer was taken for another (`clean`). A START that is lost leaves READY, which the client reports as finished, and README.md:295 admits ("or never started"); a CANCEL that is lost is reported as cancelled by the shell, whatever state the reply tells (`config_client.py:330`, `:338`). `LeftIdle` also needs that the last attempt of each client did not fail: a client that gives up after a time-out, or is killed outside the loop of the shell, sends no CANCEL. One that tries again after a failure counts by how it leaves in the end.
* `UndisturbedServed` needs that nothing was lost or late and that the device kept is that of the module at the line (`calm`): after a module was replaced, `params` reads as many parameters as the old one had. `NamedActedOn` needs only that the module was not replaced during the request.
* `FlipsArePresses` allows two flips for each datagram that was overtaken, as nobody compares time stamps, and counts a button held at the start as a press, as the code does: the program then arms with its first datagram.

### Findings

* `stale_step` (documentation and code differ): the answer to a resent query of the read that finds a COMMAND arrives after `command_step` has dropped the late ones, and is taken for the answer to START. The sequence has been replayed on the real client with a transport that delays frames.
* `shutdown_hangs` (bug): `close()` joins a thread that waits in `flush` for the main loop, which has ended.

Not promised anywhere, hence in the models and not among the findings: a valid but short extended or telemetry frame, and an error of `sendto` other than `BlockingIOError`, end the RC bridge; a `set_link` that is refused leaves the link half changed, and the simulator may end when it builds the next link frame.

## 4. Fairness

Five specifications state fairness; the safety runs need none.

* `ParameterClient`: `WF(ClientStep)`, since the thread runs and each of its waits has a deadline; `WF(Slot)`, since the main loop drains the queue in every slot; `WF(ModuleAnswers \/ LoseQuery)`, since no frame stays on the link for ever. Nothing says that a frame is ever answered: all may be lost, and the request still ends. Requests and the end of a command are not fair.
* `MlrsClient`: `WF(ClientStep)`, `WF(Slot)` and `WF(Tick)`: the thread runs, the main loop drains the queue and the dead time passes. The module owes no answer.
* `ConfigServer`: `WF(ThreadStep)`, `WF(Drain)` and `WF(Join)`: both threads run. `Drain` is enabled only while the main loop runs. Clients and the user owe nothing. `ShutdownEnds` is checked under it.
* `ConfigSession`: as `ConfigServer`, with the thread's steps as they act on clients and module. Clients and the module owe nothing; a datagram, a step or an answer that never comes is allowed. `ReadsLetGo` is checked under it, beside the clients and their time-outs.
* `Joystick`: `WF(Pass)`, since the loop sleeps for at most a period; `SF(Deliver)` for each target, since a network that loses datagrams but delivers some of those that are sent for ever is the least under which anything arrives; `WF(Forward)`, since the proxy's loop has its slots. The pilot owes nothing, and a `sendto` that fails may end the program.

## 5. Proofs

The proofs hold for every value of the constants that the named assumptions allow, and for behaviours of every length.

### The schedule, in VirtualReceiverProofs

A schedule by itself, `ScheduleClock`, is proved in the first part of this module, since the simulator has two of them.
Assumptions: the period is a positive number of ticks, and the longest pass a number of ticks.
`SlotIsNextQuotient` is the arithmetic: whichever way the quotient is rounded, `due` leads to the slot `t \div p + 1`; it rests on the bounds and the uniqueness of integer division.
`DeadlineAhead` and `DeadlineNear` together pin the slot to the clock, but neither says how often the schedule fired.
`ClockInv` adds that the fires never exceed the slot, because each fire moves the slot on, and equal it as long as every pass was shorter than the period; with both, `ClockRate` turns the bounds of the slot into `NoBurst` and `RateKept`.
Theorems: `ScheduleTypes`, `AlwaysAhead`, `AlwaysNear`, `NeverABurst`, `RateIsKept`.

### RcBridgeProofs

Assumption: `TimeAssumption` of `RcBridge`, that times are natural numbers, the two periods positive and a pass no shorter than `LoopPeriod`; nothing about the size of the socket, the number of datagrams, frames and time-outs, or the length of passes.
The invariant `IInv` joins to the properties what they rest on:

* `SocketOrdered`: samples wait in the order of their arrival, all newer than the one held, so that accepting one is always a step forward;
* `BurstShape`: an RC frame is the first of its burst and carries the sample held now, because a burst exists only between its slot and its write, and samples are accepted only outside that interval;
* `CountsOrdered`: the count sent never exceeds the count of updates, so that a new sample is always fresh; the wire is never ahead of the sample held;
* `CallsCounted`: no control frame has a number that has not been given out, so that a new one is behind all others;
* `SlotNear`: the slot is at most a period ahead of the clock and a pass behind it, ahead once this pass has settled it, and within a period of the status poll's time;
* `FreshNear`: a fresh sample has its slot within a period of its arrival, or is in the burst;
* `FreshUnsent`: while no write times out, what is fresh has never been on the wire;
* `SocketRecent`: while no write times out, a datagram waits for one pass at most.

Each part has one lemma, by cases on the action.
`SentStep` gives `SentMeansWritten`: only a write that returns moves the count sent, and it has put the sample held on the wire.
`LineStep` reduces every action to one of four effects on the line of control frames from wire to queue (nothing, one frame more, a status poll more, some frames of the burst less), and `AscendingAppend` and `AscendingCut` show that these keep the order; without time-outs the fourth effect does not exist, which is `ControlConserved`.
The time properties are sums: a sample's age is its wait in the socket (`SocketRecent`), the hold or its wait for the slot (`FreshNear`, `SlotNear`), and the pass.
`RegisterStep` shows that each action is a step of `LatestValue` or leaves it alone.
Theorems: `TypeCorrect`, `SentIsWritten`, `ControlInOrder`, `ControlKept`, `ForwardedOnce`, `AgeBounded`, `FreshInTime`, `StatusInTime`, `RegisterImplemented`.

### FrameParserProofs

Assumptions: those of `FrameParser`, that bytes are numbers, addresses are bytes and a frame has at least four; nothing about the check function, the stream or the chunks.
`FramesAreStream` is inductive, since each turn of `feed` cuts the buffer where the stream goes on (`Rest`).
`NoFrameLost` is not: that a byte passed over begins no frame is a fact about bytes that have left the buffer.
`ConsumedSettled` says it of every such byte: it lies in a frame that was returned or it is `Refused` by the stream itself, by its address, its size or its check byte, none of which later chunks change.
Theorems: `TypeCorrect`, `ReturnsTheStream`, `LosesNoFrame`.

### ConfigSessionProofs

Assumptions: those of `ConfigServer` and `ConfigSession`; any set of clients, any number of requests, any size of the buffer.
The theorems are about `SessionSpec`, thread, clients, module and main loop together.

* `Numbered`: requests wait in the order of their numbers, and those before the one under way have their replies; hence `OneReplyEach`.
* `Sockets`: each request has a socket of its own, no request of a client is newer than its count of requests, also after a time-out from which it goes on, and the socket a client waits on is that of its latest, so that a late reply finds nobody; hence `OwnReply`.
* `StepLast`, `StartTaken`: the step of the request under way is the last in the queue; from the START that is carried out to the command's end nobody is told READY; hence `FinishedMeansEnded`.
* `Idle`: a command that runs, or a step that may start it, belongs to a client that is still at it or has failed (`BusyHeld`); one that leaves waits for its CANCEL (`CancelLast`, `Cancelled`), and what it is told is true of the module (`ResultTrue`); hence `LeftIdle`.

Theorems: `AnsweredOnce`, `RepliesOwn`, `FinishedEnded`, `NobodyLeftBehind`.

### ParameterClientProofs

Assumptions: those of `ParameterClient`, that there is a value and the counts are positive; `VerifiedIsSet` and `OwnAnswers` have one hypothesis more, which section 3 explains.
`Line` is what is on its way from the client to the module, queue and link together, and `LineStep` says what a step can do to it: nothing, one frame more of the read under way, or the first frame less.

* `Shape`: what a read has got fits what is left of the entry; with it `PartsConsecutive` is inductive, as an entry's part and what it leaves make up the whole.
* `StepsOnce`: of each read at most one step is in `Line` or has been carried out, and none before its first query (`Unsent`); hence `StepAppliedOnce`.
* `SetsOurs`, `ReadTrue`, `ReplyTrue`: while a request verifies, `Line` holds no write of another value, so that an entry with the request's value, once told, is true of the module until the request ends; hence `VerifiedMeansSet`.
* `Outstanding`: without a resend there is at most one query on its way or one entry come in, of the read under way; hence `OwnAnswersWithoutResend`.

Theorems: `PathTypes`, `StepOnce`, `EntryInOrder`, `VerifiedIsSet`, `OwnAnswers`.

### The receiver, in VirtualReceiverProofs

Assumptions: those of `VirtualReceiver`, that the periods are positive and the times natural numbers.

* `PassTime`: within a pass only connecting takes time.
* `SamplesRecent`, `ControlsRecent`: a datagram waits at most for the rest of the pass in which it came; `SampleRecent` dates the sample held by the pass that took it. With the timeout, which compares that date with the start of the sending pass, they add up to `SourceLossSeen`.
* `ParserNew`: a parser with bytes of an earlier connection exists only while there is none; hence `FramesOfOneConnection`.
* `FramesSpaced`: the deadline of the slot is ahead of the pass that sent the last RC frame, and more than a period ahead of the one that sent the frame before it, as a slot that is used up, by `SlotIsNextQuotient`, leaves a deadline that is ahead and a period after the old one; hence `RcRateBounded`.

Theorems: `OldNotSent`, `ConnectionsApart`, `RateIsBound`.

### MlrsClientProofs

Assumptions: those of `MlrsClient`, on the layout of the module's parameters, the counts and the kinds of requests; any parameters, commands, values, number of reads and dead time.
The protocol numbers nothing, so that what an answer belongs to has to be known from what else is on its way.

* `Places`: what each stage of a request may be doing, and what it knows of its job.
* `Granted`: a command waits for its confirmation only after a START, and the confirmation is used up before it runs; hence `RunsOnlyIfGranted`.
* `Quiet`: a Save in the queue belongs to the request that waits for it to be sent; from the slot that takes it, the dead time left and the quiet make up `DeadTime`; hence `QuietAfterSave`.
* `FramesSane`, `GotShape`, `ListShape`: what any frame of the module says, however late; a list, read or kept, has its parameters in order and ends where the module's count says; hence `ListComplete`.
* `OneQuery`, `OneAnswer`: as long as no answer was late, at most one query is on its way and only while the thread waits for it, and a first item that comes in is the answer to it; so that what a read has got is what the module said (`GotTrue`).
* `SetsOurs`, `RecordsFresh`: once the verification of a write has got anything, no write is on its way; hence `VerifiedMeansSet` and `CacheFresh`.

Theorems: `TypeCorrect`, `ListIsComplete`, `CacheIsFresh`, `VerifiedIsSet`, `OnlyGrantedRun`, `SaveIsQuiet`.

### ElrsServiceProofs

Assumptions: those of `ElrsService`, any modules, each with a table of at least one name, and any requests.

* `NamedFound`: until the module is replaced, the parameter found has the name asked for in the table of the module at the line, whatever device is kept; hence `NamedActedOn`.
* `DeviceKnown`: while nothing disturbs the request, the answer to its own ping is on its way or is the last DEVICE_INFO that waits, which is the one `discover` keeps.
* `ReadSoFar`: while nothing disturbs the request, what has been read is the table up to the parameter to read next, and the name asked for was not among it; hence `UndisturbedServed`.

Theorems: `UndisturbedIsServed`, `NameIsActedOn`.

### JoystickProofs

`RoundTrip` has no assumption: `crsf_to_us(us_to_crsf(v))` is `v`, cut to 1000 to 2000, for every integer.
The rounding on the way there is off by at most a half, so that the way back, which divides by 1.639, is off by less than a third, and rounds to where it came from (`RoundBack`).
`PackRoundTrip` says that `UnpackUs(Pack(us))` is `us`, cut to the range, for any sixteen integers: the bit `11 * i + k` of a payload is the bit `k` of channel `i` (`PlaceInPayload`), the sum over a set of bits is the sum of its weights (`SumOfBits`), and a number below 2048 is the sum of its bits (`BitsOfNumber`).
With the types of `Joystick` it gives `FramesAreExact`.

`FlipsArePresses` is not inductive: a switch may still be about to flip, in the sample that a proxy keeps, in the datagrams on the way and in the loop.
These are its `Way`, from the oldest position to the newest.
`Counted` says that the places of the way can be numbered, never falling and rising between different positions, from the flips already received up to the presses allowed so far.
A pass that toggles raises the number at the end (`Passed`), for a press that was not counted yet (`Allowed`); a loss leaves places out (`Lost`); a frame moves the first number up to that of the sample (`Forwarded`); a datagram that comes early may add two (`Delivered`), for at least one was overtaken.
Assumptions: those of `Joystick`, any targets, axes, buttons and sizes of the network; `None` is no list of channels.
Theorems: `RoundTrip`, `PackRoundTrip`, `TypeCorrect`, `FramesAreReceived`, `SwitchesArePressed`.

### Induction

The induction theorems of the library take an operator as a parameter, which the provers cannot instantiate.
Where a recursive function or a fold has to be followed (`Kept` of `MlrsClient`, the sum of the bits), the proof takes the least counterexample of a set of numbers (`WFMin`), or states the induction of a set (`SetInduction`).

### How the invariants were found

Every inductive invariant above was also checked by TLC in the instance of its component's run, those of `RcBridge` and `VirtualReceiver` with one tick less.

### What is only model-checked

* Liveness (`RequestEnds` of both clients, `ReadsLetGo`, `SticksArrive`), which the proof system does not reach.
* `SerialInput`: `SentAreWritten`, `JunkCostsNoFrame` and `AnswersArrive`. They hold for the streams of the run, whose frames, junk and prefixes keep apart: with arbitrary bytes, junk and what follows it may form a valid frame, which the parser then rightly returns. A theorem would have to assume that they never do, which no line of the code ensures; for the parser inside, `LosesNoFrame` says what holds of every stream.

## 6. Not modelled

* **CRSF codec** beyond channels: values of parameters, descriptions of frames, and decoding that is only printed; pure functions on numbers and text.
* **mLRS receiver item** of `request_info`, and the layout of items.
* **Status snapshot** of the transport and its lock: written by one thread, copied by the other under the lock.
* **The menu of the configuration screen** (`run_tui`): folders, selection and editing. It can end with an error where a folder has no visible parameter, and when the list is not answered after an action (`hazards`).
* **Command lines** of all programs, `parse_target_specs` of the joystick included; drawing, printing and pygame.
* **Handset session**: not used by the proxy.
* **Radio records**: constants; `StatusPoll` is the one that the loop depends on.
* **Reception of RF, flight controller, ELRS and mLRS firmware**: external; modelled as far as the code in `src/` relies on them.

## 7. Plan

In the order of importance.

1. The menu of the configuration screen, and the receiver item of mLRS.
2. A theorem for `SerialInput`, about streams whose junk is told from frames by what the parser can see of it.
