------------------------------ MODULE Joystick ------------------------------
(***************************************************************************)
(* The way of the sticks: the loop of joystick_crsf.py reads them, turns   *)
(* them into sixteen channels and sends these to every target in a UDP     *)
(* datagram (lib/rc_packet.py); at each target crsfproxy keeps the newest  *)
(* good datagram (lib/elrs_backend.py) and forwards it in RC frames.  The  *)
(* network loses, damages and reorders datagrams.  Their time stamp is     *)
(* left out: nothing on this way reads it.                                 *)
(***************************************************************************)
EXTENDS RcFormat, Sequences, SequencesExt

CONSTANTS
  Radios,       \* the values of is_tx12 to consider
  Targets,      \* the targets, in the order of the command line
  NumAxes,      \* joystick.get_numaxes()
  Positions,    \* positions of an axis, in thousandths
  MovedAxes, MovedButtons,  \* what the pilot uses
  None,
  MaxMoves,     \* bound of the model: what the pilot does
  MaxInFlight,  \* bound of the model: datagrams on the way to a target
  MaxOvertakes  \* bound of the model: datagrams that arrive late

ASSUME RadioAssumption == Radios \subseteq BOOLEAN
ASSUME NoneAssumption == None \notin [Channels -> Int]
ASSUME PilotAssumption ==
  /\ NumAxes \in Nat /\ Positions \subseteq -1000 .. 1000 /\ 0 \in Positions
  /\ MovedAxes \subseteq 0 .. NumAxes - 1 /\ MovedButtons \subseteq 0 .. 11
ASSUME BoundAssumption == MaxMoves \in Nat /\ MaxInFlight \in Nat /\ MaxOvertakes \in Nat

VARIABLES
  isTx12,     \* which of the two mappings applies
  axes,       \* where the sticks are
  buttons,    \* the buttons that are pressed
  running,    \* the loop runs
  channels,   \* the channels of the loop, None before its first pass
  on,         \* armed and btn_latched: the buttons whose function is switched on
  lastPressed,  \* last_arm_btn and last_btns: the buttons pressed in the last pass
  network,    \* for each target, the datagrams on the way
  sample,     \* for each target, last_valid_channels_us
  frame,      \* for each target, the channels packed in its last RC frame
  \* History, read by the properties and the bounds alone.
  moves,
  presses,    \* how often each button was pressed
  flips,      \* for each target, how often each switch changed where it is received
  overtakes   \* datagrams that were overtaken

pilot == <<isTx12, axes, buttons, moves, presses>>
loop == <<running, channels, on, lastPressed>>
proxies == <<network, sample, frame, flips, overtakes>>
vars == <<pilot, loop, proxies>>

----------------------------------------------------------------------------
AxisToUs(position) == 900 + ((position + 1000) * 6) \div 10
ButtonToUs(pressed) == IF pressed THEN 2100 ELSE 900

\* get_joystick_state: the axes that a joystick does not have are at 0.
Axis(i) == IF i < NumAxes THEN axes[i] ELSE 0

\* The buttons of a gamepad that switch a channel on and off, and that channel.
SwitchChannel == [b \in {9} \cup 0 .. 3 |-> IF b = 9 THEN 4 ELSE 5 + b]
Switches == DOMAIN SwitchChannel
Momentary == 4 .. 7

\* Channels that the loop does not set keep MID_US.
Tx12Channels ==
  [i \in Channels |-> CASE i \in 0 .. 7  -> AxisToUs(Axis(i))
                        [] i \in 8 .. 11 -> ButtonToUs(i - 8 \in buttons)
                        [] OTHER         -> 1500]

GamepadChannels(switchedOn) ==
  [i \in Channels |-> CASE i = 0 -> AxisToUs(Axis(2))
                        [] i = 1 -> AxisToUs(Axis(3))
                        [] i = 2 -> AxisToUs(-Axis(1))
                        [] i = 3 -> AxisToUs(Axis(0))
                        [] i = 4 -> ButtonToUs(9 \in switchedOn)
                        [] i \in 5 .. 12 ->
                             ButtonToUs(i - 5 \in switchedOn \cup (buttons \cap Momentary))
                        [] OTHER -> 1500]

\* What the loop sends with these buttons switched on.
ChannelsNow(switchedOn) == IF isTx12 THEN Tx12Channels ELSE GamepadChannels(switchedOn)

Init ==
  /\ isTx12 \in Radios
  /\ axes = [i \in 0 .. NumAxes - 1 |-> 0]
  /\ buttons \in SUBSET MovedButtons
  /\ running = TRUE /\ channels = None /\ on = {} /\ lastPressed = {}
  /\ network = [t \in Range(Targets) |-> <<>>]
  /\ sample = [t \in Range(Targets) |-> None]
  /\ frame = [t \in Range(Targets) |-> None]
  /\ moves = 0
  /\ presses = [b \in 0 .. 11 |-> IF b \in buttons THEN 1 ELSE 0]
  /\ flips = [t \in Range(Targets) |-> [b \in Switches |-> 0]]
  /\ overtakes = 0

----------------------------------------------------------------------------
(* The pilot. *)

Move ==
  /\ moves < MaxMoves
  /\ moves' = moves + 1
  /\ \E i \in MovedAxes : \E position \in Positions \ {axes[i]} :
       axes' = [axes EXCEPT ![i] = position]
  /\ UNCHANGED <<isTx12, buttons, presses, loop, proxies>>

Press ==
  /\ moves < MaxMoves
  /\ moves' = moves + 1
  /\ \E b \in MovedButtons \ buttons :
       buttons' = buttons \cup {b} /\ presses' = [presses EXCEPT ![b] = @ + 1]
  /\ UNCHANGED <<isTx12, axes, loop, proxies>>

\* Not counted: there are no more of them than there were presses.
Release ==
  /\ \E b \in buttons : buttons' = buttons \ {b}
  /\ UNCHANGED <<isTx12, axes, moves, presses, loop, proxies>>

----------------------------------------------------------------------------
(* The loop of main. *)

\* Defect: the buttons of the last pass are not kept.
PressedLevel == buttons \cap Switches

\* A button that was not pressed in the last pass switches its function.
Pressed == (buttons \ lastPressed) \cap Switches

Toggled == (on \ Pressed) \cup (Pressed \ on)

\* Defect: nothing is sent as long as nothing has changed.
SendChanges(n) ==
  network' = [t \in Range(Targets) |->
                IF channels' # channels /\ Len(network[t]) < MaxInFlight
                     /\ \E k \in 1 .. n : Targets[k] = t
                THEN Append(network[t], channels') ELSE network[t]]

\* The first n targets are served in this pass.  What the network cannot hold is
\* lost, as is anything on the way.
Send(n) ==
  network' = [t \in Range(Targets) |->
                IF Len(network[t]) < MaxInFlight /\ \E k \in 1 .. n : Targets[k] = t
                THEN Append(network[t], channels') ELSE network[t]]

\* One pass that serves the first n targets.
PassServing(n) ==
  /\ running
  /\ on' = IF isTx12 THEN on ELSE Toggled
  /\ lastPressed' = IF isTx12 THEN lastPressed ELSE buttons
  /\ channels' = ChannelsNow(on')
  /\ Send(n)
  /\ running' = (n = Len(Targets))
  /\ UNCHANGED <<pilot, sample, frame, flips, overtakes>>

Pass == PassServing(Len(Targets))

\* sendto raises, and that ends the program, for every target.
SendRaises == \E n \in 0 .. Len(Targets) - 1 : PassServing(n)

----------------------------------------------------------------------------
(* The network and the proxies. *)

\* Any of the datagrams on the way arrives.
Deliver(t) ==
  \E n \in DOMAIN network[t] :
    /\ overtakes + n - 1 <= MaxOvertakes
    /\ overtakes' = overtakes + n - 1
    /\ network' = [network EXCEPT ![t] = RemoveAt(@, n)]
    /\ sample' = [sample EXCEPT ![t] = network[t][n]]
    /\ UNCHANGED <<pilot, loop, frame, flips>>

\* One is lost, or arrives damaged and is rejected by RcPacket.decode.
Lose(t) ==
  /\ \E n \in DOMAIN network[t] : network' = [network EXCEPT ![t] = RemoveAt(@, n)]
  /\ UNCHANGED <<pilot, loop, sample, frame, flips, overtakes>>

\* A switch is on where its channel is above the middle.
OnIn(us, b) == us # None /\ us[SwitchChannel[b]] > 1500

\* run_proxy sends the sample that it holds.
Forward(t) ==
  /\ sample[t] # None
  /\ frame' = [frame EXCEPT ![t] = sample[t]]
  /\ flips' = [flips EXCEPT ![t] = [b \in Switches |->
                 @[b] + IF OnIn(sample[t], b) # OnIn(frame[t], b) THEN 1 ELSE 0]]
  /\ UNCHANGED <<pilot, loop, network, sample, overtakes>>

Next ==
  \/ Move \/ Press \/ Release
  \/ Pass \/ SendRaises
  \/ \E t \in Range(Targets) : Deliver(t) \/ Lose(t) \/ Forward(t)

\* The loops go on, and a datagram that is sent again and again gets through.
Fairness ==
  /\ WF_vars(Pass)
  /\ \A t \in Range(Targets) : SF_vars(Deliver(t)) /\ WF_vars(Forward(t))

Spec == Init /\ [][Next]_vars /\ Fairness

----------------------------------------------------------------------------
\* What a receiver unpacks.
Received(t) == IF frame[t] = None THEN None ELSE UnpackUs(Pack(frame[t]))

InRange(us) == [i \in Channels |-> Within(us[i], 1000, 2000)]

\* make_rc_frame and unpack_channels_us (lib/crsf_protocol.py): a frame says what
\* was packed into it to the microsecond, cut to the range of CRSF, each channel
\* for itself, although eleven bits per channel are no microseconds.
FramesAreExact == \A t \in Range(Targets) : frame[t] # None => Received(t) = InRange(frame[t])

\* README.md:132 and the mapping at the top of get_joystick_state: while the
\* program runs, what the pilot's controls say, cut to the range of CRSF, gets to
\* every target exactly, each channel for itself, once the pilot holds still:
\* whatever was lost, damaged or overtaken before.
SticksArrive ==
  <>[](running => \A t \in Range(Targets) : Received(t) = InRange(ChannelsNow(on)))

\* A switch, the arm switch before all, changes where it is received no more often
\* than its button was pressed, a button held from the start counted as pressed
\* (as main counts it), but for datagrams that arrive late: each of those may
\* switch it back and forth once, for nobody compares time stamps.
FlipsArePresses ==
  ~isTx12 => \A t \in Range(Targets) : \A b \in Switches :
    flips[t][b] <= presses[b] + 2 * overtakes
=============================================================================
