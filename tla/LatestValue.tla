---------------------------- MODULE LatestValue ----------------------------
(***************************************************************************)
(* What the RC path of the proxy promises, whatever its sockets, clock and *)
(* serial port do: it is a register that a newer sample overwrites, and a  *)
(* delivery hands over the newest sample, never one before it.  Samples    *)
(* are numbered in the order in which they reached the proxy; 0 is none.   *)
(***************************************************************************)
EXTENDS Naturals

VARIABLES latest, delivered

Init ==
  /\ latest = 0
  /\ delivered = 0

\* A newer sample arrives; the one it replaces may never be delivered.
Offer ==
  /\ latest' \in Nat
  /\ latest' > latest
  /\ UNCHANGED delivered

\* The newest sample goes out.
Deliver ==
  /\ delivered < latest
  /\ delivered' = latest
  /\ UNCHANGED latest

Next == Offer \/ Deliver

Spec == Init /\ [][Next]_<<latest, delivered>>
=============================================================================
