----------------------------- MODULE MCJoystick -----------------------------
(* One target; a stick that is at the middle or at a place whose pulse width *)
(* falls between two values of CRSF. *)
EXTENDS Joystick
MCTargets == <<"target">>
MCPositions == {-325, 0}
=============================================================================
