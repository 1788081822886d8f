------------------------------ MODULE RcFormat ------------------------------
(***************************************************************************)
(* The channel values of an RC_CHANNELS_PACKED frame (lib/crsf_protocol.py):*)
(* sixteen pulse widths in microseconds, each turned into eleven bits, and *)
(* packed one after the other.  A payload is the set of its bits that are  *)
(* set, numbered in little-endian order: byte k holds bits 8k to 8k + 7.   *)
(***************************************************************************)
EXTENDS Integers, FiniteSetsExt

Channels == 0 .. 15

Within(value, low, high) ==
  IF value < low THEN low ELSE IF value > high THEN high ELSE value

\* round(n / d) of Python: to the nearest integer, and to the even one of two.
Round(n, d) ==
  LET nearest == (2 * n + d) \div (2 * d)
      tie     == (2 * n + d) % (2 * d) = 0
  IN  IF tie /\ nearest % 2 = 1 THEN nearest - 1 ELSE nearest

\* Defect: the fraction is cut off instead of rounded.
UsToCrsfCut(value) == 172 + ((Within(value, 1000, 2000) - 1000) * 1639) \div 1000

UsToCrsf(value) == 172 + Round((Within(value, 1000, 2000) - 1000) * 1639, 1000)
CrsfToUs(value) == 1000 + Round((Within(value, 172, 1811) - 172) * 1000, 1639)

Pack(us) == {bit \in 0 .. 175 : (UsToCrsf(us[bit \div 11]) \div 2 ^ (bit % 11)) % 2 = 1}

Unpack(payload) ==
  [i \in Channels |-> MapThenSumSet(LAMBDA bit : 2 ^ bit,
                                    {bit \in 0 .. 10 : 11 * i + bit \in payload})]
UnpackUs(payload) ==
  LET raw == Unpack(payload) IN [i \in Channels |-> CrsfToUs(raw[i])]
=============================================================================
