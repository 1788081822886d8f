--------------------------- MODULE MCFrameParser ---------------------------
(***************************************************************************)
(* Model checking FrameParser with bytes small enough to feed every stream *)
(* in every division into chunks.                                          *)
(***************************************************************************)
EXTENDS FrameParser

\* A check byte that depends on every byte of the body and on its place.
MCCrc(body) == (1 + MapThenSumSet(LAMBDA i : i * body[i], DOMAIN body)) % 4
=============================================================================
