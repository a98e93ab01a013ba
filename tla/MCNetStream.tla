------------------------------ MODULE MCNetStream ------------------------------
(* NetStream for TLC: mono and stereo PCM, 32-bit PCM and float, a faster   *)
(* stream, and two formats that are not supported.                          *)
EXTENDS NetStream
L(rate, ch, bits, format) == [rate |-> rate, ch |-> ch, bits |-> bits, format |-> format]
MCRawLayout == L(12, 1, 16, 1)
MCLayouts ==
  {L(12, 1, 16, 1), L(12, 2, 16, 1), L(12, 1, 32, 1), L(12, 1, 32, 3),
   L(48, 1, 16, 1), L(12, 1, 16, 3), L(0, 1, 8, 1)}
===============================================================================
