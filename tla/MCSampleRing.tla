------------------------------ MODULE MCSampleRing ------------------------------
(* SampleRing for TLC: the three sound sources, one of them also with weak  *)
(* stores; get() is asked for some samples, oldest or latest.               *)
EXTENDS SampleRingInvariant
MCKinds ==
  {<<"card", "program">>, <<"network", "program">>, <<"rtltcp", "program">>,
   <<"rtltcp", "weak">>}
MCRequests == {<<2, TRUE>>, <<2, FALSE>>}
===============================================================================
