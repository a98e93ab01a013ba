------------------------------ MODULE MCPlanCache -------------------------------
(* PlanCache for TLC: a decoder and a transmitter in the parent, a decoder  *)
(* of the child and an I/Q source; ft8mon has one copy of fft.cc, Python    *)
(* loads ft8.so and snd.so.                                                 *)
EXTENDS PlanCache
CONSTANTS d1, d2, tx, d3
MCBuilds ==
  {[t \in Threads |-> "ft8"], [t \in Threads |-> IF t = tx THEN "snd" ELSE "ft8"]}
===============================================================================
