---------------------------- MODULE MCSignalSearch -----------------------------
(* SignalSearch for TLC: windows of 15 seconds with an early, an ordinary   *)
(* and the latest start, and a file of a nice length.                       *)
EXTENDS SignalSearch

Window(r) == {<<r, 15 * r, s>> : s \in {0, r \div 2, 5 * r - 1}}

MCInputs == Window(8000) \cup Window(12000) \cup Window(48000) \cup {<<12000, 146400, 6000>>}
===============================================================================
