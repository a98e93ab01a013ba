----------------------------- MODULE MCCycleTiming -----------------------------
(* CycleTiming for TLC.  With Rate samples a second usleep() takes 0.1 s,   *)
(* or somewhat longer; entry() has its 5 seconds, a search takes up to 1    *)
(* second and a candidate up to 2, so that a decode may take 11 seconds or  *)
(* more, and much more on a busy machine; the source goes away, and comes   *)
(* back, at multiples of 7 seconds, which drift through the cycle.          *)
EXTENDS CycleTiming
MCNaps     == {Rate \div 10, Rate \div 10 + 1}
MCBudget   == Sec(5)
MCSearches == {Sec(1)}
MCTries    == {Sec(3)}
MCSlow     == {0, Sec(17)}
MCOutages  == {Sec(7 * k) : k \in 1 .. 8}
===============================================================================
