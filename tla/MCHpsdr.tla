-------------------------------- MODULE MCHpsdr --------------------------------
(* Hpsdr for TLC.                                                           *)
EXTENDS Hpsdr

Quiet == [opens |-> 0, retune |-> FALSE, restart |-> FALSE, reports |-> FALSE, transmit |-> "no"]

MCScenarios ==
  { [Quiet EXCEPT !.opens = 2, !.retune = TRUE, !.restart = TRUE],
    [Quiet EXCEPT !.opens = 3],
    [Quiet EXCEPT !.opens = 1, !.reports = TRUE],
    [Quiet EXCEPT !.transmit = "anytime"] }
===============================================================================
