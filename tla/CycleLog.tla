------------------------------- MODULE CycleLog -------------------------------
(***************************************************************************)
(* What ft8mon promises its user in live use: cycle after cycle is opened, *)
(* messages are logged under the time of the cycle that is open, each at   *)
(* most once, and nothing is logged between cycles.                        *)
(***************************************************************************)
EXTENDS Naturals, Sequences

CONSTANT Messages

VARIABLES cycle, open, log
vars == <<cycle, open, log>>

Entry(m) == [cycle |-> cycle, msg |-> m]

Init == cycle = 0 /\ open = FALSE /\ log = <<>>

Open ==
  /\ ~open /\ open' = TRUE
  /\ cycle' > cycle
  /\ UNCHANGED log

Report(m) ==
  /\ open /\ \A i \in DOMAIN log : log[i] # Entry(m)
  /\ log' = Append(log, Entry(m))
  /\ UNCHANGED <<cycle, open>>

Close ==
  /\ open /\ open' = FALSE
  /\ UNCHANGED <<cycle, log>>

Next == Open \/ (\E m \in Messages : Report(m)) \/ Close

Spec == Init /\ [][Next]_vars
===============================================================================
