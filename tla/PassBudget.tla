------------------------------- MODULE PassBudget -------------------------------
(***************************************************************************)
(* How FT8::go() (ft8.cc) spends its time: each of the passes gets an      *)
(* equal part of what is left of the budget, searches the spectrum for     *)
(* candidates and tries them strongest first.  It looks at the clock only  *)
(* before a candidate, and a pass that has decoded nothing goes on.        *)
(* CycleTiming runs it inside decode_loop()'s call of entry(), for the     *)
(* thread that takes longest.  Time is counted in ticks; a part of the     *)
(* budget is rounded down to a tick.                                       *)
(***************************************************************************)
EXTENDS Integers

CONSTANTS
  Passes,       (* npasses_one                                              *)
  Budget,       (* time_left and total_time_left: decode_loop() gives the   *)
                (* same for both, so deadline_ = final_deadline_ = t0 +     *)
                (* Budget                                                   *)
  Searches,     (* how long the search for candidates may take: it has an   *)
                (* end, and so has                                          *)
  Tries         (* how long a candidate may take                            *)

ASSUME BudgetAssumption ==
  /\ Passes \in Nat \ {0} /\ Budget \in Nat
  /\ Searches \subseteq Nat /\ \E d \in Searches : \A e \in Searches : e <= d
  /\ Tries \subseteq Nat /\ \E d \in Tries : \A e \in Tries : e <= d

VARIABLES
  spent,     (* now() - t0                                                  *)
  pass,      (* pass_                                                       *)
  step,
  deadline,  (* deadline, of the pass, after t0                             *)
  tried,     (* ii > 0                                                      *)
  decodes,   (* new_decodes >= pass_threshold, which is 1                   *)
  starved    (* history: a pass went on past its deadline for want of a     *)
             (* decode                                                      *)

goVars == <<spent, pass, step, deadline, tried, decodes, starved>>

GoInit ==
  /\ spent = 0 /\ pass = 0 /\ step = "pass" /\ deadline = 0
  /\ tried = FALSE /\ decodes = FALSE /\ starved = FALSE

(* The next entry() starts anew.                                            *)
GoStart ==
  /\ spent' = 0 /\ pass' = 0 /\ step' = "pass" /\ deadline' = 0
  /\ tried' = FALSE /\ decodes' = FALSE /\ starved' = FALSE

Share == (Budget - spent) \div (Passes - pass)

(* Mutant: gives the first pass all the time there is.                      *)
StartPassGreedy ==
  /\ step = "pass" /\ pass < Passes
  /\ deadline' = spent + (Budget - spent)
  /\ \E s \in Searches : spent' = spent + s
  /\ tried' = FALSE /\ decodes' = FALSE
  /\ step' = "try"
  /\ UNCHANGED <<pass, starved>>

StartPass ==
  /\ step = "pass" /\ pass < Passes
  /\ deadline' = spent + Share
  /\ \E s \in Searches : spent' = spent + s
  /\ tried' = FALSE /\ decodes' = FALSE
  /\ step' = "try"
  /\ UNCHANGED <<pass, starved>>

(* Mutant: the last pass has no end.                                        *)
TimeIsUpNeverLast ==
  /\ tried /\ spent > deadline
  /\ spent > Budget \/ decodes
  /\ pass < Passes - 1

TimeIsUp ==
  /\ tried /\ spent > deadline
  /\ spent > Budget \/ decodes
  /\ pass < Passes - 1 \/ spent > Budget

(* one() takes its time, and may decode (ret == 2) or not.  A candidate that *)
(* already[] marks is passed over, in no time and never as the first.        *)
TryCandidate ==
  /\ step = "try" /\ ~TimeIsUp
  /\ \E d \in Tries : spent' = spent + d
  /\ tried' = TRUE
  /\ decodes' \in {decodes, TRUE}
  /\ starved' = (starved \/ (spent > deadline /\ ~decodes))
  /\ UNCHANGED <<pass, step, deadline>>

(* The time is up, or the list of candidates is at its end.                 *)
EndPass ==
  /\ step = "try"
  /\ pass' = pass + 1
  /\ step' = "pass"
  /\ UNCHANGED <<spent, deadline, tried, decodes, starved>>

GoNext == StartPass \/ TryCandidate \/ EndPass

GoDone == step = "pass" /\ pass = Passes
-------------------------------------------------------------------------------
Longest(S) == CHOOSE d \in S : \A e \in S : e <= d
Overhead == Longest(Searches) + Longest(Tries)

(* A thread stays within its budget but for one search and one candidate    *)
(* per pass, however many candidates there are: decode_loop() has to be     *)
(* back before the next cycle ends.                                         *)
EndsOnTime == spent <= Budget + Passes * Overhead

(* Unless a pass had to go on to find a first signal, the next one starts  *)
(* when its part of the budget begins, but for a candidate per pass:       *)
(* signals that come to light once stronger ones are subtracted get their  *)
(* share of the time, however long the list of the first pass is.          *)
LaterPassesHaveTime ==
  (step = "pass" /\ pass < Passes /\ ~starved)
    => spent <= (pass * Budget) \div Passes + pass * Longest(Tries)
===============================================================================
