------------------------------ MODULE CycleTiming ------------------------------
(***************************************************************************)
(* The clockwork of decode_loop() (ft8mon.cc): ten times a second it looks *)
(* at the clock; 14 seconds into a 15-second cycle it takes the most       *)
(* recent 15 seconds of samples, works out from t0 and from how many       *)
(* samples it got which cycle they belong to and at which of them the      *)
(* transmissions start, and decodes, which takes what PassBudget says.     *)
(*                                                                         *)
(* Time is counted in samples: a second is Rate ticks, and the source      *)
(* records one sample per tick while it is up.                             *)
(***************************************************************************)
EXTENDS PassBudget, Sequences

CONSTANTS
  Rate,      (* sin->rate(); even, so that half a second is a tick          *)
  Naps,      (* how long usleep(100 * 1000) may take                        *)
  Slow,      (* how much longer entry() may take, on a busy machine         *)
  Lags,      (* how old the newest sample in the ring may be: a chunk       *)
  Outages,   (* when the source may go down or come up again                *)
  MaxClock   (* bound: the program is watched for this long                 *)

ASSUME TimingAssumption ==
  /\ Rate \in Nat \ {0} /\ Rate % 2 = 0
  /\ Naps \subseteq Nat \ {0} /\ Slow \subseteq Nat /\ Lags \subseteq Nat
  /\ Outages \subseteq Nat /\ MaxClock \in Nat

VARIABLES
  clock,     (* now()                                                       *)
  pc,        (* the loop of decode_loop()                                   *)
  up,        (* the source delivers                                         *)
  newest,    (* time_ of the source: when the newest sample ended           *)
  buffered,  (* samples in its ring, at most the 15 seconds get() may want  *)
  got,       (* what the last get() gave: t0, the number of samples, and    *)
             (* as history whether the source was up                        *)
  smooth,    (* history: the source has stayed up, and entry() has not      *)
             (* overrun the next window, since the samples of the last      *)
             (* decode were taken                                           *)
  log        (* history: the cycles decoded, what and when                  *)

loop == <<clock, pc, up, newest, buffered, got, smooth, log>>
vars == <<loop, goVars>>

Sec(n) == n * Rate
Cycle  == Sec(15)
Smaller(a, b) == IF a < b THEN a ELSE b

Init ==
  /\ clock = 0 /\ pc = "poll" /\ up = TRUE
  /\ newest = 0 /\ buffered = 0 /\ got = [t0 |-> 0, size |-> 0, up |-> FALSE]
  /\ smooth = FALSE /\ log = <<>> /\ GoInit

(* Time passes while the main thread sleeps or decodes.                     *)
Elapse(d) ==
  /\ clock + d <= MaxClock
  /\ clock' = clock + d
  /\ \E lag \in Lags :
       newest' = IF up /\ clock' - lag > newest THEN clock' - lag ELSE newest
  /\ buffered' = Smaller(buffered + (newest' - newest), Cycle)

(* Between two steps of the main thread the source loses its connection, or *)
(* gets it back: what was not recorded is missing, and the next             *)
(* sample is stamped with the time it has then.                             *)
SourceDown ==
  /\ pc # "decode" /\ clock \in Outages /\ up /\ up' = FALSE
  /\ smooth' = FALSE
  /\ UNCHANGED <<clock, pc, newest, buffered, got, log, goVars>>

SourceUp ==
  /\ pc # "decode" /\ clock \in Outages /\ ~up /\ up' = TRUE /\ newest' = clock
  /\ UNCHANGED <<clock, pc, buffered, got, smooth, log, goVars>>
-------------------------------------------------------------------------------
(* tt - cycle_start >= 14                                                   *)
InWindow == clock % Cycle >= Sec(14)

Nap ==
  /\ pc = "poll" /\ ~InWindow
  /\ \E d \in Naps : Elapse(d)
  /\ UNCHANGED <<pc, up, got, smooth, log, goVars>>

(* sin->get(15 * rate, ttt_start, 1) empties the ring.                      *)
GetSamples ==
  /\ pc = "poll" /\ InWindow
  /\ got' = [t0 |-> newest - buffered, size |-> buffered, up |-> up]
  /\ buffered' = 0
  /\ pc' = "got"
  /\ UNCHANGED <<clock, up, newest, smooth, log, goVars>>

(* ttt_start + samples.size() / rate: an integer division.                  *)
EndOf(g) == g.t0 + Sec(g.size \div Rate)

CycleOf(g) == (EndOf(g) \div Cycle) * Cycle

(* Mutant: forgets the half second.                                         *)
NominalStartAtCycle(g) == g.size - (EndOf(g) - CycleOf(g))

(* samples.size() - rate * (ttt_end - cycle_start - 0.5)                    *)
NominalStart(g) == g.size - (EndOf(g) - CycleOf(g) - Rate \div 2)

(* Mutants: decodes whatever there is; wants 13 of the 15 seconds.          *)
CoversAlways(g) == TRUE
CoversMore(g) == NominalStart(g) >= 0 /\ NominalStart(g) + Sec(13) < g.size

CoversCycle(g) == NominalStart(g) >= 0 /\ NominalStart(g) + Sec(10) < g.size

SkipCycle ==
  /\ pc = "got" /\ ~CoversCycle(got)
  /\ pc' = "sleep"
  /\ UNCHANGED <<clock, up, newest, buffered, got, smooth, log, goVars>>

(* entry() with NominalStart as the sample 0.5 seconds into the cycle.      *)
DecodeSamples ==
  /\ pc = "got" /\ CoversCycle(got)
  /\ log' = Append(log, [cycle |-> CycleOf(got), nominal |-> NominalStart(got),
                         t0 |-> got.t0, size |-> got.size, smooth |-> smooth])
  /\ pc' = "decode"
  /\ UNCHANGED <<clock, up, newest, buffered, got, smooth, goVars>>

(* The decoder threads at work; entry() returns when the last has ended.    *)
Work == pc = "decode" /\ GoNext /\ UNCHANGED loop

DecodeReturns ==
  /\ pc = "decode" /\ GoDone
  /\ \E d \in Slow :
       Elapse(spent + d) /\ smooth' = (got.up /\ up /\ spent + d <= Sec(11))
  /\ GoStart /\ pc' = "sleep"
  /\ UNCHANGED <<up, got, log>>

(* sleep(2), and then usleep() as after every turn of the loop.             *)
Rest ==
  /\ pc = "sleep"
  /\ \E d \in Naps : Elapse(Sec(2) + d)
  /\ pc' = "poll"
  /\ UNCHANGED <<up, got, smooth, log, goVars>>

(* The time the model watches is over.                                      *)
Over ==
  /\ clock + Sec(31) > MaxClock
  /\ UNCHANGED vars

Next ==
  \/ SourceDown \/ SourceUp
  \/ Nap \/ GetSamples \/ SkipCycle \/ DecodeSamples
  \/ Work \/ DecodeReturns \/ Rest \/ Over

Spec == Init /\ [][Next]_vars
-------------------------------------------------------------------------------
(* No cycle is decoded twice: sleep(2) leaves the window of one second, and *)
(* get() took the samples of the cycle away.                                *)
OncePerCycle ==
  \A i, j \in DOMAIN log : i < j => log[i].cycle < log[j].cycle

(* No cycle is left out between two decodes as long as the source stays up  *)
(* and entry() takes at most 11 seconds: naps, the jitter of the stamps and *)
(* an outage long ago do not cost a cycle.                                  *)
NoCycleMissed ==
  \A i \in DOMAIN log :
    (i > 1 /\ log[i].smooth) => log[i].cycle = log[i-1].cycle + Cycle

TrueStart(d) == d.cycle + Rate \div 2 - d.t0

(* entry() is never told a start before the true one, and less than a       *)
(* second after it, which its search for the offset covers.                 *)
NominalNear ==
  \A i \in DOMAIN log : log[i].nominal - TrueStart(log[i]) \in 0 .. Rate - 1
===============================================================================
