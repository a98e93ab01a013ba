------------------------------- MODULE PlanCache -------------------------------
(***************************************************************************)
(* The transforms of fft.cc share plans that FFTW's planner makes.         *)
(* get_plan() keeps them in plans[], under the mutex plansmu.  The planner *)
(* is not thread-safe, and a process may hold two copies of fft.cc, in     *)
(* ft8.so and in snd.so, with a mutex and a cache each: a lock file keeps  *)
(* them apart.  fork()ed children start with their parent's plans.         *)
(* HPSDR::tx_real() changes fftw_type while it computes a transmission.    *)
(***************************************************************************)
EXTENDS Naturals, Sequences

CONSTANTS
  Threads, Parents,   (* the threads, and those of the parent process; a    *)
                      (* child has the others                               *)
  Transmitters,       (* the threads that call tx_real()                    *)
  Builds,             (* which copy of fft.cc each thread uses, a set of    *)
                      (* functions                                          *)
  Lengths,            (* lengths of the arrays that are transformed         *)
  MaxCalls,           (* bound: transforms of a thread                      *)
  NoThread

Copies == {"ft8", "snd"}

ASSUME PlanAssumption ==
  /\ Parents \subseteq Threads /\ Transmitters \subseteq Threads /\ NoThread \notin Threads
  /\ Builds \subseteq [Threads -> Copies]
  /\ Lengths \subseteq Nat \ {0, 1} /\ MaxCalls \in Nat

Types == {"estimate", "measure"}

VARIABLES
  build,      (* the program that runs                                      *)
  forked,     (* fork() has been called                                     *)
  type,       (* per process and copy: fftw_type                            *)
  plans,      (* per process and copy: plans[0 .. nplans-1]                 *)
  master,     (* per process and copy: plan_master_pid, or "none"           *)
  plansmu,    (* per process and copy: who holds plansmu                    *)
  file,       (* who holds the lock file                                    *)
  pc, want,   (* per thread: control, and the n it wants                    *)
  kind,       (* per thread: p->type_ of the plan it makes                  *)
  otype,      (* per transmitter: otype                                     *)
  calls,      (* per thread: calls so far                                   *)
  begun       (* history: fftw_type of each copy when the program began     *)

shared == <<type, plans, master, plansmu>>
vars   == <<build, forked, shared, file, pc, want, kind, otype, calls, begun>>

Processes     == {"parent", "child"}
Proc(t)       == IF t \in Parents THEN "parent" ELSE "child"
Mine(f, t)    == f[Proc(t)][build[t]]
Set(f, t, x)  == [f EXCEPT ![Proc(t)][build[t]] = x]
At(t, here)   == pc[t] = here
Goto(t, there) == pc' = [pc EXCEPT ![t] = there]

PerCopy(x) == [p \in Processes |-> [c \in Copies |-> x]]

(* fftw_type is FFTW_ESTIMATE unless it is set in ft8.so (set_param()).     *)
Init ==
  /\ build \in Builds /\ forked = FALSE
  /\ begun \in [Copies -> Types] /\ begun["snd"] = "estimate"
  /\ type = [p \in Processes |-> begun]
  /\ plans = PerCopy(<<>>) /\ master = PerCopy("none") /\ plansmu = PerCopy(NoThread)
  /\ file = NoThread
  /\ pc = [t \in Threads |-> "idle"] /\ want = [t \in Threads |-> 0]
  /\ kind = [t \in Threads |-> "estimate"] /\ otype = [t \in Threads |-> "estimate"]
  /\ calls = [t \in Threads |-> 0]
-------------------------------------------------------------------------------
(* The size of the plan that each transform of an array needs; one_ifft()   *)
(* gets the bins of a one_fft(), which does not say if the length was odd.  *)
OneFft(len)    == len
Ffts(block)    == block
OneFftC(len)   == len
OneFftCc(len)  == len
OneIfftCc(len) == len
OneIfft(nbins) == (nbins - 1) * 2

(* A decoder thread, or a source that turns I/Q into audio (iq2usb()).      *)
Transform(t) ==
  /\ At(t, "idle") /\ t \notin Transmitters /\ calls[t] < MaxCalls
  /\ t \in Parents \/ forked
  /\ \E len \in Lengths :
       \E n \in {OneFft(len), Ffts(len), OneFftC(len), OneFftCc(len), OneIfftCc(len),
                 OneIfft(len \div 2 + 1)} :
         want' = [want EXCEPT ![t] = n]
  /\ calls' = [calls EXCEPT ![t] = @ + 1]
  /\ Goto(t, "lock")
  /\ UNCHANGED <<build, forked, shared, file, kind, otype, begun>>

(* tx_real() calls analytic(), whose second transform finds the plan of the *)
(* first.                                                                   *)
Transmit(t) ==
  /\ At(t, "idle") /\ t \in Transmitters /\ calls[t] < MaxCalls
  /\ t \in Parents \/ forked
  /\ otype' = [otype EXCEPT ![t] = Mine(type, t)]
  /\ type' = Set(type, t, "estimate")
  /\ \E len \in Lengths : want' = [want EXCEPT ![t] = OneFftC(len)]
  /\ calls' = [calls EXCEPT ![t] = @ + 1]
  /\ Goto(t, "lock")
  /\ UNCHANGED <<build, forked, plans, master, plansmu, file, kind, begun>>
-------------------------------------------------------------------------------
(* get_plan()                                                               *)

InCall == {"search", "lockfile", "type", "planning", "publish"}

Rests == UNCHANGED <<build, forked, want, otype, calls, begun>>

Lock(t) ==
  /\ At(t, "lock") /\ Mine(plansmu, t) = NoThread
  /\ plansmu' = Set(plansmu, t, t)
  /\ master' = IF Mine(master, t) = "none" THEN Set(master, t, Proc(t)) ELSE master
  /\ Goto(t, "search")
  /\ UNCHANGED <<type, plans, file, kind>> /\ Rests

Cached(t) ==
  \E i \in DOMAIN Mine(plans, t) :
    Mine(plans, t)[i] = [n |-> want[t], type |-> Mine(type, t)]

Hit(t) ==
  /\ At(t, "search") /\ Cached(t)
  /\ plansmu' = Set(plansmu, t, NoThread)
  /\ Goto(t, "execute")
  /\ UNCHANGED <<type, plans, master, file, kind>> /\ Rests

(* Mutant: gives plansmu back while it plans.                               *)
MissUnlocked(t) ==
  /\ At(t, "search") /\ ~Cached(t)
  /\ plansmu' = Set(plansmu, t, NoThread)
  /\ Goto(t, "lockfile")
  /\ UNCHANGED <<type, plans, master, file, kind>> /\ Rests

Miss(t) ==
  /\ At(t, "search") /\ ~Cached(t)
  /\ Goto(t, "lockfile")
  /\ UNCHANGED <<shared, file, kind>> /\ Rests

(* Mutant: plansmu is thought to be enough.                                 *)
LockNoFile(t) ==
  /\ At(t, "lockfile")
  /\ file' = t
  /\ Goto(t, "type")
  /\ UNCHANGED <<shared, kind>> /\ Rests

LockFile(t) ==
  /\ At(t, "lockfile") /\ file = NoThread
  /\ file' = t
  /\ Goto(t, "type")
  /\ UNCHANGED <<shared, kind>> /\ Rests

(* A child does not measure; fftw_type is loaded a second time.             *)
ChooseType(t) ==
  /\ At(t, "type")
  /\ kind' = [kind EXCEPT ![t] =
               IF Proc(t) = Mine(master, t) THEN Mine(type, t) ELSE "estimate"]
  /\ Goto(t, "planning")
  /\ UNCHANGED <<shared, file>> /\ Rests

(* Mutant: keeps the lock file.                                             *)
PlannedKeepsFile(t) ==
  /\ At(t, "planning")
  /\ Goto(t, "publish")
  /\ UNCHANGED <<shared, file, kind>> /\ Rests

(* The four plans are made.                                                 *)
Planned(t) ==
  /\ At(t, "planning")
  /\ file' = NoThread
  /\ Goto(t, "publish")
  /\ UNCHANGED <<shared, kind>> /\ Rests

Publish(t) ==
  /\ At(t, "publish")
  /\ plans' = Set(plans, t, Append(Mine(plans, t), [n |-> want[t], type |-> kind[t]]))
  /\ plansmu' = Set(plansmu, t, NoThread)
  /\ Goto(t, "execute")
  /\ UNCHANGED <<type, master, file, kind>> /\ Rests

(* The transform itself works on arrays of the caller.                      *)
Execute(t) ==
  /\ At(t, "execute")
  /\ Goto(t, "idle")
  /\ type' = IF t \in Transmitters THEN Set(type, t, otype[t]) ELSE type
  /\ UNCHANGED <<plans, master, plansmu, file, kind>> /\ Rests

(* The parent forks while no thread of it is in get_plan().                 *)
Fork ==
  /\ ~forked /\ \A t \in Parents : pc[t] \notin InCall
  /\ forked' = TRUE
  /\ type' = [type EXCEPT !["child"] = type["parent"]]
  /\ plans' = [plans EXCEPT !["child"] = plans["parent"]]
  /\ master' = [master EXCEPT !["child"] = master["parent"]]
  /\ UNCHANGED <<build, plansmu, file, pc, want, kind, otype, calls, begun>>
-------------------------------------------------------------------------------
GetPlan(t) ==
  \/ Lock(t) \/ Hit(t) \/ Miss(t) \/ LockFile(t) \/ ChooseType(t) \/ Planned(t)
  \/ Publish(t) \/ Execute(t)

Next ==
  \/ \E t \in Threads : Transform(t) \/ Transmit(t) \/ GetPlan(t)
  \/ Fork

(* The threads run, and planning takes a finite time (five seconds).        *)
Spec == Init /\ [][Next]_vars /\ \A t \in Threads : WF_vars(GetPlan(t))
-------------------------------------------------------------------------------
(* The planner is never entered twice in a process, whichever copies of     *)
(* fft.cc its threads use.                                                  *)
PlannerAlone ==
  \A t, u \in Threads : (At(t, "planning") /\ At(u, "planning") /\ Proc(t) = Proc(u)) => t = u

(* A copy that began with FFTW_ESTIMATE plans each size once, in parent and *)
(* child together, whoever transmits and however its threads meet: plans[]  *)
(* has room for all sizes there are, and never overflows.                   *)
PlannedOnce ==
  \A p \in Processes, c \in Copies : begun[c] = "estimate" =>
    \A i, j \in DOMAIN plans[p][c] : plans[p][c][i].n = plans[p][c][j].n => i = j

(* Everyone who asks for a plan gets one: plansmu and the lock file are     *)
(* always taken in one order, and given back.                               *)
PlansReturned == \A t \in Threads : At(t, "lock") ~> At(t, "execute")
===============================================================================
