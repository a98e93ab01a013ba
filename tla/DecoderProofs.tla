----------------------------- MODULE DecoderProofs -----------------------------
(***************************************************************************)
(* Theorems about what a decoder thread does: the plans that it shares     *)
(* with others, and where it looks for signals.                            *)
(*                                                                         *)
(* PlanCache, for every set of threads, parent and child, transmitters,    *)
(* builds and lengths.  Whoever is between the search of plans[] and the   *)
(* publication of a plan holds plansmu of his copy, and whoever plans      *)
(* holds the lock file.  In a copy that began with FFTW_ESTIMATE           *)
(* tx_real() changes nothing, so that a plan that was not found under      *)
(* plansmu is still missing when it is published.                          *)
(*                                                                         *)
(* SignalSearch, for every rate, length, start, band and number of         *)
(* threads.  Its indices depend on one another through five changes of     *)
(* rate, scale and origin, so that the invariant says for each stage what  *)
(* is left: of the room below and above the band when it is moved down, of *)
(* the distance to the candidate, and of the samples after the offset.     *)
(*                                                                         *)
(* Fields, for every call, locator and table of calls.  A number has one   *)
(* digit for each character of a call, and those of calls lie above those  *)
(* of words and hashes, so that the decoder reads what ft8gen has written. *)
(***************************************************************************)
EXTENDS PlanCache, SignalSearch, Fields, SequenceTheorems, TLAPS

Missing == {"lockfile", "type", "planning", "publish"}
Where   == InCall \cup {"idle", "lock", "execute"}
Plans   == [n : Nat, type : Types]

TypeOK ==
  /\ build \in [Threads -> Copies] /\ forked \in BOOLEAN /\ begun \in [Copies -> Types]
  /\ type \in [Processes -> [Copies -> Types]]
  /\ plans \in [Processes -> [Copies -> Seq(Plans)]]
  /\ master \in [Processes -> [Copies -> Processes \cup {"none"}]]
  /\ plansmu \in [Processes -> [Copies -> Threads \cup {NoThread}]]
  /\ file \in Threads \cup {NoThread}
  /\ pc \in [Threads -> Where] /\ want \in [Threads -> Nat]
  /\ kind \in [Threads -> Types] /\ otype \in [Threads -> Types]
  /\ calls \in [Threads -> Nat]

(* The mutexes of get_plan(), and a child that does not run before fork().  *)
Holders ==
  /\ \A t \in Threads : pc[t] \in InCall => Mine(plansmu, t) = t
  /\ \A t \in Threads : pc[t] \in {"type", "planning"} => file = t
  /\ ~forked => \A t \in Threads \ Parents : pc[t] = "idle"

(* A copy that began with FFTW_ESTIMATE knows nothing else.                 *)
Estimates ==
  /\ \A p \in Processes, c \in Copies : begun[c] = "estimate" =>
       /\ type[p][c] = "estimate"
       /\ \A i \in DOMAIN plans[p][c] : plans[p][c][i].type = "estimate"
  /\ \A t \in Threads : begun[build[t]] = "estimate" =>
       kind[t] = "estimate" /\ otype[t] = "estimate"

StillMissing ==
  \A t \in Threads : begun[build[t]] = "estimate" /\ pc[t] \in Missing =>
    \A i \in DOMAIN Mine(plans, t) : Mine(plans, t)[i].n # want[t]

PlanInv == TypeOK /\ Holders /\ Estimates /\ StillMissing /\ PlannedOnce
-------------------------------------------------------------------------------
(* A store to a variable of one's own copy leaves the other copies alone.   *)
LEMMA Stored ==
  ASSUME NEW S, NEW f \in [Processes -> [Copies -> S]], NEW t \in Threads, NEW x \in S,
         build[t] \in Copies
  PROVE  Set(f, t, x) \in [Processes -> [Copies -> S]]
BY DEF Set, Proc, Processes

LEMMA StoredAt ==
  ASSUME NEW f, DOMAIN f = Processes, \A p \in Processes : DOMAIN f[p] = Copies,
         NEW t \in Threads, NEW x, NEW p \in Processes, NEW c \in Copies, build[t] \in Copies
  PROVE  Set(f, t, x)[p][c] = IF p = Proc(t) /\ c = build[t] THEN x ELSE f[p][c]
BY DEF Set, Proc, Processes

LEMMA PlanInit == Init => PlanInv
<1> SUFFICES ASSUME Init PROVE PlanInv
  OBVIOUS
<1> USE PlanAssumption DEF Init
<1>1. TypeOK
  <2>2. plans \in [Processes -> [Copies -> Seq(Plans)]]
    BY DEF PerCopy
  <2>3. master \in [Processes -> [Copies -> Processes \cup {"none"}]]
    BY DEF PerCopy
  <2>4. plansmu \in [Processes -> [Copies -> Threads \cup {NoThread}]]
    BY DEF PerCopy
  <2>5. /\ build \in [Threads -> Copies] /\ forked \in BOOLEAN /\ begun \in [Copies -> Types]
        /\ type \in [Processes -> [Copies -> Types]] /\ file \in Threads \cup {NoThread}
    OBVIOUS
  <2>6. /\ pc \in [Threads -> Where] /\ want \in [Threads -> Nat]
        /\ kind \in [Threads -> Types] /\ otype \in [Threads -> Types]
        /\ calls \in [Threads -> Nat]
    BY DEF Where, Types
  <2> QED BY <2>2, <2>3, <2>4, <2>5, <2>6 DEF TypeOK
<1>2. Holders
  BY DEF Holders, InCall
<1>3. \A p \in Processes, c \in Copies : plans[p][c] = <<>> /\ type[p][c] = begun[c]
  BY DEF PerCopy
<1>4. Estimates
  BY <1>1, <1>3 DEF Estimates, TypeOK
<1>5. StillMissing
  BY DEF StillMissing, Missing
<1>6. PlannedOnce
  BY <1>3 DEF PlannedOnce
<1> QED BY <1>1, <1>2, <1>4, <1>5, <1>6 DEF PlanInv

LEMMA PlanTypes ==
  ASSUME PlanInv, [Next]_vars
  PROVE  TypeOK'
<1> USE PlanAssumption DEF TypeOK, shared, Rests, At, Goto, Where, InCall
<1>0. TypeOK /\ \A t \in Threads : Proc(t) \in Processes /\ build[t] \in Copies
  BY DEF PlanInv, Proc, Processes
<1>1. ASSUME NEW t \in Threads, Transform(t) PROVE TypeOK'
  <2>1. ASSUME NEW len \in Lengths
        PROVE  {OneFft(len), Ffts(len), OneFftC(len), OneFftCc(len), OneIfftCc(len),
                OneIfft(len \div 2 + 1)} \subseteq Nat
    BY DEF OneFft, Ffts, OneFftC, OneFftCc, OneIfftCc, OneIfft
  <2> QED BY <1>0, <1>1, <2>1 DEF Transform
<1>2. ASSUME NEW t \in Threads, Transmit(t) PROVE TypeOK'
  <2>e. "estimate" \in Types /\ Mine(type, t) \in Types
    BY <1>0 DEF Types, Mine
  <2>1. Set(type, t, "estimate") \in [Processes -> [Copies -> Types]]
    BY <1>0, <2>e, Stored
  <2> QED BY <1>0, <1>2, <2>e, <2>1 DEF Transmit, OneFftC
<1>3. ASSUME NEW t \in Threads, Lock(t) PROVE TypeOK'
  <2>1. /\ Set(plansmu, t, t) \in [Processes -> [Copies -> Threads \cup {NoThread}]]
        /\ Set(master, t, Proc(t)) \in [Processes -> [Copies -> Processes \cup {"none"}]]
    BY <1>0, Stored
  <2> QED BY <1>0, <1>3, <2>1 DEF Lock
<1>4. ASSUME NEW t \in Threads PROVE
        Set(plansmu, t, NoThread) \in [Processes -> [Copies -> Threads \cup {NoThread}]]
  BY <1>0, Stored
<1>5. ASSUME NEW t \in Threads, Hit(t) PROVE TypeOK'
  BY <1>0, <1>4, <1>5 DEF Hit
<1>6. ASSUME NEW t \in Threads, Miss(t) PROVE TypeOK'
  BY <1>0, <1>6 DEF Miss
<1>7. ASSUME NEW t \in Threads, LockFile(t) PROVE TypeOK'
  BY <1>0, <1>7 DEF LockFile
<1>8. ASSUME NEW t \in Threads, ChooseType(t) PROVE TypeOK'
  BY <1>0, <1>8 DEF ChooseType, Mine, Types
<1>9. ASSUME NEW t \in Threads, Planned(t) PROVE TypeOK'
  BY <1>0, <1>9 DEF Planned
<1>10. ASSUME NEW t \in Threads, Publish(t) PROVE TypeOK'
  <2>1. Append(Mine(plans, t), [n |-> want[t], type |-> kind[t]]) \in Seq(Plans)
    <3>1. Mine(plans, t) \in Seq(Plans)
      BY <1>0 DEF Mine
    <3>2. [n |-> want[t], type |-> kind[t]] \in Plans
      BY <1>0 DEF Plans
    <3> QED BY <3>1, <3>2
  <2>2. Set(plans, t, Append(Mine(plans, t), [n |-> want[t], type |-> kind[t]]))
          \in [Processes -> [Copies -> Seq(Plans)]]
    BY <1>0, <2>1, Stored
  <2> QED BY <1>0, <1>4, <1>10, <2>2 DEF Publish
<1>11. ASSUME NEW t \in Threads, Execute(t) PROVE TypeOK'
  <2>1. Set(type, t, otype[t]) \in [Processes -> [Copies -> Types]]
    BY <1>0, Stored
  <2> QED BY <1>0, <1>11, <2>1 DEF Execute
<1>12. CASE Fork
  BY <1>0, <1>12 DEF Fork, Processes
<1>13. CASE UNCHANGED vars
  BY <1>0, <1>13 DEF vars
<1> QED BY <1>1, <1>2, <1>3, <1>5, <1>6, <1>7, <1>8, <1>9, <1>10, <1>11, <1>12, <1>13
        DEF Next, GetPlan

LEMMA PlanHolders ==
  ASSUME PlanInv, [Next]_vars
  PROVE  Holders'
<1> USE PlanAssumption DEF Holders, shared, Rests, At, Goto, Where, InCall, Mine
<1>0. TypeOK /\ Holders /\ \A t \in Threads : Proc(t) \in Processes /\ build[t] \in Copies
  BY DEF PlanInv, TypeOK, Proc, Processes
<1>a. pc \in [Threads -> Where] /\ NoThread \notin Threads
  BY <1>0 DEF TypeOK
<1>b. ASSUME NEW t \in Threads, NEW x \in Threads \cup {NoThread}, NEW u \in Threads
      PROVE  Set(plansmu, t, x)[Proc(u)][build[u]]
               = IF Proc(u) = Proc(t) /\ build[u] = build[t] THEN x ELSE plansmu[Proc(u)][build[u]]
  <2>1. DOMAIN plansmu = Processes /\ \A p \in Processes : DOMAIN plansmu[p] = Copies
    BY <1>0 DEF TypeOK
  <2> QED BY <1>0, <2>1, StoredAt
<1>1. ASSUME NEW t \in Threads, Transform(t) PROVE Holders'
  BY <1>0, <1>a, <1>1 DEF Transform
<1>2. ASSUME NEW t \in Threads, Transmit(t) PROVE Holders'
  BY <1>0, <1>a, <1>2 DEF Transmit
<1>3. ASSUME NEW t \in Threads, Lock(t) PROVE Holders'
  BY <1>0, <1>a, <1>b, <1>3 DEF Lock
<1>4. ASSUME NEW t \in Threads, Hit(t) PROVE Holders'
  BY <1>0, <1>a, <1>b, <1>4 DEF Hit
<1>5. ASSUME NEW t \in Threads, Miss(t) PROVE Holders'
  BY <1>0, <1>a, <1>5 DEF Miss
<1>6. ASSUME NEW t \in Threads, LockFile(t) PROVE Holders'
  BY <1>0, <1>a, <1>6 DEF LockFile
<1>7. ASSUME NEW t \in Threads, ChooseType(t) PROVE Holders'
  BY <1>0, <1>a, <1>7 DEF ChooseType
<1>8. ASSUME NEW t \in Threads, Planned(t) PROVE Holders'
  BY <1>0, <1>a, <1>8 DEF Planned
<1>9. ASSUME NEW t \in Threads, Publish(t) PROVE Holders'
  <2>1. /\ plansmu' = Set(plansmu, t, NoThread) /\ pc[t] = "publish"
        /\ pc' = [pc EXCEPT ![t] = "execute"] /\ UNCHANGED <<build, forked, file>>
    BY <1>9 DEF Publish
  <2> QED BY <1>0, <1>a, <1>b, <2>1
<1>10. ASSUME NEW t \in Threads, Execute(t) PROVE Holders'
  BY <1>0, <1>a, <1>10 DEF Execute
<1>11. CASE Fork
  BY <1>0, <1>a, <1>11 DEF Fork
<1>12. CASE UNCHANGED vars
  BY <1>0, <1>12 DEF vars, Proc
<1> QED BY <1>1, <1>2, <1>3, <1>4, <1>5, <1>6, <1>7, <1>8, <1>9, <1>10, <1>11, <1>12
        DEF Next, GetPlan

(* What a step does to fftw_type, to the types of plans and to plans[].     *)
LEMMA PlansFrame ==
  ASSUME PlanInv, [Next]_vars
  PROVE  /\ build' = build /\ begun' = begun
         /\ plans' = plans \/ Fork \/ \E t \in Threads : Publish(t)
         /\ type' = type \/ Fork \/ \E t \in Threads : Transmit(t) \/ Execute(t)
         /\ kind' = kind \/ \E t \in Threads : ChooseType(t)
         /\ otype' = otype \/ \E t \in Threads : Transmit(t)
BY DEF Next, GetPlan, Transform, Transmit, Lock, Hit, Miss, LockFile, ChooseType, Planned,
   Publish, Execute, Fork, vars, shared, Rests

LEMMA PlanEstimates ==
  ASSUME PlanInv, [Next]_vars
  PROVE  Estimates'
<1> USE PlanAssumption DEF Mine
<1>0. TypeOK /\ Estimates /\ \A t \in Threads : Proc(t) \in Processes /\ build[t] \in Copies
  BY DEF PlanInv, TypeOK, Proc, Processes
<1>b. ASSUME NEW t \in Threads, NEW x, NEW p \in Processes, NEW c \in Copies
      PROVE  Set(type, t, x)[p][c] = IF p = Proc(t) /\ c = build[t] THEN x ELSE type[p][c]
  <2>1. DOMAIN type = Processes /\ \A q \in Processes : DOMAIN type[q] = Copies
    BY <1>0 DEF TypeOK
  <2> QED BY <1>0, <2>1, StoredAt
<1>c. ASSUME NEW t \in Threads, NEW x, NEW p \in Processes, NEW c \in Copies
      PROVE  Set(plans, t, x)[p][c] = IF p = Proc(t) /\ c = build[t] THEN x ELSE plans[p][c]
  <2>1. DOMAIN plans = Processes /\ \A q \in Processes : DOMAIN plans[q] = Copies
    BY <1>0 DEF TypeOK
  <2> QED BY <1>0, <2>1, StoredAt
<1>a. /\ plans \in [Processes -> [Copies -> Seq(Plans)]]
      /\ \A t \in Threads : otype[t] \in Types /\ [n |-> want[t], type |-> kind[t]] \in Plans
  BY <1>0 DEF TypeOK, Plans
<1>1. ASSUME NEW p \in Processes, NEW c \in Copies, begun[c] = "estimate"
      PROVE  type'[p][c] = "estimate"
  <2>1. CASE Fork
    BY <1>0, <1>1, <2>1 DEF Fork, TypeOK, Processes, Estimates
  <2>2. ASSUME NEW t \in Threads, Transmit(t) PROVE type'[p][c] = "estimate"
    <3>1. type' = Set(type, t, "estimate") /\ "estimate" \in Types
      BY <2>2 DEF Transmit, Types
    <3>2. type'[p][c] = IF p = Proc(t) /\ c = build[t] THEN "estimate" ELSE type[p][c]
      BY <1>b, <3>1
    <3> QED BY <1>0, <1>1, <3>2 DEF Estimates
  <2>3. ASSUME NEW t \in Threads, Execute(t) PROVE type'[p][c] = "estimate"
    <3>1. type' = Set(type, t, otype[t]) \/ type' = type
      BY <2>3 DEF Execute
    <3>2. Set(type, t, otype[t])[p][c]
            = IF p = Proc(t) /\ c = build[t] THEN otype[t] ELSE type[p][c]
      BY <1>b
    <3> QED BY <1>0, <1>1, <3>1, <3>2 DEF Estimates
  <2> QED BY <1>0, <1>1, <2>1, <2>2, <2>3, PlansFrame DEF Estimates
<1>2. ASSUME NEW p \in Processes, NEW c \in Copies, begun[c] = "estimate",
             NEW i \in DOMAIN plans'[p][c]
      PROVE  plans'[p][c][i].type = "estimate"
  <2>1. CASE Fork
    BY <1>0, <1>2, <2>1 DEF Fork, TypeOK, Processes, Estimates
  <2>2. ASSUME NEW t \in Threads, Publish(t) PROVE plans'[p][c][i].type = "estimate"
    <3> DEFINE new == [n |-> want[t], type |-> kind[t]]
    <3>1. plans' = Set(plans, t, Append(Mine(plans, t), new))
      BY <2>2 DEF Publish
    <3>2. Mine(plans, t) \in Seq(Plans) /\ new \in Plans
      BY <1>0, <1>a
    <3>3. Append(Mine(plans, t), new) \in Seq(Plans)
      BY <3>2
    <3>4. plans'[p][c] = IF p = Proc(t) /\ c = build[t] THEN Append(Mine(plans, t), new) ELSE plans[p][c]
      BY <1>c, <3>1
    <3>5. CASE p = Proc(t) /\ c = build[t]
      <4>1. \/ plans'[p][c][i] = new
            \/ i \in DOMAIN plans[p][c] /\ plans'[p][c][i] = plans[p][c][i]
        BY <1>2, <3>2, <3>4, <3>5
      <4> QED BY <1>0, <1>2, <3>5, <4>1 DEF Estimates
    <3> QED BY <1>0, <1>2, <3>4, <3>5 DEF Estimates
  <2> QED BY <1>0, <1>2, <2>1, <2>2, PlansFrame DEF Estimates
<1>3. ASSUME NEW t \in Threads, begun[build[t]] = "estimate"
      PROVE  kind'[t] = "estimate" /\ otype'[t] = "estimate"
  <2>1. Mine(type, t) = "estimate"
    BY <1>0, <1>3 DEF Estimates
  <2>2. ASSUME NEW u \in Threads, ChooseType(u) PROVE kind'[t] = "estimate"
    BY <1>0, <1>3, <2>1, <2>2 DEF ChooseType, Estimates, TypeOK
  <2>3. ASSUME NEW u \in Threads, Transmit(u) PROVE otype'[t] = "estimate"
    BY <1>0, <1>3, <2>1, <2>3 DEF Transmit, Estimates, TypeOK
  <2> QED BY <1>0, <1>3, <2>2, <2>3, PlansFrame DEF Estimates
<1> QED BY <1>1, <1>2, <1>3, PlansFrame DEF Estimates

(* A thread comes to make a plan by not finding it.                         *)
LEMMA WaysToMiss ==
  ASSUME PlanInv, [Next]_vars, NEW t \in Threads, pc'[t] \in Missing
  PROVE  want'[t] = want[t] /\ (pc[t] \in Missing \/ Miss(t))
<1> USE DEF shared, Rests, At, Goto, Where, InCall, Missing
<1>a. pc \in [Threads -> Where] /\ want \in [Threads -> Nat]
  BY DEF PlanInv, TypeOK
<1>1. ASSUME NEW u \in Threads, Transform(u) \/ Transmit(u)
      PROVE  want'[t] = want[t] /\ pc[t] \in Missing
  <2>1. /\ pc' = [pc EXCEPT ![u] = "lock"]
        /\ \E n : want' = [want EXCEPT ![u] = n]
    BY <1>1 DEF Transform, Transmit
  <2> QED BY <1>a, <2>1
<1>2. ASSUME NEW u \in Threads, Lock(u) \/ Hit(u) \/ Publish(u) \/ Execute(u)
      PROVE  want'[t] = want[t] /\ pc[t] \in Missing
  BY <1>a, <1>2 DEF Lock, Hit, Publish, Execute
<1>3. ASSUME NEW u \in Threads, Miss(u)
      PROVE  want'[t] = want[t] /\ (u = t \/ pc[t] \in Missing)
  BY <1>a, <1>3 DEF Miss
<1>4. ASSUME NEW u \in Threads, LockFile(u) \/ ChooseType(u) \/ Planned(u)
      PROVE  want'[t] = want[t] /\ pc[t] \in Missing
  BY <1>a, <1>4 DEF LockFile, ChooseType, Planned
<1>5. CASE Fork \/ UNCHANGED vars
  BY <1>5 DEF Fork, vars
<1> QED BY <1>1, <1>2, <1>3, <1>4, <1>5 DEF Next, GetPlan

(* What Publish() does to the plans of a copy.                              *)
LEMMA Published ==
  ASSUME PlanInv, NEW t \in Threads, Publish(t), NEW p \in Processes, NEW c \in Copies
  PROVE  plans'[p][c] = IF p = Proc(t) /\ c = build[t]
                          THEN Append(plans[p][c], [n |-> want[t], type |-> kind[t]])
                          ELSE plans[p][c]
<1>1. /\ DOMAIN plans = Processes /\ \A q \in Processes : DOMAIN plans[q] = Copies
      /\ build[t] \in Copies
  BY DEF PlanInv, TypeOK
<1>2. plans' = Set(plans, t, Append(plans[Proc(t)][build[t]], [n |-> want[t], type |-> kind[t]]))
  BY DEF Publish, Mine
<1> QED BY <1>1, <1>2, StoredAt

LEMMA PlanMissing ==
  ASSUME PlanInv, [Next]_vars
  PROVE  StillMissing'
<1>0. /\ TypeOK /\ Holders /\ Estimates /\ StillMissing
      /\ \A t \in Threads : Proc(t) \in Processes /\ build[t] \in Copies
      /\ build' = build /\ begun' = begun
  BY PlansFrame DEF PlanInv, TypeOK, Proc, Processes
<1> SUFFICES ASSUME NEW t \in Threads, begun[build[t]] = "estimate", pc'[t] \in Missing,
                    NEW i \in DOMAIN plans'[Proc(t)][build[t]]
             PROVE  plans'[Proc(t)][build[t]][i].n # want'[t]
  BY <1>0 DEF StillMissing, Mine, Proc
<1> DEFINE mine == plans[Proc(t)][build[t]]
<1>1. mine \in Seq(Plans)
  BY <1>0 DEF TypeOK
<1>2. \A j \in DOMAIN mine : mine[j].n # want[t]
  <2>1. CASE pc[t] \in Missing
    BY <1>0, <2>1 DEF StillMissing, Mine
  <2>2. CASE Miss(t)
    <3>1. \A j \in DOMAIN mine : mine[j] # [n |-> want[t], type |-> type[Proc(t)][build[t]]]
      BY <2>2 DEF Miss, Cached, Mine
    <3>2. /\ type[Proc(t)][build[t]] = "estimate"
          /\ \A j \in DOMAIN mine : mine[j].type = "estimate"
      BY <1>0 DEF Estimates
    <3>3. \A j \in DOMAIN mine : mine[j] \in Plans
      BY <1>1
    <3> QED BY <3>1, <3>2, <3>3 DEF Plans
  <2> QED BY <2>1, <2>2, WaysToMiss
<1>3. want'[t] = want[t]
  BY WaysToMiss
<1>4. CASE plans' = plans
  BY <1>2, <1>3, <1>4
<1>5. CASE Fork
  <2>1. pc' = pc /\ ~forked /\ plans' = [plans EXCEPT !["child"] = plans["parent"]]
    BY <1>5 DEF Fork
  <2>2. Proc(t) = "parent"
    <3>1. pc[t] # "idle"
      BY <2>1 DEF Missing
    <3> QED BY <1>0, <2>1, <3>1 DEF Holders, Proc
  <2> QED BY <1>0, <1>2, <1>3, <2>1, <2>2 DEF TypeOK
<1>6. ASSUME NEW u \in Threads, Publish(u)
      PROVE  plans'[Proc(t)][build[t]][i].n # want'[t]
  <2>1. pc[u] = "publish" /\ pc' = [pc EXCEPT ![u] = "execute"]
    BY <1>6 DEF Publish, At, Goto
  <2>2. u # t /\ pc[t] \in InCall
    <3>1. u # t
      BY <1>0, <2>1 DEF TypeOK, Missing
    <3>2. pc[t] = pc'[t]
      BY <1>0, <2>1, <3>1 DEF TypeOK
    <3> QED BY <3>1, <3>2 DEF InCall, Missing
  <2>3. ~(Proc(t) = Proc(u) /\ build[t] = build[u])
    BY <1>0, <2>1, <2>2 DEF Holders, InCall, Mine
  <2>4. plans'[Proc(t)][build[t]] = mine
    BY <1>0, <1>6, <2>3, Published
  <2> QED BY <1>2, <1>3, <2>4
<1> QED BY <1>4, <1>5, <1>6, PlansFrame

LEMMA PlannedOnceKept ==
  ASSUME PlanInv, [Next]_vars
  PROVE  PlannedOnce'
<1>0. /\ TypeOK /\ Estimates /\ StillMissing /\ PlannedOnce /\ begun' = begun
      /\ \A t \in Threads : Proc(t) \in Processes /\ build[t] \in Copies
  BY PlansFrame DEF PlanInv, TypeOK, Proc, Processes
<1> SUFFICES ASSUME NEW p \in Processes, NEW c \in Copies, begun[c] = "estimate",
                    NEW i \in DOMAIN plans'[p][c], NEW j \in DOMAIN plans'[p][c],
                    plans'[p][c][i].n = plans'[p][c][j].n
             PROVE  i = j
  BY <1>0 DEF PlannedOnce
<1>1. CASE plans' = plans
  BY <1>0, <1>1 DEF PlannedOnce
<1>2. CASE Fork
  BY <1>0, <1>2 DEF Fork, TypeOK, Processes, PlannedOnce
<1>3. ASSUME NEW t \in Threads, Publish(t)
      PROVE  i = j
  <2>1. CASE p = Proc(t) /\ c = build[t]
    <3>1. PICK w \in Seq(Plans) : w = plans[p][c]
      BY <1>0 DEF TypeOK
    <3>2. PICK x \in Plans : x = [n |-> want[t], type |-> kind[t]]
      BY <1>0 DEF TypeOK, Plans
    <3>3. plans'[p][c] = Append(w, x)
      BY <1>3, <2>1, <3>1, <3>2, Published
    <3>4. \A k \in DOMAIN w : w[k].n # x.n
      BY <1>0, <1>3, <2>1, <3>1, <3>2 DEF StillMissing, Mine, Publish, At, Missing
    <3>5. \A k, l \in DOMAIN w : w[k].n = w[l].n => k = l
      BY <1>0, <3>1 DEF PlannedOnce
    <3>6. ASSUME NEW k \in DOMAIN Append(w, x)
          PROVE  \/ (k \in DOMAIN w /\ Append(w, x)[k] = w[k])
                 \/ (k = Len(w) + 1 /\ Append(w, x)[k] = x)
      OBVIOUS
    <3> QED BY <3>3, <3>4, <3>5, <3>6
  <2>2. CASE ~(p = Proc(t) /\ c = build[t])
    <3>1. plans'[p][c] = IF p = Proc(t) /\ c = build[t]
                          THEN Append(plans[p][c], [n |-> want[t], type |-> kind[t]])
                          ELSE plans[p][c]
      BY <1>3, Published
    <3> QED BY <1>0, <2>2, <3>1 DEF PlannedOnce
  <2> QED BY <2>1, <2>2
<1> QED BY <1>1, <1>2, <1>3, PlansFrame

(* The inductive invariant: plansmu and the lock file have the holders that *)
(* the places of the threads in get_plan() say, and what a thread did not   *)
(* find in plans[] is missing until it publishes it.                        *)
THEOREM PlanInvariant == Spec => []PlanInv
<1>1. PlanInv /\ [Next]_vars => PlanInv'
  BY PlanTypes, PlanHolders, PlanEstimates, PlanMissing, PlannedOnceKept DEF PlanInv
<1> QED BY PlanInit, <1>1, PTL DEF Spec

(* The planner of FFTW, which is not thread-safe, has one caller at a time  *)
(* (get_plan() takes the lock file even when it has plansmu: there may be   *)
(* two copies of plansmu).                                                  *)
THEOREM OnePlanner == Spec => []PlannerAlone
<1>1. PlanInv => PlannerAlone
  BY DEF PlanInv, Holders, PlannerAlone, At
<1> QED BY <1>1, PlanInvariant, PTL

(* A copy of fft.cc that began with FFTW_ESTIMATE makes one plan for each   *)
(* size: get_plan() searches plans[] and adds to it under one mutex, and    *)
(* what tx_real() stores in fftw_type is what is there.                     *)
THEOREM SizesPlannedOnce == Spec => []PlannedOnce
<1>1. PlanInv => PlannedOnce
  BY DEF PlanInv
<1> QED BY <1>1, PlanInvariant, PTL
-------------------------------------------------------------------------------
(* SignalSearch: the types, and what each stage keeps of the candidate.     *)

Place == [hz : Int, off : Nat]

SearchTypes ==
  /\ stage \in {"reduce", "pad", "coarse", "search", "adjust", "known", "call", "subtract", "done"}
  /\ input \in Inputs /\ thread \in 0 .. NThreads - 1
  /\ lo \in Int /\ hi \in Int /\ rate \in Nat \ {0} /\ size \in Nat /\ start \in Nat
  /\ down \in Nat /\ moved = down /\ held \in BOOLEAN
  /\ cand \in Place /\ best \in Place /\ report \in Place

(* A symbol is a whole number of samples at every rate that is used.        *)
Hundreds == \E q \in Nat \ {0} : rate = 100 * q

(* The coarse grid is a whole number of samples at 200 a second too; up to  *)
(* "known" best_off counts those.                                           *)
OnGrid ==
  \E k \in Nat :
    /\ cand.off = (rate \div 100) * (4 * k)
    /\ stage = "adjust" => -16 <= best.off - 8 * k /\ best.off - 8 * k <= 16
    /\ stage = "known" => -18 <= best.off - 8 * k /\ best.off - 8 * k <= 18

Within(x, d) == -d <= x /\ x <= d

AwayHz ==
  /\ stage = "adjust" => Within(best.hz - Hz(25), 840)
  /\ stage = "known" => Within(best.hz - Hz(25), 840 + 374)
  /\ stage = "call" => Within(best.hz - cand.hz, 840 + 374 + 60)

Apart(a, b) == IF a - b < 0 THEN -(a - b) ELSE a - b

AwayOff == stage = "call" => 200 * Apart(best.off, cand.off) <= 18 * rate + 200 * (OffWin + 2)

NotYet == (stage \notin {"subtract", "done"} => report = Nothing)
          /\ (stage \in {"reduce", "pad", "coarse"} => cand = Nothing /\ best = Nothing)

(* Until the rate is reduced everything is as entry() has set it.           *)
AsEntered ==
  stage = "reduce" =>
    /\ rate = input[1] /\ size = Trimmed(input[2]) /\ start = input[3] /\ down = 0
    /\ lo = BandOf(thread, input[1])[1] /\ hi = BandOf(thread, input[1])[2]

WhereInv == SearchTypes /\ Hundreds /\ AsEntered /\ OnGrid /\ AwayHz /\ AwayOff
            /\ NotYet /\ ReportedWhereFound

(* Every thread's part of the band, moved or not, leaves room below the     *)
(* lowest tone and above the highest for all that the searches add.         *)
Given == /\ lo + moved = BandOf(thread, input[1])[1]
         /\ hi + moved = BandOf(thread, input[1])[2]

Margins == 1500 <= lo /\ hi + 12839 < 120 * rate /\ rate >= 200

Extended == stage \notin {"reduce", "pad"} => start + (24 * rate) \div 10 + 79 * Block(rate) <= size

InBand == stage \notin {"reduce", "pad", "coarse"} => 1500 <= cand.hz /\ cand.hz + 375 <= hi

(* A signal has 79 symbols of 32 samples at 200 a second.                   *)
InSamples ==
  /\ stage = "adjust" => best.off + 79 * 32 + 32 <= Size200
  /\ stage = "known" => best.off + 79 * 32 + 30 <= Size200
  /\ stage \in {"call", "subtract"} => best.off < size /\ best.hz >= 0

RoomInv == Given /\ Margins /\ Extended /\ InBand /\ InSamples /\ InRange
-------------------------------------------------------------------------------
LEMMA Division ==
  ASSUME NEW x \in Int, NEW d \in Nat \ {0}
  PROVE  /\ x \div d \in Int /\ x % d \in 0 .. d - 1
         /\ d * (x \div d) \in Int /\ x = d * (x \div d) + (x % d)
<1>1. x \div d \in Int /\ x % d \in 0 .. d - 1
  OBVIOUS
<1>2. d * (x \div d) \in Int
  BY <1>1
<1>3. x = d * (x \div d) + (x % d)
  OBVIOUS
<1> QED BY <1>1, <1>2, <1>3

LEMMA Divided ==
  ASSUME NEW x \in Int, NEW d \in Nat \ {0}
  PROVE  \E p \in Int, r \in 0 .. d - 1 : p = x \div d /\ d * p \in Int /\ x = d * p + r
BY Division

(* The quotient is the number with this property.                           *)
LEMMA QuotientIs ==
  ASSUME NEW x \in Int, NEW d \in Nat \ {0}, NEW p \in Int, NEW r \in 0 .. d - 1, x = d * p + r
  PROVE  x \div d = p
<1>1. PICK s \in Int, t \in 0 .. d - 1 : s = x \div d /\ d * s \in Int /\ x = d * s + t
  BY Division
<1>2. d * p \in Int /\ d * (p + 1) \in Int /\ d * (p + 1) = d * p + d
  OBVIOUS
<1>3. d * (s + 1) \in Int /\ d * (s + 1) = d * s + d
  OBVIOUS
<1>4. ASSUME s + 1 <= p PROVE FALSE
  <2>1. d * (s + 1) <= d * p
    BY <1>4
  <2> QED BY <2>1, <1>1, <1>2, <1>3
<1>5. ASSUME p + 1 <= s PROVE FALSE
  <2>1. d * (p + 1) <= d * s
    BY <1>5
  <2> QED BY <2>1, <1>1, <1>2, <1>3
<1> QED BY <1>1, <1>4, <1>5

(* Rounding: the result is half a unit away at most.                        *)
LEMMA Rounded ==
  ASSUME NEW a \in Nat, NEW b \in Nat \ {0}
  PROVE  /\ RoundDiv(a, b) \in Nat /\ b * RoundDiv(a, b) \in Int
         /\ 2 * (b * RoundDiv(a, b)) <= 2*a + b /\ 2*a + b < 2 * (b * RoundDiv(a, b)) + 2*b
<1>1. PICK p \in Int : p = (2*a + b) \div (2*b)
  BY Division
<1>2. PICK r \in 0 .. 2*b - 1 : (2*b) * p \in Int /\ 2*a + b = (2*b) * p + r
  <2>1. 2*b \in Nat \ {0} /\ 2*a + b \in Int
    OBVIOUS
  <2>2. /\ (2*a + b) % (2*b) \in 0 .. 2*b - 1 /\ (2*b) * ((2*a + b) \div (2*b)) \in Int
        /\ 2*a + b = (2*b) * ((2*a + b) \div (2*b)) + ((2*a + b) % (2*b))
    BY <2>1, Division
  <2> QED BY <1>1, <2>2
<1>3. RoundDiv(a, b) = p
  BY <1>1 DEF RoundDiv
<1>4. b * p \in Int /\ (2*b) * p = 2 * (b * p)
  OBVIOUS
<1>5. p >= 0
  <2> SUFFICES ASSUME p + 1 <= 0 PROVE FALSE
    OBVIOUS
  <2>1. (2*b) * (p + 1) <= 0 /\ (2*b) * (p + 1) = (2*b) * p + 2*b
    OBVIOUS
  <2> QED BY <2>1, <1>2
<1> QED BY <1>2, <1>3, <1>4, <1>5

LEMMA RoundedMultiple ==
  ASSUME NEW m \in Nat, NEW b \in Nat \ {0}
  PROVE  RoundDiv(b * m, b) = m
<1>1. b * m \in Nat /\ 2 * (b * m) + b = (2*b) * m + b
  OBVIOUS
<1>2. (2 * (b * m) + b) \div (2*b) = m
  BY <1>1, QuotientIs
<1> QED BY <1>1, <1>2 DEF RoundDiv

LEMMA RoundedHalf ==
  ASSUME NEW a \in Nat
  PROVE  RoundDiv(a, 2) \in Nat /\ a <= 2 * RoundDiv(a, 2) /\ 2 * RoundDiv(a, 2) <= a + 1
BY DEF RoundDiv

LEMMA Blocks ==
  ASSUME NEW q \in Nat \ {0}
  PROVE  /\ (100 * q) \div 100 = q /\ Block(100 * q) = 16 * q /\ Block(100 * q) \div 4 = 4 * q
         /\ Block(100 * q) \div 2 = 8 * q
BY DEF Block

LEMMA Windows ==
  ASSUME rate \in Nat \ {0}
  PROVE  OffWin \in Nat \ {0} /\ OffInc \in Nat \ {0}
<1>1. Block(rate) \in Nat
  BY DEF Block
<1>2. OffWin \in Nat \ {0}
  BY <1>1 DEF OffWin, Larger
<1> QED BY <1>2 DEF OffInc, Larger

LEMMA InputIs ==
  ASSUME NEW i \in Inputs
  PROVE  /\ i[1] \in Nat \ {0} /\ i[2] \in Nat /\ i[3] \in Nat
         /\ Trimmed(i[2]) \in Nat \ {0}
         /\ \E q \in Nat \ {0} : i[1] = 100 * q
<1>1. i \in Nat \X Nat \X Nat /\ i[1] > 0 /\ i[1] % 100 = 0 /\ Trimmed(i[2]) \in Nat \ {0}
  BY SearchAssumption
<1>2. i[1] = 100 * (i[1] \div 100) /\ i[1] \div 100 \in Nat \ {0}
  BY <1>1
<1> QED BY <1>1, <1>2

LEMMA BandIs ==
  ASSUME NEW i \in 0 .. NThreads - 1, NEW r \in Nat
  PROVE  /\ Top(r) \in Int /\ Per(r) \in Int /\ i * Per(r) \in Int /\ (i + 1) * Per(r) \in Int
         /\ BandOf(i, r)[1] \in Int /\ BandOf(i, r)[2] \in Int
<1>1. MinHz \in Nat /\ MaxHz \in Nat /\ NThreads \in Nat \ {0}
  BY SearchAssumption
<1>2. Top(r) \in Int
  BY <1>1 DEF Top, Smaller, Hz
<1>3. Per(r) \in Int
  BY <1>1, <1>2 DEF Per, Hz
<1>4. i \in Int /\ i * Per(r) \in Int /\ (i + 1) * Per(r) \in Int
  BY <1>1, <1>3
<1>5. BandOf(i, r)[1] \in Int
  BY <1>1, <1>4 DEF BandOf, Larger, Hz
<1>6. BandOf(i, r)[2] \in Int
  BY <1>1, <1>4 DEF BandOf, Smaller, Hz
<1> QED BY <1>2, <1>3, <1>4, <1>5, <1>6

LEMMA WhereInit == SearchInit => WhereInv
<1> SUFFICES ASSUME SearchInit PROVE WhereInv
  OBVIOUS
<1>1. input \in Inputs /\ thread \in 0 .. NThreads - 1
  BY DEF SearchInit
<1>2. rate \in Nat \ {0} /\ size \in Nat /\ start \in Nat /\ Hundreds
  BY <1>1, InputIs DEF SearchInit, Hundreds
<1>3. lo \in Int /\ hi \in Int
  BY <1>1, <1>2, BandIs DEF SearchInit
<1>4. held \in BOOLEAN
  BY DEF SearchInit
<1>5. stage = "reduce" /\ cand = Nothing /\ best = Nothing /\ report = Nothing /\ down = 0 /\ moved = 0
  BY DEF SearchInit
<1>6. Nothing \in Place /\ Nothing.off = 0
  BY DEF Nothing, Place
<1>7. SearchTypes
  BY <1>1, <1>2, <1>3, <1>4, <1>5, <1>6 DEF SearchTypes
<1>8. OnGrid
  <2>1. rate \div 100 \in Int
    BY <1>2
  <2>2. (rate \div 100) * (4 * 0) = 0
    BY <2>1
  <2> QED BY <1>5, <1>6, <2>2 DEF OnGrid
<1>9. AsEntered
  BY DEF SearchInit, AsEntered
<1> QED BY <1>2, <1>5, <1>7, <1>8, <1>9 DEF WhereInv, AwayHz, AwayOff, NotYet, ReportedWhereFound
-------------------------------------------------------------------------------
(* reduce_rate(), its terms by name.                                        *)
Mid     == (Larger(0, lo - 1584) + Smaller(120 * rate, hi + 12096)) \div 2
OneBin  == Hz(rate) \div size
Delta(b) == Mid \div OneBin - (Hz(b) \div 4) \div OneBin
Bins(b) == RoundDiv(size * (b \div 100), rate \div 100)

LEMMA ReductionHas ==
  ASSUME NEW b
  PROVE  /\ Reduction(b).hz = Delta(b) * OneBin /\ Reduction(b).delta = Delta(b)
         /\ Reduction(b).size = 2 * (Bins(b) \div 2)
         /\ Reduction(b).touched = {<<(Bins(b) \div 2) + Larger(Delta(b), 0), size \div 2 + 1>>}
BY DEF Reduction, Mid, OneBin, Delta, Bins

(* The bins of the first transform are a whole number of units wide.        *)
LEMMA WholeBins ==
  ASSUME SearchTypes, AsEntered, stage = "reduce"
  PROVE  /\ size \in Nat \ {0} /\ OneBin \in Nat \ {0} /\ size * OneBin = 240 * rate
         /\ Hz(rate) = 240 * rate
<1>1. input \in Inputs /\ rate = input[1] /\ size = Trimmed(input[2]) /\ rate \in Nat \ {0}
  BY DEF SearchTypes, AsEntered
<1>2. size \in Nat \ {0} /\ Hz(rate) % size = 0
  BY <1>1, SearchAssumption
<1>3. PICK x \in Nat \ {0} : x = Hz(rate) /\ x = 240 * rate
  BY <1>1 DEF Hz
<1>4. x \div size \in Int /\ size * (x \div size) \in Int /\ x = size * (x \div size) + (x % size)
  <2>1. x \in Int /\ size \in Nat \ {0}
    BY <1>2, <1>3
  <2> QED BY ONLY <2>1, Division
<1>5. PICK y \in Int : y = x \div size /\ x = size * y
  <2>1. x % size = 0
    BY <1>2, <1>3
  <2> QED BY <1>4, <2>1
<1>6. y > 0
  <2> SUFFICES ASSUME y <= 0 PROVE FALSE
    BY <1>5
  <2>1. size * y <= 0
    BY <1>2
  <2> QED BY <2>1, <1>3, <1>5
<1> QED BY <1>2, <1>3, <1>5, <1>6 DEF OneBin

LEMMA ReductionIs ==
  ASSUME SearchTypes, Hundreds, AsEntered, stage = "reduce", NEW b \in WideRates
  PROVE  /\ b \in Nat \ {0} /\ b < rate /\ \E k \in Nat \ {0} : b = 100 * k
         /\ Mid \in Int /\ Delta(b) \in Int /\ Reduction(b).hz \in Int
         /\ Bins(b) \in Nat /\ Reduction(b).size \in Nat
<1>1. PICK q \in Nat \ {0} : rate = 100 * q
  BY DEF Hundreds
<1>2. PICK k \in 1 .. (rate - 1) \div 100 : b = 100 * k
  BY DEF WideRates
<1>3. k \in Nat \ {0} /\ b \in Nat \ {0} /\ b < rate
  BY <1>1, <1>2
<1>4. Mid \in Int
  <2>1. Larger(0, lo - 1584) \in Int /\ Smaller(120 * rate, hi + 12096) \in Int
    BY DEF SearchTypes, Larger, Smaller
  <2> QED BY <2>1 DEF Mid
<1>5. size \in Nat \ {0} /\ OneBin \in Nat \ {0}
  BY WholeBins
<1>6. Delta(b) \in Int
  <2>1. Mid \div OneBin \in Int
    BY <1>4, <1>5, Division
  <2>2. Hz(b) \div 4 \in Int
    BY <1>3 DEF Hz
  <2>3. (Hz(b) \div 4) \div OneBin \in Int
    BY <2>2, <1>5, Division
  <2> QED BY <2>1, <2>3 DEF Delta
<1>7. Bins(b) \in Nat
  <2>1. b \div 100 \in Nat /\ rate \div 100 \in Nat \ {0}
    BY <1>1, <1>2, <1>3
  <2>2. size * (b \div 100) \in Nat
    BY <2>1, <1>5
  <2> QED BY <2>1, <2>2, Rounded DEF Bins
<1>8. Delta(b) * OneBin \in Int
  BY <1>5, <1>6
<1>9. 2 * (Bins(b) \div 2) \in Nat
  BY <1>7
<1> QED BY <1>2, <1>3, <1>4, <1>6, <1>7, <1>8, <1>9, ReductionHas

LEMMA WhereReduce == WhereInv /\ Reduce => WhereInv'
<1> SUFFICES ASSUME WhereInv, Reduce PROVE WhereInv'
  OBVIOUS
<1> USE DEF WhereInv
<1>1. /\ stage = "reduce" /\ stage' = "pad" /\ input' = input /\ thread' = thread
      /\ cand' = cand /\ best' = best /\ report' = report
  BY DEF Reduce, pos
<1>2. /\ rate' \in Nat \ {0} /\ (\E q \in Nat \ {0} : rate' = 100 * q) /\ lo' \in Int /\ hi' \in Int
      /\ size' \in Nat /\ start' \in Nat /\ down' \in Nat /\ moved' = down' /\ held' \in BOOLEAN
  <2>1. CASE \E x \in WideRates : 4 * x < 3 * rate
    <3>1. PICK b \in WideRates :
            LET r  == Reduction(b)
                by == Larger(r.hz, 0)
            IN
             /\ rate' = b /\ size' = r.size
             /\ start' = RoundDiv(start * (b \div 100), rate \div 100)
             /\ down' = by /\ moved' = by /\ lo' = lo - by /\ hi' = hi - by
             /\ held' = (held /\ r.held /\ hi' + Hz(50) < Hz(b) \div 2 /\ lo' >= 0)
      BY <2>1 DEF Reduce
    <3>2. /\ b \in Nat \ {0} /\ \E k \in Nat \ {0} : b = 100 * k
          /\ Reduction(b).hz \in Int /\ Reduction(b).size \in Nat
      BY <1>1, ReductionIs
    <3>3. Larger(Reduction(b).hz, 0) \in Nat
      BY <3>2 DEF Larger
    <3>4. RoundDiv(start * (b \div 100), rate \div 100) \in Nat
      <4>1. b \div 100 \in Nat /\ rate \div 100 \in Nat \ {0}
        BY <3>2 DEF Hundreds
      <4>2. start * (b \div 100) \in Nat
        BY <4>1 DEF SearchTypes
      <4> QED BY <4>1, <4>2, Rounded
    <3>5. lo' \in Int /\ hi' \in Int
      BY <3>1, <3>3 DEF SearchTypes
    <3> QED BY <3>1, <3>2, <3>3, <3>4, <3>5
  <2>2. CASE ~ \E x \in WideRates : 4 * x < 3 * rate
    <3>1. UNCHANGED <<rate, size, start, down, moved, lo, hi, held>>
      BY <2>2 DEF Reduce
    <3> QED BY <3>1 DEF SearchTypes, Hundreds
  <2> QED BY <2>1, <2>2
<1>3. SearchTypes' /\ Hundreds'
  BY <1>1, <1>2 DEF SearchTypes, Hundreds
<1>4. OnGrid'
  <2>1. cand'.off = 0
    BY <1>1 DEF NotYet, Nothing
  <2>2. rate' \div 100 \in Int /\ (rate' \div 100) * (4 * 0) = 0
    BY <1>2
  <2> QED BY <1>1, <2>1, <2>2 DEF OnGrid
<1> QED BY <1>1, <1>3, <1>4 DEF AsEntered, AwayHz, AwayOff, NotYet, ReportedWhereFound
-------------------------------------------------------------------------------
LEMMA WherePad == WhereInv /\ Pad => WhereInv'
<1> SUFFICES ASSUME WhereInv, Pad PROVE WhereInv'
  OBVIOUS
<1> USE DEF WhereInv
<1>1. /\ stage = "pad" /\ stage' = "coarse" /\ UNCHANGED <<input, thread, lo, hi, rate, start>>
      /\ UNCHANGED <<down, moved, held, cand, best, report>>
  BY DEF Pad, pos
<1>2. size' \in Nat
  <2>1. PICK last \in Int : last = start + (24 * rate) \div 10 + 79 * Block(rate)
    BY DEF SearchTypes, Block
  <2> DEFINE n == last - size
  <2>2. rate \in Nat \ {0} /\ size \in Nat
    BY DEF SearchTypes
  <2>3. n > 0 => rate * ((n + rate - 1) \div rate) \in Nat
    <3>1. SUFFICES ASSUME n > 0 PROVE rate * ((n + rate - 1) \div rate) \in Nat
      OBVIOUS
    <3>2. n + rate - 1 \in Nat
      BY <2>2, <3>1
    <3>3. PICK d \in Int, m \in 0 .. rate - 1 :
            d = (n + rate - 1) \div rate /\ rate * d \in Int /\ n + rate - 1 = rate * d + m
      BY <2>2, <3>2, Division
    <3> QED BY <2>2, <3>1, <3>3
  <2>4. n \in Int
    BY <2>1, <2>2
  <2>5. size' = IF last + Block(rate) <= size \/ n = 0 THEN size
                ELSE size + (IF n < 0 THEN rate ELSE rate * ((n + rate - 1) \div rate))
    BY <2>1 DEF Pad
  <2> HIDE DEF n
  <2> QED BY <2>2, <2>3, <2>4, <2>5
<1>3. SearchTypes' /\ Hundreds'
  BY <1>1, <1>2 DEF SearchTypes, Hundreds
<1> QED BY <1>1, <1>3 DEF OnGrid, AsEntered, AwayHz, AwayOff, NotYet, ReportedWhereFound
-------------------------------------------------------------------------------
LEMMA GridIs ==
  ASSUME SearchTypes, NEW q \in Nat \ {0}, rate = 100 * q, NEW f \in {0, 3}
  PROVE  FirstSym \in Nat /\ LastSym(f) \in Int /\ FirstBin \in Int /\ LastBin \in Int
<1>1. /\ start \in Nat /\ size \in Nat /\ rate \in Nat \ {0} /\ lo \in Int /\ hi \in Int
      /\ Block(rate) = 16 * q /\ 16 * q \in Nat \ {0} /\ Block(rate) \div 4 = 4 * q
      /\ Block(rate) \div 2 = 8 * q
  BY Blocks DEF SearchTypes
<1>2. FirstSym \in Nat
  <2>1. PICK a \in Int : a = start - (22 * rate) \div 10
    BY <1>1
  <2>2. a >= 0 => a \div (16 * q) \in Int
    BY <2>1, <1>1, Division
  <2>3. (-a) \in Int /\ (-a) \div (16 * q) \in Int
    BY <2>1, <1>1, Division
  <2>4. TruncDiv(a, 16 * q) \in Int
    BY <2>2, <2>3 DEF TruncDiv
  <2> QED BY <2>1, <2>4, <1>1 DEF FirstSym, Larger
<1>3. LastSym(f) \in Int
  <2>1. PICK a \in Int : a = start + (24 * rate) \div 10
    BY <1>1
  <2>2. PICK c \in Int : c = size - f * (4 * q)
    BY <1>1
  <2>3. a \div (16 * q) \in Int /\ c \div (16 * q) \in Int
    BY <2>1, <2>2, <1>1, Division
  <2> QED BY <2>1, <2>2, <2>3, <1>1 DEF LastSym, Smaller
<1>4. FirstBin \in Int /\ LastBin \in Int
  BY <1>1 DEF FirstBin, LastBin, Smaller, Bin
<1> QED BY <1>2, <1>3, <1>4

LEMMA WhereCoarse == WhereInv /\ Coarse => WhereInv'
<1> SUFFICES ASSUME WhereInv, Coarse PROVE WhereInv'
  OBVIOUS
<1> USE DEF WhereInv
<1>1. /\ stage = "coarse" /\ stage' = "search" /\ UNCHANGED band /\ best' = best
      /\ report' = report /\ held' = held
  BY DEF Coarse
<1>2. PICK q \in Nat \ {0} : rate = 100 * q
  BY DEF Hundreds
<1>3. PICK h \in {0, 3}, f \in {0, 3} :
        /\ FirstSym <= LastSym(f)
        /\ \E bi \in {FirstBin, LastBin}, si \in {FirstSym, LastSym(f)} :
             cand' = [hz |-> bi * Bin + h * (Bin \div 4),
                      off |-> si * Block(rate) + f * (Block(rate) \div 4)]
  BY DEF Coarse
<1>4. PICK bi \in Int, si \in Nat :
        cand' = [hz |-> bi * Bin + h * (Bin \div 4),
                 off |-> si * Block(rate) + f * (Block(rate) \div 4)]
  <2>1. FirstSym \in Nat /\ LastSym(f) \in Int /\ FirstBin \in Int /\ LastBin \in Int
    BY <1>2, GridIs
  <2>2. LastSym(f) \in Nat
    BY <1>3, <2>1
  <2> QED BY <1>3, <2>1, <2>2
<1>5. PICK k \in Nat : k = 4 * si + f
  BY <1>3, <1>4
<1>6. cand'.off = q * (4 * k) /\ cand'.hz \in Int /\ q * (4 * k) \in Nat /\ cand' \in Place
  <2>1. Block(rate) = 16 * q /\ Block(rate) \div 4 = 4 * q
    BY <1>2, Blocks
  <2>2. si * (16 * q) + f * (4 * q) = q * (4 * k) /\ q * (4 * k) \in Nat
    BY <1>3, <1>4, <1>5
  <2>3. bi * Bin + h * (Bin \div 4) \in Int
    BY <1>3, <1>4 DEF Bin
  <2> QED BY <1>4, <2>1, <2>2, <2>3 DEF Place
<1>7. OnGrid'
  <2>1. rate' \div 100 = q
    BY <1>1, <1>2 DEF band
  <2> QED BY <1>1, <1>5, <1>6, <2>1 DEF OnGrid
<1>8. SearchTypes' /\ Hundreds'
  BY <1>1, <1>6 DEF SearchTypes, Hundreds, band
<1> QED BY <1>1, <1>7, <1>8 DEF AsEntered, AwayHz, AwayOff, NotYet, ReportedWhereFound

LEMMA WhereSearch == WhereInv /\ Search => WhereInv'
<1> SUFFICES ASSUME WhereInv, Search PROVE WhereInv'
  OBVIOUS
<1> USE DEF WhereInv
<1>1. /\ stage = "search" /\ UNCHANGED band /\ cand' = cand /\ report' = report
      /\ stage' \in {"done", "adjust"} /\ held' \in BOOLEAN /\ report = Nothing
  BY DEF Search, NotYet, SearchTypes
<1>2. PICK q \in Nat \ {0} : rate = 100 * q
  BY DEF Hundreds
<1>3. rate \div 100 = q
  BY <1>2
<1>4. PICK k \in Nat : cand.off = q * (4 * k)
  BY <1>3 DEF OnGrid
<1>5. RoundDiv(2 * cand.off, rate \div 100) = 8 * k
  <2>1. 2 * cand.off = q * (8 * k) /\ 8 * k \in Nat
    BY <1>4
  <2> QED BY <1>3, <2>1, RoundedMultiple
<1>6. CASE stage' = "done"
  <2>1. best' = best
    BY <1>6 DEF Search
  <2>2. SearchTypes' /\ Hundreds'
    BY <1>1, <1>6, <2>1 DEF SearchTypes, Hundreds, band
  <2>3. OnGrid'
    BY <1>1, <1>3, <1>4, <1>6 DEF OnGrid, band
  <2> QED BY <1>1, <1>6, <2>2, <2>3 DEF AsEntered, AwayHz, AwayOff, NotYet, ReportedWhereFound
<1>7. CASE stage' = "adjust"
  <2>1. PICK off0 \in Int : off0 = Larger(0, 8 * k - 16)
    BY DEF Larger
  <2>2. PICK hz \in {Hz(25) - 840, Hz(25) + 840}, g \in {0, 3 * ((8 * k + 16 - off0) \div 3)} :
          best' = [hz |-> hz, off |-> off0 + g]
    BY <1>5, <1>7, <2>1 DEF Search
  <2>3. /\ Within(best'.hz - Hz(25), 840) /\ best'.hz \in Int
        /\ best'.off \in Nat /\ -16 <= best'.off - 8 * k /\ best'.off - 8 * k <= 16
    BY <2>1, <2>2 DEF Larger, Hz, Within
  <2>4. best' \in Place
    BY <2>2, <2>3 DEF Place
  <2>5. SearchTypes' /\ Hundreds'
    BY <1>1, <1>7, <2>4 DEF SearchTypes, Hundreds, band
  <2>6. OnGrid'
    BY <1>1, <1>3, <1>4, <1>7, <2>3 DEF OnGrid, band
  <2> QED BY <1>1, <1>7, <2>3, <2>5, <2>6 DEF AsEntered, AwayHz, AwayOff, NotYet, ReportedWhereFound
<1> QED BY <1>1, <1>6, <1>7

LEMMA WhereAdjust == WhereInv /\ Adjust => WhereInv'
<1> SUFFICES ASSUME WhereInv, Adjust PROVE WhereInv'
  OBVIOUS
<1> USE DEF WhereInv
<1>1. /\ stage = "adjust" /\ stage' = "known" /\ UNCHANGED band /\ cand' = cand
      /\ report' = report /\ held' = held
  BY DEF Adjust
<1>2. PICK dhz \in {-374, 374}, doff \in {-2, 2} :
        best' = [hz |-> best.hz + dhz, off |-> Larger(0, best.off + doff)]
  BY DEF Adjust
<1>3. PICK k \in Nat : /\ cand.off = (rate \div 100) * (4 * k)
                       /\ -16 <= best.off - 8 * k /\ best.off - 8 * k <= 16
  BY <1>1 DEF OnGrid
<1>4. best.hz \in Int /\ best.off \in Nat /\ Within(best.hz - Hz(25), 840)
  <2>1. Within(best.hz - Hz(25), 840)
    BY <1>1 DEF AwayHz
  <2> QED BY <2>1 DEF SearchTypes, Place
<1>5. /\ best'.hz \in Int /\ Within(best'.hz - Hz(25), 840 + 374)
  BY <1>2, <1>4 DEF Hz, Within
<1>6. best'.off \in Nat /\ -18 <= best'.off - 8 * k /\ best'.off - 8 * k <= 18
  BY <1>2, <1>3, <1>4 DEF Larger
<1>7. best' \in Place
  BY <1>2, <1>5, <1>6 DEF Place
<1>8. SearchTypes' /\ Hundreds'
  BY <1>1, <1>7 DEF SearchTypes, Hundreds, band
<1>9. OnGrid'
  BY <1>1, <1>3, <1>6 DEF OnGrid, band
<1> QED BY <1>1, <1>5, <1>8, <1>9 DEF AsEntered, AwayHz, AwayOff, NotYet, ReportedWhereFound
-------------------------------------------------------------------------------
(* search_time_fine_known() looks third_off_win to either side.             *)
LEMMA KnownOffset ==
  ASSUME SearchTypes, Hundreds, NEW off \in Nat, NEW g \in KnownOffsets(off)
  PROVE  g \in Nat /\ off - OffWin <= g /\ g <= off + OffWin
<1>1. OffWin \in Nat \ {0} /\ OffInc \in Nat \ {0}
  BY Windows DEF SearchTypes
<1>2. PICK w \in Nat \ {0}, n \in Nat \ {0} : w = OffWin /\ n = OffInc
  BY <1>1
<1>3. PICK off0 \in Nat : off0 = Larger(0, off - w) /\ off - w <= off0 /\ off0 <= off
  BY DEF Larger
<1>4. PICK k \in 0 .. (off + w - off0) \div n : g = off0 + k * n
  BY <1>2, <1>3 DEF KnownOffsets
<1>5. PICK d \in Int : d = (off + w - off0) \div n
  <2>1. off + w - off0 \in Int
    BY <1>3
  <2> QED BY <2>1, Division
<1>6. PICK r \in 0 .. n - 1 : n * d \in Int /\ off + w - off0 = n * d + r
  <2>1. off + w - off0 \in Int
    BY <1>3
  <2> QED BY <1>5, <2>1, Division
<1>7. k \in Nat /\ k <= d
  BY <1>4, <1>5
<1>8. k * n \in Nat /\ k * n <= n * d
  BY <1>7, <1>5
<1> QED BY <1>2, <1>3, <1>4, <1>6, <1>8

LEMMA WhereKnown == WhereInv /\ Known => WhereInv'
<1> SUFFICES ASSUME WhereInv, Known PROVE WhereInv'
  OBVIOUS
<1> USE DEF WhereInv
<1>1. /\ stage = "known" /\ stage' = "call" /\ UNCHANGED band /\ cand' = cand
      /\ report' = report /\ held' \in BOOLEAN
  BY DEF Known, SearchTypes
<1>2. PICK q \in Nat \ {0} : rate = 100 * q
  BY DEF Hundreds
<1>3. rate \div 100 = q
  BY <1>2
<1>4. PICK k \in Nat : /\ cand.off = q * (4 * k)
                       /\ -18 <= best.off - 8 * k /\ best.off - 8 * k <= 18
  BY <1>1, <1>3 DEF OnGrid
<1>5. Within(best.hz - Hz(25), 840 + 374)
  BY <1>1 DEF AwayHz
<1>6. best.hz \in Int /\ best.off \in Nat /\ cand.hz \in Int /\ cand.off \in Nat
  BY DEF SearchTypes, Place
<1>7. PICK off \in Nat : off = RoundDiv(best.off * q, 2)
                         /\ best.off * q <= 2 * off /\ 2 * off <= best.off * q + 1
  <2>1. best.off * q \in Nat
    BY <1>6
  <2> QED BY <2>1, RoundedHalf
(* 18 samples of 200 a second are 9 * q of the thread's.                    *)
<1>8. 2 * off - 2 * cand.off <= 18 * q + 1 /\ -(18 * q) <= 2 * off - 2 * cand.off
  <2>1. PICK d \in -18 .. 18 : best.off = 8 * k + d
    <3>1. best.off = 8 * k + (best.off - 8 * k)
      BY <1>4, <1>6
    <3> QED BY <3>1, <1>4, <1>6
  <2>2. best.off * q = 2 * (q * (4 * k)) + d * q
    BY <2>1
  <2>3. d * q <= 18 * q /\ -(18 * q) <= d * q /\ d * q \in Int
    BY <2>1
  <2>4. 2 * (q * (4 * k)) \in Int /\ 2 * cand.off = 2 * (q * (4 * k))
    BY <1>4
  <2> QED BY <1>4, <1>6, <1>7, <2>2, <2>3, <2>4
<1>9. OffWin \in Nat \ {0}
  BY Windows DEF SearchTypes
<1>10. /\ best' \in Place /\ Within(best'.hz - cand.hz, 840 + 374 + 60)
       /\ off - OffWin <= best'.off /\ best'.off <= off + OffWin
  <2>1. CASE KnownOffsets(off) = {}
    <3>1. best' = [hz |-> cand.hz + (best.hz - Hz(25)), off |-> off]
      BY <1>3, <1>7, <2>1 DEF Known
    <3> QED BY <1>5, <1>6, <1>9, <3>1 DEF Place, Hz, Within
  <2>2. CASE KnownOffsets(off) # {}
    <3>1. PICK dhz \in {-60, 60}, g \in KnownOffsets(off) :
            best' = [hz |-> cand.hz + (best.hz - Hz(25)) + dhz, off |-> g]
      BY <1>3, <1>7, <2>2 DEF Known
    <3>2. g \in Nat /\ off - OffWin <= g /\ g <= off + OffWin
      BY KnownOffset
    <3> QED BY <1>5, <1>6, <3>1, <3>2 DEF Place, Hz, Within
  <2> QED BY <2>1, <2>2
<1>11. SearchTypes' /\ Hundreds'
  BY <1>1, <1>10 DEF SearchTypes, Hundreds, band
<1>12. OnGrid'
  BY <1>1, <1>3, <1>4 DEF OnGrid, band
<1>13. AwayOff'
  <2>1. OffWin' = OffWin /\ rate' = rate
    BY <1>1 DEF OffWin, band
  <2>2. PICK o \in Nat, w \in Nat : o = best'.off /\ w = OffWin
    BY <1>9, <1>10 DEF Place
  <2>3. 200 * Apart(o, cand.off) <= 18 * rate + 200 * (w + 2)
    BY <1>2, <1>6, <1>8, <1>10, <2>2 DEF Apart
  <2> QED BY <1>1, <2>1, <2>2, <2>3 DEF AwayOff
<1>14. AwayHz'
  BY <1>1, <1>10 DEF AwayHz
<1> QED BY <1>1, <1>11, <1>12, <1>13, <1>14 DEF AsEntered, NotYet, ReportedWhereFound

LEMMA WhereCall == WhereInv /\ Call => WhereInv'
<1> SUFFICES ASSUME WhereInv, Call PROVE WhereInv'
  OBVIOUS
<1> USE DEF WhereInv
<1>1. /\ stage = "call" /\ stage' = "subtract" /\ UNCHANGED band /\ cand' = cand
      /\ best' = best /\ held' = held /\ report' = [best EXCEPT !.hz = @ + down]
  BY DEF Call
<1>2. /\ best \in Place /\ down \in Nat /\ moved = down /\ cand \in Place
      /\ Within(best.hz - cand.hz, 840 + 374 + 60)
  <2>1. Within(best.hz - cand.hz, 840 + 374 + 60)
    BY <1>1 DEF AwayHz
  <2> QED BY <2>1 DEF SearchTypes
<1>3. report'.hz = best.hz + down /\ report'.off = best.off /\ report' \in Place
  BY <1>1, <1>2 DEF Place
<1>4. SearchTypes' /\ Hundreds'
  BY <1>1, <1>3 DEF SearchTypes, Hundreds, band
<1>5. OnGrid'
  BY <1>1 DEF OnGrid, band
<1>6. ReportedWhereFound'
  <2>1. OffWin' = OffWin /\ rate' = rate /\ moved' = moved
    BY <1>1 DEF OffWin, band
  <2>2. 200 * Apart(best.off, cand.off) <= 18 * rate + 200 * (OffWin + 2)
    BY <1>1 DEF AwayOff
  <2>3. -(840 + 374 + 60) <= report'.hz - (cand.hz + moved)
        /\ report'.hz - (cand.hz + moved) <= 840 + 374 + 60
    BY <1>2, <1>3 DEF Place, Within
  <2> QED BY <1>1, <1>3, <2>1, <2>2, <2>3 DEF ReportedWhereFound, Apart
<1> QED BY <1>1, <1>4, <1>5, <1>6 DEF AsEntered, AwayHz, AwayOff, NotYet

LEMMA WhereSubtract == WhereInv /\ Subtract => WhereInv'
<1> SUFFICES ASSUME WhereInv, Subtract PROVE WhereInv'
  OBVIOUS
<1> USE DEF WhereInv
<1>1. stage = "subtract" /\ stage' = "done" /\ UNCHANGED <<band, pos, held>>
  BY DEF Subtract
<1>2. SearchTypes' /\ Hundreds'
  BY <1>1 DEF SearchTypes, Hundreds, band, pos
<1>3. OnGrid'
  BY <1>1 DEF OnGrid, band, pos
<1>4. ReportedWhereFound'
  BY <1>1 DEF ReportedWhereFound, OffWin, band, pos
<1> QED BY <1>1, <1>2, <1>3, <1>4 DEF AsEntered, AwayHz, AwayOff, NotYet

LEMMA WhereStutter == WhereInv /\ UNCHANGED searchVars => WhereInv'
<1> SUFFICES ASSUME WhereInv, UNCHANGED searchVars PROVE WhereInv'
  OBVIOUS
<1> USE DEF WhereInv, searchVars, band, pos
<1>1. SearchTypes' /\ Hundreds' /\ AsEntered'
  BY DEF SearchTypes, Hundreds, AsEntered
<1>2. OnGrid'
  BY DEF OnGrid
<1>4. AwayHz' /\ NotYet'
  BY DEF AwayHz, NotYet
<1>3. AwayOff' /\ ReportedWhereFound'
  BY DEF AwayOff, ReportedWhereFound, OffWin
<1> QED BY <1>1, <1>2, <1>3, <1>4

(* A signal is reported where the thread has found it in the samples that   *)
(* it was given: reduce_rate() and the shift to 25 Hz are both undone, and  *)
(* the offset is scaled back, for every rate, length, start and band.       *)
THEOREM WhereFound == SearchSpec => []ReportedWhereFound
<1>1. WhereInv /\ [SearchNext]_searchVars => WhereInv'
  BY WhereReduce, WherePad, WhereCoarse, WhereSearch, WhereAdjust, WhereKnown, WhereCall,
     WhereSubtract, WhereStutter DEF SearchNext
<1>2. SearchSpec => []WhereInv
  BY WhereInit, <1>1, PTL DEF SearchSpec
<1>3. WhereInv => ReportedWhereFound
  BY DEF WhereInv
<1> QED BY <1>2, <1>3, PTL
-------------------------------------------------------------------------------
(* entry() cuts the band into parts that are not empty, begin above the     *)
(* lowest bin and end where the band does.                                  *)
LEMMA BandHas ==
  ASSUME NEW i \in Inputs, NEW t \in 0 .. NThreads - 1
  PROVE  LET L    == BandOf(t, i[1])[1]
             H    == BandOf(t, i[1])[2]
             from == Hz(MinHz) + t * Per(i[1])
             to   == from + Per(i[1]) - (IF t = NThreads - 1 THEN Bin ELSE 0)
         IN /\ 1680 <= L /\ L <= H /\ 11 * H <= 1200 * i[1] /\ H <= 12000000
            /\ L <= from /\ to + 1500 <= H
<1>1. /\ MinHz \in Nat /\ MaxHz \in Nat /\ NThreads \in Nat \ {0} /\ MinHz >= 7 /\ MaxHz <= 50000
      /\ i[1] \in Nat /\ i[1] >= 3000 /\ 11 * MaxHz <= 5 * i[1] /\ Per(i[1]) >= Hz(20)
  BY SearchAssumption, RoomAssumption, InputIs
<1>2. PICK r \in Nat : r = i[1] /\ r >= 3000 /\ 11 * MaxHz <= 5 * r
  BY <1>1
<1>3. Top(r) = Hz(MaxHz)
  BY <1>1, <1>2 DEF Top, Smaller, Hz
<1>4. PICK p \in Nat : p = Per(r) /\ p >= 4800 /\ p = (240 * MaxHz - 240 * MinHz) \div NThreads
  <2>1. Per(r) = (240 * MaxHz - 240 * MinHz) \div NThreads
    BY <1>3 DEF Per, Hz
  <2>2. 240 * MaxHz - 240 * MinHz \in Int
    BY <1>1
  <2>3. Per(r) \in Int
    BY <1>1, <2>1, <2>2, Division
  <2>4. Per(r) >= 4800
    BY <1>1, <1>2 DEF Hz
  <2> QED BY <2>1, <2>3, <2>4
<1>5. NThreads * p <= 240 * MaxHz - 240 * MinHz /\ NThreads * p \in Int
  <2>1. 240 * MaxHz - 240 * MinHz \in Int
    BY <1>1
  <2> QED BY <1>1, <1>4, <2>1, Division
<1>6. /\ t \in Nat /\ t * p \in Nat /\ (t + 1) * p \in Int /\ (t + 1) * p = t * p + p
      /\ t > 0 => t * p >= p
  BY <1>4
<1>7. /\ t = NThreads - 1 => (t + 1) * p <= 240 * MaxHz - 240 * MinHz
      /\ t # NThreads - 1 => (t + 1) * p + p <= 240 * MaxHz - 240 * MinHz
  <2>1. CASE t = NThreads - 1
    BY <1>1, <1>5, <2>1
  <2>2. CASE t # NThreads - 1
    <3>1. t + 2 <= NThreads /\ t + 2 \in Nat
      BY <1>1, <2>2
    <3>2. (t + 2) * p <= NThreads * p /\ (t + 2) * p \in Int
      BY <1>1, <1>4, <3>1
    <3>3. (t + 2) * p = (t + 1) * p + p
      BY <1>4, <3>1
    <3>4. PICK a \in Int, b \in Int, c \in Int :
            a = (t + 1) * p /\ b = (t + 2) * p /\ c = NThreads * p
      BY <1>5, <1>6, <3>2
    <3> QED BY <1>1, <1>4, <1>5, <2>2, <3>2, <3>3, <3>4
  <2> QED BY <2>1, <2>2
<1>8. PICK tp \in Nat, tq \in Nat : tp = t * p /\ tq = (t + 1) * p /\ tq = tp + p
                                    /\ (t > 0 => tp >= p)
  BY <1>4, <1>6
<1>9. /\ BandOf(t, r)[1] = Larger(0, 240 * MinHz + tp - (IF t > 0 THEN 4800 ELSE 0))
      /\ BandOf(t, r)[2] = Smaller(240 * MinHz + tq + (IF t # NThreads - 1 THEN 4800 ELSE 0),
                                   120 * r - 12000)
  BY <1>4, <1>8 DEF BandOf, Hz
<1>10. BandOf(t, r)[1] = 240 * MinHz + tp - (IF t > 0 THEN 4800 ELSE 0)
  BY <1>1, <1>4, <1>8, <1>9 DEF Larger
<1>11. BandOf(t, r)[2] = 240 * MinHz + tq + (IF t # NThreads - 1 THEN 4800 ELSE 0)
       /\ BandOf(t, r)[2] <= 240 * MaxHz
  BY <1>1, <1>2, <1>4, <1>7, <1>8, <1>9 DEF Smaller
<1>12. t * Per(r) = tp /\ Per(r) = p
  BY <1>4, <1>8
<1> QED BY <1>1, <1>2, <1>4, <1>8, <1>10, <1>11, <1>12 DEF Hz, Bin
-------------------------------------------------------------------------------
(* What the two truncations of reduce_rate() leave of mid - brate / 4.      *)
LEMMA MovedDown ==
  ASSUME NEW m \in Int, NEW c \in Int, NEW bin \in Nat \ {0}
  PROVE  LET hz == (m \div bin - c \div bin) * bin
         IN hz \in Int /\ m - c - bin < hz /\ hz < m - c + bin
<1>1. PICK x \in Int, y \in 0 .. bin - 1 : x = m \div bin /\ bin * x \in Int /\ m = bin * x + y
  BY Division
<1>2. PICK u \in Int, v \in 0 .. bin - 1 : u = c \div bin /\ bin * u \in Int /\ c = bin * u + v
  BY Division
<1>3. (x - u) * bin = bin * x - bin * u
  OBVIOUS
<1>4. (m \div bin - c \div bin) * bin = bin * x - bin * u
  BY <1>1, <1>2, <1>3
<1> QED BY <1>1, <1>2, <1>4

(* The distance that reduce_rate() moves a band with its middle at m.       *)
NearQuarter(hz, m, b, bin) == m - 60 * b - bin < hz /\ hz < m - 60 * b + bin

Middle(m, L, H) == 2 * m <= L + H + 10512 /\ L + H + 10512 <= 2 * m + 1

(* The band of which b is wide enough keeps its room when it is moved down  *)
(* by hz, which puts its middle near a quarter of b.                        *)
LEMMA KeepsRoom ==
  ASSUME NEW L \in Int, NEW H \in Int, NEW b \in Int, NEW bin \in Int, NEW hz \in Int, NEW m \in Int,
         1680 <= L, L <= H, H - L + 13680 < 111 * b, b >= 200, 0 < bin, bin <= 120,
         Middle(m, L, H), NearQuarter(hz, m, b, bin)
  PROVE  LET by == Larger(hz, 0) IN 1500 <= L - by /\ H - by + 12839 < 120 * b
<1>1. 2 * m <= L + H + 10512 /\ L + H + 10512 <= 2 * m + 1
  BY DEF Middle
<1>2. CASE hz > 0
  <2>1. L - hz > 60 * b + L - m - bin /\ H - hz < H - m + 60 * b + bin
    BY DEF NearQuarter
  <2>2. 2 * (L - hz) > 120 * b - (H - L) - 10512 - 2 * bin
    BY <1>1, <2>1
  <2>3. 2 * (H - hz) < 120 * b + (H - L) - 10512 + 1 + 2 * bin
    BY <1>1, <2>1
  <2> QED BY <1>2, <2>2, <2>3 DEF Larger
<1>3. CASE hz <= 0
  <2>1. m < 60 * b + bin
    BY <1>3 DEF NearQuarter
  <2>2. 2 * H < 120 * b + (H - L) - 10512 + 1 + 2 * bin
    BY <1>1, <2>1
  <2> QED BY <1>3, <2>2 DEF Larger
<1> QED BY <1>2, <1>3

(* The last bin that is copied exists.                                      *)
InBins(n, bin, q)      == n * bin = 240 * (100 * q)
ByBins(hz, delta, bin) == hz = delta * bin
Copied(n, k, q, delta) == /\ (RoundDiv(n * k, q) \div 2) + Larger(delta, 0) < n \div 2 + 1
                          /\ 0 <= RoundDiv(n * k, q) \div 2

LEMMA LastCopied ==
  ASSUME NEW size0 \in Nat \ {0}, NEW bin \in Nat \ {0}, NEW q \in Nat \ {0}, NEW k \in Nat \ {0},
         NEW m \in Int, NEW delta \in Int, NEW hz \in Int, NEW b \in Int,
         InBins(size0, bin, q), k < q, b = 100 * k, ByBins(hz, delta, bin),
         bin <= 120, NearQuarter(hz, m, b, bin), m + 6000 * k + 90 <= 12000 * q
  PROVE  Copied(size0, k, q, delta)
<1> USE DEF InBins, ByBins, Copied
<1>1. PICK a \in Nat : a = size0 * k
  OBVIOUS
<1>2. PICK n \in Nat : n = RoundDiv(a, q)
  BY <1>1, Rounded
<1>3. q * n \in Int /\ 2 * (q * n) <= 2 * a + q
  BY <1>1, <1>2, Rounded
<1>4. PICK h \in Nat : h = n \div 2 /\ 2 * h <= n
  BY <1>2
(* Times the width of a bin: at most brate / 2 and a quarter of a bin.      *)
<1>5. 4 * (h * bin) <= 48000 * k + bin /\ h * bin \in Nat
  <2>1. 2 * (q * (2 * h)) <= 2 * a + q
    <3>1. q * (2 * h) <= q * n /\ q * (2 * h) \in Int
      BY <1>4
    <3> QED BY <1>3, <3>1, <1>1
  <2>2. (2 * (q * (2 * h))) * bin <= (2 * a + q) * bin
    BY <2>1, <1>1
  <2>3. (2 * (q * (2 * h))) * bin = q * (4 * (h * bin))
    OBVIOUS
  <2>4. (2 * a + q) * bin = q * (48000 * k + bin)
    <3>1. a * bin = k * (size0 * bin)
      BY <1>1
    <3>2. a * bin = q * (24000 * k)
      BY <3>1
    <3>3. (2 * a + q) * bin = 2 * (a * bin) + q * bin
      BY <1>1
    <3>4. q * (48000 * k + bin) = 2 * (q * (24000 * k)) + q * bin
      OBVIOUS
    <3> QED BY <3>2, <3>3, <3>4
  <2>5. PICK x \in Int, y \in Int : x = 4 * (h * bin) /\ y = 48000 * k + bin
    OBVIOUS
  <2>6. q * x <= q * y
    BY <2>2, <2>3, <2>4, <2>5
  <2>7. x <= y
    <3> SUFFICES ASSUME y + 1 <= x PROVE FALSE
      OBVIOUS
    <3>1. q * (y + 1) <= q * x /\ q * (y + 1) = q * y + q
      OBVIOUS
    <3>2. q * x \in Int /\ q * y \in Int
      OBVIOUS
    <3> QED BY <3>1, <3>2, <2>6
  <2> QED BY <2>5, <2>7
<1>6. PICK s2 \in Nat : s2 = size0 \div 2 /\ size0 <= 2 * s2 + 1
  OBVIOUS
<1>7. 24000 * q + bin <= 2 * ((s2 + 1) * bin) /\ (s2 + 1) * bin \in Int
  <2>1. (size0 + 1) * bin <= (2 * s2 + 2) * bin
    BY <1>6
  <2>2. (size0 + 1) * bin = size0 * bin + bin /\ (2 * s2 + 2) * bin = 2 * ((s2 + 1) * bin)
    BY <1>6
  <2> QED BY <2>1, <2>2
<1>8. CASE delta > 0
  <2>1. PICK u \in Int, v \in Int, w \in Int : u = h * bin /\ v = delta * bin /\ w = (s2 + 1) * bin
    BY <1>5, <1>7
  <2>2. u + v < w
    BY <1>5, <1>7, <2>1 DEF NearQuarter
  <2>3. (h + delta) * bin = u + v
    BY <2>1
  <2>4. h + delta < s2 + 1
    <3> SUFFICES ASSUME s2 + 1 <= h + delta PROVE FALSE
      BY <1>4, <1>6
    <3>1. (s2 + 1) * bin <= (h + delta) * bin
      BY <1>4, <1>6
    <3> QED BY <2>1, <2>2, <2>3, <3>1
  <2> QED BY <1>1, <1>2, <1>4, <1>6, <1>8, <2>4 DEF Larger
<1>9. CASE delta <= 0
  <2>1. PICK u \in Int, w \in Int : u = h * bin /\ w = (s2 + 1) * bin
    BY <1>5, <1>7
  <2>2. u < w
    BY <1>5, <1>7, <2>1
  <2>3. h < s2 + 1
    <3> SUFFICES ASSUME s2 + 1 <= h PROVE FALSE
      BY <1>4, <1>6
    <3>1. (s2 + 1) * bin <= h * bin
      BY <1>4, <1>6
    <3> QED BY <2>1, <2>2, <3>1
  <2> QED BY <1>1, <1>2, <1>4, <1>6, <1>9, <2>3 DEF Larger
<1> QED BY <1>8, <1>9
-------------------------------------------------------------------------------
(* The first rate that is wide enough, and how little it is too wide.       *)
LEMMA FirstWide ==
  ASSUME SearchTypes, Hundreds, lo <= hi,
         NEW b \in WideRates, \A y \in WideRates : b <= y
  PROVE  /\ hi - lo + 13680 < 111 * b /\ b >= 200
         /\ 111 * b <= hi - lo + 13680 + 11100
<1>1. PICK q \in Nat \ {0} : rate = 100 * q
  BY DEF Hundreds
<1>2. \A k \in 1 .. (rate - 1) \div 100 :
        100 * k \in WideRates <=> 40 * (hi - lo + 13680) < 37 * (120 * (100 * k))
  <2> SUFFICES ASSUME NEW k \in 1 .. (rate - 1) \div 100
               PROVE  100 * k \in WideRates <=> 40 * (hi - lo + 13680) < 37 * (120 * (100 * k))
    OBVIOUS
  <2>1. k \in Nat /\ (100 * k) \div 2 = 50 * k
    BY <1>1
  <2>2. Hz((100 * k) \div 2) = 120 * (100 * k) /\ Hz(57) = 13680
    BY <2>1 DEF Hz
  <2> QED BY <2>2 DEF WideRates
<1>3. PICK k \in 1 .. (rate - 1) \div 100 : b = 100 * k
  BY DEF WideRates
<1>4. 40 * (hi - lo + 13680) < 37 * (120 * (100 * k))
  BY <1>2, <1>3
<1>5. lo \in Int /\ hi \in Int /\ k \in Nat
  BY <1>1 DEF SearchTypes
<1>6. hi - lo + 13680 < 111 * b /\ k >= 2
  BY <1>3, <1>4, <1>5
<1>7. 40 * (hi - lo + 13680) >= 37 * (120 * (100 * (k - 1)))
  <2>1. k - 1 \in 1 .. (rate - 1) \div 100
    BY <1>1, <1>6
  <2>2. 100 * (k - 1) \notin WideRates
    BY <1>3, <1>5
  <2>3. ~ (40 * (hi - lo + 13680) < 37 * (120 * (100 * (k - 1))))
    BY <1>2, <2>1, <2>2
  <2> QED BY <1>5, <2>3
<1> QED BY <1>3, <1>5, <1>6, <1>7

(* A bin is at most half a hertz wide in a window of two seconds.           *)
LEMMA NarrowBins ==
  ASSUME SearchTypes, AsEntered, stage = "reduce"
  PROVE  OneBin <= 120
<1>1. size \in Nat \ {0} /\ OneBin \in Nat \ {0} /\ size * OneBin = 240 * rate
  BY WholeBins
<1>2. size >= 2 * rate /\ rate \in Nat \ {0}
  BY RoomAssumption DEF SearchTypes, AsEntered
<1>3. PICK x \in Nat : x = OneBin /\ size * x = 240 * rate
  BY <1>1
<1> SUFFICES ASSUME 121 <= x PROVE FALSE
  BY <1>3
<1>4. size * 121 <= size * x
  BY <1>1
<1> QED BY <1>1, <1>2, <1>3, <1>4

LEMMA RoomReduce == WhereInv /\ RoomInv /\ Reduce => RoomInv'
<1> SUFFICES ASSUME WhereInv, RoomInv, Reduce PROVE RoomInv'
  OBVIOUS
<1>1. SearchTypes /\ Hundreds /\ AsEntered /\ stage = "reduce" /\ stage' = "pad"
      /\ input' = input /\ thread' = thread
  BY DEF WhereInv, Reduce
<1>2. Extended' /\ InBand' /\ InSamples'
  BY <1>1 DEF Extended, InBand, InSamples
<1>3. CASE ~ \E x \in WideRates : 4 * x < 3 * rate
  <2>1. touched' = {} /\ UNCHANGED <<rate, size, start, down, moved, lo, hi, held>>
    BY <1>3 DEF Reduce
  <2>2. Given' /\ Margins' /\ InRange'
    BY <1>1, <2>1 DEF RoomInv, Given, Margins, InRange
  <2> QED BY <1>2, <2>2 DEF RoomInv
<1>4. CASE \E x \in WideRates : 4 * x < 3 * rate
  <2>1. PICK b \in {x \in WideRates : \A y \in WideRates : x <= y} :
            LET r  == Reduction(b)
                by == Larger(r.hz, 0)
            IN
             /\ rate' = b /\ size' = r.size
             /\ moved' = by /\ lo' = lo - by /\ hi' = hi - by /\ touched' = r.touched
             /\ held' = (held /\ r.held /\ hi' + Hz(50) < Hz(b) \div 2 /\ lo' >= 0)
    BY <1>4 DEF Reduce
  <2>2. PICK q \in Nat \ {0} : rate = 100 * q
    BY <1>1 DEF Hundreds
  <2>3. b \in WideRates /\ b < rate /\ Mid \in Int /\ Delta(b) \in Int /\ Bins(b) \in Nat
    BY <1>1, ReductionIs
  <2>4. PICK k \in Nat \ {0} : b = 100 * k
    BY <1>1, ReductionIs
  <2>5. PICK L \in Int, H \in Int : L = lo /\ H = hi
    BY <1>1 DEF SearchTypes
  <2>6. 1680 <= L /\ L <= H /\ 11 * H <= 1200 * rate /\ rate >= 3000
    <3>1. 1680 <= L /\ L <= H /\ 11 * H <= 1200 * rate
      BY <1>1, <2>5, BandHas DEF AsEntered, SearchTypes
    <3> QED BY <1>1, <3>1, RoomAssumption DEF AsEntered, SearchTypes
  <2>7. H - L + 13680 < 111 * b /\ b >= 200 /\ 111 * b <= H - L + 13680 + 11100
    BY <1>1, <2>1, <2>3, <2>5, <2>6, FirstWide
  <2>8. PICK bin \in Nat \ {0} : bin = OneBin /\ bin <= 120 /\ size * bin = 240 * rate
    BY <1>1, WholeBins, NarrowBins
  <2>9. Larger(0, lo - 1584) = L - 1584 /\ Smaller(120 * rate, hi + 12096) = H + 12096
    BY <2>2, <2>5, <2>6 DEF Larger, Smaller
  <2>10. PICK m \in Int : m = Mid /\ Middle(m, L, H)
    BY <2>3, <2>5, <2>9 DEF Mid, Middle
  <2>11. PICK delta \in Int, hz \in Int :
           /\ delta = Delta(b) /\ hz = delta * bin /\ NearQuarter(hz, m, b, bin)
    <3>1. Hz(b) \div 4 = 60 * b /\ 60 * b \in Int
      BY <2>4 DEF Hz
    <3>2. Delta(b) = m \div bin - (60 * b) \div bin
      BY <2>8, <2>10, <3>1 DEF Delta
    <3> QED BY <2>3, <3>1, <3>2, MovedDown DEF NearQuarter
  <2>12. PICK by \in Nat : by = Larger(hz, 0) /\ by = Larger(Reduction(b).hz, 0)
    <3>1. Reduction(b).hz = hz
      BY <2>8, <2>11, ReductionHas
    <3> QED BY <3>1 DEF Larger
  <2>13. 1500 <= L - by /\ H - by + 12839 < 120 * b
    <3>1. b \in Int /\ bin \in Int /\ 0 < bin
      BY <2>4, <2>8
    <3> QED BY <2>6, <2>7, <2>8, <2>10, <2>11, <2>12, <3>1, KeepsRoom
  <2>14. lo' = L - by /\ hi' = H - by /\ moved' = by /\ rate' = b
    BY <2>1, <2>5, <2>12
  <2>15. Margins'
    BY <2>7, <2>13, <2>14 DEF Margins
  <2>16. Given'
    <3>1. moved = 0 /\ lo = BandOf(thread, input[1])[1] /\ hi = BandOf(thread, input[1])[2]
      BY <1>1 DEF AsEntered, SearchTypes
    <3> QED BY <1>1, <2>5, <2>14, <3>1 DEF Given
  <2>17. (Bins(b) \div 2) + Larger(Delta(b), 0) < size \div 2 + 1 /\ 0 <= Bins(b) \div 2
    <3>1. size \in Nat \ {0} /\ k < q /\ b \div 100 = k /\ rate \div 100 = q
      BY <1>1, <2>2, <2>3, <2>4, WholeBins
    <3>2. size * bin = 240 * (100 * q) /\ b \in Int
      BY <2>2, <2>4, <2>8
    <3>3. m + 6000 * k + 90 <= 12000 * q
      BY <2>2, <2>4, <2>6, <2>7, <2>10 DEF Middle
    <3>4. Bins(b) = RoundDiv(size * k, q)
      BY <3>1 DEF Bins
    <3>5. PICK n \in Nat \ {0} : n = size
      BY <3>1
    <3>6. InBins(n, bin, q) /\ k < q /\ ByBins(hz, delta, bin)
      BY <2>8, <2>11, <3>1, <3>2, <3>5 DEF InBins, ByBins
    <3>7. Copied(n, k, q, delta)
      BY <2>4, <2>8, <2>11, <3>2, <3>3, <3>6, LastCopied
    <3> QED BY <2>11, <3>4, <3>5, <3>7 DEF Copied
  <2>18. \A a \in touched' : 0 <= a[1] /\ a[1] < a[2]
    <3>1. touched' = {<<(Bins(b) \div 2) + Larger(Delta(b), 0), size \div 2 + 1>>}
      BY <2>1, ReductionHas
    <3>2. Larger(Delta(b), 0) \in Nat /\ Bins(b) \div 2 \in Int
      BY <2>3 DEF Larger
    <3> QED BY <2>17, <3>1, <3>2
  <2>19. Reduction(b).held
    <3>1. H - L + 13680 <= 120 * b /\ Hz(b \div 2) = 120 * b /\ Hz(57) = 13680
      BY <2>4, <2>7 DEF Hz
    <3>2. Delta(b) < size \div 2 + 1
      BY <1>1, <2>3, <2>17 DEF Larger, SearchTypes
    <3>3. PICK c \in Int : c = Hz(b) \div 4
      BY <2>4 DEF Hz
    <3>4. Smaller(m - c, L - 1584) <= L - 1584 /\ L - 1584 <= H + 12096
          /\ H + 12096 <= Larger(m + c, H + 12096)
      BY <2>6, <3>3 DEF Smaller, Larger
    <3>5. /\ b < rate /\ hi - lo + Hz(57) <= Hz(b \div 2) /\ Delta(b) < size \div 2 + 1
          /\ Smaller(Mid - Hz(b) \div 4, L - 1584) <= L - 1584 /\ L - 1584 <= H + 12096
          /\ H + 12096 <= Larger(Mid + Hz(b) \div 4, H + 12096)
      BY <2>3, <2>5, <2>10, <3>1, <3>2, <3>3, <3>4
    <3>6. Reduction(b).held =
            /\ b < rate /\ hi - lo + Hz(57) <= Hz(b \div 2) /\ Delta(b) < size \div 2 + 1
            /\ Smaller(Mid - Hz(b) \div 4, L - 1584) <= L - 1584 /\ L - 1584 <= H + 12096
            /\ H + 12096 <= Larger(Mid + Hz(b) \div 4, H + 12096)
      BY <2>9 DEF Reduction, Mid, Delta, OneBin
    <3> QED BY <3>5, <3>6
  <2>20. held'
    <3>1. held /\ lo' >= 0 /\ hi' + Hz(50) < Hz(b) \div 2
      BY <2>4, <2>13, <2>14 DEF RoomInv, InRange, Hz
    <3> QED BY <2>1, <2>19, <3>1
  <2> QED BY <1>2, <2>15, <2>16, <2>18, <2>20 DEF RoomInv, InRange
<1> QED BY <1>3, <1>4
-------------------------------------------------------------------------------
LEMMA RoomInit == SearchInit => RoomInv
<1> SUFFICES ASSUME SearchInit PROVE RoomInv
  OBVIOUS
<1>1. input \in Inputs /\ thread \in 0 .. NThreads - 1
  BY DEF SearchInit
<1>2. PICK q \in Nat \ {0} : input[1] = 100 * q
  BY <1>1, InputIs
<1>3. PICK L \in Int, H \in Int : L = lo /\ H = hi
  BY <1>1, <1>2, BandIs DEF SearchInit
<1>4. 1680 <= L /\ L <= H /\ 11 * H <= 1200 * input[1] /\ input[1] >= 3000
  <2>1. 1680 <= L /\ L <= H /\ 11 * H <= 1200 * input[1]
    BY <1>1, <1>3, BandHas DEF SearchInit
  <2> QED BY <1>1, <2>1, RoomAssumption
<1>5. rate = 100 * q /\ moved = 0 /\ stage = "reduce" /\ touched = {}
  BY <1>2 DEF SearchInit
<1>6. Margins
  BY <1>2, <1>3, <1>4, <1>5 DEF Margins
<1>7. Given
  BY <1>3, <1>5 DEF Given, SearchInit
<1>8. held
  <2>1. rate \div 2 = 50 * q
    BY <1>5
  <2>2. lo >= 0 /\ hi + Hz(50) <= Hz(rate \div 2)
    BY <1>3, <1>4, <1>5, <1>6, <2>1 DEF Hz, Margins
  <2> QED BY <2>2 DEF SearchInit
<1> QED BY <1>5, <1>6, <1>7, <1>8 DEF RoomInv, Extended, InBand, InSamples, InRange

LEMMA RoomPad == WhereInv /\ RoomInv /\ Pad => RoomInv'
<1> SUFFICES ASSUME WhereInv, RoomInv, Pad PROVE RoomInv'
  OBVIOUS
<1>1. /\ stage = "pad" /\ stage' = "coarse" /\ UNCHANGED <<input, thread, lo, hi, rate, start>>
      /\ moved' = moved /\ held' = held /\ touched' = {}
  BY DEF Pad
<1>2. rate \in Nat \ {0} /\ size \in Nat /\ start \in Nat
  BY DEF WhereInv, SearchTypes
<1>3. PICK last \in Int : last = start + (24 * rate) \div 10 + 79 * Block(rate)
  BY <1>2 DEF Block
<1>4. last <= size'
  <2> DEFINE n == last - size
  <2>1. size' = IF last + Block(rate) <= size \/ n = 0 THEN size
                ELSE size + (IF n < 0 THEN rate ELSE rate * ((n + rate - 1) \div rate))
    BY <1>3 DEF Pad
  <2>2. n \in Int /\ last = size + n /\ Block(rate) \in Nat
    BY <1>2 DEF Block
  <2> HIDE DEF n
  <2>3. n > 0 => n <= rate * ((n + rate - 1) \div rate)
                 /\ rate * ((n + rate - 1) \div rate) \in Int
    <3>1. n + rate - 1 \in Int
      BY <1>2, <2>2
    <3>2. PICK d \in Int, r \in 0 .. rate - 1 :
            d = (n + rate - 1) \div rate /\ rate * d \in Int /\ n + rate - 1 = rate * d + r
      BY <1>2, <3>1, Division
    <3> QED BY <1>2, <2>2, <3>2
  <2>4. CASE n > 0
    <3>1. PICK e \in Int : e = rate * ((n + rate - 1) \div rate) /\ n <= e
      BY <2>3, <2>4
    <3>2. size' = size + e
      BY <1>2, <2>1, <2>2, <2>4, <3>1
    <3> QED BY <1>2, <2>2, <3>1, <3>2
  <2>5. CASE n <= 0
    BY <1>2, <2>1, <2>2, <2>5
  <2> QED BY <2>2, <2>4, <2>5
<1>5. Extended'
  BY <1>1, <1>3, <1>4 DEF Extended, Block
<1> QED BY <1>1, <1>5 DEF RoomInv, Given, Margins, InBand, InSamples, InRange

LEMMA RoomCoarse == WhereInv /\ RoomInv /\ Coarse => RoomInv'
<1> SUFFICES ASSUME WhereInv, RoomInv, Coarse PROVE RoomInv'
  OBVIOUS
<1>1. stage = "coarse" /\ stage' = "search" /\ UNCHANGED band /\ held' = held
  BY DEF Coarse
<1>2. SearchTypes /\ lo \in Int /\ hi \in Int /\ size \in Nat /\ moved \in Nat
  BY DEF WhereInv, SearchTypes
<1>3. PICK q \in Nat \ {0} : rate = 100 * q
  BY DEF WhereInv, Hundreds
<1>4. 1500 <= lo /\ hi + 12839 < 12000 * q /\ hi <= 12000000
  <2>1. hi + moved <= 12000000
    BY <1>2, BandHas DEF RoomInv, Given, SearchTypes
  <2> QED BY <1>2, <1>3, <2>1 DEF RoomInv, Margins
<1>5. PICK h \in {0, 3}, f \in {0, 3} :
        /\ FirstSym <= LastSym(f)
        /\ \E bi \in {FirstBin, LastBin}, si \in {FirstSym, LastSym(f)} :
             LET hz == bi * Bin + h * (Bin \div 4) IN
             /\ cand' = [hz |-> hz, off |-> si * Block(rate) + f * (Block(rate) \div 4)]
             /\ touched' =
                  { <<si + 79, (size - f * (Block(rate) \div 4)) \div Block(rate)>>,
                    <<bi + 7, Block(rate) \div 2 + 1>>, <<RoundDiv(hz, Hz(27)), 2000>> }
  BY DEF Coarse
<1>6. FirstSym \in Nat /\ LastSym(f) \in Int /\ FirstBin \in Int /\ LastBin \in Int
  BY <1>2, <1>3, GridIs
<1>7. Block(rate) = 16 * q /\ Block(rate) \div 4 = 4 * q /\ Block(rate) \div 2 = 8 * q
  BY <1>3, Blocks
<1>8. PICK bi \in {FirstBin, LastBin}, si \in {FirstSym, LastSym(f)} :
        LET hz == bi * Bin + h * (Bin \div 4) IN
        /\ cand' = [hz |-> hz, off |-> si * Block(rate) + f * (Block(rate) \div 4)]
        /\ touched' =
             { <<si + 79, (size - f * (Block(rate) \div 4)) \div Block(rate)>>,
               <<bi + 7, Block(rate) \div 2 + 1>>, <<RoundDiv(hz, Hz(27)), 2000>> }
  BY <1>5
<1>9. bi \in Int /\ 1 <= bi /\ bi <= hi \div 1500 - 1 /\ bi <= 8 * q - 7
  <2>1. FirstBin = lo \div 1500 /\ LastBin = Smaller(hi \div 1500 - 1, 8 * q - 7)
    BY <1>7 DEF FirstBin, LastBin, Bin
  <2>2. FirstBin <= LastBin
    BY DEF Coarse
  <2> QED BY <1>2, <1>3, <1>4, <1>6, <2>1, <2>2 DEF Smaller
<1>10. PICK hz \in Int : hz = bi * Bin + h * (Bin \div 4) /\ 1500 <= hz /\ hz + 375 <= hi
  <2>1. Bin \div 4 = 375 /\ Bin = 1500
    BY DEF Bin
  <2>2. bi * 1500 + h * 375 \in Int
    BY <1>5, <1>9
  <2>3. 1500 <= bi * 1500 + h * 375 /\ bi * 1500 + h * 375 + 375 <= hi
    BY <1>2, <1>5, <1>9
  <2> QED BY <2>1, <2>2, <2>3
<1>11. InBand'
  BY <1>1, <1>8, <1>10 DEF InBand, band
<1>12. 0 <= RoundDiv(hz, Hz(27)) /\ RoundDiv(hz, Hz(27)) < 2000
  <2>1. Hz(27) = 6480 /\ hz <= 12000000
    BY <1>2, <1>4, <1>10 DEF Hz
  <2>2. RoundDiv(hz, 6480) = (2 * hz + 6480) \div 12960
    BY <1>10 DEF RoundDiv
  <2> QED BY <1>10, <2>1, <2>2
<1>13. 0 <= bi + 7 /\ bi + 7 < Block(rate) \div 2 + 1
  BY <1>3, <1>7, <1>9
<1>14. 0 <= si + 79 /\ si + 79 < (size - f * (Block(rate) \div 4)) \div Block(rate)
  <2>1. PICK c \in Int : c = (size - f * (Block(rate) \div 4)) \div Block(rate)
    <3>1. size - f * (4 * q) \in Int /\ 16 * q \in Nat \ {0}
      BY <1>2, <1>3, <1>5
    <3>2. (size - f * (4 * q)) \div (16 * q) \in Int
      BY <3>1, Division
    <3> QED BY <1>7, <3>2
  <2>2. LastSym(f) <= c - 80
    <3>1. PICK e \in Int : e = (start + (24 * rate) \div 10) \div Block(rate) - 1
      <4>1. start + (24 * rate) \div 10 \in Int /\ 16 * q \in Nat \ {0}
        BY <1>2, <1>3 DEF SearchTypes
      <4>2. (start + (24 * rate) \div 10) \div (16 * q) \in Int
        BY <4>1, Division
      <4> QED BY <1>7, <4>2
    <3> QED BY <2>1, <3>1 DEF LastSym, Smaller
  <2>3. si \in Nat /\ si <= LastSym(f)
    BY <1>5, <1>6, <1>8
  <2> QED BY <1>6, <2>1, <2>2, <2>3
<1>15. \A a \in touched' : 0 <= a[1] /\ a[1] < a[2]
  BY <1>8, <1>10, <1>12, <1>13, <1>14
<1>16. Given' /\ Margins' /\ Extended'
  BY <1>1 DEF RoomInv, Given, Margins, Extended, band, Block
<1> QED BY <1>1, <1>11, <1>15, <1>16 DEF RoomInv, InSamples, InRange
-------------------------------------------------------------------------------
LEMMA SameBand ==
  ASSUME RoomInv, UNCHANGED band, stage \notin {"reduce", "pad"}
  PROVE  Given' /\ Margins' /\ Extended' /\ Size200' = Size200
BY DEF RoomInv, Given, Margins, Extended, band, Block, Size200

(* A reduced spectrum is not longer than the whole one.                     *)
LEMMA At200 ==
  ASSUME NEW n \in Nat, NEW q \in Nat \ {0}, q >= 2
  PROVE  /\ RoundDiv(n * 2, q) \in Nat /\ RoundDiv(n * 2, q) <= n
         /\ q * RoundDiv(n * 2, q) \in Int /\ 2 * (q * RoundDiv(n * 2, q)) <= 4 * n + q
<1>1. PICK m \in Nat : m = RoundDiv(n * 2, q) /\ q * m \in Int /\ 2 * (q * m) <= 4 * n + q
  <2>1. n * 2 \in Nat /\ 2 * (n * 2) = 4 * n
    OBVIOUS
  <2> QED BY <2>1, Rounded
<1>2. m <= n
  <2> SUFFICES ASSUME n + 1 <= m PROVE FALSE
    OBVIOUS
  <2>1. q * (n + 1) <= q * m /\ q * (n + 1) = q * n + q
    OBVIOUS
  <2>2. 2 * n <= q * n /\ q * n \in Int
    OBVIOUS
  <2> QED BY <1>1, <2>1, <2>2
<1> QED BY <1>1, <1>2

LEMMA RoomSearch == WhereInv /\ RoomInv /\ Search => RoomInv'
<1> SUFFICES ASSUME WhereInv, RoomInv, Search PROVE RoomInv'
  OBVIOUS
<1>1. stage = "search" /\ stage' \in {"done", "adjust"} /\ UNCHANGED band /\ cand' = cand
  BY DEF Search
<1>2. size \in Nat /\ cand.off \in Nat /\ held
  BY DEF WhereInv, SearchTypes, Place, RoomInv, InRange
<1>3. PICK q \in Nat \ {0} : rate = 100 * q
  BY DEF WhereInv, Hundreds
<1>4. q >= 2 /\ rate \div 100 = q
  BY <1>3 DEF RoomInv, Margins
<1>5. Given' /\ Margins' /\ Extended' /\ Size200' = Size200
  BY <1>1, SameBand
<1>6. InBand'
  BY <1>1 DEF RoomInv, InBand, band
<1>7. PICK off \in Nat : off = RoundDiv(2 * cand.off, rate \div 100)
  <2>1. 2 * cand.off \in Nat
    BY <1>2
  <2> QED BY <1>4, <2>1, Rounded
<1>8. PICK off0 \in Nat : off0 = Larger(0, off - 16) /\ off0 <= off
  BY DEF Larger
<1>9. held'
  <2>1. held' = (held /\ off + 16 >= off0)
    BY <1>7, <1>8 DEF Search
  <2>2. off + 16 >= off0
    BY <1>8
  <2> QED BY <1>2, <2>1, <2>2
<1>10. CASE stage' = "done"
  <2>1. touched' = {}
    BY <1>10 DEF Search
  <2> QED BY <1>5, <1>6, <1>9, <1>10, <2>1 DEF RoomInv, InSamples, InRange
<1>11. CASE stage' = "adjust"
  <2> DEFINE len == ((off + 16) - off0) + 79 * 32 + 32
  <2>1. /\ ~ (off0 + len > Size200)
        /\ \E hz \in {Hz(25) - 840, Hz(25) + 840}, g \in {0, 3 * ((off + 16 - off0) \div 3)} :
            /\ best' = [hz |-> hz, off |-> off0 + g]
            /\ touched' = { <<g + 79 * 32 - 1, 2 * (len \div 2)>>,
                            <<RoundDiv(size * 2, rate \div 100) \div 2, size \div 2 + 1>> }
    BY <1>7, <1>8, <1>11 DEF Search
  <2>2. len \in Nat /\ len = (off + 16 - off0) + 2560
    BY <1>8
  <2> HIDE DEF len
  <2>3. PICK g \in {0, 3 * ((off + 16 - off0) \div 3)} :
            /\ best'.off = off0 + g
            /\ touched' = { <<g + 79 * 32 - 1, 2 * (len \div 2)>>,
                            <<RoundDiv(size * 2, rate \div 100) \div 2, size \div 2 + 1>> }
    BY <2>1
  <2>4. g \in Nat /\ g <= off + 16 - off0
    BY <1>8
  <2>5. Size200 \in Int
    <3>1. RoundDiv(size * 2, q) \in Nat
      BY <1>2, <1>4, At200
    <3> QED BY <1>4, <3>1 DEF Size200
  <2>6. best'.off + 79 * 32 + 32 <= Size200
    BY <1>8, <2>1, <2>2, <2>3, <2>4, <2>5
  <2>7. 0 <= g + 79 * 32 - 1 /\ g + 79 * 32 - 1 < 2 * (len \div 2)
    BY <1>8, <2>2, <2>4
  <2>8. PICK m \in Nat : m = RoundDiv(size * 2, q) /\ m <= size
    BY <1>2, <1>4, At200
  <2>9. 0 <= m \div 2 /\ m \div 2 < size \div 2 + 1
    BY <1>2, <2>8
  <2>10. \A a \in touched' : 0 <= a[1] /\ a[1] < a[2]
    BY <1>4, <2>3, <2>7, <2>8, <2>9
  <2> QED BY <1>5, <1>6, <1>9, <1>11, <2>6, <2>10 DEF RoomInv, InSamples, InRange
<1> QED BY <1>1, <1>10, <1>11

LEMMA RoomAdjust == WhereInv /\ RoomInv /\ Adjust => RoomInv'
<1> SUFFICES ASSUME WhereInv, RoomInv, Adjust PROVE RoomInv'
  OBVIOUS
<1>1. stage = "adjust" /\ stage' = "known" /\ UNCHANGED band /\ cand' = cand /\ held' = held
      /\ touched' = {<<best'.off, Size200>>}
  BY DEF Adjust
<1>2. PICK dhz \in {-374, 374}, doff \in {-2, 2} :
        best' = [hz |-> best.hz + dhz, off |-> Larger(0, best.off + doff)]
  BY DEF Adjust
<1>3. Given' /\ Margins' /\ Extended' /\ Size200' = Size200
  BY <1>1, SameBand
<1>4. InBand'
  BY <1>1 DEF RoomInv, InBand, band
<1>5. Size200 \in Int
  <2>1. PICK q \in Nat \ {0} : rate = 100 * q
    BY DEF WhereInv, Hundreds
  <2>2. q >= 2 /\ rate \div 100 = q /\ size \in Nat
    BY <2>1 DEF RoomInv, Margins, WhereInv, SearchTypes
  <2>3. RoundDiv(size * 2, q) \in Nat
    BY <2>2, At200
  <2> QED BY <2>2, <2>3 DEF Size200
<1>6. best.off \in Nat /\ best.off + 79 * 32 + 32 <= Size200
  BY <1>1 DEF WhereInv, SearchTypes, Place, RoomInv, InSamples
<1>7. best'.off \in Nat /\ best'.off <= best.off + 2
  BY <1>2, <1>6 DEF Larger
<1>8. best'.off + 79 * 32 + 30 <= Size200 /\ best'.off < Size200
  BY <1>5, <1>6, <1>7
<1>9. \A a \in touched' : 0 <= a[1] /\ a[1] < a[2]
  BY <1>1, <1>7, <1>8
<1> QED BY <1>1, <1>3, <1>4, <1>8, <1>9 DEF RoomInv, InSamples, InRange
-------------------------------------------------------------------------------
LEMMA RoomKnown == WhereInv /\ WhereInv' /\ RoomInv /\ Known => RoomInv'
<1> SUFFICES ASSUME WhereInv, WhereInv', RoomInv, Known PROVE RoomInv'
  OBVIOUS
<1>1. stage = "known" /\ stage' = "call" /\ UNCHANGED band /\ cand' = cand
  BY DEF Known
<1>2. PICK q \in Nat \ {0} : rate = 100 * q
  BY DEF WhereInv, Hundreds
<1>3. q >= 2 /\ rate \div 100 = q /\ Block(rate) = 16 * q /\ Block(rate) \div 2 = 8 * q
  BY <1>2, Blocks DEF RoomInv, Margins
<1>4. /\ size \in Nat /\ best.hz \in Int /\ best.off \in Nat /\ cand.hz \in Int /\ hi \in Int
      /\ best'.off \in Nat /\ held /\ lo \in Int
  BY DEF WhereInv, SearchTypes, Place, RoomInv, InRange
<1>5. Given' /\ Margins' /\ Extended'
  BY <1>1, SameBand
<1>6. InBand'
  BY <1>1 DEF RoomInv, InBand, band
<1>7. PICK hz0 \in Int : /\ hz0 = cand.hz + (best.hz - Hz(25))
                         /\ 226 + 60 <= hz0 /\ hz0 + 12000 < 12000 * q
                         /\ hz0 + 11940 + 60 < 12000 * q
  <2>1. Within(best.hz - Hz(25), 840 + 374)
    BY <1>1 DEF WhereInv, AwayHz
  <2>2. 1500 <= cand.hz /\ cand.hz + 375 <= hi /\ hi + 12839 < 120 * rate
    BY <1>1 DEF RoomInv, InBand, Margins
  <2> QED BY <1>2, <1>4, <2>1, <2>2 DEF Within, Hz
<1>8. held'
  <2>1. 2 * (hz0 + Hz(50)) < Hz(rate)
    BY <1>2, <1>7 DEF Hz
  <2>2. held' = (held /\ hz0 >= 0 /\ 2 * (hz0 + Hz(50)) < Hz(rate))
    BY <1>7 DEF Known
  <2>3. hz0 >= 0
    BY <1>7
  <2> QED BY <1>4, <2>1, <2>2, <2>3
<1>9. PICK off \in Nat : off = RoundDiv(best.off * q, 2) /\ 2 * off <= best.off * q + 1
  <2>1. best.off * q \in Nat
    BY <1>4
  <2> QED BY <2>1, RoundedHalf
<1>10. CASE KnownOffsets(off) = {}
  <2>1. best' = [hz |-> hz0, off |-> off] /\ touched' = {}
    BY <1>3, <1>7, <1>9, <1>10 DEF Known
  <2>2. off < size
    <3>1. PICK m \in Nat : m = RoundDiv(size * 2, q) /\ q * m \in Int /\ 2 * (q * m) <= 4 * size + q
      BY <1>3, <1>4, At200
    <3>2. best.off + 2558 <= m
      BY <1>1, <1>3, <1>4, <3>1 DEF RoomInv, InSamples, Size200
    <3>3. (best.off + 2558) * q <= q * m /\ (best.off + 2558) * q = best.off * q + 2558 * q
      BY <1>4, <3>1, <3>2
    <3>4. best.off * q \in Int
      BY <1>4
    <3> QED BY <1>4, <1>9, <3>1, <3>3, <3>4
  <2> QED BY <1>1, <1>5, <1>6, <1>7, <1>8, <2>1, <2>2 DEF RoomInv, InSamples, InRange, band
<1>11. CASE KnownOffsets(off) # {}
  <2>1. PICK dhz \in {-60, 60}, g \in KnownOffsets(off) :
            /\ best' = [hz |-> hz0 + dhz, off |-> g]
            /\ touched' = { <<RoundDiv(hz0 + dhz, Bin), Block(rate) \div 2 + 1>>,
                            <<RoundDiv(hz0 + dhz, Bin) + 7, Block(rate) \div 2 + 1>>,
                            <<g + 79 * Block(rate) - 1, 2 * (size \div 2)>> }
    BY <1>3, <1>7, <1>9, <1>11 DEF Known
  <2>2. g \in Nat /\ g + 79 * (16 * q) <= 2 * (size \div 2)
    <3>1. g \in Nat
      BY <1>4, <2>1
    <3> QED BY <1>3, <2>1, <3>1 DEF KnownOffsets
  <2>3. g < size
    BY <1>4, <2>2
  <2>4. PICK bin0 \in Int : bin0 = RoundDiv(hz0 + dhz, Bin) /\ 0 <= bin0 /\ bin0 + 7 < 8 * q + 1
    <3>1. PICK hz \in Nat : hz = hz0 + dhz /\ hz + 11940 < 12000 * q
      BY <1>7
    <3>2. RoundDiv(hz, Bin) = (2 * hz + 1500) \div 3000
      BY <3>1 DEF RoundDiv, Bin
    <3> QED BY <3>1, <3>2
  <2>5. 0 <= g + 79 * (16 * q) - 1
    BY <2>2
  <2>6. \A a \in touched' : 0 <= a[1] /\ a[1] < a[2]
    BY <1>3, <1>4, <2>1, <2>2, <2>4, <2>5
  <2>7. best'.off = g /\ best'.hz >= 0
    BY <1>7, <2>1
  <2> QED BY <1>1, <1>5, <1>6, <1>8, <2>3, <2>6, <2>7 DEF RoomInv, InSamples, InRange, band
<1> QED BY <1>10, <1>11

LEMMA RoomCall == WhereInv /\ RoomInv /\ Call => RoomInv'
<1> SUFFICES ASSUME WhereInv, RoomInv, Call PROVE RoomInv'
  OBVIOUS
<1>1. /\ stage = "call" /\ stage' = "subtract" /\ UNCHANGED band /\ cand' = cand
      /\ best' = best /\ held' = held /\ touched' = {}
  BY DEF Call
<1>2. Given' /\ Margins' /\ Extended'
  BY <1>1, SameBand
<1>3. InBand' /\ InSamples'
  BY <1>1 DEF RoomInv, InBand, InSamples, band
<1> QED BY <1>1, <1>2, <1>3 DEF RoomInv, InRange

LEMMA RoomSubtract == WhereInv /\ RoomInv /\ Subtract => RoomInv'
<1> SUFFICES ASSUME WhereInv, RoomInv, Subtract PROVE RoomInv'
  OBVIOUS
<1>1. stage = "subtract" /\ stage' = "done" /\ UNCHANGED band /\ UNCHANGED pos /\ held' = held
  BY DEF Subtract
<1>2. PICK q \in Nat \ {0} : rate = 100 * q
  BY DEF WhereInv, Hundreds
<1>3. Block(rate) = 16 * q /\ Block(rate) \div 2 = 8 * q /\ 16 * q \in Nat \ {0}
  BY <1>2, Blocks
<1>4. /\ size \in Nat /\ best.hz \in Int /\ best.off \in Nat
      /\ best.off < size /\ best.hz >= 0
  BY <1>1 DEF WhereInv, SearchTypes, Place, RoomInv, InSamples
<1>5. PICK bin0 \in Int : bin0 = RoundDiv(best.hz, Bin) /\ 0 <= bin0
  <2>1. RoundDiv(best.hz, Bin) = (2 * best.hz + 1500) \div 3000
    BY <1>4 DEF RoundDiv, Bin
  <2> QED BY <1>4, <2>1
<1>6. PICK off0 \in {best.off, Larger(0, best.off - 1)} :
       touched' =
         IF bin0 + 8 > 8 * q + 1 \/ (size - off0) \div (16 * q) < 79 THEN {<<off0, size>>}
         ELSE { <<bin0, 8 * q + 1>>, <<bin0 + 7, 8 * q + 1>>, <<off0, size>>,
                <<off0 + 79 * (16 * q) - 1, size>> }
  BY <1>3, <1>5 DEF Subtract
<1>7. off0 \in Nat /\ off0 < size
  BY <1>4 DEF Larger
<1>8. (size - off0) \div (16 * q) >= 79 => off0 + 79 * (16 * q) - 1 < size
  <2>1. size - off0 \in Int
    BY <1>4, <1>7
  <2>2. PICK d \in Int, r \in 0 .. 16 * q - 1 :
          d = (size - off0) \div (16 * q) /\ (16 * q) * d \in Int /\ size - off0 = (16 * q) * d + r
    BY <1>3, <2>1, Division
  <2>3. d >= 79 => (16 * q) * 79 <= (16 * q) * d
    BY <1>3
  <2> QED BY <1>3, <1>4, <1>7, <2>2, <2>3
<1>9. (size - off0) \div (16 * q) \in Int
  <2>1. size - off0 \in Int
    BY <1>4, <1>7
  <2> QED BY <1>3, <2>1, Division
<1>10. \A a \in touched' : 0 <= a[1] /\ a[1] < a[2]
  <2>1. CASE bin0 + 8 > 8 * q + 1 \/ (size - off0) \div (16 * q) < 79
    BY <1>6, <1>7, <2>1
  <2>2. CASE ~ (bin0 + 8 > 8 * q + 1 \/ (size - off0) \div (16 * q) < 79)
    <3>1. touched' = { <<bin0, 8 * q + 1>>, <<bin0 + 7, 8 * q + 1>>, <<off0, size>>,
                       <<off0 + 79 * (16 * q) - 1, size>> }
      BY <1>6, <2>2
    <3>2. bin0 + 7 < 8 * q + 1 /\ 0 <= off0 + 79 * (16 * q) - 1
          /\ off0 + 79 * (16 * q) - 1 < size
      BY <1>2, <1>5, <1>7, <1>8, <1>9, <2>2
    <3> QED BY <1>2, <1>5, <1>7, <3>1, <3>2
  <2> QED BY <2>1, <2>2
<1>11. Given' /\ Margins' /\ Extended'
  BY <1>1, SameBand
<1>12. InBand' /\ InSamples'
  BY <1>1 DEF RoomInv, InBand, InSamples, band, pos
<1> QED BY <1>1, <1>10, <1>11, <1>12 DEF RoomInv, InRange

LEMMA RoomStutter == RoomInv /\ UNCHANGED searchVars => RoomInv'
BY DEF RoomInv, Given, Margins, Extended, InBand, InSamples, InRange, Size200, Block,
       searchVars, band, pos

LEMMA SearchInvariant == SearchSpec => [](WhereInv /\ RoomInv)
<1>1. WhereInv /\ [SearchNext]_searchVars => WhereInv'
  BY WhereReduce, WherePad, WhereCoarse, WhereSearch, WhereAdjust, WhereKnown, WhereCall,
     WhereSubtract, WhereStutter DEF SearchNext
<1>2. WhereInv /\ WhereInv' /\ RoomInv /\ [SearchNext]_searchVars => RoomInv'
  BY RoomReduce, RoomPad, RoomCoarse, RoomSearch, RoomAdjust, RoomKnown, RoomCall,
     RoomSubtract, RoomStutter DEF SearchNext
<1> QED BY WhereInit, RoomInit, <1>1, <1>2, PTL DEF SearchSpec

(* No assertion of ft8.cc fails and every index that the search computes    *)
(* exists, for every rate, window, start and number of threads that leave   *)
(* the band room.                                                           *)
THEOREM IndicesExist == SearchSpec => []InRange
<1>1. RoomInv => InRange
  BY DEF RoomInv
<1> QED BY <1>1, SearchInvariant, PTL

(* The coarse grid of the threads reaches every frequency and every start.  *)
THEOREM GridCovers == SearchSpec => []Covered
<1>1. WhereInv /\ RoomInv => Covered
  <2> SUFFICES ASSUME WhereInv, RoomInv, stage = "coarse" PROVE Covered
    BY DEF Covered
  <2>1. PICK q \in Nat \ {0} : rate = 100 * q
    BY DEF WhereInv, Hundreds
  <2>2. /\ lo \in Int /\ hi \in Int /\ start \in Nat /\ size \in Nat /\ rate \in Nat \ {0}
        /\ moved \in Nat /\ SearchTypes
    BY DEF WhereInv, SearchTypes
  <2>3. PICK s \in Nat \ {0} : Block(rate) = s /\ Block(rate) \div 2 = 8 * q
    <3>1. Block(rate) = 16 * q /\ Block(rate) \div 2 = 8 * q /\ 16 * q \in Nat \ {0}
      BY <2>1, Blocks
    <3> QED BY <3>1
  <2> DEFINE from == Hz(MinHz) + thread * Per(input[1])
             to   == from + Per(input[1]) - (IF thread = NThreads - 1 THEN Bin ELSE 0)
  <2>4. from \in Int /\ to \in Int
    <3>1. MinHz \in Nat /\ NThreads \in Nat \ {0} /\ input[1] \in Nat
      BY <2>2, SearchAssumption, InputIs DEF SearchTypes
    <3>2. Per(input[1]) \in Int /\ thread * Per(input[1]) \in Int
      BY <2>2, <3>1, BandIs DEF SearchTypes
    <3> QED BY <3>1, <3>2 DEF Hz, Bin
  <2>5. lo + moved <= from /\ to + 1500 <= hi + moved /\ hi + 12839 < 12000 * q
    <3>1. lo + moved <= from /\ to + 1500 <= hi + moved
      BY <2>2, BandHas DEF SearchTypes, RoomInv, Given
    <3> QED BY <2>1, <3>1 DEF RoomInv, Margins
  <2> HIDE DEF from, to
  <2>6. FirstBin * Bin + moved - 840 <= from
    <3>1. FirstBin = lo \div 1500 /\ Bin = 1500
      BY DEF FirstBin, Bin
    <3> QED BY <2>2, <2>4, <2>5, <3>1
  <2>7. Smaller(to, 120 * input[1] - Hz(60)) <= LastBin * Bin + 3 * (Bin \div 4) + moved + 840
    <3>1. LastBin = Smaller(hi \div 1500 - 1, 8 * q - 7) /\ Bin = 1500 /\ Bin \div 4 = 375
      BY <2>3 DEF LastBin, Bin
    <3>2. LastBin \in Int /\ to <= LastBin * 1500 + 3 * 375 + moved + 840
      BY <2>2, <2>4, <2>5, <3>1 DEF Smaller
    <3>3. 120 * input[1] - Hz(60) \in Int
      BY <2>2, InputIs DEF SearchTypes, Hz
    <3> QED BY <2>2, <2>4, <3>1, <3>2, <3>3 DEF Smaller
  <2>8. FirstSym * Block(rate) <= Larger(0, start - (22 * rate) \div 10)
    <3>1. PICK a \in Int : a = start - (22 * rate) \div 10
      BY <2>2
    <3>2. CASE a >= 0
      <4>1. PICK d \in Int, r \in 0 .. s - 1 :
              d = a \div s /\ s * d \in Int /\ a = s * d + r
        BY Divided
      <4>2. FirstSym = Larger(0, d)
        BY <2>3, <3>1, <3>2, <4>1 DEF FirstSym, TruncDiv
      <4>3. FirstSym * s = IF d < 0 THEN 0 ELSE s * d
        BY <2>3, <4>1, <4>2 DEF Larger
      <4> QED BY <2>3, <3>1, <3>2, <4>1, <4>3 DEF Larger
    <3>3. CASE a < 0
      <4>1. PICK d \in Int, r \in 0 .. s - 1 :
              d = (-a) \div s /\ s * d \in Int /\ -a = s * d + r
        <5>1. -a \in Int
          OBVIOUS
        <5> QED BY <5>1, Divided
      <4>2. d >= 0
        <5> SUFFICES ASSUME d + 1 <= 0 PROVE FALSE
          OBVIOUS
        <5>1. s * (d + 1) <= 0 /\ s * (d + 1) = s * d + s
          BY <2>3
        <5> QED BY <2>3, <3>3, <4>1, <5>1
      <4>3. FirstSym = 0
        BY <2>3, <3>1, <3>3, <4>1, <4>2 DEF FirstSym, TruncDiv, Larger
      <4> QED BY <2>3, <3>1, <3>3, <4>3 DEF Larger
    <3> QED BY <3>1, <3>2, <3>3
  <2>9. start + (24 * rate) \div 10 - Block(rate) <= LastSym(0) * Block(rate) + Block(rate)
    <3>1. PICK x \in Int : x = start + (24 * rate) \div 10
      BY <2>2
    <3>2. x + 79 * s <= size
      BY <2>3, <3>1 DEF RoomInv, Extended
    <3>3. PICK d \in Int, r \in 0 .. s - 1 :
            d = x \div s /\ s * d \in Int /\ x = s * d + r
      BY Divided
    <3>4. PICK e \in Int, t \in 0 .. s - 1 :
            e = size \div s /\ s * e \in Int /\ size = s * e + t
      <4>1. size \in Int
        BY <2>2
      <4> QED BY <4>1, Divided
    <3>5. LastSym(0) = Smaller(d - 1, e - 80)
      BY <2>2, <2>3, <3>1, <3>3, <3>4 DEF LastSym
    <3>6. /\ (d - 1) * s = s * d - s
          /\ (e - 80) * s = s * e - 80 * s
      BY <2>3, <3>3, <3>4
    <3>7. PICK y \in Int : y = LastSym(0) * s
                           /\ y \in {s * d - s, s * e - 80 * s}
      BY <2>3, <3>3, <3>4, <3>5, <3>6 DEF Smaller
    <3>8. x - s <= y + s
      <4>1. PICK u \in Int : u = s * d /\ x = u + r
        BY <3>3
      <4>2. PICK v \in Int : v = s * e /\ size = v + t
        BY <3>4
      <4>3. y = u - s \/ y = v - 80 * s
        BY <3>7, <4>1, <4>2
      <4> QED BY <3>2, <4>1, <4>2, <4>3
    <3>9. start + (24 * rate) \div 10 - Block(rate) = x - s
      <4>1. PICK z \in Int : z = (24 * rate) \div 10
        BY <2>2
      <4> QED BY <2>2, <2>3, <3>1, <4>1
    <3>10. LastSym(0) * Block(rate) + Block(rate) = y + s
      BY <2>3, <3>7
    <3> QED BY <3>8, <3>9, <3>10
  <2> QED BY <2>6, <2>7, <2>8, <2>9 DEF Covered, from, to
<1> QED BY <1>1, SearchInvariant, PTL

-------------------------------------------------------------------------------
(* A call as packcall() takes it, a locator, and what may end a call.       *)
IsCall(call) == call \in Seq(0..37) /\ Packable(call)
IsLocator(g) == g \in Seq(0..37) /\ IsGrid(g)
RoverEnds     == {<<>>, <<Slash, 28>>}

(* The six characters of a call: each is in the table for its place.        *)
LEMMA Six ==
  ASSUME NEW call, IsCall(call)
  PROVE  LET s == Field6(call)
         IN /\ s = <<s[1], s[2], s[3], s[4], s[5], s[6]>>
            /\ s[1] \in 0..36 /\ s[2] \in 1..36 /\ s[3] \in 1..10
            /\ \A i \in 4..6 : s[i] = 0 \/ s[i] \in 11..36
<1>1. call \in Seq(0..37) /\ Len(call) \in 3..6
  BY DEF IsCall, Packable
<1>2. <<0>> \o call \in Seq(0..37)
  BY <1>1
<1>3. PICK c \in Seq(0..37) : c = IF call[2] \in Digits THEN <<0>> \o call ELSE call
  BY <1>1, <1>2
<1>4. Padded(c, 6) \in Seq(0..37)
  <2>1. \A n \in Nat : [i \in 1..n |-> 0] \in Seq(0..37)
    OBVIOUS
  <2>2. CASE Len(c) >= 6
    BY <2>2 DEF Padded
  <2>3. CASE ~ (Len(c) >= 6)
    <3>1. [i \in 1..(6 - Len(c)) |-> 0] \in Seq(0..37)
      BY <2>3
    <3> QED BY <2>3, <3>1 DEF Padded
  <2> QED BY <2>2, <2>3
<1>5. PICK s \in Seq(0..37) : s = Field6(call)
  BY <1>3, <1>4 DEF Field6
<1>6. /\ Len(s) = 6 /\ s[1] \in 0..36 /\ s[2] \in 1..36 /\ s[3] \in Digits
      /\ \A i \in 4..6 : InC4(s[i])
  BY <1>5 DEF IsCall, Packable
<1>7. s = <<s[1], s[2], s[3], s[4], s[5], s[6]>>
  BY <1>6
<1> QED BY <1>5, <1>6, <1>7 DEF Digits, InC4, Letters

(* No call is one of the words that packcall() looks for first.             *)
LEMMA NotAWord ==
  ASSUME NEW call, IsCall(call)
  PROVE  call # DE /\ call # QRZ /\ call # CQ
<1>1. Len(call) \in 3..6
  BY DEF IsCall, Packable
<1>2. call # DE /\ call # CQ
  <2>1. Len(DE) = 2 /\ Len(CQ) = 2
    BY DEF DE, CQ
  <2>2. Len(call) # 2
    BY <1>1, SMT
  <2> QED BY <2>1, <2>2, Zenon
<1>3. call # QRZ
  <2> SUFFICES ASSUME call = QRZ PROVE FALSE
    OBVIOUS
  <2>1. Field6(call) = Padded(QRZ, 6)
    BY DEF Field6, QRZ, Digits
  <2>2. Padded(QRZ, 6)[3] = 36
    BY DEF Padded, QRZ
  <2> QED BY <2>1, <2>2, Six
<1> QED BY <1>2, <1>3

(* y is the number that packcall() makes of the indices a, b, ..., f.       *)
CallCodes == 37 * 36 * 10 * P3

NumberOf(y, a, b, c, d, e, f) ==
  /\ y = ((((a * 36 + b) * 10 + c) * 27 + d) * 27 + e) * 27 + f
  /\ y < CallCodes
  /\ y \div (36 * 10 * P3) = a /\ (y \div (10 * P3)) % 36 = b
  /\ (y \div P3) % 10 = c /\ (y \div 27^2) % 27 = d /\ (y \div 27) % 27 = e /\ y % 27 = f

LEMMA Positions ==
  ASSUME NEW a \in 0..36, NEW b \in 0..35, NEW c \in 0..9,
         NEW d \in 0..26, NEW e \in 0..26, NEW f \in 0..26
  PROVE  \E y \in Nat : NumberOf(y, a, b, c, d, e, f)
<1>1. PICK p \in Nat : p <= 1331 /\ p = a * 36 + b
  OBVIOUS
<1>2. PICK q \in Nat : q <= 13319 /\ q = p * 10 + c
  BY <1>1
<1>3. PICK r \in Nat : r <= 359639 /\ r = q * 27 + d
  BY <1>2
<1>4. PICK s \in Nat : s <= 9710279 /\ s = r * 27 + e
  BY <1>3
<1>5. PICK y \in Nat : y <= 262177559 /\ y = s * 27 + f
  BY <1>4
<1>6. y % 27 = f /\ y \div 27 = s
  BY <1>5
<1>7. s % 27 = e /\ s \div 27 = r
  BY <1>4
<1>8. r % 27 = d /\ r \div 27 = q
  BY <1>3
<1>9. q % 10 = c /\ q \div 10 = p
  BY <1>2
<1>10. p % 36 = b /\ p \div 36 = a
  BY <1>1
<1>11. y = r * 729 + e * 27 + f /\ y = q * 19683 + d * 729 + e * 27 + f
       /\ y = p * 196830 + c * 19683 + d * 729 + e * 27 + f
       /\ y = a * 7085880 + b * 196830 + c * 19683 + d * 729 + e * 27 + f
  BY <1>1, <1>2, <1>3, <1>4, <1>5
<1>12. y \div 729 = r /\ y \div 19683 = q
  BY <1>11
<1>13. y \div 196830 = p
  BY <1>11
<1>14. y \div 7085880 = a
  BY <1>11
<1>15. y = ((((a * 36 + b) * 10 + c) * 27 + d) * 27 + e) * 27 + f
  BY <1>1, <1>2, <1>3, <1>4, <1>5
<1>16. P3 = 19683 /\ 10 * P3 = 196830 /\ 36 * 10 * P3 = 7085880 /\ 27^2 = 729
  BY SMT DEF P3
<1>17. y < CallCodes
  BY <1>5, SMT DEF CallCodes, P3
<1>18. y \div (36 * 10 * P3) = a /\ (y \div (10 * P3)) % 36 = b /\ (y \div P3) % 10 = c
       /\ (y \div 27^2) % 27 = d
  BY <1>8, <1>9, <1>10, <1>12, <1>13, <1>14, <1>16, SMT
<1> QED BY <1>5, <1>6, <1>7, <1>15, <1>17, <1>18, SMT DEF NumberOf

(* The alternatives of the tables that are for calls and for locators.      *)
LEMMA CallPacked ==
  ASSUME NEW call, call # DE, call # QRZ, call # CQ, Packable(call)
  PROVE  PackCall(call) =
           LET s == Field6(call)
           IN ((((s[1] * 36 + s[2] - 1) * 10 + s[3] - 1) * 27 + Index4(s[4])) * 27
                + Index4(s[5])) * 27 + Index4(s[6]) + MAX22 + NTOKENS
BY ZenonT(60) DEF PackCall

LEMMA CallUnpacked ==
  ASSUME NEW x, NEW h22, x # 0, x # 1, x # 2, x \notin CqNumbers, x \notin CqLetters,
         x \notin TokenCodes, x \notin Hashes22
  PROVE  UnpackCall(x, h22) = CallOf(x - NTOKENS - MAX22)
BY ZenonT(60) DEF UnpackCall

LEMMA GridPacked ==
  ASSUME NEW g, IsGrid(g), g # <<>>, g # RRR, g # RR73, g # Seven3
  PROVE  PackGrid(g) = [ir |-> 0, ng |-> (((g[1] - 11) * 18 + g[2] - 11) * 10
                                             + g[3] - 1) * 10 + g[4] - 1]
BY ZenonT(60) DEF PackGrid

LEMMA GridUnpacked ==
  ASSUME NEW ng, ng < NGBASE
  PROVE  UnpackGrid(ng, 0) = <<11 + (ng \div 1800), 11 + ((ng \div 100) % 18),
                               1 + ((ng \div 10) % 10), 1 + (ng % 10)>>
BY ZenonT(60) DEF UnpackGrid

LEMMA RR73Packed == PackGrid(RR73) = [ir |-> 0, ng |-> NGBASE + 3]
<1>1. RR73 # <<>> /\ RR73 # RRR /\ RR73 # Seven3
  BY SMT DEF RR73, RRR, Seven3
<1> QED BY <1>1, ZenonT(60) DEF PackGrid

LEMMA RR73Unpacked == UnpackGrid(NGBASE + 3, 0) = RR73
<1>1. ~ (NGBASE + 3 < NGBASE) /\ NGBASE + 3 # NGBASE + 1 /\ NGBASE + 3 # NGBASE + 2
      /\ NGBASE + 3 # NGBASE + 4
  BY SMT DEF NGBASE
<1> QED BY <1>1, ZenonT(60) DEF UnpackGrid

(* packcall() and unpackcall() agree on every call.                         *)
LEMMA CallComesBack ==
  ASSUME NEW call, IsCall(call), NEW h22
  PROVE  /\ PackCall(call) \in Nat /\ PackCall(call) < 2^28
         /\ UnpackCall(PackCall(call), h22) = Field6(call)
<1>1. PICK s : s = Field6(call)
  OBVIOUS
<1>2. /\ s = <<s[1], s[2], s[3], s[4], s[5], s[6]>>
      /\ s[1] \in 0..36 /\ s[2] \in 1..36 /\ s[3] \in 1..10
      /\ \A i \in 4..6 : s[i] = 0 \/ s[i] \in 11..36
  BY <1>1, Six
<1>3. PICK a \in 0..36, b \in 0..35, c \in 0..9 : s[1] = a /\ s[2] = b + 1 /\ s[3] = c + 1
  <2>1. s[2] - 1 \in 0..35 /\ s[3] - 1 \in 0..9 /\ s[2] = (s[2] - 1) + 1 /\ s[3] = (s[3] - 1) + 1
    BY <1>2
  <2> QED BY <1>2, <2>1
<1>4. \A i \in 4..6 : Index4(s[i]) \in 0..26 /\ C4(Index4(s[i])) = s[i]
  BY <1>2 DEF Index4, C4
<1>5. PICK d \in 0..26, e \in 0..26, f \in 0..26 :
        /\ d = Index4(s[4]) /\ C4(d) = s[4] /\ e = Index4(s[5]) /\ C4(e) = s[5]
        /\ f = Index4(s[6]) /\ C4(f) = s[6]
  <2>1. 4 \in 4..6 /\ 5 \in 4..6 /\ 6 \in 4..6
    BY SMT
  <2> QED BY <1>4, <2>1, Zenon
<1>6. PICK y \in Nat : NumberOf(y, a, b, c, d, e, f)
  BY Positions, Zenon
<1>7. PackCall(call) = y + MAX22 + NTOKENS
  <2>1. call # DE /\ call # QRZ /\ call # CQ /\ Packable(call)
    BY NotAWord DEF IsCall
  <2>2. PackCall(call) = ((((s[1] * 36 + s[2] - 1) * 10 + s[3] - 1) * 27 + Index4(s[4])) * 27
                          + Index4(s[5])) * 27 + Index4(s[6]) + MAX22 + NTOKENS
    BY <1>1, <2>1, CallPacked
  <2>3. s[1] * 36 + s[2] - 1 = a * 36 + b
    BY <1>3
  <2>4. (a * 36 + b) * 10 + s[3] - 1 = (a * 36 + b) * 10 + c
    BY <1>3
  <2> QED BY <1>5, <1>6, <2>2, <2>3, <2>4, SMT DEF NumberOf
<1>8. PICK x : x = PackCall(call) /\ x = y + MAX22 + NTOKENS
  BY <1>7
<1>9. y \in Nat /\ y < CallCodes
  BY <1>6, Zenon DEF NumberOf
<1>10. x \in Nat /\ x < 2^28 /\ x - NTOKENS - MAX22 = y
  BY <1>8, <1>9, SMT DEF MAX22, NTOKENS, CallCodes, P3
<1>12. x >= NTOKENS + MAX22
  BY <1>8, <1>9, SMT DEF MAX22, NTOKENS
<1>11. UnpackCall(x, h22) = CallOf(x - NTOKENS - MAX22)
  <2>1. x > NTOKENS + MAX22 - 1 /\ x > NTOKENS - 1 /\ x > TOKEN0 - 1
    BY <1>10, <1>12, SMT DEF MAX22, NTOKENS, TOKEN0
  <2>2. x # 0 /\ x # 1 /\ x # 2 /\ x \notin CqNumbers
    BY <1>10, <1>12, SMT DEF MAX22, NTOKENS, CqNumbers
  <2>3. NTOKENS + MAX22 - 1 \in Int /\ NTOKENS - 1 \in Int /\ TOKEN0 - 1 \in Int /\ x \in Int
    BY <1>10, SMT DEF MAX22, NTOKENS, TOKEN0
  <2>4. x \notin CqLetters /\ x \notin TokenCodes /\ x \notin Hashes22
    BY <2>1, <2>3, SMT DEF CqLetters, TokenCodes, Hashes22
  <2> QED BY <2>2, <2>4, CallUnpacked, Zenon
<1>13. C1(a) = s[1] /\ C2(b) = s[2] /\ C3(c) = s[3]
  BY <1>3 DEF C1, C2, C3
<1>14. UnpackCall(x, h22) = <<s[1], s[2], s[3], s[4], s[5], s[6]>>
  <2>1. UnpackCall(x, h22) =
          <<C1(y \div (36 * 10 * P3)), C2((y \div (10 * P3)) % 36), C3((y \div P3) % 10),
            C4((y \div 27^2) % 27), C4((y \div 27) % 27), C4(y % 27)>>
    BY <1>10, <1>11, Zenon DEF CallOf
  <2>2. y \div (36 * 10 * P3) = a /\ (y \div (10 * P3)) % 36 = b /\ (y \div P3) % 10 = c
    BY <1>6, Zenon DEF NumberOf
  <2>3. (y \div 27^2) % 27 = d /\ (y \div 27) % 27 = e /\ y % 27 = f
    BY <1>6, Zenon DEF NumberOf
  <2> QED BY <1>5, <1>13, <2>1, <2>2, <2>3, Zenon
<1> QED BY <1>1, <1>2, <1>8, <1>10, <1>14, Zenon

(* packgrid() and unpackgrid() agree on every locator, RR73 included.       *)
LEMMA GridComesBack ==
  ASSUME NEW g, IsLocator(g)
  PROVE  /\ PackGrid(g).ir = 0 /\ PackGrid(g).ng \in 0 .. 2^15 - 1
         /\ UnpackGrid(PackGrid(g).ng, 0) = g
<1>1. g \in Seq(0..37) /\ Len(g) = 4 /\ g = <<g[1], g[2], g[3], g[4]>>
      /\ g[1] \in 11..28 /\ g[2] \in 11..28 /\ g[3] \in 1..10 /\ g[4] \in 1..10
  BY DEF IsLocator, IsGrid, Digits
<1>2. g # <<>> /\ g # RRR /\ g # Seven3
  <2>1. Len(RRR) = 3 /\ Len(Seven3) = 2 /\ Len(<<>>) = 0
    BY DEF RRR, Seven3
  <2>2. Len(g) # 3 /\ Len(g) # 2 /\ Len(g) # 0
    BY <1>1
  <2> QED BY <2>1, <2>2, Zenon
<1>3. 2^15 = 32768 /\ NGBASE = 32400
  BY DEF NGBASE
<1>4. CASE g = RR73
  BY <1>3, <1>4, RR73Packed, RR73Unpacked, SMT
<1>5. CASE g # RR73
  <2>1. PICK a \in 0..17, b \in 0..17, c \in 0..9, d \in 0..9 :
          g[1] = a + 11 /\ g[2] = b + 11 /\ g[3] = c + 1 /\ g[4] = d + 1
    <3>1. /\ g[1] - 11 \in 0..17 /\ g[2] - 11 \in 0..17 /\ g[3] - 1 \in 0..9 /\ g[4] - 1 \in 0..9
          /\ g[1] = (g[1] - 11) + 11 /\ g[2] = (g[2] - 11) + 11
          /\ g[3] = (g[3] - 1) + 1 /\ g[4] = (g[4] - 1) + 1
      BY <1>1
    <3> QED BY <3>1
  <2>2. PICK n \in Nat : n = a * 1800 + b * 100 + c * 10 + d
    OBVIOUS
  <2>3. PackGrid(g) = [ir |-> 0, ng |-> (((g[1] - 11) * 18 + g[2] - 11) * 10 + g[3] - 1) * 10 + g[4] - 1]
    BY <1>2, <1>5, GridPacked DEF IsLocator
  <2>4. (((g[1] - 11) * 18 + g[2] - 11) * 10 + g[3] - 1) * 10 + g[4] - 1 = n
    BY <2>1, <2>2
  <2>5. n < 32400
    BY <2>2
  <2>6. n \div 1800 = a /\ (n \div 100) % 18 = b /\ (n \div 10) % 10 = c /\ n % 10 = d
    <3>1. n \div 1800 = a
      BY <2>2
    <3>2. n \div 100 = a * 18 + b /\ n \div 10 = a * 180 + b * 10 + c
      BY <2>2
    <3> QED BY <2>2, <3>1, <3>2
  <2>7. UnpackGrid(n, 0) = <<11 + a, 11 + b, 1 + c, 1 + d>>
    <3>1. n < NGBASE
      BY <1>3, <2>5, SMT
    <3> QED BY <2>6, <3>1, GridUnpacked
  <2>8. <<11 + a, 11 + b, 1 + c, 1 + d>> = g
    BY <1>1, <2>1
  <2>9. PackGrid(g) = [ir |-> 0, ng |-> n]
    BY <2>3, <2>4, Zenon
  <2>10. n \in 0 .. 2^15 - 1
    BY <1>3, <2>5, SMT
  <2>11. PackGrid(g).ir = 0 /\ PackGrid(g).ng = n
    BY <2>9, SMT
  <2> QED BY <2>7, <2>8, <2>10, <2>11, Zenon
<1> QED BY <1>4, <1>5

LEMMA ThreeToSix ==
  ASSUME NEW x \in 3..6
  PROVE  \E n \in Nat : n = x /\ 3 <= n /\ n <= 6 /\ n \in Int
OBVIOUS

(* A slash is in no table, hence in no call.                                *)
LEMMA NoSlash ==
  ASSUME NEW call, IsCall(call)
  PROVE  call \in Seq(0..37) /\ Len(call) \in 3..6 /\ \A i \in 1..Len(call) : call[i] # Slash
<1>1. call \in Seq(0..37) /\ Len(call) \in 3..6
  BY DEF IsCall, Packable
<1>0. PICK n \in Nat : n = Len(call) /\ 3 <= n /\ n <= 6
  BY <1>1, ThreeToSix, Zenon
<1>2. ASSUME NEW i \in 1..n PROVE call[i] # Slash
  <2>1. \A j \in 1..6 : Field6(call)[j] # 37
    <3>1. PICK s : s = Field6(call)
      OBVIOUS
    <3>2. /\ s[1] \in 0..36 /\ s[2] \in 1..36 /\ s[3] \in 1..10
          /\ \A j \in 4..6 : s[j] = 0 \/ s[j] \in 11..36
      BY <3>1, Six
    <3>3. \A j \in 1..6 : s[j] # 37
      <4>1. \A j \in 1..6 : j = 1 \/ j = 2 \/ j = 3 \/ j \in 4..6
        OBVIOUS
      <4>2. s[1] # 37 /\ s[2] # 37 /\ s[3] # 37 /\ \A j \in 4..6 : s[j] # 37
        BY <3>2
      <4> QED BY <4>1, <4>2, Zenon
    <3> QED BY <3>1, <3>3
  <2>2. CASE call[2] \in Digits
    <3>1. \E j \in 1..6 : Field6(call)[j] = call[i]
      <4>1. PICK c : c = <<0>> \o call
        OBVIOUS
      <4>2. c \in Seq(0..37) /\ Len(c) = Len(call) + 1 /\ c[i + 1] = call[i]
        BY <1>1, <1>0, <4>1
      <4>3. Field6(call) = Padded(c, 6) /\ Len(Field6(call)) = 6
        BY <2>2, <4>1 DEF Field6, IsCall, Packable
      <4>4. Padded(c, 6)[i + 1] = c[i + 1]
        <5>1. [j \in 1..(6 - (n + 1)) |-> 0] \in Seq(0..37)
          BY <1>0
        <5>2. Padded(c, 6) = c \/ Padded(c, 6) = c \o [j \in 1..(6 - (n + 1)) |-> 0]
          BY <1>0, <4>2, Zenon DEF Padded
        <5>3. (c \o [j \in 1..(6 - (n + 1)) |-> 0])[i + 1] = c[i + 1]
          BY <1>0, <4>2, <5>1
        <5> QED BY <5>2, <5>3, Zenon
      <4>5. i + 1 \in 1..6
        <5>1. Len(c) >= 6 => Len(c) = 6
          BY <4>3 DEF Padded
        <5>2. Len(c) = n + 1
          BY <1>0, <4>2, Zenon
        <5>3. n + 1 >= 6 => n + 1 = 6
          BY <5>1, <5>2, Zenon
        <5> QED BY <1>0, <5>3
      <4> QED BY <4>2, <4>3, <4>4, <4>5
    <3> QED BY <2>1, <3>1 DEF Slash
  <2>3. CASE call[2] \notin Digits
    <3>1. Field6(call) = Padded(call, 6)
      BY <2>3 DEF Field6
    <3>2. Padded(call, 6)[i] = call[i]
      <4>1. Padded(call, 6) = call \/ Padded(call, 6) = call \o [j \in 1..(6 - n) |-> 0]
        BY <1>0, Zenon DEF Padded
      <4>2. [j \in 1..(6 - n) |-> 0] \in Seq(0..37)
        BY <1>0
      <4>3. (call \o [j \in 1..(6 - n) |-> 0])[i] = call[i]
        BY <1>1, <1>0, <4>2
      <4> QED BY <4>1, <4>3, Zenon
    <3>3. i \in 1..6
      BY <1>0
    <3> QED BY <2>1, <3>1, <3>2, <3>3 DEF Slash
  <2> QED BY <2>2, <2>3
<1> QED BY <1>1, <1>0, <1>2

(* pack77() takes a call and what was typed after it apart again.           *)
LEMMA RoverStripped ==
  ASSUME NEW call, IsCall(call), NEW rover \in RoverEnds
  PROVE  /\ StripRover(call \o rover) = call
         /\ HasRover(call \o rover) <=> rover # <<>>
         /\ Len(call \o rover) >= 3
<1>1. call \in Seq(0..37) /\ Len(call) \in 3..6 /\ \A i \in 1..Len(call) : call[i] # Slash
  BY NoSlash
<1>0. PICK n \in Nat : n = Len(call) /\ 3 <= n /\ n <= 6 /\ n \in Int
  BY <1>1, ThreeToSix, Zenon
<1>2. CASE rover = <<>>
  <2>1. call \o rover = call
    BY <1>1, <1>2
  <2>2. ~ HasRover(call)
    <3> SUFFICES ASSUME SubSeq(call, Len(call) - 1, Len(call)) = <<Slash, 28>> PROVE FALSE
      <4>1. (Len(call) - 2) + 1 = Len(call) - 1
        BY <1>1
      <4> QED BY <4>1 DEF HasRover, DropFirst
    <3>1. \A i \in 1..n : call[i] \in 0..37
      BY <1>1, <1>0
    <3>2. \A i \in n - 1 .. n : call[i] \in 0..37
      <4>1. \A i \in n - 1 .. n : i \in 1..n
        BY <1>0
      <4> QED BY <3>1, <4>1, Zenon
    <3>3. \A i \in 1 .. n - (n - 1) + 1 : SubSeq(call, n - 1, n)[i] = call[(n - 1) + i - 1]
      BY <1>0, <3>2, SubSeqProperties
    <3>4. 1 \in 1 .. n - (n - 1) + 1 /\ (n - 1) + 1 - 1 = n - 1 /\ n - 1 \in 1..n
      BY <1>0
    <3>5. SubSeq(call, n - 1, n)[1] = call[n - 1]
      BY <3>3, <3>4, Zenon
    <3>6. SubSeq(call, n - 1, n)[1] = Slash
      <4>1. <<Slash, 28>>[1] = Slash
        OBVIOUS
      <4> QED BY <1>0, <4>1, Zenon
    <3> QED BY <1>1, <1>0, <3>4, <3>5, <3>6, Zenon
  <2>3. Len(call) >= 3
    BY <1>0
  <2> QED BY <1>2, <2>1, <2>2, <2>3, Zenon DEF StripRover
<1>3. CASE rover = <<Slash, 28>>
  <2>1. PICK c : c = call \o rover
    OBVIOUS
  <2>2. /\ c \in Seq(0..37) /\ Len(c) = Len(call) + 2
        /\ \A i \in 1..Len(call) : c[i] = call[i]
        /\ c[Len(c) - 1] = Slash /\ c[Len(c)] = 28
    BY <1>1, <1>3, <2>1 DEF Slash
  <2>3. Len(c) = n + 2 /\ Len(c) - 1 = n + 1
    BY <1>0, <2>2
  <2>4. \A i \in 1 .. n + 2 : c[i] \in 0..37
    <3>1. \A i \in 1 .. Len(c) : c[i] \in 0..37
      BY <2>2, ElementOfSeq, Zenon
    <3> QED BY <2>3, <3>1, Zenon
  <2>5. SubSeq(c, n + 1, n + 2) = <<Slash, 28>>
    <3>1. PICK t : t = SubSeq(c, n + 1, n + 2)
      OBVIOUS
    <3>2. \A i \in n + 1 .. n + 2 : c[i] \in 0..37
      <4>1. \A i \in n + 1 .. n + 2 : i \in 1 .. n + 2
        OBVIOUS
      <4> QED BY <2>4, <4>1, Zenon
    <3>3. /\ t \in Seq(0..37) /\ Len(t) = IF n + 1 <= n + 2 THEN (n + 2) - (n + 1) + 1 ELSE 0
          /\ \A i \in 1 .. (n + 2) - (n + 1) + 1 : t[i] = c[(n + 1) + i - 1]
      BY <3>1, <3>2, SubSeqProperties
    <3>4. Len(t) = 2 /\ t[1] = c[n + 1] /\ t[2] = c[n + 2]
      <4>1. /\ 1 \in 1 .. (n + 2) - (n + 1) + 1 /\ 2 \in 1 .. (n + 2) - (n + 1) + 1
            /\ (n + 1) + 1 - 1 = n + 1 /\ (n + 1) + 2 - 1 = n + 2
            /\ n + 1 <= n + 2 /\ (n + 2) - (n + 1) + 1 = 2
        OBVIOUS
      <4> QED BY <3>3, <4>1, Zenon
    <3>5. t[1] = Slash /\ t[2] = 28
      BY <2>2, <2>3, <3>4, Zenon
    <3>6. t = <<t[1], t[2]>>
      BY <3>3, <3>4
    <3> QED BY <3>1, <3>5, <3>6
  <2>6. SubSeq(c, 1, n) = call
    <3>1. PICK t : t = SubSeq(c, 1, n)
      OBVIOUS
    <3>2. \A i \in 1 .. n : c[i] \in 0..37
      <4>1. \A i \in 1 .. n : i \in 1 .. n + 2
        OBVIOUS
      <4> QED BY <2>4, <4>1, Zenon
    <3>3. /\ t \in Seq(0..37) /\ Len(t) = IF 1 <= n THEN n - 1 + 1 ELSE 0
          /\ \A i \in 1 .. n - 1 + 1 : t[i] = c[1 + i - 1]
      BY <3>1, <3>2, SubSeqProperties
    <3>4. Len(t) = n /\ \A i \in 1..n : t[i] = call[i]
      <4>1. 1 <= n /\ n - 1 + 1 = n /\ \A i \in 1..n : 1 + i - 1 = i
        BY <1>0
      <4> QED BY <1>0, <2>2, <3>3, <4>1, Zenon
    <3> QED BY <1>1, <1>0, <3>1, <3>3, <3>4, SeqEqual
  <2>7. Len(c) - 2 = n /\ n + 2 = Len(c) /\ Len(c) > 2 /\ Len(c) >= 3
    BY <1>0, <2>3
  <2>8. HasRover(c)
    BY <2>5, <2>7, Zenon DEF HasRover, DropFirst
  <2>9. StripRover(c) = call
    BY <2>6, <2>7, <2>8, Zenon DEF StripRover
  <2>10. rover # <<>>
    BY <1>3
  <2> QED BY <2>1, <2>7, <2>8, <2>9, <2>10, Zenon
<1> QED BY <1>2, <1>3 DEF RoverEnds

(* CQ, DE and QRZ stand in the place of the first call.                     *)
Words          == {DE, QRZ, CQ}
IsFirst(w, r)  == (IsCall(w) /\ r \in RoverEnds) \/ (w \in Words /\ r = <<>>)
AsShown(w)     == IF w \in Words THEN w ELSE Field6(w)
IsExchange(g)  == IsLocator(g) \/ g \in {RRR, RR73, Seven3}
GridShown(g)   == IF g = RRR THEN RRR \o <<0>> ELSE IF g = Seven3 THEN Seven3 \o <<0, 0>> ELSE g

LEMMA WordComesBack ==
  ASSUME NEW w \in Words, NEW h22
  PROVE  /\ PackCall(w) \in Nat /\ PackCall(w) < 2^28
         /\ UnpackCall(PackCall(w), h22) = w
         /\ StripRover(w) = w /\ ~ HasRover(w)
<1>1. DE # QRZ /\ DE # CQ /\ QRZ # CQ
  BY SMT DEF DE, QRZ, CQ
<1>2. PackCall(DE) = 0 /\ PackCall(QRZ) = 1 /\ PackCall(CQ) = 2
  BY <1>1, ZenonT(60) DEF PackCall
<1>3. \A i \in 0..2 : /\ i \notin CqNumbers /\ i \notin CqLetters
                    /\ i \notin TokenCodes /\ i \notin Hashes22
  <2>1. \A i \in 0..2 : i \notin TokenCodes /\ i \notin Hashes22
    <3>1. TOKEN0 \in Int /\ NTOKENS \in Int /\ TOKEN0 > 2 /\ NTOKENS > 2
      BY SMT DEF TOKEN0, NTOKENS
    <3> QED BY <3>1, SMT DEF TokenCodes, Hashes22
  <2>2. \A i \in 0..2 : i \notin CqNumbers /\ i \notin CqLetters
    BY SMT DEF CqNumbers, CqLetters
  <2> QED BY <2>1, <2>2
<1>4. 0 \in 0..2 /\ 1 \in 0..2 /\ 2 \in 0..2 /\ 0 # 1 /\ 0 # 2 /\ 1 # 2
  BY SMT
<1>5. UnpackCall(0, h22) = DE /\ UnpackCall(1, h22) = QRZ /\ UnpackCall(2, h22) = CQ
  <2>1. UnpackCall(0, h22) = DE
    <3>1. 0 \notin CqNumbers /\ 0 \notin CqLetters /\ 0 \notin TokenCodes /\ 0 \notin Hashes22
      BY <1>3, <1>4, Zenon
    <3> QED BY <1>4, <3>1, ZenonT(60) DEF UnpackCall
  <2>2. UnpackCall(1, h22) = QRZ
    <3>1. 1 \notin CqNumbers /\ 1 \notin CqLetters /\ 1 \notin TokenCodes /\ 1 \notin Hashes22
      BY <1>3, <1>4, Zenon
    <3> QED BY <1>4, <3>1, ZenonT(60) DEF UnpackCall
  <2>3. UnpackCall(2, h22) = CQ
    <3>1. 2 \notin CqNumbers /\ 2 \notin CqLetters /\ 2 \notin TokenCodes /\ 2 \notin Hashes22
      BY <1>3, <1>4, Zenon
    <3> QED BY <1>4, <3>1, ZenonT(60) DEF UnpackCall
  <2> QED BY <2>1, <2>2, <2>3
<1>6. 0 < 2^28 /\ 1 < 2^28 /\ 2 < 2^28
  BY SMT
<1>7. StripRover(w) = w /\ ~ HasRover(w)
  <2>1. CASE w = QRZ
    <3>1. Len(QRZ) = 3 /\ QRZ[2] = 28 /\ (3 - 2) + 1 = 2 /\ 2 \in Int /\ 3 \in Int
      BY SMT DEF QRZ
    <3>2. \A i \in 2..3 : QRZ[i] \in {28, 36}
      BY SMT DEF QRZ
    <3>3. \A i \in 1 .. 3 - 2 + 1 : SubSeq(QRZ, 2, 3)[i] = QRZ[2 + i - 1]
      BY <3>1, <3>2, SubSeqProperties
    <3>4. 1 \in 1 .. 3 - 2 + 1 /\ 2 + 1 - 1 = 2
      BY SMT
    <3>5. SubSeq(QRZ, 2, 3)[1] = 28
      BY <3>1, <3>3, <3>4, Zenon
    <3>6. <<Slash, 28>>[1] = Slash /\ Slash # 28
      BY SMT DEF Slash
    <3>7. ~ HasRover(QRZ)
      BY <3>1, <3>5, <3>6, Zenon DEF HasRover, DropFirst
    <3> QED BY <2>1, <3>7, Zenon DEF StripRover
  <2>2. CASE w = DE \/ w = CQ
    <3>1. Len(w) = 2 /\ ~ (2 > 2)
      BY <2>2 DEF DE, CQ
    <3> QED BY <3>1, Zenon DEF StripRover, HasRover
  <2> QED BY <2>1, <2>2 DEF Words
<1>8. (w = DE \/ w = QRZ \/ w = CQ) /\ 0 \in Nat /\ 1 \in Nat /\ 2 \in Nat
  BY DEF Words
<1> QED BY <1>2, <1>5, <1>6, <1>7, <1>8, Zenon

LEMMA FirstComesBack ==
  ASSUME NEW w, NEW r, IsFirst(w, r), NEW h22
  PROVE  /\ PackCall(w) \in Nat /\ PackCall(w) < 2^28
         /\ UnpackCall(PackCall(w), h22) = AsShown(w)
         /\ StripRover(w \o r) = w /\ (HasRover(w \o r) <=> r # <<>>)
         /\ r \in RoverEnds
<1>1. CASE IsCall(w) /\ r \in RoverEnds
  <2>1. w \notin Words
    BY <1>1, NotAWord DEF Words
  <2> QED BY <1>1, <2>1, CallComesBack, RoverStripped, Zenon DEF AsShown
<1>2. CASE w \in Words /\ r = <<>>
  <2>1. w \o <<>> = w
    <3>1. DE \in Seq(Nat) /\ QRZ \in Seq(Nat) /\ CQ \in Seq(Nat)
      BY SMT DEF DE, QRZ, CQ
    <3>2. w \in Seq(Nat)
      BY <1>2, <3>1, Zenon DEF Words
    <3> QED BY <3>2, ConcatEmptySeq
  <2>2. <<>> \in RoverEnds
    BY DEF RoverEnds
  <2> QED BY <1>2, <2>1, <2>2, WordComesBack, Zenon DEF AsShown
<1> QED BY <1>1, <1>2 DEF IsFirst

LEMMA ExchangeComesBack ==
  ASSUME NEW g, IsExchange(g)
  PROVE  /\ PackGrid(g).ir = 0 /\ PackGrid(g).ng \in 0 .. 2^15 - 1
         /\ UnpackGrid(PackGrid(g).ng, 0) = GridShown(g)
<1>1. RRR # <<>> /\ RRR # RR73 /\ RRR # Seven3 /\ Seven3 # <<>> /\ Seven3 # RR73 /\ RR73 # <<>>
  BY SMT DEF RRR, RR73, Seven3
<1>2. ~ IsGrid(RRR) /\ ~ IsGrid(Seven3)
  <2>1. Len(RRR) # 4 /\ Len(Seven3) # 4
    BY SMT DEF RRR, Seven3
  <2> QED BY <2>1, Zenon DEF IsGrid
<1>3. CASE IsLocator(g)
  <2>1. g # RRR /\ g # Seven3
    BY <1>2, <1>3, Zenon DEF IsLocator
  <2> QED BY <1>3, <2>1, GridComesBack, Zenon DEF GridShown
<1>4. CASE g = RR73
  <2>1. IsLocator(RR73)
    <3>1. RR73 \in Seq(0..37) /\ Len(RR73) = 4
      BY SMT DEF RR73
    <3>2. RR73[1] = 28 /\ RR73[2] = 28 /\ RR73[3] = 8 /\ RR73[4] = 4
      BY SMT DEF RR73
    <3> QED BY <3>1, <3>2, SMT DEF IsLocator, IsGrid, Digits
  <2> QED BY <1>3, <1>4, <2>1
<1>5. CASE g = RRR \/ g = Seven3
  <2>1. PackGrid(RRR) = [ir |-> 0, ng |-> NGBASE + 2] /\ PackGrid(Seven3) = [ir |-> 0, ng |-> NGBASE + 4]
    BY <1>1, <1>2, ZenonT(60) DEF PackGrid
  <2>2. /\ ~ (NGBASE + 2 < NGBASE) /\ NGBASE + 2 # NGBASE + 1 /\ NGBASE + 2 # NGBASE + 3
        /\ NGBASE + 2 # NGBASE + 4 /\ ~ (NGBASE + 4 < NGBASE) /\ NGBASE + 4 # NGBASE + 1
        /\ NGBASE + 4 # NGBASE + 2 /\ NGBASE + 4 # NGBASE + 3
    BY SMT DEF NGBASE
  <2>3. UnpackGrid(NGBASE + 2, 0) = RRR \o <<0>> /\ UnpackGrid(NGBASE + 4, 0) = Seven3 \o <<0, 0>>
    BY <2>2, ZenonT(60) DEF UnpackGrid
  <2>4. NGBASE + 2 \in 0 .. 2^15 - 1 /\ NGBASE + 4 \in 0 .. 2^15 - 1
    BY SMT DEF NGBASE
  <2>5. /\ PackGrid(RRR).ir = 0 /\ PackGrid(RRR).ng = NGBASE + 2
        /\ PackGrid(Seven3).ir = 0 /\ PackGrid(Seven3).ng = NGBASE + 4
    BY <2>1, SMT
  <2> QED BY <1>1, <1>5, <2>3, <2>4, <2>5, Zenon DEF GridShown
<1> QED BY <1>3, <1>4, <1>5 DEF IsExchange

(* What ft8gen packs the decoder unpacks to what was typed: every first     *)
(* word or call, every second call, with or without /R, and every locator,  *)
(* RRR, RR73 or 73 after them, whatever calls the decoder has heard before; *)
(* no two fields overlap in 28 or 15 bits (ft8gen.cc pack77(), unpack.cc    *)
(* unpack_1()).                                                             *)
THEOREM CallsComeBack ==
  ASSUME NEW a, NEW ra, IsFirst(a, ra), NEW b, NEW rb, IsCall(b), rb \in RoverEnds,
         NEW g, IsExchange(g), NEW tabs
  PROVE  Unpack(Pack77(<<a \o ra, b \o rb, g>>), tabs).text
           = AsShown(a) \o ra \o <<0>> \o Field6(b) \o rb \o <<0>> \o GridShown(g)
<1>1. PICK t : t = <<a \o ra, b \o rb, g>>
  OBVIOUS
<1>2. t[1] = a \o ra /\ t[2] = b \o rb /\ t[3] = g /\ Len(t) = 3
  BY <1>1
<1>3. ~ (Len(t) >= 4)
  BY <1>2
<1>4. PICK m : m = Pack77(t)
  OBVIOUS
<1>5. m = [i3 |-> 1, call1 |-> PackCall(a), rover1 |-> Bit(ra # <<>>),
           call2 |-> PackCall(b), rover2 |-> Bit(rb # <<>>), ir |-> 0, grid |-> PackGrid(g).ng]
  <2>1. PackCall(a) % 2^28 = PackCall(a) /\ PackCall(b) % 2^28 = PackCall(b)
    BY CallComesBack, FirstComesBack
  <2>2. PackGrid(g).ng % 2^15 = PackGrid(g).ng /\ PackGrid(g).ir = 0
    BY ExchangeComesBack
  <2>3. StripRover(t[1]) = a /\ StripRover(t[2]) = b
        /\ (HasRover(t[1]) <=> ra # <<>>) /\ (HasRover(t[2]) <=> rb # <<>>)
    BY <1>2, RoverStripped, FirstComesBack, Zenon
  <2>4. 2 < Len(t) /\ 2 + 1 = 3
    BY <1>2
  <2> QED BY <1>2, <1>3, <1>4, <2>1, <2>2, <2>3, <2>4, ZenonT(60) DEF Pack77, Bit
<1>6. Unpack(m, tabs) = Unpack1(m, tabs)
  <2>1. m.i3 = 1 /\ m.i3 # 0 /\ m.i3 \in {1, 2} /\ m.i3 # 3 /\ m.i3 # 4
    BY <1>5
  <2> QED BY <2>1, Zenon DEF Unpack
<1>7. Unpack1(m, tabs).text =
        UnpackCall(m.call1, tabs.h22) \o If(m.rover1, <<Slash, 28>>) \o <<0>>
          \o UnpackCall(m.call2, tabs.h22) \o If(m.rover2, <<Slash, 28>>)
          \o <<0>> \o UnpackGrid(m.grid, m.ir)
  BY <1>5 DEF Unpack1
<1>8. /\ UnpackCall(m.call1, tabs.h22) = AsShown(a) /\ UnpackCall(m.call2, tabs.h22) = Field6(b)
      /\ UnpackGrid(m.grid, m.ir) = GridShown(g)
  <2>1. m.call1 = PackCall(a) /\ m.call2 = PackCall(b) /\ m.grid = PackGrid(g).ng /\ m.ir = 0
    BY <1>5
  <2> QED BY <2>1, CallComesBack, FirstComesBack, ExchangeComesBack, Zenon
<1>9. If(m.rover1, <<Slash, 28>>) = ra /\ If(m.rover2, <<Slash, 28>>) = rb
  BY <1>5, FirstComesBack DEF If, Bit, RoverEnds
<1> QED BY <1>1, <1>4, <1>6, <1>7, <1>8, <1>9, Zenon
===============================================================================
