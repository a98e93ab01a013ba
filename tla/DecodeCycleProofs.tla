--------------------------- MODULE DecodeCycleProofs ---------------------------
(***************************************************************************)
(* Theorems about DecodeCycle for every number of threads, signals,        *)
(* buckets, passes and cycles.  The argument: cbMu serialises the          *)
(* callbacks, so of the threads that decode one message the first to look  *)
(* it up records it in cycle_already and owns it, until it has reported    *)
(* and subtracted it; the others find it there.  The list is emptied only  *)
(* while no decoder thread runs.                                           *)
(***************************************************************************)
EXTENDS DecodeCycle, TLAPS

(* Where a thread holds cbMu, where it owns the message of its candidate,   *)
(* and where it has a candidate.                                            *)
Callback == {"lock_cycle", "lookup", "print", "json", "wsjtx", "return_1", "return_2"}
Owning   == {"print", "json", "wsjtx", "return_2", "subtract"}
Busy     == Callback \cup {"lock_cb", "subtract", "mark"}
Where    == Busy \cup {"none", "pass", "scan", "done"}

Reports == [cycle : Nat, msg : Messages, of : Nat]

TypeOK ==
  /\ cmd \in Commands /\ now \in Nat /\ air \subseteq Signals
  /\ mpc \in {"wait", "reset", "announce", "spawn", "join", "joined"}
  /\ saved \in Nat /\ count \in Nat /\ seen \subseteq Messages
  /\ cbMu \in Threads \cup {NoThread} /\ cycleMu \in Threads \cup {NoThread}
  /\ tpc \in [Threads -> Where] /\ pass \in [Threads -> Nat]
  /\ cand \in [Threads -> (Signals \X Buckets) \cup {NoCandidate}]
  /\ already \in [Threads -> SUBSET Buckets]
  /\ input \in [Threads -> SUBSET Signals] /\ residue \in [Threads -> SUBSET Signals]
  /\ term \in Seq(Reports) /\ json \in Seq(Reports)
  /\ decoded \subseteq Nat \X Messages
  /\ subtracted \subseteq Nat \X Threads \X Signals

(* Threads run between spawn and join only, a mutex is held by the thread   *)
(* that is inside it, and a live decode is stamped with its own cycle.      *)
Control ==
  /\ mpc \notin {"spawn", "join"} => \A t \in Threads : tpc[t] = "none"
  /\ \A t \in Threads : tpc[t] \in Callback <=> cbMu = t
  /\ \A t \in Threads : tpc[t] = "lookup" <=> cycleMu = t
  /\ \A t \in Threads : tpc[t] \in Busy => cand[t] \in Signals \X Buckets
  /\ saved <= now /\ (cmd.mode = "file" => saved = 0)
  /\ mpc \in {"reset", "announce"} => Live
  /\ mpc = "reset" => saved < now
  /\ (Live /\ mpc \in {"announce", "spawn", "join", "joined"}) => saved = now

(* Of the owners of a message, and of those who have subtracted it in this  *)
(* cycle, there is one at most.                                             *)
Claims ==
  /\ \A t \in Threads : tpc[t] \in Owning => MessageOf(t) \in seen
  /\ \A t, u \in Threads :
       tpc[t] \in Owning /\ tpc[u] \in Owning /\ MessageOf(t) = MessageOf(u) => t = u
  /\ \A x \in subtracted :
       /\ x[1] <= now /\ (mpc = "reset" => x[1] < now)
       /\ x[1] = now => Text[x[3]] \in seen
       /\ \A t \in Threads : x[1] = now /\ tpc[t] \in Owning => Text[x[3]] # MessageOf(t)

DecodeInv == TypeOK /\ Control /\ Claims
-------------------------------------------------------------------------------
(* The steps of the program, action by action.                              *)
LEMMA Steps ==
  [Next]_vars =>
    \/ \E S \in SUBSET Signals : GetSamples(S) \/ NextFile(S)
    \/ SkipCycle \/ ResetCycle \/ Announce \/ Join \/ EndDecode
    \/ UNCHANGED vars
    \/ \E t \in Threads :
         \/ Spawn(t) \/ StartPass(t) \/ EndPass(t)
         \/ \E s \in Signals, b \in Buckets : DecodeCandidate(t, s, b)
         \/ LockCallback(t) \/ LockCycle(t) \/ FindSeen(t) \/ RecordNew(t)
         \/ PrintDecode(t) \/ SendJson(t) \/ SendWsjtx(t)
         \/ UnlockCallback(t) \/ Subtract(t) \/ MarkBucket(t)
BY DEF Next, Main, Decoder, Idle

LEMMA DecodeInit == Init => DecodeInv
<1> SUFFICES ASSUME Init PROVE DecodeInv
  OBVIOUS
<1> USE DecodeAssumption DEF Init
<1>1. TypeOK
  BY DEF TypeOK, Where
<1>2. Control
  BY DEF Control, Callback, Busy
<1>3. Claims
  BY DEF Claims, Owning
<1> QED BY <1>1, <1>2, <1>3 DEF DecodeInv
-------------------------------------------------------------------------------
LEMMA DecodeTypes ==
  ASSUME DecodeInv, [Next]_vars
  PROVE  TypeOK'
<1> USE DecodeAssumption DEF TypeOK, mainVars, cycleVars, locks, threadVars, outputs, history, Where
<1>0. TypeOK /\ Control
  BY DEF DecodeInv
<1>1. ASSUME NEW S \in SUBSET Signals, GetSamples(S) PROVE TypeOK'
  BY <1>0, <1>1 DEF GetSamples
<1>2. ASSUME NEW S \in SUBSET Signals, NextFile(S) PROVE TypeOK'
  BY <1>0, <1>2 DEF NextFile
<1>3. CASE SkipCycle
  BY <1>0, <1>3 DEF SkipCycle
<1>4. CASE ResetCycle
  BY <1>0, <1>4 DEF ResetCycle
<1>5. CASE Announce
  BY <1>0, <1>5 DEF Announce
<1>6. CASE EndDecode
  BY <1>0, <1>6 DEF EndDecode
<1>7. CASE UNCHANGED vars
  BY <1>0, <1>7 DEF vars
<1>8. CASE Join
  BY <1>0, <1>8 DEF Join
<1>9. ASSUME NEW t \in Threads, Spawn(t) PROVE TypeOK'
  BY <1>0, <1>9 DEF Spawn
<1>10. ASSUME NEW t \in Threads, StartPass(t) PROVE TypeOK'
  BY <1>0, <1>10 DEF StartPass, Goto
<1>11. ASSUME NEW t \in Threads, EndPass(t) PROVE TypeOK'
  BY <1>0, <1>11 DEF EndPass, Goto
<1>12. ASSUME NEW t \in Threads, NEW s \in Signals, NEW b \in Buckets, DecodeCandidate(t, s, b)
       PROVE  TypeOK'
  BY <1>0, <1>12 DEF DecodeCandidate, Goto, Messages, Busy
<1>13. ASSUME NEW t \in Threads, LockCallback(t) \/ LockCycle(t) PROVE TypeOK'
  BY <1>0, <1>13 DEF LockCallback, LockCycle, Goto, Busy, Callback
<1>14. ASSUME NEW t \in Threads, tpc[t] \in Busy
       PROVE  SignalOf(t) \in Signals /\ cand[t][2] \in Buckets /\ MessageOf(t) \in Messages
  BY <1>0, <1>14 DEF Control, SignalOf, MessageOf, Messages
<1>15. ASSUME NEW t \in Threads, FindSeen(t) PROVE TypeOK'
  BY <1>0, <1>15 DEF FindSeen, Goto, Busy, Callback
<1>16. ASSUME NEW t \in Threads, RecordNew(t) PROVE TypeOK'
  BY <1>0, <1>14, <1>16 DEF RecordNew, Goto, At, Busy, Callback
<1>17. ASSUME NEW t \in Threads, tpc[t] \in Busy PROVE Report(t) \in Reports
  BY <1>0, <1>14, <1>17 DEF Report, Reports
<1>18. ASSUME NEW t \in Threads, PrintDecode(t) PROVE TypeOK'
  <2>1. Report(t) \in Reports
    BY <1>17, <1>18 DEF PrintDecode, At, Busy, Callback
  <2> QED BY <1>0, <1>18, <2>1 DEF PrintDecode, Goto, Busy, Callback
<1>19. ASSUME NEW t \in Threads, SendJson(t) PROVE TypeOK'
  <2>1. Report(t) \in Reports
    BY <1>17, <1>19 DEF SendJson, At, Busy, Callback
  <2> QED BY <1>0, <1>19, <2>1 DEF SendJson, Goto, Busy, Callback
<1>20. ASSUME NEW t \in Threads, SendWsjtx(t) PROVE TypeOK'
  BY <1>0, <1>20 DEF SendWsjtx, Goto, Busy, Callback
<1>21. ASSUME NEW t \in Threads, UnlockCallback(t) PROVE TypeOK'
  BY <1>0, <1>21 DEF UnlockCallback, Goto, At, Busy
<1>22. ASSUME NEW t \in Threads, Subtract(t) PROVE TypeOK'
  <2>1. SignalOf(t) \in Signals
    BY <1>14, <1>22 DEF Subtract, At, Busy
  <2>2. residue' \in [Threads -> SUBSET Signals] /\ subtracted' \subseteq Nat \X Threads \X Signals
    <3>1. residue \in [Threads -> SUBSET Signals] /\ subtracted \subseteq Nat \X Threads \X Signals
          /\ now \in Nat
      BY <1>0
    <3>2. \/ /\ residue' = [residue EXCEPT ![t] = @ \ {SignalOf(t)}]
             /\ subtracted' = subtracted \cup {<<now, t, SignalOf(t)>>}
          \/ residue' = residue /\ subtracted' = subtracted
      BY <1>22 DEF Subtract
    <3> QED BY <2>1, <3>1, <3>2
  <2>3. tpc' \in [Threads -> Where]
    BY <1>0, <1>22 DEF Subtract, Goto, Busy
  <2> QED BY <1>0, <1>22, <2>2, <2>3 DEF Subtract
<1>23. ASSUME NEW t \in Threads, MarkBucket(t) PROVE TypeOK'
  <2>1. cand[t][2] \in Buckets
    BY <1>14, <1>23 DEF MarkBucket, At, Busy
  <2> QED BY <1>0, <1>23, <2>1 DEF MarkBucket, Goto
<1> QED
  BY Steps, <1>1, <1>2, <1>3, <1>4, <1>5, <1>6, <1>7, <1>8, <1>9, <1>10, <1>11, <1>12,
     <1>13, <1>15, <1>16, <1>18, <1>19, <1>20, <1>21, <1>22, <1>23

LEMMA DecodeControl ==
  ASSUME DecodeInv, [Next]_vars
  PROVE  Control'
<1> USE DecodeAssumption DEF Control, TypeOK, Live, At, Goto,
        mainVars, cycleVars, locks, threadVars, outputs, history, Where, Busy, Callback
<1>0. TypeOK /\ Control
  BY DEF DecodeInv
<1>1. ASSUME NEW S \in SUBSET Signals, GetSamples(S) PROVE Control'
  BY <1>0, <1>1 DEF GetSamples
<1>2. ASSUME NEW S \in SUBSET Signals, NextFile(S) PROVE Control'
  BY <1>0, <1>2 DEF NextFile
<1>3. CASE SkipCycle
  BY <1>0, <1>3 DEF SkipCycle
<1>4. CASE ResetCycle
  BY <1>0, <1>4 DEF ResetCycle
<1>5. CASE Announce
  BY <1>0, <1>5 DEF Announce
<1>6. CASE EndDecode
  BY <1>0, <1>6 DEF EndDecode
<1>7. CASE UNCHANGED vars
  BY <1>0, <1>7 DEF vars
<1>8. CASE Join
  BY <1>0, <1>8 DEF Join
<1>9. ASSUME NEW t \in Threads, Spawn(t) PROVE Control'
  BY <1>0, <1>9 DEF Spawn
<1>10. ASSUME NEW t \in Threads, StartPass(t) PROVE Control'
  BY <1>0, <1>10 DEF StartPass
<1>11. ASSUME NEW t \in Threads, EndPass(t) PROVE Control'
  BY <1>0, <1>11 DEF EndPass
<1>12. ASSUME NEW t \in Threads, NEW s \in Signals, NEW b \in Buckets, DecodeCandidate(t, s, b)
       PROVE  Control'
  BY <1>0, <1>12 DEF DecodeCandidate
<1>13. ASSUME NEW t \in Threads, LockCallback(t) PROVE Control'
  BY <1>0, <1>13 DEF LockCallback
<1>14. ASSUME NEW t \in Threads, LockCycle(t) PROVE Control'
  BY <1>0, <1>14 DEF LockCycle
<1>15. ASSUME NEW t \in Threads, FindSeen(t) PROVE Control'
  BY <1>0, <1>15 DEF FindSeen
<1>16. ASSUME NEW t \in Threads, RecordNew(t) PROVE Control'
  BY <1>0, <1>16 DEF RecordNew
<1>17. ASSUME NEW t \in Threads, PrintDecode(t) PROVE Control'
  BY <1>0, <1>17 DEF PrintDecode
<1>18. ASSUME NEW t \in Threads, SendJson(t) PROVE Control'
  BY <1>0, <1>18 DEF SendJson
<1>19. ASSUME NEW t \in Threads, SendWsjtx(t) PROVE Control'
  BY <1>0, <1>19 DEF SendWsjtx
<1>20. ASSUME NEW t \in Threads, UnlockCallback(t) PROVE Control'
  BY <1>0, <1>20 DEF UnlockCallback
<1>21. ASSUME NEW t \in Threads, Subtract(t) PROVE Control'
  BY <1>0, <1>21 DEF Subtract
<1>22. ASSUME NEW t \in Threads, MarkBucket(t) PROVE Control'
  BY <1>0, <1>22 DEF MarkBucket
<1> QED
  BY Steps, <1>1, <1>2, <1>3, <1>4, <1>5, <1>6, <1>7, <1>8, <1>9,
        <1>10, <1>11, <1>12, <1>13, <1>14, <1>15, <1>16, <1>17, <1>18, <1>19, <1>20,
        <1>21, <1>22

LEMMA DecodeClaims ==
  ASSUME DecodeInv, [Next]_vars
  PROVE  Claims'
<1> USE DecodeAssumption DEF Claims, Owning, At, Goto, SignalOf, MessageOf,
        mainVars, cycleVars, locks, threadVars, outputs, history
<1>0. TypeOK /\ Control /\ Claims
  BY DEF DecodeInv
<1> USE DEF TypeOK, Control
<1>1. ASSUME NEW S \in SUBSET Signals, GetSamples(S) PROVE Claims'
  BY <1>0, <1>1 DEF GetSamples
<1>2. ASSUME NEW S \in SUBSET Signals, NextFile(S) PROVE Claims'
  BY <1>0, <1>2 DEF NextFile
<1>3. CASE SkipCycle
  BY <1>0, <1>3 DEF SkipCycle
<1>4. CASE ResetCycle
  BY <1>0, <1>4 DEF ResetCycle
<1>5. CASE Announce
  BY <1>0, <1>5 DEF Announce
<1>6. CASE EndDecode
  BY <1>0, <1>6 DEF EndDecode
<1>7. CASE UNCHANGED vars
  BY <1>0, <1>7 DEF vars
<1>8. CASE Join
  BY <1>0, <1>8 DEF Join
<1>9. ASSUME NEW t \in Threads, Spawn(t) PROVE Claims'
  BY <1>0, <1>9 DEF Spawn
<1>10. ASSUME NEW t \in Threads, StartPass(t) PROVE Claims'
  BY <1>0, <1>10 DEF StartPass
<1>11. ASSUME NEW t \in Threads, EndPass(t) PROVE Claims'
  BY <1>0, <1>11 DEF EndPass
<1>12. ASSUME NEW t \in Threads, NEW s \in Signals, NEW b \in Buckets, DecodeCandidate(t, s, b)
       PROVE  Claims'
  BY <1>0, <1>12 DEF DecodeCandidate
<1>13. ASSUME NEW t \in Threads, LockCallback(t) PROVE Claims'
  BY <1>0, <1>13 DEF LockCallback
<1>14. ASSUME NEW t \in Threads, LockCycle(t) PROVE Claims'
  BY <1>0, <1>14 DEF LockCycle
<1>15. ASSUME NEW t \in Threads, FindSeen(t) PROVE Claims'
  BY <1>0, <1>15 DEF FindSeen
<1>16. ASSUME NEW t \in Threads, RecordNew(t) PROVE Claims'
  BY <1>0, <1>16 DEF RecordNew
<1>17. ASSUME NEW t \in Threads, PrintDecode(t) PROVE Claims'
  BY <1>0, <1>17 DEF PrintDecode
<1>18. ASSUME NEW t \in Threads, SendJson(t) PROVE Claims'
  BY <1>0, <1>18 DEF SendJson
<1>19. ASSUME NEW t \in Threads, SendWsjtx(t) PROVE Claims'
  BY <1>0, <1>19 DEF SendWsjtx
<1>20. ASSUME NEW t \in Threads, UnlockCallback(t) PROVE Claims'
  BY <1>0, <1>20 DEF UnlockCallback
<1>21. ASSUME NEW t \in Threads, Subtract(t) PROVE Claims'
  BY <1>0, <1>21 DEF Subtract
<1>22. ASSUME NEW t \in Threads, MarkBucket(t) PROVE Claims'
  BY <1>0, <1>22 DEF MarkBucket
<1> QED
  BY Steps, <1>1, <1>2, <1>3, <1>4, <1>5, <1>6, <1>7, <1>8, <1>9,
        <1>10, <1>11, <1>12, <1>13, <1>14, <1>15, <1>16, <1>17, <1>18, <1>19, <1>20,
        <1>21, <1>22

(* No thread is ever about to subtract a message that it, or another one,   *)
(* has subtracted in this cycle (try_decode() acts on what hcb() returned   *)
(* after it has given up the mutex, ft8.cc).                                *)
LEMMA ClaimsSubtract == DecodeInv => SubtractOnce
<1> SUFFICES ASSUME DecodeInv, NEW t \in Threads, At(t, "subtract")
             PROVE  /\ \A x \in subtracted : ~(x[1] = now /\ Text[x[3]] = MessageOf(t))
                    /\ \A u \in Threads \ {t} :
                         ~(At(u, "subtract") /\ MessageOf(u) = MessageOf(t))
  BY DEF SubtractOnce
<1> QED BY DEF DecodeInv, Claims, Owning, At

(* The inductive invariant: cbMu has one holder, of the threads with one    *)
(* message one owns it, and everything in cycle_already is of this cycle    *)
(* (hcb() and FT8::try_decode()).                                           *)
THEOREM DecodeInvariant == Spec => []DecodeInv
<1>1. DecodeInv /\ [Next]_vars => DecodeInv'
  BY DecodeTypes, DecodeControl, DecodeClaims DEF DecodeInv
<1> QED BY DecodeInit, <1>1, PTL DEF Spec

(* A message is subtracted once in a cycle, for any number of threads whose *)
(* bands overlap and any passes: hcb() answers 2 to one of them, and that   *)
(* answer is still the only one after cb_mu_ has been given up (ft8.cc).    *)
THEOREM SubtractedOnce == Spec => []SubtractOnce
BY DecodeInvariant, ClaimsSubtract, PTL
-------------------------------------------------------------------------------
(* Every message that was decoded has been reported, or a thread is on its  *)
(* way to report it or to find it in cycle_already; what is in there has    *)
(* been reported, or the thread that put it there is about to.              *)
OnItsWay(here, m) == \E t \in Threads : tpc[t] \in here /\ MessageOf(t) = m

Accounted ==
  /\ now = 0 => seen = {} /\ mpc = "wait"
  /\ mpc \notin {"wait", "reset"} \/ ~Live =>
       \A m \in seen : Reported(now, m) \/ OnItsWay({"print"}, m)
  /\ \A d \in decoded :
       Reported(d[1], d[2])
         \/ (d[1] = now /\ OnItsWay({"lock_cb", "lock_cycle", "lookup", "print"}, d[2]))

Pending == {"lock_cb", "lock_cycle", "lookup", "print"}

(* The log only grows.                                                      *)
LEMMA LogGrows ==
  ASSUME DecodeInv, [Next]_vars
  PROVE  /\ cmd' = cmd
         /\ term' = term \/ \E t \in Threads : PrintDecode(t) /\ term' = Append(term, Report(t))
BY Steps DEF SkipCycle, ResetCycle, Announce, Join, EndDecode, vars, GetSamples, NextFile,
   Spawn, StartPass, EndPass, DecodeCandidate, LockCallback, LockCycle, FindSeen, RecordNew,
   PrintDecode, SendJson, SendWsjtx, UnlockCallback, Subtract, MarkBucket, mainVars, outputs

LEMMA ReportedStays ==
  ASSUME DecodeInv, [Next]_vars, NEW c, NEW m, Reported(c, m)
  PROVE  Reported(c, m)'
<1>1. term \in Seq(Reports)
  BY DEF DecodeInv, TypeOK
<1>2. PICK i \in DOMAIN term :
        term[i].msg = m /\ (IF Live THEN term[i].of = c ELSE term[i].of <= c)
  BY DEF Reported, Live
<1>3. i \in DOMAIN term' /\ term'[i] = term[i] /\ Live' = Live
  BY <1>1, LogGrows DEF Live
<1> QED BY <1>2, <1>3 DEF Reported, Live

(* What an earlier file has brought counts for the next one.                *)
LEMMA ReportedLater ==
  ASSUME DecodeInv, ~Live, NEW c \in Nat, NEW m, Reported(c, m)
  PROVE  Reported(c + 1, m)
<1>1. term \in Seq(Reports)
  BY DEF DecodeInv, TypeOK
<1>2. PICK i \in DOMAIN term : term[i].msg = m /\ term[i].of <= c
  BY DEF Reported, Live
<1>3. term[i].of \in Nat
  <2>1. term[i] \in Reports
    BY <1>1
  <2> QED BY <2>1 DEF Reports
<1> QED BY <1>2, <1>3 DEF Reported, Live

(* A thread leaves that way by finding its message or by reporting it.      *)
LEMMA WaysOut ==
  ASSUME DecodeInv, [Next]_vars, NEW t \in Threads, tpc[t] \in Pending
  PROVE  /\ now' = now /\ mpc \in {"spawn", "join"}
         /\ \/ tpc'[t] \in Pending /\ (tpc[t] = "print" => tpc'[t] = "print")
               /\ cand'[t] = cand[t]
            \/ FindSeen(t)
            \/ PrintDecode(t)
<1> USE DEF DecodeInv, TypeOK, Control, Pending, Where, Callback, Busy, At, Goto,
        mainVars, threadVars
<1>1. mpc \in {"spawn", "join"}
  OBVIOUS
<1>2. CASE SkipCycle \/ ResetCycle \/ Announce \/ Join \/ EndDecode \/ UNCHANGED vars
  BY <1>1, <1>2 DEF SkipCycle, ResetCycle, Announce, Join, EndDecode, vars
<1>3. ASSUME NEW S \in SUBSET Signals, GetSamples(S) \/ NextFile(S) PROVE FALSE
  BY <1>1, <1>3 DEF GetSamples, NextFile
<1>4. ASSUME NEW u \in Threads,
             \/ Spawn(u) \/ StartPass(u) \/ EndPass(u) \/ UnlockCallback(u)
             \/ SendJson(u) \/ SendWsjtx(u) \/ Subtract(u) \/ MarkBucket(u)
      PROVE  tpc'[t] = tpc[t] /\ cand'[t] = cand[t] /\ now' = now
  BY <1>4 DEF Spawn, StartPass, EndPass, UnlockCallback, SendJson, SendWsjtx, Subtract, MarkBucket
<1>5. ASSUME NEW u \in Threads, NEW s \in Signals, NEW b \in Buckets, DecodeCandidate(u, s, b)
      PROVE  tpc'[t] = tpc[t] /\ cand'[t] = cand[t] /\ now' = now
  BY <1>5 DEF DecodeCandidate
<1>6. ASSUME NEW u \in Threads, LockCallback(u) \/ LockCycle(u) \/ RecordNew(u)
      PROVE  /\ tpc'[t] \in Pending /\ (tpc[t] = "print" => tpc'[t] = "print")
             /\ cand'[t] = cand[t] /\ now' = now
  BY <1>6 DEF LockCallback, LockCycle, RecordNew
<1>7. ASSUME NEW u \in Threads, FindSeen(u) \/ PrintDecode(u), u # t
      PROVE  tpc'[t] = tpc[t] /\ cand'[t] = cand[t] /\ now' = now
  BY <1>7 DEF FindSeen, PrintDecode
<1>8. FindSeen(t) \/ PrintDecode(t) => now' = now
  BY DEF FindSeen, PrintDecode
<1> QED BY Steps, <1>1, <1>2, <1>3, <1>4, <1>5, <1>6, <1>7, <1>8

LEMMA PrintReports ==
  ASSUME DecodeInv, NEW t \in Threads, PrintDecode(t), NEW m, m = MessageOf(t)
  PROVE  Reported(now, m)'
<1>0. now \in Nat
  BY DEF DecodeInv, TypeOK
<1>1. term \in Seq(Reports) /\ term' = Append(term, Report(t)) /\ now' = now
  BY DEF DecodeInv, TypeOK, PrintDecode, mainVars
<1>2. /\ Len(term) + 1 \in DOMAIN term'
      /\ term'[Len(term) + 1] = [cycle |-> saved, msg |-> m, of |-> now]
  BY <1>1 DEF Report
<1> QED BY <1>0, <1>1, <1>2 DEF Reported

(* Only RecordNew() and ResetCycle() change cycle_already, only             *)
(* DecodeCandidate() adds what was decoded.                                 *)
LEMMA Sources ==
  ASSUME [Next]_vars
  PROVE  /\ \/ seen' = seen \/ ResetCycle
            \/ \E t \in Threads : RecordNew(t) /\ seen' = seen \cup {MessageOf(t)}
         /\ \/ decoded' = decoded
            \/ \E t \in Threads, s \in Signals, b \in Buckets :
                 DecodeCandidate(t, s, b) /\ decoded' = decoded \cup {<<now, Text[s]>>}
         /\ \/ /\ now' = now
               /\ mpc = "wait" => mpc' = "wait"
               /\ mpc = "reset" => mpc' = "reset"
            \/ ResetCycle
            \/ mpc = "wait" /\ now' = now + 1 /\ mpc' \in {"wait", "reset"}
            \/ cmd.mode = "file" /\ mpc = "wait" /\ now < cmd.cycles /\ now' = now + 1
BY Steps DEF SkipCycle, ResetCycle, Announce, Join, EndDecode, vars, GetSamples, NextFile,
   Spawn, StartPass, EndPass, DecodeCandidate, LockCallback, LockCycle, FindSeen, RecordNew,
   PrintDecode, SendJson, SendWsjtx, UnlockCallback, Subtract, MarkBucket, mainVars, cycleVars, history

LEMMA AccountedKept ==
  ASSUME DecodeInv, Accounted, [Next]_vars
  PROVE  Accounted'
<1>0. TypeOK /\ Control
  BY DEF DecodeInv
<1>1. now \in Nat /\ now' \in Nat /\ (now' = now \/ now' = now + 1)
  BY <1>0, Sources DEF TypeOK, ResetCycle
<1>2. (now = 0 => seen = {} /\ mpc = "wait")'
  <2> SUFFICES ASSUME now' = 0 PROVE seen' = {} /\ mpc' = "wait"
    OBVIOUS
  <2>1. now = 0 /\ seen = {} /\ mpc = "wait" /\ \A t \in Threads : tpc[t] = "none"
    BY <1>0, <1>1 DEF Accounted, Control
  <2> QED
    BY <2>1, Sources DEF RecordNew, ResetCycle, At
<1>3. ASSUME mpc' \notin {"wait", "reset"} \/ ~Live, NEW m \in seen'
      PROVE  (Reported(now, m) \/ OnItsWay({"print"}, m))'
  <2>1. ASSUME NEW t \in Threads, RecordNew(t), m = MessageOf(t)
        PROVE  OnItsWay({"print"}, m)'
    BY <1>0, <2>1 DEF RecordNew, Goto, TypeOK, OnItsWay, MessageOf, SignalOf
  <2>2. CASE m \in seen /\ OnItsWay({"print"}, m)
    <3>1. PICK t \in Threads : tpc[t] = "print" /\ MessageOf(t) = m
      BY <2>2 DEF OnItsWay
    <3>2. ~FindSeen(t)
      BY <3>1 DEF FindSeen, At
    <3>3. CASE PrintDecode(t)
      BY <3>1, <3>3, PrintReports
    <3>4. CASE tpc'[t] = "print" /\ cand'[t] = cand[t]
      BY <3>1, <3>4 DEF OnItsWay, MessageOf, SignalOf
    <3> QED BY <3>1, <3>2, <3>3, <3>4, WaysOut DEF Pending
  <2>3. CASE m \in seen /\ Reported(now, m) /\ (mpc \notin {"wait", "reset"} \/ ~Live)
    <3>1. Reported(now, m)'  \/ now' # now
      BY <2>3, ReportedStays
    <3>2. ASSUME ~Live, now' = now + 1 PROVE Reported(now, m)'
      <4>1. PICK c \in Nat : c = now + 1
        BY <1>1
      <4>2. Reported(c, m)
        BY <1>1, <2>3, <3>2, <4>1, ReportedLater
      <4>3. Reported(c, m)'
        BY <4>2, ReportedStays
      <4>4. now' = c
        BY <3>2, <4>1
      <4> QED BY <4>3, <4>4 DEF Reported
    <3>3. mpc \notin {"wait", "reset"} => now' = now
      BY <1>3, Sources DEF ResetCycle
    <3> QED BY <1>1, <2>3, <3>1, <3>2, <3>3
  <2>4. ASSUME m \in seen, mpc \in {"wait", "reset"}, Live PROVE FALSE
    BY <1>0, <1>3, <2>4, Sources DEF ResetCycle, Live, TypeOK
  <2> QED BY <1>3, <2>1, <2>2, <2>3, <2>4, Sources DEF ResetCycle, Accounted
<1>4. ASSUME NEW d \in decoded'
      PROVE  (Reported(d[1], d[2]) \/ (d[1] = now /\ OnItsWay(Pending, d[2])))'
  <2>1. ASSUME NEW t \in Threads, NEW s \in Signals, NEW b \in Buckets,
               DecodeCandidate(t, s, b), d = <<now, Text[s]>>
        PROVE  d[1] = now' /\ OnItsWay(Pending, d[2])'
    BY <1>0, <2>1
       DEF DecodeCandidate, Goto, TypeOK, OnItsWay, MessageOf, SignalOf, Pending, mainVars
  <2>2. CASE d \in decoded /\ Reported(d[1], d[2])
    BY <2>2, ReportedStays
  <2>3. CASE d[1] = now /\ OnItsWay(Pending, d[2])
    <3>1. PICK t \in Threads : tpc[t] \in Pending /\ MessageOf(t) = d[2]
      BY <2>3 DEF OnItsWay
    <3>2. now' = now /\ mpc \in {"spawn", "join"}
      BY <3>1, WaysOut
    <3>3. CASE tpc'[t] \in Pending /\ cand'[t] = cand[t]
      BY <2>3, <3>1, <3>2, <3>3 DEF OnItsWay, MessageOf, SignalOf
    <3>4. CASE PrintDecode(t)
      BY <2>3, <3>1, <3>2, <3>4, PrintReports
    <3>5. CASE FindSeen(t)
      <4>1. d[2] \in seen /\ cbMu = t
        BY <1>0, <3>1, <3>5 DEF FindSeen, At, Control, Callback
      <4>2. ~OnItsWay({"print"}, d[2])
        BY <1>0, <3>5, <4>1 DEF OnItsWay, Control, Callback, FindSeen, At
      <4>3. Reported(now, d[2])
        BY <3>2, <4>1, <4>2 DEF Accounted
      <4> QED BY <2>3, <3>2, <4>3, ReportedStays
    <3> QED BY <3>1, <3>3, <3>4, <3>5, WaysOut
  <2> QED BY <1>4, <2>1, <2>2, <2>3, Sources DEF Accounted, Pending
<1>5. Live' = Live
  BY LogGrows DEF Live
<1> QED BY <1>2, <1>3, <1>4, <1>5 DEF Accounted, Pending

(* What hcb() suppresses has been reported: live on the same cycle, else in *)
(* the same file or an earlier one.                                         *)
THEOREM AllReported == Spec => []DecodedIsReported
<1>1. Init => Accounted
  BY DEF Init, Accounted
<1>2. DecodeInv /\ Accounted /\ [Next]_vars => Accounted'
  BY AccountedKept
<1>3. DecodeInv /\ Accounted => DecodedIsReported
  <2> SUFFICES ASSUME DecodeInv, Accounted, mpc \in {"joined", "wait"}, NEW d \in decoded
               PROVE  Reported(d[1], d[2])
    BY DEF DecodedIsReported
  <2> QED BY DEF DecodeInv, Control, Accounted, OnItsWay
<1> QED BY <1>1, <1>2, <1>3, DecodeInvariant, PTL DEF Spec
-------------------------------------------------------------------------------
(* While a live decode runs, the last datagrams are its "decoding" status   *)
(* and decodes.                                                             *)
Datagrams ==
  [type : {"heartbeat", "decoding", "monitoring"}, of : Nat]
    \cup [type : {"decode"}, of : Nat, report : Reports]

OpenIn(w, c) ==
  \E b \in 1 .. Len(w) :
    w[b] = Status(TRUE, c) /\ \A k \in b + 1 .. Len(w) : w[k].type = "decode"

BracketedIn(w) ==
  \A i \in 1 .. Len(w) : w[i].type = "decode" =>
    \E b \in 1 .. i - 1 :
      w[b] = Status(TRUE, w[i].report.cycle) /\ \A k \in b + 1 .. i : w[k].type = "decode"

Stream ==
  /\ wsjtx \in Seq(Datagrams)
  /\ (Live /\ mpc \in {"spawn", "join", "joined"}) => OpenIn(wsjtx, now)
  /\ Live => BracketedIn(wsjtx)

LEMMA Appended ==
  ASSUME NEW w \in Seq(Datagrams), NEW x \in Datagrams
  PROVE  /\ Len(w) \in Nat /\ Append(w, x) \in Seq(Datagrams)
         /\ Len(Append(w, x)) = Len(w) + 1 /\ Append(w, x)[Len(w) + 1] = x
         /\ \A i \in 1 .. Len(w) : Append(w, x)[i] = w[i]
OBVIOUS

LEMMA TwoAppended ==
  ASSUME NEW w \in Seq(Datagrams), NEW x \in Datagrams, NEW y \in Datagrams
  PROVE  w \o <<x, y>> = Append(Append(w, x), y)
OBVIOUS

(* The "decoding" status opens the stream, a decode leaves it open, and a   *)
(* decode that joins an open stream is bracketed.                           *)
LEMMA OpenStarts ==
  ASSUME NEW w \in Seq(Datagrams), NEW c, Status(TRUE, c) \in Datagrams
  PROVE  OpenIn(Append(w, Status(TRUE, c)), c)
<1>1. PICK n \in Nat, v \in Seq(Datagrams) : n = Len(w) + 1 /\ v = Append(w, Status(TRUE, c))
  BY Appended
<1>2. Len(v) = n /\ v[n] = Status(TRUE, c)
  BY <1>1, Appended
<1>3. n \in 1 .. n /\ n + 1 .. n = {}
  BY <1>1, Appended
<1> QED BY <1>1, <1>2, <1>3 DEF OpenIn

LEMMA OpenStays ==
  ASSUME NEW w \in Seq(Datagrams), NEW x \in Datagrams, NEW c,
         OpenIn(w, c), x.type = "decode"
  PROVE  OpenIn(Append(w, x), c)
<1>1. PICK n \in Nat, v \in Seq(Datagrams) : n = Len(w) /\ v = Append(w, x)
  BY Appended
<1>2. Len(v) = n + 1 /\ v[n + 1] = x /\ \A i \in 1 .. n : v[i] = w[i]
  BY <1>1, Appended
<1>3. PICK b \in 1 .. n :
        w[b] = Status(TRUE, c) /\ \A k \in b + 1 .. n : w[k].type = "decode"
  BY <1>1 DEF OpenIn
<1>4. b \in 1 .. n + 1 /\ v[b] = Status(TRUE, c)
  <2>1. b \in 1 .. n + 1 /\ v[b] = w[b]
    BY <1>2
  <2> QED BY <1>3, <2>1, Zenon
<1>5. ASSUME NEW k \in b + 1 .. n + 1 PROVE v[k].type = "decode"
  <2>1. k = n + 1 \/ (k \in b + 1 .. n /\ k \in 1 .. n)
    OBVIOUS
  <2> QED BY <1>2, <1>3, <2>1
<1> QED BY <1>1, <1>2, <1>4, <1>5 DEF OpenIn

LEMMA BracketedStays ==
  ASSUME NEW w \in Seq(Datagrams), NEW x \in Datagrams,
         BracketedIn(w), x.type = "decode" => OpenIn(w, x.report.cycle)
  PROVE  BracketedIn(Append(w, x))
<1>1. PICK n \in Nat, v \in Seq(Datagrams) : n = Len(w) /\ v = Append(w, x)
  BY Appended
<1>2. Len(v) = n + 1 /\ v[n + 1] = x /\ \A i \in 1 .. n : v[i] = w[i]
  BY <1>1, Appended
<1> SUFFICES ASSUME NEW i \in 1 .. n + 1, v[i].type = "decode"
             PROVE  \E b \in 1 .. i - 1 :
                      /\ v[b] = Status(TRUE, v[i].report.cycle)
                      /\ \A k \in b + 1 .. i : v[k].type = "decode"
  BY <1>1, <1>2 DEF BracketedIn
<1>3. CASE i = n + 1
  <2>1. PICK b \in 1 .. n : /\ w[b] = Status(TRUE, x.report.cycle)
                            /\ \A k \in b + 1 .. n : w[k].type = "decode"
    BY <1>1, <1>2, <1>3 DEF OpenIn
  <2>2. b \in 1 .. i - 1 /\ v[b] = Status(TRUE, v[i].report.cycle)
    <3>1. b \in 1 .. i - 1 /\ v[b] = w[b] /\ v[i] = x
      BY <1>2, <1>3
    <3> QED BY <2>1, <3>1, Zenon
  <2>3. ASSUME NEW k \in b + 1 .. i PROVE v[k].type = "decode"
    <3>1. k = n + 1 \/ (k \in b + 1 .. n /\ k \in 1 .. n)
      BY <1>3
    <3> QED BY <1>2, <1>3, <2>1, <3>1
  <2> QED BY <2>2, <2>3
<1>4. CASE i \in 1 .. n
  <2>1. v[i] = w[i]
    BY <1>2, <1>4
  <2>2. PICK b \in 1 .. i - 1 : /\ w[b] = Status(TRUE, w[i].report.cycle)
                                /\ \A k \in b + 1 .. i : w[k].type = "decode"
    BY <1>1, <1>4, <2>1 DEF BracketedIn
  <2>3. v[b] = w[b] /\ \A k \in b + 1 .. i : v[k] = w[k]
    BY <1>2, <1>4
  <2>4. v[b] = Status(TRUE, v[i].report.cycle)
    BY <2>1, <2>2, <2>3, Zenon
  <2>5. \A k \in b + 1 .. i : v[k].type = "decode"
    BY <2>2, <2>3, Zenon
  <2> QED BY <2>2, <2>4, <2>5, Zenon
<1>5. i = n + 1 \/ i \in 1 .. n
  OBVIOUS
<1> QED BY <1>3, <1>4, <1>5, Zenon

LEMMA DatagramsGrow ==
  ASSUME [Next]_vars
  PROVE  /\ cmd' = cmd
         /\ \/ wsjtx' = wsjtx /\ now' = now /\ mpc' = mpc
            \/ wsjtx' = wsjtx /\ now' = now /\ mpc \in {"spawn", "join"}
            \/ wsjtx' = wsjtx /\ cmd.mode = "file"
            \/ wsjtx' = wsjtx /\ mpc' \in {"wait", "reset", "announce"}
            \/ Announce
            \/ EndDecode
            \/ \E t \in Threads : SendWsjtx(t)
BY Steps DEF SkipCycle, ResetCycle, Announce, Join, EndDecode, vars, GetSamples, NextFile,
   Spawn, StartPass, EndPass, DecodeCandidate, LockCallback, LockCycle, FindSeen, RecordNew,
   PrintDecode, SendJson, SendWsjtx, UnlockCallback, Subtract, MarkBucket, mainVars, outputs

LEMMA StreamKept ==
  ASSUME DecodeInv, Stream, [Next]_vars
  PROVE  Stream'
<1>0. TypeOK /\ Control /\ now \in Nat
  BY DEF DecodeInv, TypeOK
<1>1. wsjtx \in Seq(Datagrams)
  BY DEF Stream
<1>2. CASE wsjtx' = wsjtx
  <2>1. ~Announce
    <3> SUFFICES ASSUME Announce PROVE FALSE
      OBVIOUS
    <3>1. Len(wsjtx') = Len(wsjtx) + 2 /\ Len(wsjtx) \in Nat
      BY <1>1 DEF Announce
    <3> QED BY <3>1, <1>2
  <2>2. ASSUME NEW t \in Threads, SendWsjtx(t) PROVE now' = now /\ mpc' = mpc
    BY <2>2 DEF SendWsjtx, mainVars
  <2>3. EndDecode => mpc' = "wait"
    BY DEF EndDecode
  <2> QED BY <1>2, <2>1, <2>2, <2>3, DatagramsGrow DEF Stream, Live
<1>3. CASE Announce
  <2> DEFINE w == Append(wsjtx, Heartbeat(now))
  <2>1. wsjtx' = wsjtx \o <<Heartbeat(now), Status(TRUE, now)>> /\ now' = now /\ cmd' = cmd
    BY <1>3 DEF Announce
  <2>2. Heartbeat(now) \in Datagrams /\ Status(TRUE, now) \in Datagrams
    BY <1>0 DEF Heartbeat, Status, Datagrams
  <2>3. wsjtx' = Append(w, Status(TRUE, now))
    BY <1>1, <2>1, <2>2, TwoAppended
  <2>4. w \in Seq(Datagrams) /\ wsjtx' \in Seq(Datagrams)
    BY <1>1, <2>2, <2>3, Appended
  <2>5. OpenIn(wsjtx', now)
    BY <2>2, <2>3, <2>4, OpenStarts
  <2>6. Heartbeat(now).type # "decode" /\ Status(TRUE, now).type # "decode"
    BY DEF Heartbeat, Status
  <2>7. ASSUME BracketedIn(wsjtx) PROVE BracketedIn(wsjtx')
    <3>1. BracketedIn(w)
      BY <1>1, <2>2, <2>6, <2>7, BracketedStays
    <3> HIDE DEF w
    <3> QED BY <2>2, <2>3, <2>4, <2>6, <3>1, BracketedStays
  <2> QED BY <2>1, <2>4, <2>5, <2>7 DEF Stream, Live
<1>4. CASE EndDecode /\ Live
  <2>1. wsjtx' = Append(wsjtx, Status(FALSE, now)) /\ mpc' = "wait" /\ cmd' = cmd
    BY <1>4 DEF EndDecode, Live
  <2>2. Status(FALSE, now) \in Datagrams /\ Status(FALSE, now).type # "decode"
    BY <1>0 DEF Status, Datagrams
  <2>3. wsjtx' \in Seq(Datagrams)
    BY <1>1, <2>1, <2>2, Appended
  <2>4. BracketedIn(wsjtx')
    BY <1>1, <1>4, <2>1, <2>2, BracketedStays DEF Stream
  <2> QED BY <2>1, <2>3, <2>4 DEF Stream, Live
<1>5. ASSUME NEW t \in Threads, SendWsjtx(t) PROVE Stream'
  <2>1. /\ wsjtx' = Append(wsjtx, Decode(Report(t))) /\ tpc[t] = "wsjtx"
        /\ now' = now /\ mpc' = mpc /\ cmd' = cmd
    BY <1>5 DEF SendWsjtx, At, mainVars
  <2>2. cand[t] \in Signals \X Buckets /\ mpc \in {"spawn", "join"}
    BY <1>0, <2>1 DEF Control, Busy, Callback, TypeOK
  <2>3. PICK d \in Datagrams : d = Decode(Report(t)) /\ d.type = "decode" /\ d.report.cycle = saved
    <3>1. Report(t) \in Reports /\ Report(t).of = now /\ Report(t).cycle = saved
      BY <1>0, <2>2 DEF Report, Reports, TypeOK, MessageOf, SignalOf, Messages
    <3>2. /\ Decode(Report(t)) \in [type : {"decode"}, of : Nat, report : Reports]
          /\ Decode(Report(t)).type = "decode" /\ Decode(Report(t)).report.cycle = saved
      BY <1>0, <3>1 DEF Decode
    <3> QED BY <3>2, Zenon DEF Datagrams
  <2>4. wsjtx' \in Seq(Datagrams)
    BY <1>1, <2>1, <2>3, Appended
  <2>5. CASE Live
    <3>1. OpenIn(wsjtx, now) /\ BracketedIn(wsjtx) /\ saved = now
      BY <1>0, <2>2, <2>5 DEF Stream, Control
    <3>2. OpenIn(wsjtx', now) /\ BracketedIn(wsjtx')
      BY <1>1, <2>1, <2>3, <3>1, OpenStays, BracketedStays
    <3> QED BY <2>1, <2>4, <3>2 DEF Stream
  <2> QED BY <2>1, <2>4, <2>5 DEF Stream, Live
<1> QED
  <2>1. EndDecode /\ ~Live => wsjtx' = wsjtx
    BY DEF EndDecode, Live
  <2> QED BY <1>2, <1>3, <1>4, <1>5, <2>1, DatagramsGrow

(* A listener on the WSJT-X port sees every decode of live use after the    *)
(* "decoding" status of its cycle, with nothing but decodes in between      *)
(* (decode_loop() sends the two statuses, the threads of entry() the rest). *)
THEOREM StreamBracketed == Spec => []Bracketed
<1>1. Init => Stream
  <2> SUFFICES ASSUME Init PROVE Stream
    OBVIOUS
  <2>1. /\ wsjtx = <<Heartbeat(0), Status(FALSE, 0)>> /\ mpc = "wait"
        /\ Heartbeat(0) \in Datagrams /\ Status(FALSE, 0) \in Datagrams
        /\ Heartbeat(0).type # "decode" /\ Status(FALSE, 0).type # "decode"
    BY DEF Init, Heartbeat, Status, Datagrams
  <2>2. PICK x \in Datagrams, y \in Datagrams :
          wsjtx = <<x, y>> /\ x.type # "decode" /\ y.type # "decode"
    BY <2>1, Zenon
  <2>3. wsjtx \in Seq(Datagrams) /\ \A i \in 1 .. Len(wsjtx) : wsjtx[i].type # "decode"
    BY <2>2
  <2> QED BY <2>1, <2>3 DEF Stream, BracketedIn
<1>2. DecodeInv /\ Stream /\ [Next]_vars => Stream'
  BY StreamKept
<1>3. Stream => Bracketed
  <2> SUFFICES ASSUME Stream PROVE Bracketed
    OBVIOUS
  <2>1. DOMAIN wsjtx = 1 .. Len(wsjtx)
    BY DEF Stream
  <2> QED BY <2>1, Zenon DEF Stream, Bracketed, BracketedIn, Live
<1> QED BY <1>1, <1>2, <1>3, DecodeInvariant, PTL DEF Spec
-------------------------------------------------------------------------------
(* The refinement of CycleLog.  In live use what was printed carries the    *)
(* cycles up to the one that is open, and no thread is about to print what  *)
(* was printed under it.                                                    *)
Open == {"announce", "spawn", "join", "joined"}

Logged ==
  Live => \A i \in DOMAIN term :
    /\ term[i].cycle <= saved
    /\ mpc \in Open /\ term[i].cycle = saved =>
         /\ term[i].msg \in seen
         /\ \A t \in Threads : tpc[t] = "print" => MessageOf(t) # term[i].msg

LEMMA CycleFrame ==
  ASSUME [Next]_vars
  PROVE  /\ cmd' = cmd
         /\ saved' = saved \/ ResetCycle
         /\ (mpc' \in Open <=> mpc \in Open) \/ ResetCycle \/ EndDecode \/ cmd.mode = "file"
BY Steps DEF SkipCycle, ResetCycle, Announce, Join, EndDecode, vars, GetSamples, NextFile,
   Spawn, StartPass, EndPass, DecodeCandidate, LockCallback, LockCycle, FindSeen, RecordNew,
   PrintDecode, SendJson, SendWsjtx, UnlockCallback, Subtract, MarkBucket,
   mainVars, cycleVars, Open

(* A thread comes to print by recording a message that was not there.       *)
LEMMA WaysToPrint ==
  ASSUME DecodeInv, [Next]_vars, NEW t \in Threads, tpc'[t] = "print"
  PROVE  \/ tpc[t] = "print" /\ cand'[t] = cand[t]
         \/ RecordNew(t) /\ cand'[t] = cand[t]
<1> USE DEF DecodeInv, TypeOK, Control, Where, Callback, Busy, At, Goto,
        mainVars, threadVars
<1>1. CASE SkipCycle \/ ResetCycle \/ Announce \/ EndDecode \/ UNCHANGED vars
  BY <1>1 DEF SkipCycle, ResetCycle, Announce, EndDecode, vars
<1>2. ASSUME Join PROVE FALSE
  BY <1>2 DEF Join
<1>3. ASSUME NEW S \in SUBSET Signals, GetSamples(S) \/ NextFile(S)
      PROVE  tpc[t] = "print" /\ cand'[t] = cand[t]
  BY <1>3 DEF GetSamples, NextFile
<1>4. ASSUME NEW u \in Threads,
             \/ Spawn(u) \/ StartPass(u) \/ EndPass(u) \/ UnlockCallback(u)
             \/ SendJson(u) \/ SendWsjtx(u) \/ Subtract(u)
      PROVE  tpc[t] = "print" /\ cand'[t] = cand[t]
  BY <1>4 DEF Spawn, StartPass, EndPass, UnlockCallback, SendJson, SendWsjtx, Subtract
<1>5. ASSUME NEW u \in Threads, MarkBucket(u)
      PROVE  tpc[t] = "print" /\ cand'[t] = cand[t]
  BY <1>5 DEF MarkBucket
<1>6. ASSUME NEW u \in Threads, NEW s \in Signals, NEW b \in Buckets, DecodeCandidate(u, s, b)
      PROVE  tpc[t] = "print" /\ cand'[t] = cand[t]
  BY <1>6 DEF DecodeCandidate
<1>7. ASSUME NEW u \in Threads, LockCallback(u) \/ LockCycle(u) \/ FindSeen(u) \/ PrintDecode(u)
      PROVE  tpc[t] = "print" /\ cand'[t] = cand[t]
  BY <1>7 DEF LockCallback, LockCycle, FindSeen, PrintDecode
<1>8. ASSUME NEW u \in Threads, RecordNew(u)
      PROVE  cand'[t] = cand[t] /\ (u = t \/ tpc[t] = "print")
  BY <1>8 DEF RecordNew
<1> QED BY Steps, <1>1, <1>2, <1>3, <1>4, <1>5, <1>6, <1>7, <1>8

LEMMA LoggedKept ==
  ASSUME DecodeInv, Logged, [Next]_vars
  PROVE  Logged'
<1> SUFFICES ASSUME Live, NEW i \in DOMAIN term'
             PROVE  /\ term'[i].cycle <= saved'
                    /\ mpc' \in Open /\ term'[i].cycle = saved' =>
                         /\ term'[i].msg \in seen'
                         /\ \A t \in Threads : tpc'[t] = "print" => MessageOf(t)' # term'[i].msg
  BY CycleFrame DEF Logged, Live
<1>0. TypeOK /\ Control /\ Claims /\ saved \in Nat
  BY DEF DecodeInv, TypeOK
<1>1. CASE ResetCycle
  <2>1. term' = term /\ saved' = now /\ saved < now /\ now \in Nat
    BY <1>0, <1>1 DEF ResetCycle, outputs, Control, TypeOK
  <2>2. term[i].cycle <= saved /\ term[i].cycle \in Nat
    <3>1. i \in DOMAIN term /\ term[i] \in Reports
      BY <1>0, <2>1 DEF TypeOK
    <3>2. term[i].cycle \in Nat
      BY <3>1 DEF Reports
    <3> QED BY <3>1, <3>2, Zenon DEF Logged
  <2>3. term[i].cycle <= now /\ term[i].cycle # now
    BY <1>0, <2>1, <2>2
  <2> QED BY <2>1, <2>3, Zenon
<1>2. CASE ~ResetCycle /\ \E t \in Threads : PrintDecode(t)
  <2>1. PICK t \in Threads : PrintDecode(t)
    BY <1>2
  <2>2. /\ term' = Append(term, Report(t)) /\ tpc[t] = "print"
        /\ tpc' = [tpc EXCEPT ![t] = "json"]
        /\ saved' = saved /\ seen' = seen /\ cand' = cand /\ mpc' = mpc
    BY <2>1 DEF PrintDecode, At, Goto, cycleVars, mainVars
  <2>3. /\ MessageOf(t) \in seen
        /\ \A u \in Threads : u # t /\ tpc[u] = "print" => MessageOf(u) # MessageOf(t)
    BY <1>0, <2>2 DEF Claims, Owning
  <2>4. \A u \in Threads : tpc'[u] = "print" => u # t /\ tpc[u] = "print"
    BY <1>0, <2>2 DEF TypeOK
  <2>5. \A u \in Threads : MessageOf(u)' = MessageOf(u)
    BY <2>2 DEF MessageOf, SignalOf
  <2>6. \/ i \in DOMAIN term /\ term'[i] = term[i]
        \/ term'[i] = Report(t)
    BY <1>0, <2>2 DEF TypeOK
  <2>7. Report(t).cycle = saved /\ Report(t).msg = MessageOf(t)
    BY DEF Report
  <2>8. CASE term'[i] = Report(t)
    BY <1>0, <2>2, <2>3, <2>4, <2>5, <2>7, <2>8
  <2>9. CASE i \in DOMAIN term /\ term'[i] = term[i]
    BY <1>0, <2>2, <2>4, <2>5, <2>9 DEF Logged
  <2> QED BY <2>6, <2>8, <2>9
<1>3. CASE ~ResetCycle /\ term' = term
  <2>1. saved' = saved /\ term[i].cycle <= saved
    BY <1>3, CycleFrame DEF Logged
  <2> SUFFICES ASSUME mpc' \in Open, term[i].cycle = saved
               PROVE  /\ term[i].msg \in seen'
                      /\ \A t \in Threads : tpc'[t] = "print" => MessageOf(t)' # term[i].msg
    BY <1>3, <2>1
  <2>2. mpc \in Open
    <3>1. EndDecode => mpc' \notin Open
      BY DEF EndDecode, Open
    <3> QED BY <1>3, <3>1, CycleFrame DEF Live
  <2>3. /\ term[i].msg \in seen
        /\ \A t \in Threads : tpc[t] = "print" => MessageOf(t) # term[i].msg
    BY <1>3, <2>2 DEF Logged
  <2>4. term[i].msg \in seen'
    BY <1>3, <2>3, Sources
  <2>5. ASSUME NEW t \in Threads, tpc'[t] = "print" PROVE MessageOf(t)' # term[i].msg
    <3>1. RecordNew(t) => MessageOf(t) \notin seen
      BY DEF RecordNew
    <3>2. cand'[t] = cand[t] => MessageOf(t)' = MessageOf(t)
      BY DEF MessageOf, SignalOf
    <3> QED BY <2>3, <2>5, <3>1, <3>2, WaysToPrint
  <2> QED BY <2>4, <2>5
<1> QED BY <1>1, <1>2, <1>3, LogGrows

(* A step of the program is a step of CycleLog, or leaves it alone.         *)
LEMMA StepFollowsLog ==
  ASSUME DecodeInv, Logged, [Next]_vars
  PROVE  [Log!Next]_(Log!vars)
<1> DEFINE entries(w) == [i \in DOMAIN w |-> [cycle |-> w[i].cycle, msg |-> w[i].msg]]
<1>0. TypeOK /\ Control /\ Claims /\ saved \in Nat
  BY DEF DecodeInv, TypeOK
<1>1. CASE ResetCycle
  <2>1. Live /\ saved' = now /\ saved < now /\ now \in Nat /\ cmd' = cmd /\ term' = term
        /\ mpc = "reset" /\ mpc' = "announce"
    BY <1>0, <1>1 DEF ResetCycle, Control, TypeOK, outputs
  <2>2. Log!Open
    BY <1>0, <2>1 DEF Log!Open, Live
  <2> QED BY <2>2 DEF Log!Next
<1>2. CASE EndDecode /\ Live
  <2>1. mpc = "joined" /\ mpc' = "wait" /\ saved' = saved /\ term' = term /\ cmd' = cmd
    BY <1>2 DEF EndDecode, cycleVars
  <2>2. Log!Close
    BY <1>2, <2>1 DEF Log!Close, Live
  <2> QED BY <2>2 DEF Log!Next
<1>3. ASSUME NEW t \in Threads, PrintDecode(t), Live
      PROVE  Log!Next
  <2>1. /\ term' = Append(term, Report(t)) /\ tpc[t] = "print"
        /\ saved' = saved /\ mpc' = mpc /\ cmd' = cmd
    BY <1>3 DEF PrintDecode, At, cycleVars, mainVars
  <2>2. PICK m \in Messages : m = MessageOf(t) /\ mpc \in {"spawn", "join"}
    BY <1>0, <2>1 DEF Control, TypeOK, Busy, Callback, MessageOf, SignalOf, Messages
  <2>3. \A i \in DOMAIN term : ~(term[i].cycle = saved /\ term[i].msg = m)
    BY <1>3, <2>1, <2>2 DEF Logged, Open
  <2>4. entries(term') = Append(entries(term), Log!Entry(m))
    BY <1>0, <2>1, <2>2 DEF TypeOK, Log!Entry, Report
  <2>5. \A i \in DOMAIN entries(term) : entries(term)[i] # Log!Entry(m)
    BY <2>3 DEF Log!Entry
  <2>6. Log!Report(m)
    BY <1>3, <2>1, <2>2, <2>4, <2>5 DEF Log!Report, Live
  <2> QED BY <2>6 DEF Log!Next
<1>4. ASSUME ~ResetCycle, ~(EndDecode /\ Live), ~(Live /\ \E t \in Threads : PrintDecode(t))
      PROVE  UNCHANGED Log!vars
  <2>1. saved' = saved /\ Live' = Live
    BY <1>4, CycleFrame DEF Live
  <2>2. (Live /\ mpc \in Open) = (Live /\ mpc \in Open)'
    BY <1>0, <1>4, <2>1, CycleFrame, DecodeAssumption DEF Live, TypeOK
  <2>3. Live => term' = term
    BY <1>4, LogGrows
  <2> QED BY <2>1, <2>2, <2>3 DEF Log!vars, Open
<1> QED BY <1>1, <1>2, <1>3, <1>4

(* Live, the terminal log is a history of CycleLog: every entry is printed  *)
(* while its cycle is open, once, whichever thread decodes the message      *)
(* (hcb() and entry(), whose mutexes are not held together when it prints). *)
THEOREM FollowsCycleLog == Spec => FollowsLog
<1>1. Init => Logged
  BY DEF Init, Logged
<1>2. DecodeInv /\ Logged /\ [Next]_vars => Logged'
  BY LoggedKept
<1>3. Init => Log!Init
  <2> SUFFICES ASSUME Init PROVE Log!Init
    OBVIOUS
  <2>1. [i \in DOMAIN term |-> [cycle |-> term[i].cycle, msg |-> term[i].msg]] = <<>>
    BY DEF Init
  <2> QED BY <2>1 DEF Init, Log!Init
<1>4. DecodeInv /\ Logged /\ [Next]_vars => [Log!Next]_(Log!vars)
  BY StepFollowsLog
<1> QED BY <1>1, <1>2, <1>3, <1>4, DecodeInvariant, PTL DEF Spec, FollowsLog, Log!Spec
===============================================================================
