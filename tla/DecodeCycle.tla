------------------------------ MODULE DecodeCycle ------------------------------
(***************************************************************************)
(* One decode after another: decode_loop() or main()'s -file loop          *)
(* (ft8mon.cc) hands samples to entry() (ft8.cc), entry() starts one       *)
(* decoder thread per audio band and joins them all, and the threads call  *)
(* hcb() (ft8mon.cc) for every signal they decode.  hcb() drops a message  *)
(* it has already seen, reports a new one on the terminal, as JSON and as  *)
(* a WSJT-X datagram, and tells the thread whether to subtract the signal  *)
(* from its own copy of the samples before the next pass.                  *)
(*                                                                         *)
(* The audio is abstracted to the set of signals on the air.  A signal     *)
(* carries a message, is heard by the threads of one or two (overlapping)  *)
(* bands, and turns up in one or more 27 Hz buckets of the candidate list. *)
(***************************************************************************)
EXTENDS Naturals, Sequences, FiniteSets

CONSTANTS
  Commands,  (* how the program is run, a set of records: mode "live" for  *)
             (* decode_loop() or "file" for the -file loop of main();      *)
             (* passes, npasses_one; cycles, a bound on the 15-second      *)
             (* cycles, or the number of files                             *)
  Threads,   (* the decoder threads of entry()                             *)
  Buckets,   (* values of (int)round(hz / already_hz)                      *)
  Signals,   (* signals that may be on the air                             *)
  Text,      (* Text[s]: the message signal s carries                      *)
  Heard,     (* Heard[s]: the threads whose band contains s                *)
  Found,     (* Found[s]: the buckets in which coarse() finds s            *)
  Whole,     (* Whole[s]: the threads whose samples hold all of s; from    *)
             (* the others subtract() takes nothing (ft8.cc:2790)          *)
  NoThread, NoCandidate

ASSUME DecodeAssumption ==
  /\ Commands \subseteq [mode : {"live", "file"}, passes : Nat \ {0}, cycles : Nat]
  /\ IsFiniteSet(Threads)
  /\ Heard \in [Signals -> SUBSET Threads]
  /\ Found \in [Signals -> SUBSET Buckets]
  /\ Whole \in [Signals -> SUBSET Threads]
  /\ DOMAIN Text = Signals
  /\ NoThread \notin Threads /\ NoCandidate \notin Signals \X Buckets

Messages == {Text[s] : s \in Signals}

VARIABLES
  cmd,              (* the command                                          *)
  mpc,              (* the main thread                                      *)
  now,              (* the cycle, or file, whose samples it decodes         *)
  air,              (* the signals in those samples                         *)
  saved,            (* saved_cycle_start                                    *)
  count, seen,      (* cycle_count, cycle_already                           *)
  cbMu, cycleMu,    (* holders of FT8::cb_mu_ and of cycle_mu, or NoThread  *)
  tpc, pass,        (* per thread: control and pass_                        *)
  cand, already,    (* per thread: the <<signal, bucket>> it has decoded;   *)
                    (* the buckets marked in already[]                      *)
  input, residue,   (* per thread: signals in samples_ and in nsamples_     *)
  term, json, wsjtx,(* what was printed and sent, in order                  *)
  decoded,          (* history: <<cycle, message>> some thread decoded      *)
  subtracted        (* history: <<cycle, thread, signal>> subtracted        *)

mainVars   == <<cmd, mpc, now, air>>
cycleVars  == <<saved, count, seen>>
locks      == <<cbMu, cycleMu>>
threadVars == <<tpc, pass, cand, already, input, residue>>
outputs    == <<term, json, wsjtx>>
history    == <<decoded, subtracted>>
vars == <<mainVars, cycleVars, locks, threadVars, outputs, history>>

(* WSJT-X datagrams; "of" is history, the cycle that was being decoded.     *)
Heartbeat(c) == [type |-> "heartbeat", of |-> c]
Status(decoding, c) == [type |-> IF decoding THEN "decoding" ELSE "monitoring", of |-> c]
Decode(r) == [type |-> "decode", of |-> r.of, report |-> r]
-------------------------------------------------------------------------------
(* saved_cycle_start is 0 before the first cycle; with -wsjtx the program   *)
(* announces itself before it decodes anything (wsjtx_udp_open()).          *)
Init ==
  /\ cmd \in Commands
  /\ mpc = "wait" /\ now = 0 /\ air = {}
  /\ saved = 0 /\ count = 0 /\ seen = {}
  /\ cbMu = NoThread /\ cycleMu = NoThread
  /\ tpc = [t \in Threads |-> "none"] /\ pass = [t \in Threads |-> 0]
  /\ cand = [t \in Threads |-> NoCandidate] /\ already = [t \in Threads |-> {}]
  /\ input = [t \in Threads |-> {}] /\ residue = [t \in Threads |-> {}]
  /\ term = <<>> /\ json = <<>> /\ wsjtx = <<Heartbeat(0), Status(FALSE, 0)>>
  /\ decoded = {} /\ subtracted = {}
-------------------------------------------------------------------------------
(* The main thread.                                                         *)

(* 14 seconds into a cycle: get the samples.  If they do not cover the      *)
(* cycle (nominal_start) there is nothing to decode and it sleeps on.       *)
GetSamples(S) ==
  /\ cmd.mode = "live" /\ mpc = "wait" /\ now < cmd.cycles
  /\ now' = now + 1 /\ air' = S
  /\ mpc' = "reset"
  /\ UNCHANGED <<cmd, cycleVars, locks, threadVars, outputs, history>>

SkipCycle ==
  /\ cmd.mode = "live" /\ mpc = "wait" /\ now < cmd.cycles
  /\ now' = now + 1
  /\ UNCHANGED <<cmd, mpc, air, cycleVars, locks, threadVars, outputs, history>>

(* Mutant: the messages of the last cycle stay known.                       *)
ResetCycleKeepsSeen ==
  /\ mpc = "reset" /\ cycleMu = NoThread
  /\ count' = 0 /\ saved' = now /\ UNCHANGED seen
  /\ mpc' = "announce"
  /\ UNCHANGED <<cmd, now, air, locks, threadVars, outputs, history>>

(* Under cycle_mu: forget the messages of the cycle before.                 *)
ResetCycle ==
  /\ mpc = "reset" /\ cycleMu = NoThread
  /\ count' = 0 /\ saved' = now /\ seen' = {}
  /\ mpc' = "announce"
  /\ UNCHANGED <<cmd, now, air, locks, threadVars, outputs, history>>

Announce ==
  /\ mpc = "announce"
  /\ wsjtx' = wsjtx \o <<Heartbeat(now), Status(TRUE, now)>>
  /\ mpc' = "spawn"
  /\ UNCHANGED <<cmd, now, air, cycleVars, locks, threadVars, term, json, history>>

(* -file: the samples of the next file go straight to entry().              *)
NextFile(S) ==
  /\ cmd.mode = "file" /\ mpc = "wait" /\ now < cmd.cycles
  /\ now' = now + 1 /\ air' = S
  /\ mpc' = "spawn"
  /\ UNCHANGED <<cmd, cycleVars, locks, threadVars, outputs, history>>

(* The constructor FT8() copies the samples and go() copies them again.     *)
Spawn(t) ==
  /\ mpc = "spawn" /\ tpc[t] = "none"
  /\ tpc' = [tpc EXCEPT ![t] = "pass"]
  /\ pass' = [pass EXCEPT ![t] = 0]
  /\ residue' = [residue EXCEPT ![t] = {s \in air : t \in Heard[s]}]
  /\ mpc' = IF \E u \in Threads \ {t} : tpc[u] = "none" THEN "spawn" ELSE "join"
  /\ UNCHANGED <<cmd, now, air, cycleVars, locks, cand, already, input,
                 outputs, history>>

(* Mutant: goes on when the first thread is done.                           *)
JoinOne ==
  /\ mpc = "join"
  /\ \E t \in Threads : tpc[t] = "done" /\ tpc' = [tpc EXCEPT ![t] = "none"]
  /\ mpc' = "joined"
  /\ UNCHANGED <<cmd, now, air, cycleVars, locks, pass, cand, already, input,
                 residue, outputs, history>>

Join ==
  /\ mpc = "join" /\ \A t \in Threads : tpc[t] = "done"
  /\ tpc' = [t \in Threads |-> "none"]
  /\ mpc' = "joined"
  /\ UNCHANGED <<cmd, now, air, cycleVars, locks, pass, cand, already, input,
                 residue, outputs, history>>

(* Back in decode_loop(), or in main()'s loop over the files.               *)
EndDecode ==
  /\ mpc = "joined"
  /\ wsjtx' = IF cmd.mode = "live" THEN Append(wsjtx, Status(FALSE, now)) ELSE wsjtx
  /\ mpc' = "wait"
  /\ UNCHANGED <<cmd, now, air, cycleVars, locks, threadVars, term, json, history>>

(* decode_loop() never ends; a run with -file does.                         *)
Idle == mpc = "wait" /\ now = cmd.cycles /\ UNCHANGED vars
-------------------------------------------------------------------------------
(* A decoder thread: go(), one(), try_decode() and hcb().                   *)

At(t, here)        == tpc[t] = here
Goto(t, there)     == tpc' = [tpc EXCEPT ![t] = there]
SignalOf(t)        == cand[t][1]
MessageOf(t)       == Text[SignalOf(t)]

(* samples_ = nsamples_: a pass looks at what is left after the last one.   *)
StartPass(t) ==
  /\ At(t, "pass") /\ pass[t] < cmd.passes
  /\ input' = [input EXCEPT ![t] = residue[t]]
  /\ already' = [already EXCEPT ![t] = {}]
  /\ Goto(t, "scan")
  /\ UNCHANGED <<mainVars, cycleVars, locks, pass, cand, residue, outputs, history>>

(* A candidate in a bucket that is not marked decodes.                      *)
DecodeCandidate(t, s, b) ==
  /\ At(t, "scan") /\ s \in input[t] /\ b \in Found[s] \ already[t]
  /\ cand' = [cand EXCEPT ![t] = <<s, b>>]
  /\ decoded' = decoded \cup {<<now, Text[s]>>}
  /\ Goto(t, "lock_cb")
  /\ UNCHANGED <<mainVars, cycleVars, locks, pass, already, input, residue,
                 outputs, subtracted>>

(* No candidate is left, or the time budget of the pass is spent.           *)
EndPass(t) ==
  /\ At(t, "scan")
  /\ pass' = [pass EXCEPT ![t] = @ + 1]
  /\ Goto(t, IF pass'[t] < cmd.passes THEN "pass" ELSE "done")
  /\ UNCHANGED <<mainVars, cycleVars, locks, cand, already, input, residue,
                 outputs, history>>

LockCallback(t) ==
  /\ At(t, "lock_cb") /\ cbMu = NoThread
  /\ cbMu' = t
  /\ Goto(t, "lock_cycle")
  /\ UNCHANGED <<mainVars, cycleVars, cycleMu, pass, cand, already, input, residue,
                 outputs, history>>

LockCycle(t) ==
  /\ At(t, "lock_cycle") /\ cycleMu = NoThread
  /\ cycleMu' = t
  /\ Goto(t, "lookup")
  /\ UNCHANGED <<mainVars, cycleVars, cbMu, pass, cand, already, input, residue,
                 outputs, history>>

(* Returns 1: already seen, do not subtract.                                *)
FindSeen(t) ==
  /\ At(t, "lookup") /\ MessageOf(t) \in seen
  /\ cycleMu' = NoThread
  /\ Goto(t, "return_1")
  /\ UNCHANGED <<mainVars, cycleVars, cbMu, pass, cand, already, input, residue,
                 outputs, history>>

RecordNew(t) ==
  /\ At(t, "lookup") /\ MessageOf(t) \notin seen
  /\ seen' = seen \cup {MessageOf(t)}
  /\ count' = count + 1
  /\ cycleMu' = NoThread
  /\ Goto(t, "print")
  /\ UNCHANGED <<mainVars, saved, cbMu, pass, cand, already, input, residue,
                 outputs, history>>

(* The reports, each stamped with saved_cycle_start, read without cycle_mu; *)
(* "of" is history.                                                         *)
Report(t) == [cycle |-> saved, msg |-> MessageOf(t), of |-> now]

PrintDecode(t) ==
  /\ At(t, "print")
  /\ term' = Append(term, Report(t))
  /\ Goto(t, "json")
  /\ UNCHANGED <<mainVars, cycleVars, locks, pass, cand, already, input, residue,
                 json, wsjtx, history>>

SendJson(t) ==
  /\ At(t, "json")
  /\ json' = Append(json, Report(t))
  /\ Goto(t, "wsjtx")
  /\ UNCHANGED <<mainVars, cycleVars, locks, pass, cand, already, input, residue,
                 term, wsjtx, history>>

SendWsjtx(t) ==
  /\ At(t, "wsjtx")
  /\ wsjtx' = Append(wsjtx, Decode(Report(t)))
  /\ Goto(t, "return_2")
  /\ UNCHANGED <<mainVars, cycleVars, locks, pass, cand, already, input, residue,
                 term, json, history>>

(* Mutant: try_decode() ignores what hcb() returns.                         *)
UnlockAlwaysSubtract(t) ==
  /\ At(t, "return_1") \/ At(t, "return_2")
  /\ cbMu' = NoThread
  /\ Goto(t, "subtract")
  /\ UNCHANGED <<mainVars, cycleVars, cycleMu, pass, cand, already, input, residue,
                 outputs, history>>

UnlockCallback(t) ==
  /\ At(t, "return_1") \/ At(t, "return_2")
  /\ cbMu' = NoThread
  /\ Goto(t, IF At(t, "return_2") THEN "subtract" ELSE "mark")
  /\ UNCHANGED <<mainVars, cycleVars, cycleMu, pass, cand, already, input, residue,
                 outputs, history>>

Subtract(t) ==
  /\ At(t, "subtract")
  /\ IF t \in Whole[SignalOf(t)]
       THEN /\ residue' = [residue EXCEPT ![t] = @ \ {SignalOf(t)}]
            /\ subtracted' = subtracted \cup {<<now, t, SignalOf(t)>>}
       ELSE UNCHANGED <<residue, subtracted>>
  /\ Goto(t, "mark")
  /\ UNCHANGED <<mainVars, cycleVars, locks, pass, cand, already, input,
                 outputs, decoded>>

(* Mutant: the bucket stays open.                                           *)
MarkNothing(t) ==
  /\ At(t, "mark")
  /\ cand' = [cand EXCEPT ![t] = NoCandidate]
  /\ Goto(t, "scan")
  /\ UNCHANGED <<mainVars, cycleVars, locks, pass, already, input, residue,
                 outputs, history>>

(* Either result marks the bucket for the rest of the pass.                 *)
MarkBucket(t) ==
  /\ At(t, "mark")
  /\ already' = [already EXCEPT ![t] = @ \cup {cand[t][2]}]
  /\ cand' = [cand EXCEPT ![t] = NoCandidate]
  /\ Goto(t, "scan")
  /\ UNCHANGED <<mainVars, cycleVars, locks, pass, input, residue, outputs, history>>
-------------------------------------------------------------------------------
Main ==
  \/ \E S \in SUBSET Signals : GetSamples(S) \/ NextFile(S)
  \/ SkipCycle \/ ResetCycle \/ Announce
  \/ \E t \in Threads : Spawn(t)
  \/ Join \/ EndDecode

Decoder(t) ==
  \/ StartPass(t) \/ EndPass(t)
  \/ \E s \in Signals, b \in Buckets : DecodeCandidate(t, s, b)
  \/ LockCallback(t) \/ LockCycle(t) \/ FindSeen(t) \/ RecordNew(t)
  \/ PrintDecode(t) \/ SendJson(t) \/ SendWsjtx(t)
  \/ UnlockCallback(t) \/ Subtract(t) \/ MarkBucket(t)

Next == Main \/ (\E t \in Threads : Decoder(t)) \/ Idle

(* The operating system runs every thread that can run.                     *)
Fairness ==
  /\ WF_vars(Main)
  /\ \A t \in Threads : WF_vars(Decoder(t))

Spec == Init /\ [][Next]_vars /\ Fairness
-------------------------------------------------------------------------------
(* The message is in the log of the cycle; of a file, in its log or in that *)
(* of an earlier one, for main() does not clear cycle_already between files *)
(* (ft8mon.cc:560).                                                         *)
Reported(c, m) ==
  \E i \in DOMAIN term :
    term[i].msg = m /\ (IF cmd.mode = "live" THEN term[i].of = c ELSE term[i].of <= c)

(* Once entry() has returned, every message that a thread decoded was       *)
(* reported: what hcb() suppresses was "already decoded" (ft8mon.cc:327),   *)
(* live on this cycle, else in this or an earlier file.                     *)
DecodedIsReported ==
  mpc \in {"joined", "wait"} => \A d \in decoded : Reported(d[1], d[2])

(* Live, in the WSJT-X stream every decode lies between the "decoding"      *)
(* status of a cycle and the status that ends it, and is stamped with that  *)
(* cycle.                                                                   *)
Bracketed ==
  cmd.mode = "live" => \A i \in DOMAIN wsjtx : wsjtx[i].type = "decode" =>
    \E b \in 1 .. i - 1 :
      /\ wsjtx[b] = Status(TRUE, wsjtx[i].report.cycle)
      /\ \A k \in b + 1 .. i : wsjtx[k].type = "decode"

(* A message is subtracted from the samples of one thread only and there    *)
(* only once per cycle: a second subtraction would put the signal back.     *)
SubtractOnce ==
  \A t \in Threads : At(t, "subtract") =>
    /\ \A x \in subtracted : ~(x[1] = now /\ Text[x[3]] = MessageOf(t))
    /\ \A u \in Threads \ {t} : ~(At(u, "subtract") /\ MessageOf(u) = MessageOf(t))

(* A decode that starts ends: every thread gets through the mutexes of the  *)
(* callback and its passes, and is joined.                                  *)
DecodeEnds == mpc = "spawn" ~> mpc = "wait"

(* In live use the terminal log follows CycleLog; a file has no cycles.     *)
Live == cmd.mode = "live"
Log == INSTANCE CycleLog WITH
  cycle <- saved,
  open  <- Live /\ mpc \in {"announce", "spawn", "join", "joined"},
  log   <- IF Live THEN [i \in DOMAIN term |-> [cycle |-> term[i].cycle, msg |-> term[i].msg]]
                   ELSE <<>>
FollowsLog == Log!Spec
===============================================================================
