------------------------------ MODULE SampleRing ------------------------------
(***************************************************************************)
(* The circular sample buffer between a thread that receives audio and the *)
(* main thread that calls get().  Three of ft8mon's sound sources use it:  *)
(*                                                                         *)
(*   "card"     CardSoundIn     filled by the PortAudio callback cb()      *)
(*   "network"  NetworkSoundIn  filled by reader_loop()                    *)
(*   "rtltcp"   RTLTCPSoundIn   filled by reader_loop() / store_output()   *)
(*                                                                         *)
(* There is no lock: the threads share wi_, ri_, time_ and the slots of    *)
(* buf_, so every action is one load or one store of a shared variable     *)
(* (loads of one expression are one action).  A sample is the number of    *)
(* its arrival, 1, 2, 3, ...; the clock that stamps samples counts them    *)
(* too, so a sample number is also the time at which the sample ended.     *)
(***************************************************************************)
EXTENDS Integers, Sequences, FiniteSets

CONSTANTS
  Kinds,       (* <<source, order>>: the kind of sound source, and how     *)
               (* another thread sees the stores of a thread: in "program" *)
               (* order, or "weak", as a weakly ordered machine or an      *)
               (* optimizer may show them (buf_ is not volatile)           *)
  N,           (* n_, the number of slots; one is always free              *)
  Requests,    (* arguments of get(): a set of <<n, latest>>               *)
  MaxChunk,    (* most samples one read() or callback brings               *)
  MaxFed       (* bound on the number of samples that ever arrive          *)

ASSUME RingAssumption ==
  /\ Kinds \subseteq {"card", "network", "rtltcp"} \X {"program", "weak"}
  /\ N \in Nat /\ N >= 2
  /\ Requests \subseteq (Nat \X BOOLEAN)
  /\ MaxChunk \in Nat
  /\ MaxFed \in Nat

VARIABLES
  source, order, (* the kind of this ring: they never change                *)
  buf, wi, ri,   (* buf_, wi_, ri_                                          *)
  time,          (* time_: the stamp of the last chunk, -1 before any       *)
  ppc, preg,     (* producer: control state and the value of ri_ it loaded  *)
  pending, fed,  (* samples of the chunk still to store; samples handled    *)
  cpc, creg,     (* main thread inside get(): control state, register       *)
  req,           (* the request being served                                *)
  v, t0,         (* the vector and the time get() returns                   *)
  dropped,       (* history: samples given up because the buffer was full   *)
  passed,        (* history: the last sample get() moved ri_ past           *)
  atCall, turns, (* history: the occupancy and fed when get() was called,   *)
                 (* and how often it has moved ri_ since                    *)
  slip,          (* history: when get() took the occupancy off t0, how many *)
                 (* samples had been handled since the stamp it had loaded, *)
                 (* and whether the branch it was in misread the indices    *)
  quiet          (* history: no producer step since get() loaded time_      *)

kind     == <<source, order>>
shared   == <<buf, wi, ri, time>>
producer == <<ppc, preg, pending, fed, dropped>>
history  == <<atCall, turns, slip>>
consumer == <<cpc, creg, req, v, t0, passed, history>>
vars     == <<kind, shared, producer, consumer, quiet>>

Slots == 0 .. N - 1

(* Mutant: forgets to wrap.                                                 *)
SuccUnwrapped(i) == i + 1

Succ(i) == (i + 1) % N
Occupancy(w, r) == (w + N - r) % N

(* The k-th sample (k = 1 is the oldest) between ri_ and wi_.               *)
Queued(k) == buf[(ri + k - 1) % N]

Count  == req[1]
Latest == req[2]
-------------------------------------------------------------------------------
Init ==
  /\ \E k \in Kinds : source = k[1] /\ order = k[2]
  /\ buf = [i \in Slots |-> 0] /\ wi = 0 /\ ri = 0 /\ time = -1
  /\ ppc = "idle" /\ preg = 0 /\ pending = 0 /\ fed = 0 /\ dropped = {}
  /\ cpc = "idle" /\ creg = 0 /\ req \in Requests /\ v = <<>> /\ t0 = -1
  /\ passed = 0 /\ atCall = [count |-> 0, fed |-> 0] /\ turns = 0
  /\ slip = [since |-> 0, misread |-> FALSE]
  /\ quiet = FALSE
-------------------------------------------------------------------------------
(* The producer.  A chunk of c samples arrives; each is stored in turn.     *)

Arrive(c) ==
  /\ ppc = "idle"
  /\ fed + c <= MaxFed
  /\ pending' = c
  /\ ppc' = "check"
  /\ quiet' = FALSE
  /\ UNCHANGED <<kind, shared, consumer, preg, fed, dropped>>

Full == Succ(wi) = ri

(* What follows a sample: the next one, or the stamp of the chunk.          *)
NextSample(handled) ==
  /\ fed' = fed + handled
  /\ pending' = pending - handled
  /\ ppc' = IF pending' = 0 THEN "stamp" ELSE "check"

(* Mutant: stores without looking for room.                                 *)
CheckRoomUnguarded ==
  /\ ppc = "check"
  /\ ppc' = "write"
  /\ quiet' = FALSE
  /\ UNCHANGED <<kind, shared, consumer, preg, pending, fed, dropped>>

CheckRoom ==
  /\ ppc = "check" /\ ~Full
  /\ ppc' = "write"
  /\ quiet' = FALSE
  /\ UNCHANGED <<kind, shared, consumer, preg, pending, fed, dropped>>

(* store_output() drops the one sample; cb() breaks out of its loop and     *)
(* so drops the rest of the chunk.                                          *)
DropNewest ==
  /\ ppc = "check" /\ Full
  /\ source # "network"
  /\ LET lost == IF source = "card" THEN pending ELSE 1 IN
       /\ dropped' = dropped \cup (fed + 1 .. fed + lost)
       /\ NextSample(lost)
  /\ quiet' = FALSE
  /\ UNCHANGED <<kind, shared, consumer, preg>>

(* NetworkSoundIn's reader advances ri_ itself: a load, then a store.       *)
EvictLoad ==
  /\ ppc = "check" /\ Full
  /\ source = "network"
  /\ preg' = ri
  /\ ppc' = "evict"
  /\ quiet' = FALSE
  /\ UNCHANGED <<kind, shared, consumer, pending, fed, dropped>>

EvictStore ==
  /\ ppc = "evict"
  /\ ri' = Succ(preg)
  /\ dropped' = dropped \cup {buf[preg]}
  /\ ppc' = "write"
  /\ quiet' = FALSE
  /\ UNCHANGED <<kind, consumer, buf, wi, time, preg, pending, fed>>

WriteSlot ==
  /\ ppc = "write"
  /\ buf' = [buf EXCEPT ![wi] = fed + 1]
  /\ ppc' = "publish"
  /\ quiet' = FALSE
  /\ UNCHANGED <<kind, consumer, wi, ri, time, preg, pending, fed, dropped>>

Publish ==
  /\ ppc = "publish"
  /\ wi' = Succ(wi)
  /\ NextSample(1)
  /\ quiet' = FALSE
  /\ UNCHANGED <<kind, consumer, buf, ri, time, preg, dropped>>

(* The two stores, seen in the other order.                                 *)
PublishEarly ==
  /\ order = "weak"
  /\ ppc = "write"
  /\ preg' = wi
  /\ wi' = Succ(wi)
  /\ ppc' = "late"
  /\ quiet' = FALSE
  /\ UNCHANGED <<kind, consumer, buf, ri, time, pending, fed, dropped>>

WriteLate ==
  /\ ppc = "late"
  /\ buf' = [buf EXCEPT ![preg] = fed + 1]
  /\ NextSample(1)
  /\ quiet' = FALSE
  /\ UNCHANGED <<kind, consumer, wi, ri, time, preg, dropped>>

(* time_ = now(), or in cb() the time of the end of the callback's frames.  *)
StampChunk ==
  /\ ppc = "stamp"
  /\ time' = fed
  /\ ppc' = "idle"
  /\ quiet' = FALSE
  /\ UNCHANGED <<kind, consumer, buf, wi, ri, preg, pending, fed, dropped>>
-------------------------------------------------------------------------------
(* The main thread: get(n, t0, latest).                                     *)

(* The tests on entry; a source that never had input answers at once.       *)
Call(r) ==
  /\ cpc = "idle"
  /\ req' = r
  /\ v' = <<>>
  /\ atCall' = [count |-> Occupancy(wi, ri), fed |-> fed] /\ turns' = 0
  /\ slip' = [since |-> 0, misread |-> FALSE]
  /\ IF time < 0 /\ wi = ri
       THEN t0' = -1 /\ UNCHANGED cpc
       ELSE cpc' = (IF r[2] THEN "skip" ELSE "loadtime") /\ UNCHANGED t0
  /\ UNCHANGED <<kind, shared, producer, creg, passed, quiet>>

SkipTest ==
  /\ cpc = "skip"
  /\ cpc' = IF Occupancy(wi, ri) > Count THEN "skip_load" ELSE "loadtime"
  /\ UNCHANGED <<kind, shared, producer, creg, req, v, t0, passed, history, quiet>>

SkipLoad ==
  /\ cpc = "skip_load"
  /\ creg' = ri
  /\ cpc' = "skip_store"
  /\ UNCHANGED <<kind, shared, producer, req, v, t0, passed, history, quiet>>

(* ri_ = (ri_ + 1) % n_ is a load and a store.                              *)
(* Mutants: ri_ stays where it is; ri_ moves on twice.                      *)
MovePastNothing == UNCHANGED ri /\ passed' = buf[creg]
MovePastTwo == ri' = Succ(Succ(creg)) /\ passed' = buf[creg]

MovePast == ri' = Succ(creg) /\ passed' = buf[creg]

SkipStore ==
  /\ cpc = "skip_store"
  /\ MovePast /\ turns' = turns + 1
  /\ cpc' = "skip"
  /\ UNCHANGED <<kind, buf, wi, time, producer, creg, req, v, t0, atCall, slip, quiet>>

LoadTime ==
  /\ cpc = "loadtime"
  /\ t0' = time
  /\ cpc' = "compare"
  /\ quiet' = (ppc = "idle")
  /\ UNCHANGED <<kind, shared, producer, creg, req, v, passed, history>>

(* if(wi_ >= ri_), or wi_ > ri_ for "card" and "network".                   *)
CompareIndices ==
  /\ cpc = "compare"
  /\ cpc' = IF wi > ri \/ (source = "rtltcp" /\ wi = ri)
              THEN "subtract" ELSE "subtract_wrapped"
  /\ UNCHANGED <<kind, shared, producer, creg, req, v, t0, passed, history, quiet>>

(* ... and then the indices are loaded a second time.                       *)
NoteSlip ==
  slip' = [since |-> fed - t0, misread |-> (cpc = "subtract") # (wi >= ri)]

(* Mutant: forgets n_ where the samples wrap around.                        *)
SubtractUnwrapped ==
  /\ cpc \in {"subtract", "subtract_wrapped"} /\ t0' = t0 - (wi - ri)
  /\ NoteSlip
  /\ cpc' = "drain"
  /\ UNCHANGED <<kind, shared, producer, creg, req, v, passed, atCall, turns, quiet>>

SubtractOccupancy ==
  /\ \/ cpc = "subtract" /\ t0' = t0 - (wi - ri)
     \/ cpc = "subtract_wrapped" /\ t0' = t0 - (wi + N - ri)
  /\ NoteSlip
  /\ cpc' = "drain"
  /\ UNCHANGED <<kind, shared, producer, creg, req, v, passed, atCall, turns, quiet>>

(* Mutant: takes one sample more than asked for.                            *)
DrainTestMore ==
  /\ cpc = "drain"
  /\ cpc' = IF Len(v) <= Count /\ ri # wi THEN "copy" ELSE "idle"
  /\ UNCHANGED <<kind, shared, producer, creg, req, v, t0, passed, history, quiet>>

DrainTest ==
  /\ cpc = "drain"
  /\ cpc' = IF Len(v) < Count /\ ri # wi THEN "copy" ELSE "idle"
  /\ UNCHANGED <<kind, shared, producer, creg, req, v, t0, passed, history, quiet>>

CopySlot ==
  /\ cpc = "copy"
  /\ v' = Append(v, buf[ri])
  /\ cpc' = "take_load"
  /\ UNCHANGED <<kind, shared, producer, creg, req, t0, passed, history, quiet>>

TakeLoad ==
  /\ cpc = "take_load"
  /\ creg' = ri
  /\ cpc' = "take_store"
  /\ UNCHANGED <<kind, shared, producer, req, v, t0, passed, history, quiet>>

TakeStore ==
  /\ cpc = "take_store"
  /\ MovePast /\ turns' = turns + 1
  /\ cpc' = "drain"
  /\ UNCHANGED <<kind, buf, wi, time, producer, creg, req, v, t0, atCall, slip, quiet>>
-------------------------------------------------------------------------------
Store ==
  \/ CheckRoom \/ DropNewest \/ EvictLoad \/ EvictStore
  \/ WriteSlot \/ Publish \/ PublishEarly \/ WriteLate \/ StampChunk

Get ==
  \/ SkipTest \/ SkipLoad \/ SkipStore
  \/ LoadTime \/ CompareIndices \/ SubtractOccupancy
  \/ DrainTest \/ CopySlot \/ TakeLoad \/ TakeStore

Next ==
  \/ \E c \in 1 .. MaxChunk : Arrive(c)
  \/ Store
  \/ \E r \in Requests : Call(r)
  \/ Get

Spec == Init /\ [][Next]_vars
-------------------------------------------------------------------------------
ProducerStates == {"idle", "check", "evict", "write", "publish", "late", "stamp"}
ConsumerStates ==
  {"idle", "skip", "skip_load", "skip_store", "loadtime", "compare", "subtract",
   "subtract_wrapped", "drain", "copy", "take_load", "take_store"}

(* Every variable keeps its type: the indices stay inside buf_.             *)
TypeOK ==
  /\ <<source, order>> \in Kinds
  /\ buf \in [Slots -> Nat] /\ wi \in Slots /\ ri \in Slots /\ time \in Int
  /\ ppc \in ProducerStates /\ preg \in Slots
  /\ pending \in Nat /\ fed \in Nat /\ dropped \subseteq Nat
  /\ cpc \in ConsumerStates /\ creg \in Slots
  /\ req \in Nat \X BOOLEAN /\ v \in Seq(Nat) /\ t0 \in Int
  /\ passed \in Nat /\ atCall \in [count : Nat, fed : Nat] /\ turns \in Nat
  /\ slip \in [since : Int, misread : BOOLEAN]
  /\ quiet \in BOOLEAN

(* Each index has one writer, and stores are seen in program order.         *)
OneWriter == source # "network" /\ order = "program"

(* While get() copies a slot, the receiving thread is not about to write    *)
(* that slot: the data race that the free slot of store_output() and cb()   *)
(* is there to rule out.                                                    *)
NoSlotRace ==
  OneWriter => ~(cpc = "copy" /\ ppc = "write" /\ wi = ri)

(* get() never hands out a sample twice, nor an older sample after a newer  *)
(* one, nor a slot that was never written: what it is about to copy is a    *)
(* stored sample newer than all that were returned or passed over before.   *)
ReturnedInOrder ==
  OneWriter =>
    /\ cpc = "copy" => passed < buf[ri] /\ buf[ri] <= fed
    /\ \A i, j \in 1 .. Len(v) : i < j => v[i] < v[j]

InRing(a) == \E k \in 1 .. Occupancy(wi, ri) : Queued(k) = a

(* A sample that arrived waits in the ring unless get() has moved past it   *)
(* or it was given up because the ring was full; snd.cc:650 says it of the  *)
(* network source: "drop the oldest sample to keep the newest".             *)
NothingDisappears ==
  \A a \in 1 .. fed : a <= passed \/ a \in dropped \/ InRing(a)

(* ... and so it is where only get() moves ri_.                             *)
NothingLost == OneWriter => NothingDisappears

Returned == cpc = "idle" /\ v # <<>>

(* When the receiving thread is at rest while get() works out t0, and no    *)
(* sample after the first returned one was dropped, t0 is exactly the time  *)
(* at which the first returned sample began.                                *)
T0ExactWhenQuiet ==
  (Returned /\ quiet /\ \A d \in dropped : d < v[1]) => t0 = v[1] - 1

(* However the threads interleave, t0 misses the time of the first sample   *)
(* by two things only: it is early by the samples handled between the stamp *)
(* get() loaded and the subtraction, and wrong by the whole buffer if wi_   *)
(* wrapped, or the first sample came, between the comparison of the indices *)
(* and their second load: the race the comment at snd.cc:257 fears.         *)
T0Error ==
  (OneWriter /\ Returned /\ \A d \in dropped : d < v[1]) =>
    LET error == t0 - (v[1] - 1) IN
      IF slip.misread THEN error + slip.since \in {N, -N}
                      ELSE error = -slip.since

(* get() cannot run on without arrivals to feed it: it moves ri_ at most    *)
(* once for each sample that was in the ring when it was called or came     *)
(* since, and never turns about a ring that looks full to it but is empty.  *)
EveryTurnIsPaid ==
  OneWriter => turns + Occupancy(wi, ri) <= atCall.count + (fed - atCall.fed)

(* The ring is a bounded first-in first-out queue with the contract of      *)
(* SoundIn::get(): the two threads' loads and stores, interleaved, only     *)
(* ever accept, refuse, pass over or take a sample.  A sample is taken when *)
(* get() stores ri_; the copy it made before that frees no slot.            *)
Copied == IF cpc \in {"take_load", "take_store"} THEN 1 ELSE 0
Queue == INSTANCE SampleQueue WITH
  Capacity <- N - 1,
  queue    <- [k \in 1 .. Occupancy(wi, ri) |-> Queued(k)],
  arrived  <- fed,
  busy     <- (cpc # "idle"),
  v        <- SubSeq(v, 1, Len(v) - Copied)
ImplementsQueue ==
  /\ OneWriter => Queue!Init
  /\ [][OneWriter => [Queue!Next]_(Queue!vars)]_vars
===============================================================================
