-------------------------- MODULE SampleRingInvariant --------------------------
(***************************************************************************)
(* Why the ring of "card" and "rtltcp" is safe without a lock, as an       *)
(* inductive invariant.  Each index has one writer; the producer keeps the *)
(* slot before ri_ free, so a slot that get() may copy is never the slot   *)
(* that is being written.  Checked by TLC with SampleRing, proved          *)
(* inductive in SampleRingProofs.                                          *)
(***************************************************************************)
EXTENDS SampleRing

(* How many slots get() meets before slot i, and the slots it will meet     *)
(* before it finds the ring empty.                                          *)
Dist(i) == Occupancy(i, ri)
Live(i) == Dist(i) < Dist(wi)

(* The stores of a chunk happen while samples of it are pending.            *)
Storing == ppc \in {"check", "evict", "write", "publish", "late"}
TypeInv == TypeOK /\ (Storing => pending >= 1)

(* What a thread tested still holds when it acts on the test: there is a    *)
(* sample to take, ri_ is still the value loaded, there is room for one     *)
(* more, and the slot that wi_ is about to cover holds the sample.          *)
TestsHold ==
  /\ cpc \in {"copy", "take_load", "take_store", "skip_load", "skip_store"} => ri # wi
  /\ cpc \in {"take_store", "skip_store"} => creg = ri
  /\ ppc \in {"write", "publish"} => Succ(wi) # ri
  /\ ppc = "publish" => buf[wi] = fed + 1

(* From ri_ to wi_ the samples get newer, and all are newer than what get() *)
(* has moved past.                                                          *)
LiveInOrder ==
  /\ passed <= fed
  /\ \A i \in Slots : Live(i) => passed < buf[i] /\ buf[i] <= fed
  /\ \A i, j \in Slots : Dist(i) < Dist(j) /\ Live(j) => buf[i] < buf[j]

Kept == \A a \in 1 .. fed : a <= passed \/ a \in dropped
                              \/ \E i \in Slots : Live(i) /\ buf[i] = a

(* What get() has gathered is in order and was moved past, but for the      *)
(* sample just copied.                                                      *)
GatheredInOrder ==
  /\ \A i, j \in 1 .. Len(v) : i < j => v[i] < v[j]
  /\ \A i \in 1 .. Len(v) :
       v[i] <= passed \/ (cpc \in {"take_load", "take_store"} /\ v[i] = buf[ri])

(* The reasons why two threads may use the ring of store_output() or cb()   *)
(* and get() without a lock.                                                *)
LoneInv ==
  /\ TypeInv
  /\ ppc \notin {"evict", "late"}
  /\ TestsHold /\ LiveInOrder /\ Kept /\ GatheredInOrder

(* The inductive invariant of rings of every kind.                          *)
RingInv == TypeInv /\ (OneWriter => LoneInv)
===============================================================================
