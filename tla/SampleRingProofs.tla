--------------------------- MODULE SampleRingProofs ---------------------------
(***************************************************************************)
(* Theorems about SampleRing for every size of the buffer and every        *)
(* sequence of arrivals and calls.  The argument: seen from ri_, the slots *)
(* before wi_ hold increasing sample numbers, all newer than anything      *)
(* get() has moved past; with a single writer of each index, neither       *)
(* thread's decision (there is room, there is a sample) can be undone by   *)
(* the other between the test and the store that acts on it.  From this    *)
(* follow the order of samples and that the ring is a queue; the time t0   *)
(* follows from the age of a slot, counted back from wi_.                  *)
(***************************************************************************)
EXTENDS SampleRingInvariant, TLAPS

(* The index arithmetic of the code without the modulus.                    *)
LEMMA SuccWraps ==
  ASSUME NEW i \in Slots
  PROVE  /\ Succ(i) = IF i = N - 1 THEN 0 ELSE i + 1
         /\ Succ(i) \in Slots
<1> USE RingAssumption DEF Slots, Succ
<1>1. CASE i = N - 1
  BY <1>1
<1>2. CASE i # N - 1
  BY <1>2
<1> QED BY <1>1, <1>2

LEMMA OccupancyWraps ==
  ASSUME NEW w \in Slots, NEW r \in Slots
  PROVE  /\ Occupancy(w, r) = IF w >= r THEN w - r ELSE w + N - r
         /\ Occupancy(w, r) \in Slots
<1> USE RingAssumption DEF Slots, Occupancy
<1>1. CASE w >= r
  <2>1. w + N - r = N + (w - r) /\ w - r \in 0 .. N - 1
    BY <1>1
  <2> QED BY <2>1
<1>2. CASE w < r
  BY <1>2
<1> QED BY <1>1, <1>2

-------------------------------------------------------------------------------
(* Types.                                                                   *)
LEMMA TypeInit == Init => TypeInv
<1> SUFFICES ASSUME Init PROVE TypeInv
  OBVIOUS
<1> USE DEF Init
<1>1. buf \in [Slots -> Nat] /\ 0 \in Slots
  BY RingAssumption DEF Slots
<1>2. req \in Nat \X BOOLEAN
  BY RingAssumption
<1>3. atCall \in [count : Nat, fed : Nat] /\ slip \in [since : Int, misread : BOOLEAN]
  OBVIOUS
<1>4. v \in Seq(Nat)
  OBVIOUS
<1>5. <<source, order>> \in Kinds
  <2>1. PICK k \in Kinds : source = k[1] /\ order = k[2]
    OBVIOUS
  <2>2. k = <<k[1], k[2]>>
    BY RingAssumption
  <2> QED BY <2>1, <2>2
<1>6. wi \in Slots /\ ri \in Slots /\ preg \in Slots /\ creg \in Slots
  BY <1>1
<1>7. time = -1 /\ t0 = -1 /\ pending = 0 /\ fed = 0 /\ passed = 0 /\ turns = 0
  OBVIOUS
<1>8. dropped = {} /\ quiet = FALSE /\ ppc = "idle" /\ cpc = "idle"
  OBVIOUS
<1> HIDE DEF Init
<1>9. time \in Int /\ t0 \in Int /\ pending \in Nat /\ fed \in Nat /\ passed \in Nat
      /\ turns \in Nat
  BY <1>7
<1>10. /\ ~Storing /\ ppc \in ProducerStates /\ cpc \in ConsumerStates
       /\ dropped \subseteq Nat /\ quiet \in BOOLEAN
  BY <1>8 DEF Storing, ProducerStates, ConsumerStates
<1> QED BY <1>1, <1>2, <1>3, <1>4, <1>5, <1>6, <1>9, <1>10, Zenon DEF TypeInv, TypeOK

LEMMA ProducerTypes ==
  ASSUME TypeInv, Store \/ \E c \in 1 .. MaxChunk : Arrive(c)
  PROVE  TypeInv'
<1> USE DEF TypeInv, TypeOK, Storing, ProducerStates, kind, shared, consumer, history
<1>0. Succ(wi) \in Slots /\ Succ(preg) \in Slots
  BY SuccWraps
<1>1. ASSUME NEW c \in 1 .. MaxChunk, Arrive(c) PROVE TypeInv'
  <2>1. c \in Nat /\ c >= 1
    BY RingAssumption
  <2> QED BY <1>1, <2>1 DEF Arrive
<1>2. CASE CheckRoom
  BY <1>2 DEF CheckRoom
<1>3. CASE DropNewest
  <2> DEFINE lost == IF source = "card" THEN pending ELSE 1
  <2>0. pending \in Nat /\ pending >= 1 /\ fed \in Nat /\ dropped \subseteq Nat
    BY <1>3 DEF DropNewest
  <2>1. lost \in Nat /\ 1 <= lost /\ lost <= pending
    BY <2>0
  <2>2. dropped' = dropped \cup (fed + 1 .. fed + lost) /\ NextSample(lost)
    BY <1>3 DEF DropNewest
  <2> HIDE DEF lost
  <2>3. dropped' \subseteq Nat
    <3>1. fed + 1 .. fed + lost \subseteq Nat
      BY <2>0, <2>1
    <3>2. dropped \subseteq Nat /\ dropped' = dropped \cup (fed + 1 .. fed + lost)
      BY <2>0, <2>2
    <3> HIDE DEF TypeInv
    <3> QED BY <3>1, <3>2
  <2>4. /\ pending' \in Nat /\ fed' \in Nat
        /\ ppc' \in {"stamp", "check"} /\ (ppc' = "check" => pending' >= 1)
    BY <2>0, <2>1, <2>2 DEF NextSample
  <2> QED BY <1>3, <2>3, <2>4 DEF DropNewest
<1>4. CASE EvictLoad
  BY <1>4 DEF EvictLoad
<1>5. CASE EvictStore
  BY <1>0, <1>5 DEF EvictStore
<1>6. CASE WriteSlot
  <2>1. buf' \in [Slots -> Nat]
    BY <1>6 DEF WriteSlot
  <2> QED BY <1>6, <2>1 DEF WriteSlot
<1>7. ASSUME Publish \/ WriteLate
      PROVE  /\ pending' \in Nat /\ fed' \in Nat
             /\ ppc' \in {"stamp", "check"} /\ (ppc' = "check" => pending' >= 1)
  BY <1>7 DEF Publish, WriteLate, NextSample
<1>8. CASE Publish
  BY <1>0, <1>7, <1>8 DEF Publish
<1>9. CASE PublishEarly
  BY <1>0, <1>9 DEF PublishEarly
<1>10. CASE WriteLate
  <2>1. buf' \in [Slots -> Nat]
    BY <1>10 DEF WriteLate
  <2> QED BY <1>7, <1>10, <2>1 DEF WriteLate
<1>11. CASE StampChunk
  <2>1. time' \in Int
    BY <1>11 DEF StampChunk
  <2> QED BY <1>11, <2>1 DEF StampChunk
<1> QED BY <1>1, <1>2, <1>3, <1>4, <1>5, <1>6, <1>8, <1>9, <1>10, <1>11 DEF Store

LEMMA ConsumerTypes ==
  ASSUME TypeInv, Get \/ \E r \in Requests : Call(r)
  PROVE  TypeInv'
<1>w. Occupancy(wi, ri) \in Nat
  <2>1. wi \in Slots /\ ri \in Slots
    BY DEF TypeInv, TypeOK
  <2> QED BY <2>1, OccupancyWraps DEF Slots
<1> USE DEF TypeInv, TypeOK, Storing, ConsumerStates, kind, shared, producer, history
<1>0. Succ(creg) \in Slots
  BY SuccWraps
<1>1. ASSUME NEW r \in Requests, Call(r) PROVE TypeInv'
  <2>1. r \in Nat \X BOOLEAN
    BY RingAssumption
  <2>2. atCall' \in [count : Nat, fed : Nat] /\ slip' \in [since : Int, misread : BOOLEAN]
    BY <1>1, <1>w DEF Call
  <2>3. cpc' \in ConsumerStates /\ t0' \in Int /\ v' \in Seq(Nat)
    BY <1>1 DEF Call
  <2> QED BY <1>1, <2>1, <2>2, <2>3 DEF Call
<1>2. CASE SkipTest
  BY <1>2 DEF SkipTest
<1>3. CASE SkipLoad
  BY <1>3 DEF SkipLoad
<1>4. CASE SkipStore
  BY <1>0, <1>4 DEF SkipStore, MovePast
<1>5. CASE LoadTime
  BY <1>5 DEF LoadTime
<1>6. CASE CompareIndices
  BY <1>6 DEF CompareIndices
<1>7. CASE SubtractOccupancy
  <2>1. t0' \in Int
    BY <1>7, RingAssumption DEF SubtractOccupancy, Slots
  <2>2. slip' \in [since : Int, misread : BOOLEAN]
    BY <1>7 DEF SubtractOccupancy, NoteSlip
  <2> QED BY <1>7, <2>1, <2>2 DEF SubtractOccupancy
<1>8. CASE DrainTest
  BY <1>8 DEF DrainTest
<1>9. CASE CopySlot
  BY <1>9 DEF CopySlot
<1>10. CASE TakeLoad
  BY <1>10 DEF TakeLoad
<1>11. CASE TakeStore
  BY <1>0, <1>11 DEF TakeStore, MovePast
<1> QED BY <1>1, <1>2, <1>3, <1>4, <1>5, <1>6, <1>7, <1>8, <1>9, <1>10, <1>11 DEF Get

(* For every kind of source and either order of stores, the indices stay    *)
(* inside buf_ and every variable keeps its type, although two threads      *)
(* store ri_ in NetworkSoundIn.                                             *)
THEOREM TypeCorrect == Spec => []TypeOK
<1>1. TypeInv /\ [Next]_vars => TypeInv'
  <2> SUFFICES ASSUME TypeInv, [Next]_vars PROVE TypeInv'
    OBVIOUS
  <2>1. CASE UNCHANGED vars
    BY <2>1 DEF vars, kind, shared, producer, consumer, history, TypeInv, TypeOK, Storing
  <2> QED BY <2>1, ProducerTypes, ConsumerTypes DEF Next
<1>2. TypeInv => TypeOK
  BY DEF TypeInv
<1> QED BY TypeInit, <1>1, <1>2, PTL DEF Spec
-------------------------------------------------------------------------------
(* Safety of the ring with one writer for each index.                       *)

(* Seen from ri_, wi_ moves one slot on when a sample is published.         *)
LEMMA PublishMovesOn ==
  ASSUME wi \in Slots, ri \in Slots, wi' = Succ(wi), ri' = ri, Succ(wi) # ri
  PROVE  /\ Dist(wi)' = Dist(wi) + 1
         /\ \A i \in Slots : Dist(i)' = Dist(i) /\ Dist(i) \in Nat
         /\ \A i \in Slots : Dist(i) = Dist(wi) => i = wi
<1>1. Succ(wi) \in Slots
  BY SuccWraps
<1>2. \A i \in Slots : Dist(i) = IF i >= ri THEN i - ri ELSE i + N - ri
  BY OccupancyWraps DEF Dist
<1>3. Dist(wi)' = IF Succ(wi) >= ri THEN Succ(wi) - ri ELSE Succ(wi) + N - ri
  BY <1>1, OccupancyWraps DEF Dist
<1>4. Succ(wi) = IF wi = N - 1 THEN 0 ELSE wi + 1
  BY SuccWraps
<1>5. Dist(wi)' = Dist(wi) + 1
  BY <1>2, <1>3, <1>4, RingAssumption DEF Slots
<1>6. \A i \in Slots : Dist(i)' = Dist(i)
  BY DEF Dist
<1> QED BY <1>2, <1>5, <1>6, RingAssumption DEF Slots

(* ... and everything comes one slot nearer when get() moves ri_.           *)
LEMMA TakeComesNearer ==
  ASSUME wi \in Slots, ri \in Slots, wi' = wi, ri' = Succ(ri), ri # wi
  PROVE  /\ \A i \in Slots : Dist(i) \in Nat /\ Dist(i) < N
         /\ \A i \in Slots : Dist(i)' = IF i = ri THEN N - 1 ELSE Dist(i) - 1
         /\ Dist(wi)' = Dist(wi) - 1
         /\ Dist(ri) = 0
         /\ Succ(wi) # ri'
<1>1. Succ(ri) \in Slots
  BY SuccWraps
<1>2. \A i \in Slots : Dist(i) = IF i >= ri THEN i - ri ELSE i + N - ri
  BY OccupancyWraps DEF Dist
<1>3. \A i \in Slots :
        Occupancy(i, Succ(ri)) = IF i >= Succ(ri) THEN i - Succ(ri) ELSE i + N - Succ(ri)
  BY <1>1, OccupancyWraps
<1>4. Succ(ri) = IF ri = N - 1 THEN 0 ELSE ri + 1
  BY SuccWraps
<1>5. \A i \in Slots :
        Occupancy(i, Succ(ri)) = IF i = ri THEN N - 1 ELSE Dist(i) - 1
  <2> SUFFICES ASSUME NEW i \in Slots
               PROVE  Occupancy(i, Succ(ri)) = IF i = ri THEN N - 1 ELSE Dist(i) - 1
    OBVIOUS
  <2>1. /\ Dist(i) = IF i >= ri THEN i - ri ELSE i + N - ri
        /\ Occupancy(i, Succ(ri))
             = IF i >= Succ(ri) THEN i - Succ(ri) ELSE i + N - Succ(ri)
    BY <1>2, <1>3
  <2> HIDE DEF Dist
  <2> QED BY <1>4, <2>1, RingAssumption DEF Slots
<1>6. \A i \in Slots : Dist(i) \in Nat /\ Dist(i) < N
  BY <1>2, RingAssumption DEF Slots
<1>7. \A i \in Slots : Dist(i)' = IF i = ri THEN N - 1 ELSE Dist(i) - 1
  BY <1>5 DEF Dist
<1>8. Dist(wi)' = Dist(wi) - 1
  BY <1>5 DEF Dist
<1>9. Succ(wi) # Succ(ri)
  BY SuccWraps, RingAssumption DEF Slots
<1>10. Dist(ri) = 0
  BY <1>2, RingAssumption DEF Slots
<1> QED BY <1>6, <1>7, <1>8, <1>9, <1>10

(* A ring that is not empty has its oldest sample in slot ri_.              *)
LEMMA OldestIsLive ==
  ASSUME wi \in Slots, ri \in Slots
  PROVE  /\ \A i \in Slots : i # ri => Dist(i) > Dist(ri)
         /\ ri # wi => Live(ri)
<1>1. \A i \in Slots : Dist(i) = IF i >= ri THEN i - ri ELSE i + N - ri
  BY OccupancyWraps DEF Dist
<1>2. Dist(ri) = 0
  BY <1>1, RingAssumption DEF Slots
<1>3. ASSUME NEW i \in Slots, i # ri PROVE Dist(i) > 0
  <2>1. Dist(i) = IF i >= ri THEN i - ri ELSE i + N - ri
    BY <1>1
  <2> QED BY <1>3, <2>1, RingAssumption DEF Slots
<1> QED BY <1>2, <1>3 DEF Live

LEMMA LoneInit == Init => LoneInv
<1> SUFFICES ASSUME Init PROVE LoneInv
  OBVIOUS
<1>1. TypeInv
  BY TypeInit
<1>2. \A i \in Slots : ~Live(i)
  <2>1. 0 \in Slots /\ ri = 0 /\ wi = 0
    BY RingAssumption DEF Slots, Init
  <2>2. \A i \in Slots : Dist(i) = i
    BY <2>1, OccupancyWraps DEF Dist, Slots
  <2> QED BY <2>1, <2>2 DEF Live, Slots
<1>3. LiveInOrder
  BY <1>2 DEF Init, LiveInOrder
<1>4. Kept
  BY DEF Init, Kept
<1>5. GatheredInOrder
  BY DEF Init, GatheredInOrder
<1> QED BY <1>1, <1>3, <1>4, <1>5 DEF Init, LoneInv, TestsHold

(* A step that stores nothing get() or the producer relies on.              *)
LEMMA Frame ==
  ASSUME LoneInv, UNCHANGED <<buf, wi, ri, passed, fed, dropped>>
  PROVE  LiveInOrder' /\ Kept'
BY DEF LoneInv, LiveInOrder, Kept, Live, Dist

(* A ring stays of its kind.                                                *)
LEMMA KindStays == [Next]_vars => UNCHANGED <<source, order>>
<1> USE DEF kind
<1>1. Store \/ (\E c \in 1 .. MaxChunk : Arrive(c)) => UNCHANGED <<source, order>>
  BY DEF Store, Arrive, CheckRoom, DropNewest, EvictLoad, EvictStore, WriteSlot,
         Publish, PublishEarly, WriteLate, StampChunk
<1>2. Get \/ (\E r \in Requests : Call(r)) => UNCHANGED <<source, order>>
  BY DEF Get, Call, SkipTest, SkipLoad, SkipStore, LoadTime, CompareIndices,
         SubtractOccupancy, DrainTest, CopySlot, TakeLoad, TakeStore
<1>3. UNCHANGED vars => UNCHANGED <<source, order>>
  BY DEF vars
<1> QED BY <1>1, <1>2, <1>3 DEF Next

LEMMA ProducerInv ==
  ASSUME OneWriter, LoneInv,
         Store \/ \E c \in 1 .. MaxChunk : Arrive(c)
  PROVE  LoneInv'
<1>0. TypeInv'
  BY ProducerTypes DEF LoneInv
<1> USE DEF shared, consumer
<1>t. /\ wi \in Slots /\ ri \in Slots /\ buf \in [Slots -> Nat]
      /\ fed \in Nat /\ passed \in Nat /\ pending \in Nat
  BY DEF LoneInv, TypeInv, TypeOK
(* Steps that only move the producer on.                                    *)
<1>1. ASSUME \/ \E c \in 1 .. MaxChunk : Arrive(c)
             \/ CheckRoom \/ StampChunk
      PROVE  LoneInv'
  <2>1. /\ UNCHANGED <<buf, wi, ri, passed, fed, dropped, cpc, creg, v>>
        /\ ppc' \in {"check", "write", "idle"}
        /\ ppc' = "write" => Succ(wi) # ri
    BY <1>1 DEF Arrive, CheckRoom, StampChunk, Full
  <2>2. LiveInOrder' /\ Kept'
    BY <2>1, Frame
  <2>3. TestsHold'
    BY <2>1 DEF LoneInv, TestsHold
  <2>4. GatheredInOrder'
    BY <2>1 DEF LoneInv, GatheredInOrder
  <2> QED BY <1>0, <2>1, <2>2, <2>3, <2>4 DEF LoneInv
<1>2. CASE DropNewest
  <2> DEFINE lost == IF source = "card" THEN pending ELSE 1
  <2>1. /\ UNCHANGED <<buf, wi, ri, passed, cpc, creg, v>>
        /\ dropped' = dropped \cup (fed + 1 .. fed + lost)
        /\ fed' = fed + lost
        /\ ppc' \in {"stamp", "check"}
    BY <1>2 DEF DropNewest, NextSample
  <2>2. lost \in Nat
    BY <1>t
  <2> HIDE DEF lost
  <2>3. LiveInOrder'
    BY <1>t, <2>1, <2>2 DEF LoneInv, LiveInOrder, Live, Dist
  <2>4. Kept'
    <3> SUFFICES ASSUME NEW a \in 1 .. fed + lost,
                        ~(a <= passed), a \notin dropped \cup (fed + 1 .. fed + lost)
                 PROVE  \E i \in Slots : Live(i) /\ buf[i] = a
      BY <2>1 DEF Kept, Live, Dist
    <3>1. a \in 1 .. fed
      BY <1>t, <2>2
    <3> QED BY <3>1 DEF LoneInv, Kept
  <2>5. TestsHold'
    BY <2>1 DEF LoneInv, TestsHold
  <2>6. GatheredInOrder'
    BY <2>1 DEF LoneInv, GatheredInOrder
  <2> QED BY <1>0, <2>1, <2>3, <2>4, <2>5, <2>6 DEF LoneInv
<1>3. CASE WriteSlot
  <2>1. /\ UNCHANGED <<wi, ri, passed, fed, dropped, cpc, creg, v>>
        /\ buf' = [buf EXCEPT ![wi] = fed + 1]
        /\ ppc = "write" /\ ppc' = "publish"
    BY <1>3 DEF WriteSlot
  <2>2. /\ buf'[wi] = fed + 1
        /\ \A i \in Slots : i # wi => buf'[i] = buf[i]
    BY <1>t, <2>1
  <2>3. \A i \in Slots : Dist(i)' = Dist(i) /\ Live(i)' = Live(i) /\ Dist(i) \in Nat
    BY <1>t, <2>1, OccupancyWraps DEF Live, Dist, Slots
  <2>4. ~Live(wi)
    BY <1>t, <2>3 DEF Live
  <2>5. LiveInOrder'
    <3>1. \A i, j \in Slots : Dist(i) < Dist(j) /\ Live(j) => Live(i) /\ i # wi /\ j # wi
      BY <1>t, <2>3, <2>4 DEF Live
    <3> QED BY <1>t, <2>1, <2>2, <2>3, <2>4, <3>1 DEF LoneInv, LiveInOrder
  <2>6. Kept'
    BY <1>t, <2>1, <2>2, <2>3, <2>4 DEF LoneInv, Kept
  <2>7. TestsHold'
    BY <2>1, <2>2 DEF LoneInv, TestsHold
  <2>8. GatheredInOrder'
    BY <1>t, <2>1, <2>2 DEF LoneInv, GatheredInOrder, TestsHold
  <2> QED BY <1>0, <2>1, <2>5, <2>6, <2>7, <2>8 DEF LoneInv
<1>4. CASE Publish
  <2>1. /\ UNCHANGED <<buf, ri, passed, dropped, cpc, creg, v>>
        /\ wi' = Succ(wi) /\ fed' = fed + 1
        /\ ppc' \in {"stamp", "check"}
        /\ Succ(wi) # ri /\ buf[wi] = fed + 1
    BY <1>4 DEF Publish, NextSample, LoneInv, TestsHold
  <2>2. /\ Dist(wi)' = Dist(wi) + 1
        /\ \A i \in Slots : Dist(i)' = Dist(i) /\ Dist(i) \in Nat
        /\ \A i \in Slots : Dist(i) = Dist(wi) => i = wi
    BY <1>t, <2>1, PublishMovesOn
  <2>3. \A i \in Slots : Live(i)' <=> Live(i) \/ i = wi
    BY <1>t, <2>2 DEF Live
  <2>4. LiveInOrder'
    <3>1. passed' <= fed' /\ passed < fed + 1
      BY <1>t, <2>1 DEF LoneInv, LiveInOrder
    <3>2. ASSUME NEW i \in Slots, Live(i)'
          PROVE  passed' < buf'[i] /\ buf'[i] <= fed'
      BY <1>t, <2>1, <2>3, <3>1, <3>2 DEF LoneInv, LiveInOrder
    <3>3. ASSUME NEW i \in Slots, NEW j \in Slots, Dist(i)' < Dist(j)', Live(j)'
          PROVE  buf'[i] < buf'[j]
      <4>1. CASE j = wi
        <5>1. Live(i)
          BY <1>t, <2>2, <3>3, <4>1 DEF Live
        <5> QED BY <1>t, <2>1, <4>1, <5>1 DEF LoneInv, LiveInOrder
      <4>2. CASE Live(j)
        BY <2>1, <2>2, <3>3, <4>2 DEF LoneInv, LiveInOrder
      <4> QED BY <2>3, <3>3, <4>1, <4>2
    <3> QED BY <3>1, <3>2, <3>3 DEF LiveInOrder
  <2>5. Kept'
    <3> SUFFICES ASSUME NEW a \in 1 .. fed + 1, ~(a <= passed), a \notin dropped
                 PROVE  \E i \in Slots : Live(i)' /\ buf[i] = a
      BY <2>1 DEF Kept
    <3>1. CASE a = fed + 1
      BY <1>t, <2>1, <2>3, <3>1
    <3>2. CASE a \in 1 .. fed
      BY <2>3, <3>2 DEF LoneInv, Kept
    <3> QED BY <1>t, <3>1, <3>2
  <2>6. TestsHold'
    <3>1. cpc \in {"copy", "take_load", "take_store", "skip_load", "skip_store"}
            => ri' # wi'
      BY <2>1
    <3> QED BY <2>1, <3>1 DEF LoneInv, TestsHold
  <2>7. GatheredInOrder'
    BY <2>1 DEF LoneInv, GatheredInOrder
  <2> QED BY <1>0, <2>1, <2>4, <2>5, <2>6, <2>7 DEF LoneInv
<1>5. ~EvictLoad /\ ~EvictStore /\ ~PublishEarly /\ ~WriteLate
  BY DEF EvictLoad, EvictStore, PublishEarly, WriteLate, LoneInv, OneWriter
<1> QED BY <1>1, <1>2, <1>3, <1>4, <1>5 DEF Store

LEMMA ConsumerInv ==
  ASSUME LoneInv, Get \/ \E r \in Requests : Call(r)
  PROVE  LoneInv'
<1>0. TypeInv'
  BY ConsumerTypes DEF LoneInv
<1> USE DEF shared, producer
<1>t. /\ wi \in Slots /\ ri \in Slots /\ buf \in [Slots -> Nat] /\ v \in Seq(Nat)
      /\ fed \in Nat /\ passed \in Nat /\ req \in Nat \X BOOLEAN /\ creg \in Slots
  BY DEF LoneInv, TypeInv, TypeOK
(* get() looks around or copies: it stores nothing the producer reads.      *)
<1>1. ASSUME UNCHANGED <<buf, wi, ri, passed, fed, dropped, ppc>>,
             TestsHold', GatheredInOrder'
      PROVE  LoneInv'
  BY <1>0, <1>1, Frame DEF LoneInv
<1>2. ASSUME \/ LoadTime \/ CompareIndices \/ SubtractOccupancy
             \/ DrainTest \/ TakeLoad \/ SkipLoad
      PROVE  LoneInv'
  <2>1. /\ UNCHANGED <<buf, wi, ri, passed, fed, dropped, ppc, v>>
        /\ cpc' \in {"copy", "take_store", "skip_store"} => ri # wi
        /\ cpc' \in {"take_store", "skip_store"} => creg' = ri
        /\ cpc' \notin {"take_load", "skip_load"}
        /\ cpc' = "take_store" <=> cpc = "take_load"
        /\ cpc # "take_store"
    BY <1>2 DEF LoadTime, CompareIndices, SubtractOccupancy, DrainTest, TakeLoad,
                SkipLoad, LoneInv, TestsHold
  <2>2. TestsHold'
    BY <2>1 DEF LoneInv, TestsHold
  <2>3. GatheredInOrder'
    BY <2>1 DEF LoneInv, GatheredInOrder
  <2> QED BY <1>1, <2>1, <2>2, <2>3
<1>3. ASSUME NEW r \in Requests, Call(r) PROVE LoneInv'
  <2>1. /\ UNCHANGED <<buf, wi, ri, passed, fed, dropped, ppc>> /\ v' = <<>>
        /\ cpc' \in {"idle", "skip", "loadtime"}
    BY <1>3 DEF Call
  <2>2. TestsHold'
    BY <2>1 DEF LoneInv, TestsHold
  <2>3. GatheredInOrder'
    BY <2>1 DEF GatheredInOrder
  <2> QED BY <1>1, <2>1, <2>2, <2>3
<1>4. CASE SkipTest
  <2>1. /\ UNCHANGED <<buf, wi, ri, passed, fed, dropped, ppc, v>>
        /\ cpc = "skip" /\ cpc' \in {"skip_load", "loadtime"}
        /\ cpc' = "skip_load" => Occupancy(wi, ri) > req[1]
    BY <1>4 DEF SkipTest, Count
  <2>2. cpc' = "skip_load" => ri # wi
    BY <1>t, <2>1, OccupancyWraps DEF Slots
  <2>3. TestsHold'
    BY <2>1, <2>2 DEF LoneInv, TestsHold
  <2>4. GatheredInOrder'
    BY <2>1 DEF LoneInv, GatheredInOrder
  <2> QED BY <1>1, <2>1, <2>3, <2>4
<1>5. CASE CopySlot
  <2>1. /\ UNCHANGED <<buf, wi, ri, passed, fed, dropped, ppc>>
        /\ v' = Append(v, buf[ri]) /\ cpc = "copy" /\ cpc' = "take_load"
    BY <1>5 DEF CopySlot
  <2>2. TestsHold'
    BY <2>1 DEF LoneInv, TestsHold
  <2>3. passed < buf[ri]
    <3>1. Live(ri)
      BY <1>t, <2>1, OldestIsLive DEF LoneInv, TestsHold
    <3> QED BY <1>t, <3>1 DEF LoneInv, LiveInOrder
  <2>4. \A i \in 1 .. Len(v) : v[i] <= passed
    BY <2>1 DEF LoneInv, GatheredInOrder
  <2>5. /\ Len(v') = Len(v) + 1 /\ v'[Len(v) + 1] = buf[ri]
        /\ \A i \in 1 .. Len(v) : v'[i] = v[i] /\ v[i] \in Nat
    BY <1>t, <2>1
  <2>6. \A i, j \in 1 .. Len(v') : i < j => v'[i] < v'[j]
    <3> SUFFICES ASSUME NEW i \in 1 .. Len(v'), NEW j \in 1 .. Len(v'), i < j
                 PROVE  v'[i] < v'[j]
      OBVIOUS
    <3>1. i \in 1 .. Len(v) /\ (j \in 1 .. Len(v) \/ j = Len(v) + 1)
      BY <1>t, <2>5
    <3>2. CASE j \in 1 .. Len(v)
      BY <2>5, <3>1, <3>2 DEF LoneInv, GatheredInOrder
    <3>3. CASE j = Len(v) + 1
      BY <1>t, <2>3, <2>4, <2>5, <3>1, <3>3
    <3> QED BY <3>1, <3>2, <3>3
  <2>7. GatheredInOrder'
    <3>1. \A i \in 1 .. Len(v') : v'[i] <= passed \/ v'[i] = buf[ri]
      <4> SUFFICES ASSUME NEW i \in 1 .. Len(v')
                   PROVE  v'[i] <= passed \/ v'[i] = buf[ri]
        OBVIOUS
      <4>1. i \in 1 .. Len(v) \/ i = Len(v) + 1
        BY <1>t, <2>5
      <4> QED BY <2>4, <2>5, <4>1
    <3> QED BY <2>1, <2>6, <3>1 DEF GatheredInOrder
  <2> QED BY <1>1, <2>1, <2>2, <2>7
(* get() moves ri_ past the sample it read or skips.                        *)
<1>6. CASE SkipStore \/ TakeStore
  <2>1. /\ UNCHANGED <<buf, wi, fed, dropped, ppc, v>>
        /\ ri' = Succ(ri) /\ passed' = buf[ri] /\ ri # wi
        /\ cpc' \in {"skip", "drain"}
    BY <1>6 DEF SkipStore, TakeStore, MovePast, LoneInv, TestsHold
  <2>2. /\ \A i \in Slots : Dist(i) \in Nat /\ Dist(i) < N
        /\ \A i \in Slots : Dist(i)' = IF i = ri THEN N - 1 ELSE Dist(i) - 1
        /\ Dist(wi)' = Dist(wi) - 1
        /\ Dist(ri) = 0
        /\ Succ(wi) # ri'
    BY <1>t, <2>1, TakeComesNearer
  <2>3. \A i \in Slots : Live(i)' <=> Live(i) /\ i # ri
    BY <1>t, <2>2, RingAssumption DEF Live
  <2>4. Live(ri) /\ passed < buf[ri] /\ buf[ri] <= fed
    <3>1. Live(ri)
      BY <1>t, <2>1, OldestIsLive
    <3> QED BY <1>t, <3>1 DEF LoneInv, LiveInOrder
  <2>5. LiveInOrder'
    <3>1. ASSUME NEW i \in Slots, Live(i)'
          PROVE  passed' < buf'[i] /\ buf'[i] <= fed'
      <4>1. Live(i) /\ i # ri
        BY <2>3, <3>1
      <4>2. Dist(ri) < Dist(i)
        BY <1>t, <4>1, OldestIsLive
      <4> QED BY <1>t, <2>1, <4>1, <4>2 DEF LoneInv, LiveInOrder
    <3>2. ASSUME NEW i \in Slots, NEW j \in Slots, Dist(i)' < Dist(j)', Live(j)'
          PROVE  buf'[i] < buf'[j]
      <4>1. Live(j) /\ j # ri
        BY <2>3, <3>2
      <4>2. Dist(i) < Dist(j)
        <5>1. /\ Dist(j)' = Dist(j) - 1 /\ Dist(j) \in Nat /\ Dist(j) < N
              /\ Dist(i)' = (IF i = ri THEN N - 1 ELSE Dist(i) - 1) /\ Dist(i) \in Nat
          BY <2>2, <4>1
        <5>2. Dist(i)' < Dist(j)'
          BY <3>2
        <5> HIDE DEF Dist
        <5> QED BY <5>1, <5>2, RingAssumption
      <4> QED BY <1>t, <2>1, <4>1, <4>2 DEF LoneInv, LiveInOrder
    <3> QED BY <2>1, <2>4, <3>1, <3>2 DEF LiveInOrder
  <2>6. Kept'
    <3> SUFFICES ASSUME NEW a \in 1 .. fed, ~(a <= buf[ri]), a \notin dropped
                 PROVE  \E i \in Slots : Live(i)' /\ buf[i] = a
      BY <2>1 DEF Kept
    <3>1. ~(a <= passed)
      BY <1>t, <2>4
    <3>2. PICK i \in Slots : Live(i) /\ buf[i] = a
      BY <3>1 DEF LoneInv, Kept
    <3>3. i # ri
      BY <1>t, <3>2
    <3> QED BY <2>3, <3>2, <3>3
  <2>7. TestsHold'
    BY <2>1, <2>2 DEF LoneInv, TestsHold
  <2>8. GatheredInOrder'
    <3>1. \A i \in 1 .. Len(v) : v[i] <= buf[ri]
      <4> SUFFICES ASSUME NEW i \in 1 .. Len(v) PROVE v[i] <= buf[ri]
        OBVIOUS
      <4>1. v[i] \in Nat /\ buf[ri] \in Nat
        BY <1>t
      <4>2. v[i] <= passed \/ v[i] = buf[ri]
        BY DEF LoneInv, GatheredInOrder
      <4> QED BY <1>t, <2>4, <4>1, <4>2
    <3> QED BY <2>1, <3>1 DEF LoneInv, GatheredInOrder
  <2> QED BY <1>0, <2>1, <2>5, <2>6, <2>7, <2>8 DEF LoneInv
<1> QED BY <1>2, <1>3, <1>4, <1>5, <1>6 DEF Get

(* What the invariant says of the ring, for the reader of get().            *)
LEMMA RingInvSafe == RingInv => NoSlotRace /\ ReturnedInOrder /\ NothingLost
<1>0. CASE ~OneWriter
  BY <1>0 DEF NoSlotRace, ReturnedInOrder, NothingLost
<1> SUFFICES ASSUME LoneInv PROVE NoSlotRace /\ ReturnedInOrder /\ NothingLost
  BY <1>0 DEF RingInv
<1>t. wi \in Slots /\ ri \in Slots /\ passed \in Nat
  BY DEF LoneInv, TypeInv, TypeOK
<1>1. NoSlotRace
  BY DEF LoneInv, TestsHold, NoSlotRace
<1>2. ReturnedInOrder
  <2>1. cpc = "copy" => Live(ri)
    BY <1>t, OldestIsLive DEF LoneInv, TestsHold
  <2> QED BY <1>t, <2>1 DEF LoneInv, LiveInOrder, GatheredInOrder, ReturnedInOrder
<1>3. NothingLost
  <2>1. ASSUME NEW i \in Slots, Live(i)
        PROVE  \E k \in 1 .. Occupancy(wi, ri) : Queued(k) = buf[i]
    <3>1. /\ Dist(i) \in Nat /\ Dist(i) < Occupancy(wi, ri)
          /\ Occupancy(wi, ri) \in Nat
          /\ Dist(i) = IF i >= ri THEN i - ri ELSE i + N - ri
      BY <1>t, <2>1, OccupancyWraps DEF Live, Dist, Slots
    <3>2. (ri + Dist(i)) % N = i
      BY <1>t, <3>1, RingAssumption DEF Slots
    <3>3. ri + (Dist(i) + 1) - 1 = ri + Dist(i)
      BY <1>t, <3>1 DEF Slots
    <3>4. Queued(Dist(i) + 1) = buf[i]
      BY <3>2, <3>3 DEF Queued
    <3>5. Dist(i) + 1 \in 1 .. Occupancy(wi, ri)
      BY <3>1
    <3> QED BY <3>4, <3>5
  <2> QED BY <2>1 DEF LoneInv, Kept, NothingLost, NothingDisappears, InRing
<1> QED BY <1>1, <1>2, <1>3

(* A ring of any size and kind, under any interleaving of the loads and     *)
(* stores of its two threads: if only get() moves ri_ (CardSoundIn and      *)
(* RTLTCPSoundIn) and stores are seen in program order, what each thread    *)
(* tested still holds when it acts on it.                                   *)
THEOREM RingInvariant == Spec => []RingInv
<1>1. Init => RingInv
  BY TypeInit, LoneInit DEF RingInv
<1>2. RingInv /\ [Next]_vars => RingInv'
  <2> SUFFICES ASSUME RingInv, [Next]_vars PROVE RingInv'
    OBVIOUS
  <2>1. TypeInv'
    <3>1. CASE UNCHANGED vars
      BY <3>1 DEF RingInv, vars, kind, shared, producer, consumer, history, TypeInv, TypeOK, Storing
    <3> QED BY <3>1, ProducerTypes, ConsumerTypes DEF Next, RingInv
  <2>2. OneWriter' => OneWriter
    BY KindStays DEF OneWriter
  <2>3. ASSUME OneWriter PROVE LoneInv'
    <3>1. LoneInv
      BY <2>3 DEF RingInv
    <3>2. CASE UNCHANGED vars
      <4>1. LiveInOrder' /\ Kept'
        BY <3>1, <3>2, Frame DEF vars, shared, producer, consumer
      <4> QED BY <2>1, <3>1, <3>2, <4>1
              DEF LoneInv, vars, shared, producer, consumer, TestsHold, GatheredInOrder
    <3> QED BY <2>3, <3>1, <3>2, ProducerInv, ConsumerInv DEF Next
  <2> QED BY <2>1, <2>2, <2>3 DEF RingInv
<1> QED BY <1>1, <1>2, PTL DEF Spec

(* ... hence get() and the receiving thread never touch one slot at a time, *)
(* every sample comes out at most once and in order, and none disappears.   *)
THEOREM RingSafe == Spec => [](NoSlotRace /\ ReturnedInOrder /\ NothingLost)
BY RingInvariant, RingInvSafe, PTL
-------------------------------------------------------------------------------
(* get() and the samples that keep it going.                                *)

Paid == turns + Dist(wi) <= atCall.count + (fed - atCall.fed)

LEMMA PaidStep ==
  ASSUME OneWriter, LoneInv, Paid, [Next]_vars
  PROVE  Paid'
<1> USE DEF shared, consumer, producer, history
<1>t. /\ wi \in Slots /\ ri \in Slots /\ fed \in Nat /\ turns \in Nat /\ pending \in Nat
      /\ atCall.count \in Nat /\ atCall.fed \in Nat /\ Dist(wi) \in Nat
  <2>1. /\ wi \in Slots /\ ri \in Slots /\ fed \in Nat /\ turns \in Nat /\ pending \in Nat
        /\ atCall \in [count : Nat, fed : Nat]
    BY DEF LoneInv, TypeInv, TypeOK
  <2>2. Occupancy(wi, ri) \in Nat
    BY <2>1, OccupancyWraps DEF Slots
  <2> QED BY <2>1, <2>2 DEF Dist
(* Steps that move neither index nor start a call.                          *)
<1>1. ASSUME UNCHANGED <<wi, ri, turns, atCall>>, fed' \in Nat, fed' >= fed
      PROVE  Paid'
  <2>1. Dist(wi)' = Dist(wi)
    BY <1>1 DEF Dist
  <2> HIDE DEF Dist
  <2> QED BY <1>t, <1>1, <2>1 DEF Paid
<1>2. CASE DropNewest
  <2> DEFINE lost == IF source = "card" THEN pending ELSE 1
  <2>1. UNCHANGED <<wi, ri, turns, atCall>> /\ fed' = fed + lost
    BY <1>2 DEF DropNewest, NextSample
  <2>2. lost \in Nat
    BY <1>t
  <2> HIDE DEF lost
  <2> QED BY <1>t, <1>1, <2>1, <2>2
<1>3. CASE Publish
  <2>1. /\ UNCHANGED <<ri, turns, atCall>> /\ wi' = Succ(wi) /\ fed' = fed + 1
        /\ Succ(wi) # ri
    BY <1>3 DEF Publish, NextSample, LoneInv, TestsHold
  <2>2. Dist(wi)' = Dist(wi) + 1
    BY <1>t, <2>1, PublishMovesOn
  <2> HIDE DEF Dist
  <2> QED BY <1>t, <2>1, <2>2 DEF Paid
<1>4. CASE SkipStore \/ TakeStore
  <2>1. /\ UNCHANGED <<wi, fed, atCall>> /\ turns' = turns + 1
        /\ ri' = Succ(ri) /\ ri # wi
    BY <1>4 DEF SkipStore, TakeStore, MovePast, LoneInv, TestsHold
  <2>2. Dist(wi)' = Dist(wi) - 1
    BY <1>t, <2>1, TakeComesNearer
  <2> HIDE DEF Dist
  <2> QED BY <1>t, <2>1, <2>2 DEF Paid
<1>5. ASSUME NEW r \in Requests, Call(r) PROVE Paid'
  <2>1. /\ UNCHANGED <<wi, ri, fed>> /\ turns' = 0
        /\ atCall'.count = Dist(wi) /\ atCall'.fed = fed
    BY <1>5 DEF Call, Dist
  <2>2. Dist(wi)' = Dist(wi)
    BY <2>1 DEF Dist
  <2> HIDE DEF Dist
  <2> QED BY <1>t, <2>1, <2>2 DEF Paid
<1>6. ASSUME \/ \E c \in 1 .. MaxChunk : Arrive(c)
             \/ CheckRoom \/ WriteSlot \/ StampChunk
             \/ SkipTest \/ SkipLoad \/ LoadTime \/ CompareIndices \/ SubtractOccupancy
             \/ DrainTest \/ CopySlot \/ TakeLoad \/ UNCHANGED vars
      PROVE  UNCHANGED <<wi, ri, turns, atCall, fed>>
  BY <1>6 DEF Arrive, CheckRoom, WriteSlot, StampChunk, SkipTest, SkipLoad, LoadTime,
              CompareIndices, SubtractOccupancy, DrainTest, CopySlot, TakeLoad, vars
<1>7. ~EvictLoad /\ ~EvictStore /\ ~PublishEarly /\ ~WriteLate
  BY DEF EvictLoad, EvictStore, PublishEarly, WriteLate, LoneInv, OneWriter
<1>8. fed >= fed
  BY <1>t
<1> QED BY <1>t, <1>1, <1>2, <1>3, <1>4, <1>5, <1>6, <1>7, <1>8 DEF Next, Store, Get

(* For every size of the ring, every request and any number of arrivals: a  *)
(* call of get() moves ri_ at most once for each sample that was in the     *)
(* ring or arrived since.  It loops on only while samples keep arriving.    *)
THEOREM TurnsArePaid == Spec => []EveryTurnIsPaid
<1>1. Init => Paid
  <2> SUFFICES ASSUME Init PROVE Paid
    OBVIOUS
  <2>1. /\ wi = 0 /\ ri = 0 /\ fed = 0 /\ turns = 0
        /\ atCall.count = 0 /\ atCall.fed = 0 /\ 0 \in Slots
    BY RingAssumption DEF Init, Slots
  <2>2. Dist(wi) = 0
    BY <2>1, OccupancyWraps DEF Dist
  <2> QED BY <2>1, <2>2 DEF Paid
<1>2. RingInv /\ (OneWriter => Paid) /\ [Next]_vars => (OneWriter => Paid)'
  <2>1. [Next]_vars /\ OneWriter' => OneWriter
    BY KindStays DEF OneWriter
  <2> QED BY <2>1, PaidStep DEF RingInv
<1>3. (OneWriter => Paid) <=> EveryTurnIsPaid
  BY DEF Paid, EveryTurnIsPaid, Dist
<1> QED BY <1>1, <1>2, <1>3, RingInvariant, PTL DEF Spec
-------------------------------------------------------------------------------
(* The time of the first sample that get() returns, for rings of every kind *)
(* and either order of stores.                                              *)

(* Samples are stored one slot after the other: seen from wi_ backwards, a  *)
(* slot holds the sample of that age, unless one was dropped since.         *)
Age(i)    == Occupancy(wi, i)
Spared(a) == a > 0 /\ \A d \in dropped : d < a
Handed    == IF ppc = "late" THEN fed + 1 ELSE fed

SlotsInStep ==
  /\ ppc = "publish" => buf[wi] = fed + 1
  /\ ppc = "late" => wi = Succ(preg)
  /\ \A i \in Slots : (i # wi /\ (ppc = "late" => i # preg) /\ Spared(buf[i]))
                        => buf[i] + Age(i) = Handed + 1

(* At rest, the stamp is the time of the newest sample.                     *)
ClockRight == ppc = "idle" => time = fed \/ (time = -1 /\ fed = 0)

(* As long as nothing was dropped, nobody but get() has moved ri_, and what *)
(* get() finds has been written.                                            *)
NothingUnwritten ==
  dropped = {} =>
    /\ cpc \in {"copy", "take_load", "take_store", "skip_load", "skip_store"} => ri # wi
    /\ cpc \in {"take_store", "skip_store"} => creg = ri
    /\ ppc \in {"write", "publish"} => Succ(wi) # ri
    /\ \A i \in Slots : Live(i) /\ (ppc = "late" => i # preg) => buf[i] > 0

(* How far the call of get() has come with t0.                              *)
T0Progress ==
  /\ cpc \in {"skip", "skip_load", "skip_store", "loadtime", "compare", "subtract",
              "subtract_wrapped"} => v = <<>>
  /\ cpc \in {"take_load", "take_store"} => v # <<>>
  /\ quiet =>
       /\ ppc = "idle"
       /\ cpc \in {"compare", "subtract", "subtract_wrapped"} => t0 = time
       /\ cpc = "subtract" => wi >= ri
       /\ cpc = "subtract_wrapped" => wi <= ri
       /\ cpc = "copy" => ri # wi
       /\ cpc \in {"drain", "copy"} /\ v = <<>> => wi = ri \/ t0 = time - Occupancy(wi, ri)
       /\ v # <<>> => (v[1] = 0 => dropped # {}) /\ (Spared(v[1]) => t0 = v[1] - 1)

T0Inv == TypeInv /\ SlotsInStep /\ ClockRight /\ NothingUnwritten /\ T0Progress

(* A slot grows older by one when wi_ moves on.                             *)
LEMMA Aging ==
  ASSUME NEW w \in Slots
  PROVE  /\ Occupancy(Succ(w), w) = 1 /\ Succ(w) # w
         /\ \A i \in Slots : i # w => Occupancy(w, i) \in Nat /\ Occupancy(w, i) >= 1
         /\ \A i \in Slots : i # w /\ i # Succ(w)
                             => Occupancy(Succ(w), i) = Occupancy(w, i) + 1
<1>1. Succ(w) \in Slots /\ Succ(w) = IF w = N - 1 THEN 0 ELSE w + 1
  BY SuccWraps
<1>2. \A i \in Slots : /\ Occupancy(w, i) = IF w >= i THEN w - i ELSE w + N - i
                       /\ Occupancy(Succ(w), i)
                            = IF Succ(w) >= i THEN Succ(w) - i ELSE Succ(w) + N - i
  BY <1>1, OccupancyWraps
<1>3. N \in Nat /\ N >= 2 /\ w \in 0 .. N - 1
  BY RingAssumption DEF Slots
<1>4. ASSUME NEW i \in Slots
      PROVE  /\ i # w => Occupancy(w, i) \in Nat /\ Occupancy(w, i) >= 1
             /\ i # w /\ i # Succ(w) => Occupancy(Succ(w), i) = Occupancy(w, i) + 1
  <2>1. i \in 0 .. N - 1
    BY DEF Slots
  <2> QED BY <1>1, <1>2, <1>3, <2>1
<1> QED BY <1>1, <1>2, <1>3, <1>4

LEMMA T0Init == Init => T0Inv
<1> SUFFICES ASSUME Init PROVE T0Inv
  OBVIOUS
<1>1. SlotsInStep
  BY DEF Init, SlotsInStep, Spared
<1>2. ClockRight
  BY DEF Init, ClockRight
<1>3. \A i \in Slots : ~Live(i)
  <2>1. 0 \in Slots /\ ri = 0 /\ wi = 0
    BY RingAssumption DEF Slots, Init
  <2>2. \A i \in Slots : Dist(i) = i
    BY <2>1, OccupancyWraps DEF Dist, Slots
  <2> QED BY <2>1, <2>2 DEF Live, Slots
<1>4. NothingUnwritten
  BY <1>3 DEF Init, NothingUnwritten
<1>5. T0Progress
  BY DEF Init, T0Progress
<1> QED BY TypeInit, <1>1, <1>2, <1>4, <1>5 DEF T0Inv

LEMMA SlotsStep ==
  ASSUME T0Inv, Store \/ \E c \in 1 .. MaxChunk : Arrive(c)
  PROVE  SlotsInStep'
<1> USE DEF shared, consumer
<1>t. /\ wi \in Slots /\ preg \in Slots /\ buf \in [Slots -> Nat] /\ fed \in Nat
      /\ dropped \subseteq Nat /\ Succ(wi) \in Slots /\ Succ(preg) \in Slots
  BY SuccWraps DEF T0Inv, TypeInv, TypeOK
<1>s. SlotsInStep
  BY DEF T0Inv
(* Steps that store neither a sample nor wi_.                               *)
<1>1. ASSUME UNCHANGED <<buf, wi, fed>>, dropped \subseteq dropped',
             ppc \notin {"publish", "late"}, ppc' \notin {"publish", "late"}
      PROVE  SlotsInStep'
  <2>1. \A i \in Slots : Spared(buf[i])' => Spared(buf[i])
    BY <1>1 DEF Spared
  <2> QED BY <1>1, <1>s, <2>1 DEF SlotsInStep, Age, Handed
<1>2. ASSUME \/ \E c \in 1 .. MaxChunk : Arrive(c)
             \/ CheckRoom \/ EvictLoad \/ EvictStore \/ StampChunk
      PROVE  SlotsInStep'
  <2>1. /\ UNCHANGED <<buf, wi, fed>> /\ dropped \subseteq dropped'
        /\ ppc \notin {"publish", "late"} /\ ppc' \notin {"publish", "late"}
    BY <1>2 DEF Arrive, CheckRoom, EvictLoad, EvictStore, StampChunk
  <2> QED BY <1>1, <2>1
<1>3. CASE DropNewest
  <2> DEFINE lost == IF source = "card" THEN pending ELSE 1
  <2>1. /\ UNCHANGED <<buf, wi>> /\ fed' = fed + lost
        /\ dropped' = dropped \cup (fed + 1 .. fed + lost)
        /\ ppc = "check" /\ ppc' \in {"stamp", "check"}
    BY <1>3 DEF DropNewest, NextSample
  <2>2. lost \in Nat /\ lost >= 1
    BY <2>1 DEF T0Inv, TypeInv, TypeOK, Storing
  <2> HIDE DEF lost
  <2>3. fed + 1 \in dropped'
    BY <1>t, <2>1, <2>2
  <2>4. ASSUME NEW i \in Slots, i # wi, Spared(buf[i])' PROVE FALSE
    <3>1. Spared(buf[i]) /\ fed + 1 < buf[i]
      BY <2>1, <2>3, <2>4 DEF Spared
    <3>2. buf[i] + Age(i) = fed + 1
      BY <1>s, <2>1, <2>4, <3>1 DEF SlotsInStep, Handed
    <3>3. Age(i) \in Nat /\ buf[i] \in Nat
      BY <1>t, <2>4, Aging DEF Age
    <3> QED BY <1>t, <3>1, <3>2, <3>3
  <2> QED BY <2>1, <2>4 DEF SlotsInStep
<1>4. CASE WriteSlot
  <2>1. /\ UNCHANGED <<wi, fed, dropped>> /\ buf' = [buf EXCEPT ![wi] = fed + 1]
        /\ ppc = "write" /\ ppc' = "publish"
    BY <1>4 DEF WriteSlot
  <2>2. buf'[wi] = fed + 1 /\ \A i \in Slots : i # wi => buf'[i] = buf[i]
    BY <1>t, <2>1
  <2> QED BY <1>s, <2>1, <2>2 DEF SlotsInStep, Age, Handed, Spared
<1>5. CASE Publish
  <2>1. /\ UNCHANGED <<buf, dropped>> /\ fed' = fed + 1 /\ wi' = Succ(wi)
        /\ ppc = "publish" /\ ppc' \in {"stamp", "check"}
    BY <1>5 DEF Publish, NextSample
  <2>2. ASSUME NEW i \in Slots, i # wi', Spared(buf[i])
        PROVE  buf[i] + Occupancy(wi', i) = fed + 2
    <3>1. CASE i = wi
      BY <1>s, <1>t, <2>1, <3>1, Aging DEF SlotsInStep
    <3>2. CASE i # wi
      <4>1. buf[i] + Occupancy(wi, i) = fed + 1
        BY <1>s, <2>1, <2>2, <3>2 DEF SlotsInStep, Handed, Age
      <4>2. Occupancy(wi', i) = Occupancy(wi, i) + 1 /\ Occupancy(wi, i) \in Nat /\ buf[i] \in Nat
        BY <1>t, <2>1, <2>2, <3>2, Aging
      <4> QED BY <1>t, <4>1, <4>2
    <3> QED BY <3>1, <3>2
  <2>3. Handed' + 1 = fed + 2
    BY <1>t, <2>1 DEF Handed
  <2> QED BY <2>1, <2>2, <2>3 DEF SlotsInStep, Age, Spared
<1>6. CASE PublishEarly
  <2>1. /\ UNCHANGED <<buf, fed, dropped>> /\ wi' = Succ(wi) /\ preg' = wi
        /\ ppc = "write" /\ ppc' = "late"
    BY <1>6 DEF PublishEarly
  <2>2. ASSUME NEW i \in Slots, i # wi', i # wi, Spared(buf[i])
        PROVE  buf[i] + Occupancy(wi', i) = fed + 2
    <3>1. buf[i] + Occupancy(wi, i) = fed + 1
      BY <1>s, <2>1, <2>2 DEF SlotsInStep, Handed, Age
    <3>2. Occupancy(wi', i) = Occupancy(wi, i) + 1 /\ Occupancy(wi, i) \in Nat /\ buf[i] \in Nat
      BY <1>t, <2>1, <2>2, Aging
    <3> QED BY <1>t, <3>1, <3>2
  <2>3. Handed' + 1 = fed + 2
    BY <1>t, <2>1 DEF Handed
  <2>4. wi' = Succ(preg')
    BY <2>1
  <2> QED BY <2>1, <2>2, <2>3, <2>4 DEF SlotsInStep, Age, Spared
<1>7. CASE WriteLate
  <2>1. /\ UNCHANGED <<wi, dropped, preg>> /\ fed' = fed + 1
        /\ buf' = [buf EXCEPT ![preg] = fed + 1]
        /\ ppc = "late" /\ ppc' \in {"stamp", "check"}
    BY <1>7 DEF WriteLate, NextSample
  <2>2. buf'[preg] = fed + 1 /\ \A i \in Slots : i # preg => buf'[i] = buf[i]
    BY <1>t, <2>1
  <2>3. Handed' + 1 = fed + 2 /\ Handed + 1 = fed + 2
    BY <1>t, <2>1 DEF Handed
  <2>4. Age(preg) = 1
    BY <1>s, <1>t, <2>1, Aging DEF SlotsInStep, Age
  <2>5. ASSUME NEW i \in Slots, i # wi, Spared(buf[i])' PROVE buf'[i] + Age(i) = fed + 2
    <3>1. CASE i = preg
      BY <1>t, <2>2, <2>4, <3>1
    <3>2. CASE i # preg
      <4>1. Spared(buf[i])
        BY <2>1, <2>2, <2>5, <3>2 DEF Spared
      <4> QED BY <1>s, <2>1, <2>2, <2>3, <2>5, <3>2, <4>1 DEF SlotsInStep
    <3> QED BY <3>1, <3>2
  <2>6. \A i \in Slots : Age(i)' = Age(i)
    BY <2>1 DEF Age
  <2> QED BY <2>1, <2>3, <2>5, <2>6 DEF SlotsInStep
<1> QED BY <1>2, <1>3, <1>4, <1>5, <1>6, <1>7 DEF Store

(* Nobody drops a sample.                                                   *)
LEMMA WrittenProducerStep ==
  ASSUME T0Inv, Store \/ \E c \in 1 .. MaxChunk : Arrive(c)
  PROVE  NothingUnwritten'
<1> USE DEF shared, consumer
<1>t. /\ wi \in Slots /\ ri \in Slots /\ preg \in Slots /\ buf \in [Slots -> Nat]
      /\ fed \in Nat /\ NothingUnwritten
  BY DEF T0Inv, TypeInv, TypeOK
<1>1. ASSUME \/ \E c \in 1 .. MaxChunk : Arrive(c)
             \/ CheckRoom \/ EvictLoad \/ StampChunk
      PROVE  NothingUnwritten'
  <2>1. /\ UNCHANGED <<buf, wi, ri, dropped, cpc, creg>>
        /\ ppc # "late" /\ ppc' \notin {"publish", "late"}
        /\ ppc' = "write" => Succ(wi) # ri
    BY <1>1 DEF Arrive, CheckRoom, EvictLoad, StampChunk, Full
  <2>2. \A i \in Slots : Live(i)' = Live(i)
    BY <2>1 DEF Live, Dist
  <2> QED BY <1>t, <2>1, <2>2 DEF NothingUnwritten
<1>2. CASE DropNewest
  <2> DEFINE lost == IF source = "card" THEN pending ELSE 1
  <2>1. dropped' = dropped \cup (fed + 1 .. fed + lost) /\ ppc = "check"
    BY <1>2 DEF DropNewest
  <2>2. lost \in Nat /\ lost >= 1
    BY <2>1 DEF T0Inv, TypeInv, TypeOK, Storing
  <2> HIDE DEF lost
  <2>3. fed + 1 \in dropped'
    BY <1>t, <2>1, <2>2
  <2> QED BY <2>3 DEF NothingUnwritten
<1>3. CASE EvictStore
  BY <1>3 DEF EvictStore, NothingUnwritten
<1>4. CASE WriteSlot
  <2>1. /\ UNCHANGED <<wi, ri, dropped, cpc, creg>> /\ buf' = [buf EXCEPT ![wi] = fed + 1]
        /\ ppc = "write" /\ ppc' = "publish"
    BY <1>4 DEF WriteSlot
  <2>2. buf'[wi] > 0 /\ \A i \in Slots : i # wi => buf'[i] = buf[i]
    BY <1>t, <2>1
  <2>3. \A i \in Slots : Live(i)' = Live(i)
    BY <2>1 DEF Live, Dist
  <2> QED BY <1>t, <2>1, <2>2, <2>3 DEF NothingUnwritten
<1>5. CASE Publish \/ PublishEarly
  <2>1. /\ UNCHANGED <<buf, ri, dropped, cpc, creg>> /\ wi' = Succ(wi)
        /\ \/ ppc = "publish" /\ ppc' \in {"stamp", "check"}
           \/ ppc = "write" /\ ppc' = "late" /\ preg' = wi
    BY <1>5 DEF Publish, PublishEarly, NextSample
  <2> SUFFICES ASSUME dropped = {} PROVE NothingUnwritten'
    BY <2>1 DEF NothingUnwritten
  <2>2. Succ(wi) # ri
    BY <1>t, <2>1 DEF NothingUnwritten
  <2>3. \A i \in Slots : Live(i)' => Live(i) \/ i = wi
    BY <1>t, <2>1, <2>2, PublishMovesOn DEF Live
  <2>4. ppc = "publish" => buf[wi] > 0
    BY <1>t DEF T0Inv, SlotsInStep
  <2> QED BY <1>t, <2>1, <2>2, <2>3, <2>4 DEF NothingUnwritten
<1>6. CASE WriteLate
  <2>1. /\ UNCHANGED <<wi, ri, dropped, cpc, creg>> /\ buf' = [buf EXCEPT ![preg] = fed + 1]
        /\ ppc = "late" /\ ppc' \in {"stamp", "check"}
    BY <1>6 DEF WriteLate, NextSample
  <2>2. buf'[preg] > 0 /\ \A i \in Slots : i # preg => buf'[i] = buf[i]
    BY <1>t, <2>1
  <2>3. \A i \in Slots : Live(i)' = Live(i)
    BY <2>1 DEF Live, Dist
  <2> QED BY <1>t, <2>1, <2>2, <2>3 DEF NothingUnwritten
<1> QED BY <1>1, <1>2, <1>3, <1>4, <1>5, <1>6 DEF Store

LEMMA WrittenConsumerStep ==
  ASSUME T0Inv, Get \/ \E r \in Requests : Call(r)
  PROVE  NothingUnwritten'
<1> USE DEF shared, producer
<1>t. /\ wi \in Slots /\ ri \in Slots /\ req \in Nat \X BOOLEAN /\ NothingUnwritten
  BY DEF T0Inv, TypeInv, TypeOK
<1>1. ASSUME \/ LoadTime \/ CompareIndices \/ SubtractOccupancy \/ DrainTest \/ CopySlot
             \/ TakeLoad \/ SkipLoad \/ SkipTest \/ \E r \in Requests : Call(r)
      PROVE  NothingUnwritten'
  <2>1. /\ UNCHANGED <<buf, wi, ri, dropped, ppc, preg>>
        /\ cpc' \in {"take_load", "take_store", "skip_store"}
             => cpc \in {"copy", "take_load", "skip_load"}
        /\ cpc' \in {"take_store", "skip_store"} => creg' = ri
        /\ cpc' = "copy" => ri # wi
        /\ cpc' = "skip_load" => Occupancy(wi, ri) > req[1]
    BY <1>1 DEF LoadTime, CompareIndices, SubtractOccupancy, DrainTest, CopySlot, TakeLoad,
                SkipLoad, SkipTest, Call, Count
  <2>2. cpc' = "skip_load" => ri # wi
    BY <1>t, <2>1, OccupancyWraps DEF Slots
  <2>3. \A i \in Slots : Live(i)' = Live(i)
    BY <2>1 DEF Live, Dist
  <2> QED BY <1>t, <2>1, <2>2, <2>3 DEF NothingUnwritten
<1>2. CASE SkipStore \/ TakeStore
  <2> SUFFICES ASSUME dropped = {} PROVE NothingUnwritten'
    BY <1>2 DEF SkipStore, TakeStore, NothingUnwritten
  <2>1. /\ UNCHANGED <<buf, wi, dropped, ppc, preg>>
        /\ ri' = Succ(ri) /\ ri # wi /\ cpc' \in {"skip", "drain"}
    BY <1>t, <1>2 DEF SkipStore, TakeStore, MovePast, NothingUnwritten
  <2>2. Succ(wi) # ri' /\ \A i \in Slots : Live(i)' => Live(i)
    <3>1. /\ \A i \in Slots : Dist(i) \in Nat /\ Dist(i) < N
          /\ \A i \in Slots : Dist(i)' = IF i = ri THEN N - 1 ELSE Dist(i) - 1
          /\ Dist(wi)' = Dist(wi) - 1
          /\ Succ(wi) # ri'
      BY <1>t, <2>1, TakeComesNearer
    <3> QED BY <1>t, <3>1, RingAssumption DEF Live
  <2> QED BY <1>t, <2>1, <2>2 DEF NothingUnwritten
<1> QED BY <1>1, <1>2 DEF Get

LEMMA ProgressStep ==
  ASSUME T0Inv, Get \/ \E r \in Requests : Call(r)
  PROVE  T0Progress'
<1> USE DEF shared, producer
<1>t. /\ wi \in Slots /\ ri \in Slots /\ buf \in [Slots -> Nat] /\ fed \in Nat
      /\ v \in Seq(Nat) /\ t0 \in Int /\ time \in Int /\ N \in Nat
      /\ T0Progress
  BY RingAssumption DEF T0Inv, TypeInv, TypeOK
<1>1. ASSUME NEW r \in Requests, Call(r) PROVE T0Progress'
  <2>1. /\ UNCHANGED <<quiet, ppc>> /\ v' = <<>>
        /\ cpc' \in {"idle", "skip", "loadtime"}
    BY <1>1 DEF Call
  <2> QED BY <1>t, <2>1 DEF T0Progress
<1>2. CASE SkipTest \/ SkipLoad \/ SkipStore
  <2>1. /\ UNCHANGED <<quiet, ppc, v>> /\ v = <<>>
        /\ cpc' \in {"skip", "skip_load", "skip_store", "loadtime"}
    BY <1>t, <1>2 DEF SkipTest, SkipLoad, SkipStore, T0Progress
  <2> QED BY <1>t, <2>1 DEF T0Progress
<1>3. CASE LoadTime
  <2>1. /\ UNCHANGED <<ppc, v, time>> /\ v = <<>> /\ t0' = time
        /\ cpc' = "compare" /\ quiet' = (ppc = "idle")
    BY <1>t, <1>3 DEF LoadTime, T0Progress
  <2> QED BY <2>1 DEF T0Progress
<1>4. CASE CompareIndices
  <2>1. /\ UNCHANGED <<quiet, ppc, v, time, t0, wi, ri>> /\ v = <<>> /\ cpc = "compare"
        /\ cpc' \in {"subtract", "subtract_wrapped"}
        /\ cpc' = "subtract" => wi > ri \/ wi = ri
        /\ cpc' = "subtract_wrapped" => ~(wi > ri)
    BY <1>t, <1>4 DEF CompareIndices, T0Progress
  <2>2. /\ cpc' = "subtract" => wi >= ri
        /\ cpc' = "subtract_wrapped" => wi <= ri
    BY <1>t, <2>1 DEF Slots
  <2> QED BY <1>t, <2>1, <2>2 DEF T0Progress
<1>5. CASE SubtractOccupancy
  <2>0. v = <<>>
    BY <1>t, <1>5 DEF SubtractOccupancy, T0Progress
  <2>1. /\ UNCHANGED <<quiet, ppc, v, time, wi, ri>> /\ v = <<>> /\ cpc' = "drain"
        /\ \/ cpc = "subtract" /\ t0' = t0 - (wi - ri)
           \/ cpc = "subtract_wrapped" /\ t0' = t0 - (wi + N - ri)
    BY <1>5, <2>0 DEF SubtractOccupancy
  <2>2. quiet => wi = ri \/ t0' = time - Occupancy(wi, ri)
    <3>1. Occupancy(wi, ri) = IF wi >= ri THEN wi - ri ELSE wi + N - ri
      BY <1>t, OccupancyWraps
    <3>2. quiet => /\ t0 = time
                   /\ cpc = "subtract" => wi >= ri
                   /\ cpc = "subtract_wrapped" => wi <= ri
      BY <1>t, <2>1 DEF T0Progress
    <3> QED BY <1>t, <2>1, <3>1, <3>2 DEF Slots
  <2> QED BY <1>t, <2>1, <2>2 DEF T0Progress
<1>6. CASE DrainTest
  <2>1. /\ UNCHANGED <<quiet, ppc, v, time, t0, wi, ri, dropped>> /\ cpc = "drain"
        /\ (cpc' = "copy" /\ ri # wi) \/ cpc' = "idle"
    BY <1>6 DEF DrainTest
  <2> QED BY <1>t, <2>1 DEF T0Progress, Spared
<1>7. CASE TakeLoad \/ TakeStore
  <2>1. /\ UNCHANGED <<quiet, ppc, v, time, t0, dropped>> /\ v # <<>>
        /\ cpc' \in {"take_store", "drain"}
    BY <1>t, <1>7 DEF TakeLoad, TakeStore, T0Progress
  <2> QED BY <1>t, <2>1 DEF T0Progress, Spared
(* The first sample is copied: its age tells how old it is.                 *)
<1>8. CASE CopySlot
  <2>1. /\ UNCHANGED <<quiet, ppc, time, t0, wi, ri, dropped>>
        /\ cpc = "copy" /\ cpc' = "take_load" /\ v' = Append(v, buf[ri])
    BY <1>8 DEF CopySlot
  <2>2. v' # <<>> /\ v'[1] = IF v = <<>> THEN buf[ri] ELSE v[1]
    BY <1>t, <2>1
  <2>3. ASSUME quiet, v = <<>>, buf[ri] = 0 PROVE dropped # {}
    <3>1. ri # wi /\ ppc = "idle"
      BY <1>t, <2>1, <2>3 DEF T0Progress
    <3>2. Live(ri)
      BY <1>t, <3>1, OldestIsLive
    <3> QED BY <1>t, <2>3, <3>1, <3>2 DEF T0Inv, NothingUnwritten
  <2>4. ASSUME quiet, v = <<>>, Spared(buf[ri]) PROVE t0 = buf[ri] - 1
    <3>1. ri # wi /\ ppc = "idle" /\ t0 = time - Occupancy(wi, ri)
      BY <1>t, <2>1, <2>4 DEF T0Progress
    <3>2. buf[ri] + Occupancy(wi, ri) = fed + 1
      BY <1>t, <2>4, <3>1 DEF T0Inv, SlotsInStep, Age, Handed
    <3>3. Occupancy(wi, ri) \in Nat /\ Occupancy(wi, ri) >= 1 /\ buf[ri] > 0 /\ buf[ri] \in Nat
      BY <1>t, <2>4, <3>1, Aging DEF Spared
    <3>4. time = fed
      BY <1>t, <3>1, <3>2, <3>3 DEF T0Inv, ClockRight
    <3> QED BY <1>t, <3>1, <3>2, <3>3, <3>4
  <2>5. quiet => (v'[1] = 0 => dropped # {}) /\ (Spared(v'[1]) => t0 = v'[1] - 1)
    BY <1>t, <2>2, <2>3, <2>4 DEF T0Progress
  <2>6. quiet => ppc = "idle"
    BY <1>t DEF T0Progress
  <2> QED BY <2>1, <2>2, <2>5, <2>6 DEF T0Progress, Spared
<1> QED BY <1>1, <1>2, <1>3, <1>4, <1>5, <1>6, <1>7, <1>8 DEF Get

LEMMA T0Step == T0Inv /\ [Next]_vars => T0Inv'
<1> SUFFICES ASSUME T0Inv, [Next]_vars PROVE T0Inv'
  OBVIOUS
<1>1. ASSUME Store \/ \E c \in 1 .. MaxChunk : Arrive(c) PROVE T0Inv'
  <2>1. quiet' = FALSE /\ UNCHANGED <<cpc, v>>
    BY <1>1 DEF consumer, Store, Arrive, CheckRoom, DropNewest, EvictLoad, EvictStore,
                WriteSlot, Publish, PublishEarly, WriteLate, StampChunk
  <2>2. T0Progress'
    BY <2>1 DEF T0Inv, T0Progress
  <2>3. ppc' = "idle" => time' = fed'
    BY <1>1 DEF Store, Arrive, CheckRoom, DropNewest, EvictLoad, EvictStore,
                WriteSlot, Publish, PublishEarly, WriteLate, StampChunk, NextSample
  <2>4. TypeInv' /\ SlotsInStep' /\ NothingUnwritten'
    BY <1>1, ProducerTypes, SlotsStep, WrittenProducerStep DEF T0Inv
  <2> QED BY <2>2, <2>3, <2>4 DEF T0Inv, ClockRight
<1>2. ASSUME Get \/ \E r \in Requests : Call(r) PROVE T0Inv'
  <2>1. UNCHANGED <<buf, wi, time, ppc, preg, fed, dropped>>
    BY <1>2 DEF Get, Call, SkipTest, SkipLoad, SkipStore, LoadTime, CompareIndices,
         SubtractOccupancy, DrainTest, CopySlot, TakeLoad, TakeStore, shared, producer
  <2>2. ClockRight'
    BY <2>1 DEF T0Inv, ClockRight
  <2>3. SlotsInStep'
    BY <2>1 DEF T0Inv, SlotsInStep, Age, Handed, Spared
  <2> QED BY <1>2, <2>2, <2>3, ConsumerTypes, WrittenConsumerStep, ProgressStep DEF T0Inv
<1>3. CASE UNCHANGED vars
  <2>1. /\ UNCHANGED <<source, order, buf, wi, ri, time, ppc, preg, pending, fed, dropped>>
        /\ UNCHANGED <<cpc, creg, req, v, t0, passed, history, quiet>>
    BY <1>3 DEF vars, kind, shared, producer, consumer
  <2>2. TypeInv'
    BY <2>1 DEF T0Inv, TypeInv, TypeOK, Storing, history
  <2>3. SlotsInStep' /\ ClockRight'
    BY <2>1 DEF T0Inv, SlotsInStep, ClockRight, Age, Handed, Spared
  <2>4. NothingUnwritten'
    BY <2>1 DEF T0Inv, NothingUnwritten, Live, Dist
  <2>5. T0Progress'
    BY <2>1 DEF T0Inv, T0Progress, Spared
  <2> QED BY <2>2, <2>3, <2>4, <2>5 DEF T0Inv
<1> QED BY <1>1, <1>2, <1>3 DEF Next

(* For every kind of source, also NetworkSoundIn with its two writers of    *)
(* ri_, and in either order of stores: if the receiving thread is at rest   *)
(* while get() works out t0 from time_, wi_ and ri_, and no sample after    *)
(* the first one returned was given up, t0 is the time of that sample.      *)
THEOREM T0Exact == Spec => []T0ExactWhenQuiet
<1>1. T0Inv => T0ExactWhenQuiet
  <2> SUFFICES ASSUME T0Inv, Returned, quiet, \A d \in dropped : d < v[1]
               PROVE  t0 = v[1] - 1
    BY DEF T0ExactWhenQuiet
  <2>1. v # <<>> /\ v \in Seq(Nat) /\ dropped \subseteq Nat
    BY DEF Returned, T0Inv, TypeInv, TypeOK
  <2>2. v[1] \in Nat
    BY <2>1
  <2>3. v[1] # 0
    <3>1. v[1] = 0 => dropped # {}
      BY <2>1 DEF T0Inv, T0Progress
    <3>2. ASSUME NEW d \in dropped, v[1] = 0 PROVE FALSE
      <4>1. d \in Nat /\ d < v[1]
        BY <2>1
      <4> QED BY <3>2, <4>1
    <3> QED BY <3>1, <3>2
  <2>4. Spared(v[1])
    BY <2>2, <2>3 DEF Spared
  <2> QED BY <2>1, <2>4 DEF T0Inv, T0Progress
<1> QED BY T0Init, T0Step, <1>1, PTL DEF Spec
-------------------------------------------------------------------------------
(* How far t0 can be off when the receiving thread runs on meanwhile.       *)

(* The error that the branch taken makes, and the time t0 stands for.       *)
Misread == IF ~slip.misread THEN {0} ELSE {N, -N}
Means(t) == \E e \in Misread : t0 + slip.since = t + e

(* From the subtraction until the first sample is copied, t0 means the time *)
(* of the sample that will be copied first: the oldest one, or the next one *)
(* to arrive.                                                               *)
T0Means ==
  /\ cpc \in {"drain", "copy"} /\ v = <<>> =>
       IF wi = ri THEN Means(fed) ELSE Spared(buf[ri]) => Means(buf[ri] - 1)
  /\ v # <<>> => v[1] > 0 /\ (Spared(v[1]) => Means(v[1] - 1))

LEMMA MeansProducer ==
  ASSUME OneWriter, T0Inv, LoneInv, T0Means,
         Store \/ \E c \in 1 .. MaxChunk : Arrive(c)
  PROVE  T0Means'
<1> USE DEF shared, consumer, history
<1>t. /\ wi \in Slots /\ ri \in Slots /\ buf \in [Slots -> Nat] /\ fed \in Nat
      /\ v \in Seq(Nat)
  BY DEF LoneInv, TypeInv, TypeOK
<1>1. /\ UNCHANGED <<cpc, v, t0, slip>>
      /\ dropped \subseteq dropped'
  BY DEF Store, Arrive, CheckRoom, DropNewest, EvictLoad, EvictStore,
         WriteSlot, Publish, PublishEarly, WriteLate, StampChunk
<1>2. \A t : Means(t)' <=> Means(t)
  BY <1>1 DEF Means, Misread
<1>3. \A a : Spared(a)' => Spared(a)
  BY <1>1 DEF Spared
<1>4. ASSUME UNCHANGED <<wi, ri>>, wi = ri => fed' = fed, ri # wi => buf'[ri] = buf[ri]
      PROVE  T0Means'
  BY <1>1, <1>2, <1>3, <1>4 DEF T0Means
<1>5. ASSUME \/ \E c \in 1 .. MaxChunk : Arrive(c)
             \/ CheckRoom \/ StampChunk
      PROVE  UNCHANGED <<wi, ri, fed, buf>>
  BY <1>5 DEF Arrive, CheckRoom, StampChunk
<1>6. CASE DropNewest
  <2>1. UNCHANGED <<wi, ri, buf>> /\ Succ(wi) = ri
    BY <1>6 DEF DropNewest, Full
  <2>2. wi # ri
    BY <1>t, <2>1, Aging
  <2> QED BY <1>4, <2>1, <2>2
<1>7. CASE WriteSlot
  <2>1. UNCHANGED <<wi, ri, fed>> /\ buf' = [buf EXCEPT ![wi] = fed + 1]
    BY <1>7 DEF WriteSlot
  <2>2. ri # wi => buf'[ri] = buf[ri]
    BY <1>t, <2>1
  <2> QED BY <1>4, <2>1, <2>2
<1>8. CASE Publish
  <2>1. /\ UNCHANGED <<ri, buf>> /\ wi' = Succ(wi) /\ fed' = fed + 1
        /\ Succ(wi) # ri /\ buf[wi] = fed + 1
    BY <1>8 DEF Publish, NextSample, LoneInv, TestsHold
  <2>2. wi = ri => buf[ri] - 1 = fed
    BY <1>t, <2>1
  <2> QED BY <1>1, <1>2, <1>3, <2>1, <2>2 DEF T0Means
<1>9. ~EvictLoad /\ ~EvictStore /\ ~PublishEarly /\ ~WriteLate
  BY DEF EvictLoad, EvictStore, PublishEarly, WriteLate, LoneInv, OneWriter
<1> QED BY <1>4, <1>5, <1>6, <1>7, <1>8, <1>9 DEF Store

LEMMA MeansConsumer ==
  ASSUME OneWriter, T0Inv, LoneInv, T0Means,
         Get \/ \E r \in Requests : Call(r)
  PROVE  T0Means'
<1> USE DEF shared, producer, history
<1>t. /\ wi \in Slots /\ ri \in Slots /\ buf \in [Slots -> Nat] /\ fed \in Nat
      /\ v \in Seq(Nat) /\ t0 \in Int /\ N \in Nat /\ ppc # "late"
  BY RingAssumption DEF LoneInv, TypeInv, TypeOK
<1>1. ASSUME UNCHANGED <<wi, ri, buf, fed, dropped, t0, slip, v>>,
             cpc' \in {"drain", "copy"} => cpc \in {"drain", "copy"} \/ v # <<>>
      PROVE  T0Means'
  <2>1. /\ \A t : Means(t)' <=> Means(t)
        /\ \A a : Spared(a)' <=> Spared(a)
    BY <1>1 DEF Means, Misread, Spared
  <2> QED BY <1>1, <2>1 DEF T0Means
<1>2. ASSUME NEW r \in Requests, Call(r) PROVE T0Means'
  BY <1>2 DEF Call, T0Means
<1>3. CASE SkipTest \/ SkipLoad \/ SkipStore \/ LoadTime \/ CompareIndices
  <2>1. v = <<>> /\ UNCHANGED v /\ cpc' \notin {"drain", "copy"}
    BY <1>3 DEF SkipTest, SkipLoad, SkipStore, LoadTime, CompareIndices, T0Inv, T0Progress
  <2> QED BY <2>1 DEF T0Means
<1>4. CASE DrainTest \/ TakeLoad
  <2>1. /\ UNCHANGED <<wi, ri, buf, fed, dropped, t0, slip, v>>
        /\ cpc' \in {"drain", "copy"} => cpc \in {"drain", "copy"}
    BY <1>4 DEF DrainTest, TakeLoad
  <2> QED BY <1>1, <2>1
<1>5. CASE TakeStore
  <2>1. UNCHANGED <<dropped, t0, slip, v>> /\ v # <<>>
    BY <1>5 DEF TakeStore, T0Inv, T0Progress
  <2>2. /\ \A t : Means(t)' <=> Means(t)
        /\ \A a : Spared(a)' <=> Spared(a)
    BY <2>1 DEF Means, Misread, Spared
  <2> QED BY <2>1, <2>2 DEF T0Means
<1>6. CASE CopySlot
  <2>1. /\ UNCHANGED <<dropped, t0, slip, wi, ri>> /\ v' = Append(v, buf[ri])
        /\ cpc = "copy" /\ cpc' = "take_load" /\ ri # wi
    BY <1>6 DEF CopySlot, LoneInv, TestsHold
  <2>2. /\ \A t : Means(t)' <=> Means(t)
        /\ \A a : Spared(a)' <=> Spared(a)
    BY <2>1 DEF Means, Misread, Spared
  <2>3. v' # <<>> /\ v'[1] = IF v = <<>> THEN buf[ri] ELSE v[1]
    BY <1>t, <2>1
  <2>4. buf[ri] > 0
    <3>1. passed \in Nat /\ Live(ri)
      BY <1>t, <2>1, OldestIsLive DEF LoneInv, TypeInv, TypeOK
    <3> QED BY <1>t, <3>1 DEF LoneInv, LiveInOrder
  <2> QED BY <2>1, <2>2, <2>3, <2>4 DEF T0Means
(* The oldest sample is as old as the ring is long.                         *)
<1>7. CASE SubtractOccupancy
  <2> DEFINE taken == IF cpc = "subtract" THEN wi - ri ELSE wi + N - ri
             e == IF (cpc = "subtract") = (wi >= ri) THEN 0
                  ELSE IF cpc = "subtract" THEN N ELSE -N
  <2>1. /\ v = <<>> /\ UNCHANGED <<v, wi, ri, buf, fed, dropped>> /\ t0' = t0 - taken
        /\ slip'.since = fed - t0 /\ slip'.misread = ((cpc = "subtract") # (wi >= ri))
    BY <1>7 DEF SubtractOccupancy, NoteSlip, T0Inv, T0Progress
  <2>2. Occupancy(wi, ri) = IF wi >= ri THEN wi - ri ELSE wi + N - ri
    BY <1>t, OccupancyWraps
  <2>3. taken = Occupancy(wi, ri) - e /\ e \in Int /\ taken \in Int
    BY <1>t, <2>2 DEF Slots
  <2>4. e \in Misread'
    BY <2>1 DEF Misread
  <2>5. Occupancy(wi, ri) \in Nat
    BY <1>t, OccupancyWraps DEF Slots
  <2> HIDE DEF taken, e
  <2>6. t0' + slip'.since = fed - Occupancy(wi, ri) + e
    BY <1>t, <2>1, <2>3, <2>5
  <2>7. Means(fed - Occupancy(wi, ri))'
    BY <2>1, <2>4, <2>6 DEF Means, Occupancy
  <2>8. CASE wi = ri
    <3>1. fed - Occupancy(wi, ri) = fed
      BY <1>t, <2>2, <2>8 DEF Slots
    <3> QED BY <2>1, <2>7, <2>8, <3>1 DEF T0Means
  <2>9. CASE wi # ri
    <3>1. ASSUME Spared(buf[ri]) PROVE fed - Occupancy(wi, ri) = buf[ri] - 1
      <4>1. buf[ri] + Occupancy(wi, ri) = fed + 1
        BY <1>t, <2>9, <3>1 DEF T0Inv, SlotsInStep, Age, Handed
      <4> QED BY <1>t, <2>5, <4>1
    <3>2. Spared(buf[ri])' <=> Spared(buf[ri])
      BY <2>1 DEF Spared
    <3> QED BY <2>1, <2>7, <2>9, <3>1, <3>2 DEF T0Means
  <2> QED BY <2>8, <2>9
<1> QED BY <1>2, <1>3, <1>4, <1>5, <1>6, <1>7 DEF Get

(* A ring of any size with one writer of each index, under any interleaving *)
(* and any number of arrivals: t0 is early by the samples handled between   *)
(* the stamp and the subtraction, and off by the buffer if the branch taken *)
(* no longer fits the indices.                                              *)
THEOREM T0ErrorBounded == Spec => []T0Error
<1>1. Init => T0Means
  BY DEF Init, T0Means
<1>2. /\ T0Inv /\ RingInv /\ (OneWriter => T0Means) /\ [Next]_vars
      => (OneWriter => T0Means)'
  <2> SUFFICES ASSUME T0Inv, RingInv, OneWriter => T0Means, [Next]_vars, OneWriter'
               PROVE  T0Means'
    OBVIOUS
  <2>1. OneWriter
    BY KindStays DEF OneWriter
  <2>2. CASE UNCHANGED vars
    <3>1. UNCHANGED <<buf, wi, ri, fed, dropped, cpc, v, t0, slip>>
      BY <2>2 DEF vars, shared, producer, consumer, history
    <3>2. /\ \A t : Means(t)' <=> Means(t)
          /\ \A a : Spared(a)' <=> Spared(a)
      BY <3>1 DEF Means, Misread, Spared
    <3> QED BY <2>1, <3>1, <3>2 DEF T0Means
  <2> QED BY <2>1, <2>2, MeansProducer, MeansConsumer DEF Next, RingInv
<1>3. T0Inv /\ (OneWriter => T0Means) => T0Error
  <2> SUFFICES ASSUME T0Inv, OneWriter, T0Means, Returned, \A d \in dropped : d < v[1]
               PROVE  LET error == t0 - (v[1] - 1) IN
                        IF slip.misread THEN error + slip.since \in {N, -N}
                                        ELSE error = -slip.since
    BY DEF T0Error
  <2>1. /\ v # <<>> /\ v \in Seq(Nat) /\ dropped \subseteq Nat /\ t0 \in Int
        /\ slip.since \in Int /\ slip.misread \in BOOLEAN /\ v[1] \in Nat /\ N \in Nat
    BY RingAssumption DEF Returned, T0Inv, TypeInv, TypeOK
  <2>2. v[1] > 0
    BY <2>1 DEF T0Means
  <2>3. Means(v[1] - 1)
    BY <2>1, <2>2 DEF Spared, T0Means
  <2>4. PICK e \in Misread : t0 + slip.since = v[1] - 1 + e
    BY <2>3 DEF Means
  <2>5. e \in Int
    BY <2>1, <2>4 DEF Misread
  <2>6. t0 - (v[1] - 1) + slip.since = e /\ (e = 0 => t0 - (v[1] - 1) = -slip.since)
    BY <2>1, <2>4, <2>5
  <2> QED BY <2>4, <2>6 DEF Misread
<1> QED BY T0Init, T0Step, RingInvariant, <1>1, <1>2, <1>3, PTL DEF Spec
-------------------------------------------------------------------------------
(* The ring as a queue.                                                     *)

QueueNow == [k \in 1 .. Occupancy(wi, ri) |-> Queued(k)]
TakenNow == SubSeq(v, 1, Len(v) - Copied)

(* How far the call of get() has come with its samples.                     *)
GetProgress ==
  /\ req \in Requests /\ Len(v) <= Count
  /\ cpc \in {"skip", "skip_load", "skip_store"} => v = <<>> /\ Latest
  /\ cpc \in {"skip_load", "skip_store"} => Occupancy(wi, ri) > Count
  /\ cpc = "copy" => Len(v) < Count
  /\ cpc \in {"take_load", "take_store"} => v # <<>> /\ v[Len(v)] = buf[ri]

QueueInv == RingInv /\ (OneWriter => GetProgress)

(* Sequences that agree.                                                    *)
LEMMA Longer ==
  ASSUME NEW S, NEW q \in Seq(S), NEW r \in Seq(S), Len(r) = Len(q) + 1,
         \A k \in 1 .. Len(q) : r[k] = q[k]
  PROVE  r = Append(q, r[Len(r)])
OBVIOUS

LEMMA Shorter ==
  ASSUME NEW S, NEW q \in Seq(S), NEW r \in Seq(S), Len(q) = Len(r) + 1,
         \A k \in 1 .. Len(r) : r[k] = q[k + 1]
  PROVE  r = Tail(q) /\ q # <<>> /\ Head(q) = q[1]
OBVIOUS

LEMMA Front ==
  ASSUME NEW S, NEW s \in Seq(S)
  PROVE  /\ SubSeq(s, 1, Len(s) - 0) = s
         /\ s # <<>> => /\ Append(SubSeq(s, 1, Len(s) - 1), s[Len(s)]) = s
                       /\ Len(SubSeq(s, 1, Len(s) - 1)) = Len(s) - 1
         /\ \A x \in S : SubSeq(Append(s, x), 1, Len(Append(s, x)) - 1) = s
<1>1. PICK n \in Nat : n = Len(s)
  OBVIOUS
<1>2. ASSUME s # <<>>
      PROVE  SubSeq(s, 1, Len(s) - 1) \in Seq(S) /\ Len(SubSeq(s, 1, Len(s) - 1)) = Len(s) - 1
  BY <1>1, <1>2
<1>3. s # <<>> => Append(SubSeq(s, 1, Len(s) - 1), s[Len(s)]) = s
  OBVIOUS
<1>4. SubSeq(s, 1, Len(s) - 0) = s
  OBVIOUS
<1>5. ASSUME NEW x \in S PROVE SubSeq(Append(s, x), 1, Len(Append(s, x)) - 1) = s
  OBVIOUS
<1> QED BY <1>2, <1>3, <1>4, <1>5

(* The slot of the k-th sample.                                             *)
LEMMA SlotOf ==
  ASSUME NEW r \in Slots, NEW k \in 1 .. N
  PROVE  /\ (r + k - 1) % N = IF r + k - 1 < N THEN r + k - 1 ELSE r + k - 1 - N
         /\ (r + k - 1) % N \in Slots
<1> USE RingAssumption DEF Slots
<1>1. CASE r + k - 1 < N
  BY <1>1
<1>2. CASE r + k - 1 >= N
  <2>1. PICK x \in 0 .. N - 1 : r + k - 1 = N + x
    BY <1>2
  <2>2. (N + x) % N = x
    BY <2>1
  <2> QED BY <1>2, <2>1, <2>2
<1> QED BY <1>1, <1>2

LEMMA QueueTyped ==
  ASSUME wi \in Slots, ri \in Slots, buf \in [Slots -> Nat]
  PROVE  /\ Occupancy(wi, ri) \in 0 .. N - 1
         /\ QueueNow \in Seq(Nat) /\ Len(QueueNow) = Occupancy(wi, ri)
         /\ \A k \in 1 .. Occupancy(wi, ri) : QueueNow[k] = Queued(k)
<1>1. PICK n \in 0 .. N - 1 : n = Occupancy(wi, ri)
  BY OccupancyWraps DEF Slots
<1>2. \A k \in 1 .. n : Queued(k) \in Nat
  BY <1>1, SlotOf, RingAssumption DEF Queued
<1>3. QueueNow = [k \in 1 .. n |-> Queued(k)]
  BY <1>1 DEF QueueNow
<1>4. QueueNow \in Seq(Nat) /\ Len(QueueNow) = n
  BY <1>2, <1>3, RingAssumption
<1> QED BY <1>1, <1>3, <1>4

LEMMA GetProgressProducer ==
  ASSUME OneWriter, LoneInv, GetProgress, Store \/ \E c \in 1 .. MaxChunk : Arrive(c)
  PROVE  GetProgress'
<1>t. /\ wi \in Slots /\ ri \in Slots /\ buf \in [Slots -> Nat] /\ fed \in Nat
      /\ req \in Nat \X BOOLEAN
  BY DEF LoneInv, TypeInv, TypeOK
<1>1. ASSUME NEW o \in Nat, o = Occupancy(wi, ri), Occupancy(wi, ri)' \in {o, o + 1},
             UNCHANGED <<req, v, cpc>>,
             cpc \in {"take_load", "take_store"} => buf'[ri'] = buf[ri]
      PROVE  GetProgress'
  <2>1. PICK n \in Nat : n = req[1]
    BY <1>t
  <2>2. cpc \in {"skip_load", "skip_store"} => o > n
    BY <1>1, <2>1 DEF GetProgress, Count
  <2>3. cpc \in {"skip_load", "skip_store"} => Occupancy(wi, ri)' > n
    BY <1>1, <2>2
  <2> QED BY <1>1, <2>1, <2>3 DEF GetProgress, Count, Latest
<1>o. Occupancy(wi, ri) \in Nat
  BY <1>t, OccupancyWraps DEF Slots
<1>2. ASSUME \/ \E c \in 1 .. MaxChunk : Arrive(c)
             \/ CheckRoom \/ DropNewest \/ StampChunk
      PROVE  GetProgress'
  <2>1. UNCHANGED <<buf, wi, ri, req, v, cpc>>
    BY <1>2 DEF Arrive, CheckRoom, DropNewest, StampChunk, shared, consumer
  <2>2. Occupancy(wi, ri)' = Occupancy(wi, ri)
    BY <2>1
  <2> QED BY <1>1, <1>o, <2>1, <2>2
<1>3. CASE WriteSlot
  <2>1. UNCHANGED <<wi, ri, req, v, cpc>> /\ buf' = [buf EXCEPT ![wi] = fed + 1]
    BY <1>3 DEF WriteSlot, consumer
  <2>2. cpc \in {"take_load", "take_store"} => buf'[ri] = buf[ri]
    BY <1>t, <2>1 DEF LoneInv, TestsHold
  <2>3. Occupancy(wi, ri)' = Occupancy(wi, ri)
    BY <2>1
  <2> QED BY <1>1, <1>o, <2>1, <2>2, <2>3
<1>4. CASE Publish
  <2>1. UNCHANGED <<buf, ri, req, v, cpc>> /\ wi' = Succ(wi) /\ Succ(wi) # ri
    BY <1>4 DEF Publish, consumer, LoneInv, TestsHold
  <2>2. Occupancy(wi, ri)' = Occupancy(wi, ri) + 1
    BY <1>t, <2>1, PublishMovesOn DEF Dist
  <2> QED BY <1>1, <1>o, <2>1, <2>2
<1>5. ~EvictLoad /\ ~EvictStore /\ ~PublishEarly /\ ~WriteLate
  BY DEF EvictLoad, EvictStore, PublishEarly, WriteLate, LoneInv, OneWriter
<1> QED BY <1>2, <1>3, <1>4, <1>5 DEF Store

LEMMA GetProgressConsumer ==
  ASSUME LoneInv, GetProgress, Get \/ \E r \in Requests : Call(r)
  PROVE  GetProgress'
<1> USE DEF shared, producer
<1>t. /\ wi \in Slots /\ ri \in Slots /\ buf \in [Slots -> Nat] /\ v \in Seq(Nat)
      /\ req \in Nat \X BOOLEAN /\ req[1] \in Nat
  BY DEF LoneInv, TypeInv, TypeOK
<1>1. ASSUME NEW r \in Requests, Call(r) PROVE GetProgress'
  <2>1. /\ req' = r /\ v' = <<>> /\ cpc' \in {"idle", "skip", "loadtime"}
        /\ cpc' = "skip" => r[2] \/ cpc = "skip"
    BY <1>1 DEF Call
  <2>2. cpc = "idle" /\ r[1] \in Nat
    BY <1>1, RingAssumption DEF Call
  <2> QED BY <2>1, <2>2 DEF GetProgress, Count, Latest
<1>2. CASE SkipTest
  <2>1. /\ UNCHANGED <<wi, ri, req, v>> /\ cpc = "skip" /\ cpc' \in {"skip_load", "loadtime"}
        /\ (cpc' = "skip_load" => Occupancy(wi, ri) > req[1])
    BY <1>2 DEF SkipTest, Count
  <2> QED BY <2>1 DEF GetProgress, Count, Latest
<1>3. CASE SkipLoad \/ SkipStore
  <2>1. /\ UNCHANGED <<wi, req, v>> /\ cpc \in {"skip_load", "skip_store"}
        /\ cpc' = "skip" \/ (cpc' = "skip_store" /\ ri' = ri)
    BY <1>3 DEF SkipLoad, SkipStore
  <2> QED BY <2>1 DEF GetProgress, Count, Latest
<1>4. CASE LoadTime \/ CompareIndices \/ SubtractOccupancy \/ TakeStore
  <2>1. UNCHANGED <<req, v>> /\ cpc' \in {"compare", "subtract", "subtract_wrapped", "drain"}
    BY <1>4 DEF LoadTime, CompareIndices, SubtractOccupancy, TakeStore
  <2> QED BY <2>1 DEF GetProgress, Count
<1>5. CASE DrainTest
  <2>1. /\ UNCHANGED <<req, v>>
        /\ (cpc' = "copy" /\ Len(v) < Count) \/ cpc' = "idle"
    BY <1>5 DEF DrainTest
  <2> QED BY <2>1 DEF GetProgress, Count
<1>6. CASE CopySlot
  <2>1. UNCHANGED <<buf, ri, req>> /\ v' = Append(v, buf[ri]) /\ cpc = "copy" /\ cpc' = "take_load"
    BY <1>6 DEF CopySlot
  <2>2. Len(v') = Len(v) + 1 /\ v' # <<>> /\ v'[Len(v')] = buf[ri] /\ Len(v) \in Nat
    BY <1>t, <2>1
  <2>3. Len(v') <= req[1]
    BY <1>t, <2>1, <2>2 DEF GetProgress, Count
  <2> QED BY <2>1, <2>2, <2>3 DEF GetProgress, Count
<1>7. CASE TakeLoad
  <2>1. UNCHANGED <<buf, ri, req, v>> /\ cpc = "take_load" /\ cpc' = "take_store"
    BY <1>7 DEF TakeLoad
  <2> QED BY <2>1 DEF GetProgress, Count
<1> QED BY <1>1, <1>2, <1>3, <1>4, <1>5, <1>6, <1>7 DEF Get

(* The inductive invariant of the refinement below: how far get() has come  *)
(* with the samples it passes over and takes.                               *)
THEOREM QueueInvariant == Spec => []QueueInv
<1>1. Init => QueueInv
  <2> SUFFICES ASSUME Init PROVE QueueInv
    OBVIOUS
  <2>1. req[1] \in Nat
    BY RingAssumption DEF Init
  <2>2. GetProgress
    BY <2>1 DEF Init, GetProgress, Count
  <2> QED BY <2>2, TypeInit, LoneInit DEF QueueInv, RingInv
<1>2. QueueInv /\ RingInv' /\ [Next]_vars => QueueInv'
  <2> SUFFICES ASSUME QueueInv, RingInv', [Next]_vars, OneWriter' PROVE GetProgress'
    BY DEF QueueInv
  <2>1. OneWriter /\ LoneInv /\ GetProgress
    BY KindStays DEF OneWriter, QueueInv, RingInv
  <2>2. CASE UNCHANGED vars
    BY <2>1, <2>2 DEF vars, shared, consumer, GetProgress, Count, Latest
  <2> QED BY <2>1, <2>2, GetProgressProducer, GetProgressConsumer DEF Next
<1> QED BY <1>1, <1>2, RingInvariant, PTL DEF Spec
-------------------------------------------------------------------------------
(* The ring implements the queue, step by step.                             *)

(* Writing the free slot does not show.                                     *)
LEMMA QueueSame ==
  ASSUME wi \in Slots, ri \in Slots, buf \in [Slots -> Nat], UNCHANGED <<wi, ri>>,
         \A i \in Slots : i # wi => buf'[i] = buf[i]
  PROVE  QueueNow' = QueueNow
<1>1. PICK n \in 0 .. N - 1 : n = Occupancy(wi, ri)
  BY OccupancyWraps DEF Slots
<1>2. n = IF wi >= ri THEN wi - ri ELSE wi + N - ri
  BY <1>1, OccupancyWraps
<1>3. ASSUME NEW k \in 1 .. n PROVE Queued(k)' = Queued(k)
  <2>1. k \in 1 .. N
    BY RingAssumption
  <2>2. PICK i \in Slots : /\ i = (ri + k - 1) % N
                          /\ i = IF ri + k - 1 < N THEN ri + k - 1 ELSE ri + k - 1 - N
    BY <2>1, SlotOf
  <2>3. i # wi
    BY <1>2, <2>1, <2>2, RingAssumption DEF Slots
  <2> QED BY <2>2, <2>3 DEF Queued
<1> QED BY <1>1, <1>3 DEF QueueNow

LEMMA QueueGrows ==
  ASSUME wi \in Slots, ri \in Slots, buf \in [Slots -> Nat],
         wi' = Succ(wi), UNCHANGED <<ri, buf>>, Succ(wi) # ri
  PROVE  QueueNow' = Append(QueueNow, buf[wi]) /\ Len(QueueNow) < N - 1
<1>1. PICK n \in 0 .. N - 1 : n = Occupancy(wi, ri)
  BY OccupancyWraps DEF Slots
<1>2. /\ Occupancy(wi, ri)' = n + 1
      /\ wi' \in Slots /\ ri' \in Slots /\ buf' \in [Slots -> Nat]
  BY <1>1, PublishMovesOn, SuccWraps DEF Dist
<1>3. /\ QueueNow \in Seq(Nat) /\ Len(QueueNow) = n
      /\ \A k \in 1 .. n : QueueNow[k] = Queued(k)
  BY <1>1, QueueTyped
<1>4. /\ n + 1 \in 0 .. N - 1 /\ QueueNow' \in Seq(Nat) /\ Len(QueueNow') = n + 1
      /\ \A k \in 1 .. n + 1 : QueueNow'[k] = Queued(k)'
  <2>1. Occupancy(wi', ri') \in 0 .. N - 1
    BY <1>2, OccupancyWraps DEF Slots
  <2>2. Occupancy(wi, ri)' = Occupancy(wi', ri')
    OBVIOUS
  <2>3. \A k \in 1 .. n + 1 : Queued(k)' \in Nat
    <3> SUFFICES ASSUME NEW k \in 1 .. n + 1 PROVE Queued(k)' \in Nat
      OBVIOUS
    <3>1. k \in 1 .. N
      BY <1>2, <2>1, <2>2, RingAssumption
    <3>2. (ri + k - 1) % N \in Slots
      BY <3>1, SlotOf
    <3> QED BY <3>2 DEF Queued
  <2>4. QueueNow' = [k \in 1 .. n + 1 |-> Queued(k)']
    BY <1>2 DEF QueueNow
  <2> QED BY <1>2, <2>1, <2>2, <2>3, <2>4
<1>5. \A k \in 1 .. n + 1 : Queued(k)' = Queued(k)
  BY DEF Queued
<1>6. Queued(n + 1) = buf[wi]
  <2>1. n = IF wi >= ri THEN wi - ri ELSE wi + N - ri
    BY <1>1, OccupancyWraps
  <2>2. n + 1 \in 1 .. N
    BY <1>4, RingAssumption
  <2>3. (ri + (n + 1) - 1) % N =
          IF ri + (n + 1) - 1 < N THEN ri + (n + 1) - 1 ELSE ri + (n + 1) - 1 - N
    BY <2>2, SlotOf
  <2>4. (ri + (n + 1) - 1) % N = wi
    BY <2>1, <2>3, RingAssumption DEF Slots
  <2> QED BY <2>4 DEF Queued
<1>7. \A k \in 1 .. Len(QueueNow) : QueueNow'[k] = QueueNow[k]
  BY <1>3, <1>4, <1>5
<1>8. QueueNow' = Append(QueueNow, QueueNow'[n + 1])
  BY <1>3, <1>4, <1>7, Longer
<1>9. QueueNow'[n + 1] = buf[wi]
  BY <1>4, <1>5, <1>6
<1>10. n < N - 1
  BY <1>4, RingAssumption
<1> QED BY <1>3, <1>8, <1>9, <1>10

LEMMA QueueShrinks ==
  ASSUME wi \in Slots, ri \in Slots, buf \in [Slots -> Nat],
         ri' = Succ(ri), UNCHANGED <<wi, buf>>, ri # wi
  PROVE  QueueNow' = Tail(QueueNow) /\ QueueNow # <<>> /\ Head(QueueNow) = buf[ri]
<1>1. PICK n \in 0 .. N - 1 : n = Occupancy(wi, ri)
  BY OccupancyWraps DEF Slots
<1>2. /\ Occupancy(wi, ri)' = n - 1
      /\ wi' \in Slots /\ ri' \in Slots /\ buf' \in [Slots -> Nat]
  BY <1>1, TakeComesNearer, SuccWraps DEF Dist
<1>3. /\ QueueNow \in Seq(Nat) /\ Len(QueueNow) = n
      /\ \A k \in 1 .. n : QueueNow[k] = Queued(k)
  BY <1>1, QueueTyped
<1>4. n >= 1
  <2>1. n = IF wi >= ri THEN wi - ri ELSE wi + N - ri
    BY <1>1, OccupancyWraps
  <2> QED BY <2>1, RingAssumption DEF Slots
<1>5. ASSUME NEW k \in 1 .. n - 1 PROVE Queued(k)' = Queued(k + 1) /\ Queued(k)' \in Nat
  <2>1. k \in 1 .. N /\ k + 1 \in 1 .. N
    BY RingAssumption
  <2>2. PICK i \in Slots : /\ i = (ri' + k - 1) % N
                          /\ i = IF ri' + k - 1 < N THEN ri' + k - 1 ELSE ri' + k - 1 - N
    BY <1>2, <2>1, SlotOf
  <2>3. PICK j \in Slots : /\ j = (ri + (k + 1) - 1) % N
                          /\ j = IF ri + (k + 1) - 1 < N THEN ri + (k + 1) - 1
                                                         ELSE ri + (k + 1) - 1 - N
    BY <2>1, SlotOf
  <2>4. PICK s \in Slots : s = ri' /\ s = IF ri = N - 1 THEN 0 ELSE ri + 1
    BY SuccWraps
  <2>5. i = IF s + k - 1 < N THEN s + k - 1 ELSE s + k - 1 - N
    BY <2>2, <2>4
  <2>6. i = j
    BY <2>1, <2>3, <2>4, <2>5, RingAssumption DEF Slots
  <2>7. Queued(k)' = buf'[i] /\ Queued(k + 1) = buf[j]
    BY <2>2, <2>3 DEF Queued
  <2> QED BY <2>6, <2>7
<1>6. QueueNow' \in Seq(Nat) /\ Len(QueueNow') = n - 1
      /\ \A k \in 1 .. n - 1 : QueueNow'[k] = Queued(k)'
  <2>1. QueueNow' = [k \in 1 .. n - 1 |-> Queued(k)']
    BY <1>2 DEF QueueNow
  <2>2. n - 1 \in Nat
    BY <1>1, <1>4
  <2> QED BY <1>5, <2>1, <2>2
<1>7. \A k \in 1 .. Len(QueueNow') : QueueNow'[k] = QueueNow[k + 1]
  <2> SUFFICES ASSUME NEW k \in 1 .. n - 1 PROVE QueueNow'[k] = QueueNow[k + 1]
    BY <1>6
  <2>1. k + 1 \in 1 .. n
    OBVIOUS
  <2> QED BY <1>3, <1>5, <1>6, <2>1
<1>8. Queued(1) = buf[ri]
  <2>1. (ri + 1 - 1) % N = IF ri + 1 - 1 < N THEN ri + 1 - 1 ELSE ri + 1 - 1 - N
    BY SlotOf, RingAssumption
  <2>2. (ri + 1 - 1) % N = ri
    BY <2>1, RingAssumption DEF Slots
  <2> QED BY <2>2 DEF Queued
<1>9. Len(QueueNow) = Len(QueueNow') + 1
  BY <1>1, <1>3, <1>4, <1>6
<1>10. QueueNow' = Tail(QueueNow) /\ QueueNow # <<>> /\ Head(QueueNow) = QueueNow[1]
  BY <1>3, <1>6, <1>7, <1>9, Shorter
<1>11. QueueNow[1] = buf[ri]
  BY <1>3, <1>4, <1>8
<1> QED BY <1>10, <1>11

LEMMA QueueInit == Init => Queue!Init
<1> SUFFICES ASSUME Init PROVE Queue!Init
  OBVIOUS
<1>1. wi \in Slots /\ ri \in Slots /\ buf \in [Slots -> Nat] /\ wi = 0 /\ ri = 0
  BY RingAssumption DEF Init, Slots
<1>2. Occupancy(wi, ri) = 0
  BY <1>1, OccupancyWraps
<1>3. QueueNow = <<>>
  <2>1. QueueNow \in Seq(Nat) /\ Len(QueueNow) = 0
    BY <1>1, <1>2, QueueTyped
  <2> QED BY <2>1
<1>4. TakenNow = <<>>
  BY DEF Init, TakenNow, Copied
<1> QED BY <1>3, <1>4 DEF Init, Queue!Init, QueueNow, TakenNow

LEMMA QueueProducerStep ==
  ASSUME OneWriter, LoneInv, Store \/ \E c \in 1 .. MaxChunk : Arrive(c)
  PROVE  [Queue!Next]_(Queue!vars)
<1>t. /\ wi \in Slots /\ ri \in Slots /\ buf \in [Slots -> Nat]
      /\ fed \in Nat /\ pending \in Nat
  BY DEF LoneInv, TypeInv, TypeOK
<1>c. UNCHANGED <<cpc, req, v>> /\ UNCHANGED TakenNow
  BY DEF Store, Arrive, CheckRoom, DropNewest, EvictLoad, EvictStore, WriteSlot, Publish,
         PublishEarly, WriteLate, StampChunk, consumer, TakenNow, Copied
<1>1. ASSUME \/ \E c \in 1 .. MaxChunk : Arrive(c)
             \/ CheckRoom \/ WriteSlot \/ StampChunk
      PROVE  UNCHANGED Queue!vars
  <2>1. UNCHANGED <<wi, ri, fed>> /\ (buf' = buf \/ buf' = [buf EXCEPT ![wi] = fed + 1])
    BY <1>1 DEF Arrive, CheckRoom, WriteSlot, StampChunk, shared
  <2>2. \A i \in Slots : i # wi => buf'[i] = buf[i]
    BY <1>t, <2>1
  <2>3. QueueNow' = QueueNow
    BY <1>t, <2>1, <2>2, QueueSame
  <2> QED BY <1>c, <2>1, <2>3 DEF Queue!vars, QueueNow, TakenNow
(* The ring is full: the sample, or the rest of the chunk, is given up.     *)
<1>2. CASE DropNewest
  <2> DEFINE lost == IF source = "card" THEN pending ELSE 1
  <2>1. /\ UNCHANGED <<buf, wi, ri>> /\ fed' = fed + lost /\ Succ(wi) = ri /\ ppc = "check"
    BY <1>2 DEF DropNewest, NextSample, Full, shared
  <2>2. fed' > fed
    <3>1. lost \in Nat /\ lost >= 1
      BY <1>t, <2>1 DEF LoneInv, TypeInv, Storing
    <3> QED BY <1>t, <2>1, <3>1
  <2>3. Len(QueueNow) = N - 1
    <3>1. Occupancy(wi, Succ(wi)) = N - 1
      <4>1. Succ(wi) \in Slots /\ Succ(wi) = IF wi = N - 1 THEN 0 ELSE wi + 1
        BY <1>t, SuccWraps
      <4>2. Occupancy(wi, Succ(wi)) = IF wi >= Succ(wi) THEN wi - Succ(wi) ELSE wi + N - Succ(wi)
        BY <1>t, <4>1, OccupancyWraps
      <4> QED BY <1>t, <4>1, <4>2, RingAssumption DEF Slots
    <3> QED BY <1>t, <2>1, <3>1, QueueTyped
  <2>4. QueueNow' = QueueNow
    BY <1>t, <2>1, QueueSame
  <2>5. Queue!Refuse
    BY <1>c, <2>2, <2>3, <2>4 DEF Queue!Refuse, QueueNow, TakenNow
  <2> QED BY <2>5 DEF Queue!Next
<1>3. CASE Publish
  <2>1. /\ UNCHANGED <<buf, ri>> /\ wi' = Succ(wi) /\ fed' = fed + 1
        /\ Succ(wi) # ri /\ buf[wi] = fed + 1
    BY <1>3 DEF Publish, NextSample, LoneInv, TestsHold
  <2>2. QueueNow' = Append(QueueNow, fed') /\ Len(QueueNow) < N - 1
    BY <1>t, <2>1, QueueGrows
  <2>3. Queue!Accept
    BY <1>c, <2>1, <2>2 DEF Queue!Accept, QueueNow, TakenNow
  <2> QED BY <2>3 DEF Queue!Next
<1>4. ~EvictLoad /\ ~EvictStore /\ ~PublishEarly /\ ~WriteLate
  BY DEF EvictLoad, EvictStore, PublishEarly, WriteLate, LoneInv, OneWriter
<1> QED BY <1>1, <1>2, <1>3, <1>4 DEF Store

LEMMA QueueConsumerStep ==
  ASSUME LoneInv, GetProgress, Get \/ \E r \in Requests : Call(r)
  PROVE  [Queue!Next]_(Queue!vars)
<1>t. /\ wi \in Slots /\ ri \in Slots /\ buf \in [Slots -> Nat] /\ v \in Seq(Nat)
      /\ req \in Nat \X BOOLEAN /\ req[1] \in Nat
  BY DEF LoneInv, TypeInv, TypeOK
<1>f. UNCHANGED <<buf, wi, fed>>
  BY DEF Get, Call, SkipTest, SkipLoad, SkipStore, LoadTime, CompareIndices,
         SubtractOccupancy, DrainTest, CopySlot, TakeLoad, TakeStore, shared, producer
<1>q. /\ QueueNow \in Seq(Nat) /\ Len(QueueNow) = Occupancy(wi, ri)
      /\ wi = ri <=> QueueNow = <<>>
  <2>1. QueueNow \in Seq(Nat) /\ Len(QueueNow) = Occupancy(wi, ri)
    BY <1>t, QueueTyped
  <2>2. Occupancy(wi, ri) = IF wi >= ri THEN wi - ri ELSE wi + N - ri
    BY <1>t, OccupancyWraps
  <2>3. wi = ri <=> Occupancy(wi, ri) = 0
    BY <1>t, <2>2, RingAssumption DEF Slots
  <2> QED BY <2>1, <2>3
<1>n. UNCHANGED <<wi, ri>> => QueueNow' = QueueNow
  BY <1>t, <1>f, QueueSame
<1>b. /\ cpc \notin {"take_load", "take_store"} => TakenNow = v
      /\ cpc' \notin {"take_load", "take_store"} /\ v' \in Seq(Nat) => TakenNow' = v'
  BY <1>t, Front DEF TakenNow, Copied
<1>1. ASSUME NEW r \in Requests, Call(r) PROVE Queue!Next
  <2>1. /\ UNCHANGED <<wi, ri>> /\ req' = r /\ v' = <<>> /\ cpc = "idle"
        /\ cpc' \in {"idle", "skip", "loadtime"} /\ (cpc' = "idle" => wi = ri)
    BY <1>1 DEF Call, shared
  <2>2. TakenNow' = <<>>
    BY <1>b, <2>1
  <2>3. QueueNow' = QueueNow
    BY <1>n, <2>1
  <2>4. (cpc' # "idle") \in (IF QueueNow = <<>> THEN BOOLEAN ELSE {TRUE})
    BY <1>q, <2>1
  <2>5. Queue!Begin(r)
    BY <1>f, <2>1, <2>2, <2>3, <2>4 DEF Queue!Begin, QueueNow, TakenNow
  <2> QED BY <2>5 DEF Queue!Next
(* get() looks around.                                                      *)
<1>2. ASSUME \/ SkipTest \/ SkipLoad \/ LoadTime \/ CompareIndices \/ SubtractOccupancy
             \/ TakeLoad \/ (DrainTest /\ cpc' = "copy")
      PROVE  UNCHANGED Queue!vars
  <2>1. /\ UNCHANGED <<wi, ri, req, v>> /\ cpc # "idle" /\ cpc' # "idle"
        /\ cpc \in {"take_load", "take_store"} <=> cpc' \in {"take_load", "take_store"}
    BY <1>2 DEF SkipTest, SkipLoad, LoadTime, CompareIndices, SubtractOccupancy, TakeLoad,
                DrainTest, shared
  <2>2. TakenNow' = TakenNow
    BY <2>1 DEF TakenNow, Copied
  <2> QED BY <1>f, <1>n, <2>1, <2>2 DEF Queue!vars, QueueNow, TakenNow
(* A copy frees no slot.                                                    *)
<1>3. CASE CopySlot
  <2>1. /\ UNCHANGED <<wi, ri, req>> /\ cpc = "copy" /\ cpc' = "take_load"
        /\ v' = Append(v, buf[ri])
    BY <1>3 DEF CopySlot, shared
  <2>2. TakenNow' = v
    BY <1>t, <2>1, Front DEF TakenNow, Copied
  <2>3. TakenNow = v
    BY <1>b, <2>1
  <2> QED BY <1>f, <1>n, <2>1, <2>2, <2>3 DEF Queue!vars, QueueNow, TakenNow
<1>4. CASE DrainTest /\ cpc' = "idle"
  <2>1. /\ UNCHANGED <<wi, ri, req, v>> /\ cpc = "drain"
        /\ ~(Len(v) < Count) \/ ri = wi
    BY <1>4 DEF DrainTest, shared
  <2>2. TakenNow = v /\ TakenNow' = v
    BY <1>b, <1>t, <1>4, <2>1
  <2>3. Len(v) = req[1] \/ QueueNow = <<>>
    BY <1>t, <1>q, <2>1 DEF GetProgress, Count
  <2>4. Queue!Finish
    BY <1>f, <1>n, <1>4, <2>1, <2>2, <2>3 DEF Queue!Finish, QueueNow, TakenNow
  <2> QED BY <2>4 DEF Queue!Next
(* get() moves ri_: a sample is passed over, or taken.                      *)
<1>5. CASE SkipStore
  <2>1. /\ UNCHANGED <<req, v>> /\ cpc = "skip_store" /\ cpc' = "skip"
        /\ ri' = Succ(ri) /\ ri # wi
    BY <1>5 DEF SkipStore, MovePast, LoneInv, TestsHold
  <2>2. v = <<>> /\ Latest /\ Len(QueueNow) > req[1]
    BY <1>q, <2>1 DEF GetProgress, Count
  <2>3. QueueNow' = Tail(QueueNow)
    BY <1>f, <1>t, <2>1, QueueShrinks
  <2>4. TakenNow = v /\ TakenNow' = v
    BY <1>b, <1>t, <2>1
  <2>5. Queue!PassOver
    BY <1>f, <2>1, <2>2, <2>3, <2>4 DEF Queue!PassOver, QueueNow, TakenNow, Latest
  <2> QED BY <2>5 DEF Queue!Next
<1>6. CASE TakeStore
  <2>1. /\ UNCHANGED <<req, v>> /\ cpc = "take_store" /\ cpc' = "drain"
        /\ ri' = Succ(ri) /\ ri # wi
    BY <1>6 DEF TakeStore, MovePast, LoneInv, TestsHold
  <2>2. v # <<>> /\ v[Len(v)] = buf[ri] /\ Len(v) <= req[1]
    BY <2>1 DEF GetProgress, Count
  <2>3. QueueNow' = Tail(QueueNow) /\ QueueNow # <<>> /\ Head(QueueNow) = buf[ri]
    BY <1>f, <1>t, <2>1, QueueShrinks
  <2>4. TakenNow = SubSeq(v, 1, Len(v) - 1) /\ TakenNow' = v
    <3>1. TakenNow = SubSeq(v, 1, Len(v) - 1)
      BY <2>1 DEF TakenNow, Copied
    <3> QED BY <1>b, <1>t, <2>1, <3>1
  <2>5. v = Append(TakenNow, Head(QueueNow))
    BY <1>t, <2>2, <2>3, <2>4, Front
  <2>6. Len(TakenNow) < req[1]
    <3>1. Len(SubSeq(v, 1, Len(v) - 1)) = Len(v) - 1
      BY <1>t, <2>2, Front
    <3>2. Len(v) \in Nat
      BY <1>t
    <3> QED BY <1>t, <2>2, <2>4, <3>1, <3>2
  <2>7. Queue!Take
    BY <1>f, <2>1, <2>3, <2>4, <2>5, <2>6 DEF Queue!Take, QueueNow, TakenNow
  <2> QED BY <2>7 DEF Queue!Next
<1>7. DrainTest => cpc' \in {"copy", "idle"}
  BY DEF DrainTest
<1>8. CASE DrainTest
  BY <1>2, <1>4, <1>7, <1>8
<1>9. CASE SkipTest \/ SkipLoad \/ LoadTime \/ CompareIndices \/ SubtractOccupancy \/ TakeLoad
  <2>1. UNCHANGED Queue!vars
    BY <1>2, <1>9
  <2> QED BY <2>1
<1>10. CASE \E r \in Requests : Call(r)
  BY <1>1, <1>10
<1>11. CASE CopySlot
  BY <1>3, <1>11
<1> QED BY <1>5, <1>6, <1>8, <1>9, <1>10, <1>11 DEF Get

(* The contract of SoundIn::get(): where only get() moves ri_ and stores    *)
(* are seen in program order, the interleaved loads and stores of both      *)
(* threads do what a bounded first-in first-out queue does, step by step.   *)
THEOREM RingIsQueue == Spec => ImplementsQueue
<1>1. QueueInv /\ [Next]_vars => (OneWriter => [Queue!Next]_(Queue!vars))
  <2> SUFFICES ASSUME QueueInv, [Next]_vars, OneWriter PROVE [Queue!Next]_(Queue!vars)
    OBVIOUS
  <2>1. LoneInv /\ GetProgress
    BY DEF QueueInv, RingInv
  <2>2. CASE UNCHANGED vars
    BY <2>2 DEF vars, shared, producer, consumer, Queue!vars, Occupancy, Queued, Copied
  <2> QED BY <2>1, <2>2, QueueProducerStep, QueueConsumerStep DEF Next
<1> QED BY QueueInit, QueueInvariant, <1>1, PTL DEF Spec, ImplementsQueue
===============================================================================
