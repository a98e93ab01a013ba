--------------------------- MODULE CycleTimingProofs ---------------------------
(***************************************************************************)
(* Theorems about CycleTiming and PassBudget for every sampling rate, every *)
(* number of passes, and naps, searches and candidates of any length.       *)
(* The clock of decode_loop() is integer arithmetic: how the samples it     *)
(* took relate to the cycle they are put in is settled once, in the lemmas  *)
(* about CycleOf and NominalStart, and the invariants speak of it.          *)
(***************************************************************************)
EXTENDS CycleTiming, TLAPS

Samples == [t0 : Nat, size : Nat, up : BOOLEAN]
Decode  == [cycle : Nat, nominal : Int, t0 : Nat, size : Nat, smooth : BOOLEAN]

GoTypeOK ==
  /\ spent \in Nat /\ pass \in 0 .. Passes /\ step \in {"pass", "try"} /\ deadline \in Int
  /\ tried \in BOOLEAN /\ decodes \in BOOLEAN /\ starved \in BOOLEAN
  /\ step = "try" => pass < Passes

LoopTypeOK ==
  /\ clock \in Nat /\ pc \in {"poll", "got", "decode", "sleep"} /\ up \in BOOLEAN
  /\ newest \in Nat /\ buffered \in Nat /\ got \in Samples
  /\ smooth \in BOOLEAN /\ log \in Seq(Decode)

(* Half a second is a whole number of ticks.                                *)
Half == Rate \div 2

(* The samples reach 10.5 seconds into the cycle they are put in, begin     *)
(* less than 1.5 seconds after it, and entry() is told where it begins.     *)
WellPlaced(e) ==
  /\ e.cycle = CycleOf(e)
  /\ e.cycle + Sec(10) + Half < e.t0 + e.size
  /\ e.t0 < e.cycle + Rate + Half
  /\ e.nominal - TrueStart(e) \in 0 .. Rate - 1
-------------------------------------------------------------------------------
(* The integer arithmetic of decode_loop().                                 *)

LEMMA RateFacts ==
  /\ Rate \in Nat \ {0} /\ Half \in Nat /\ Rate = 2 * Half
  /\ Cycle = 15 * Rate /\ Cycle \in Nat \ {0}
BY TimingAssumption DEF Half, Cycle, Sec

LEMMA Division ==
  ASSUME NEW a \in Nat, NEW b \in Nat \ {0}
  PROVE  /\ a \div b \in Nat /\ a % b \in 0 .. b - 1
         /\ (a \div b) * b \in Nat /\ a = (a \div b) * b + (a % b)
<1>1. a \div b \in Nat /\ a % b \in 0 .. b - 1
  OBVIOUS
<1>2. a = (a \div b) * b + (a % b)
  OBVIOUS
<1>3. (a \div b) * b \in Nat
  BY <1>1
<1> QED BY <1>1, <1>2, <1>3

(* The remainder that the integer division of samples.size() / rate drops.  *)
LEMMA EndOfSamples ==
  ASSUME NEW t \in Nat, NEW s \in Nat, NEW g, g.t0 = t, g.size = s
  PROVE  /\ s % Rate \in 0 .. Rate - 1
         /\ EndOf(g) = t + s - (s % Rate) /\ EndOf(g) \in Nat
<1>0. PICK r \in Nat \ {0} : r = Rate
  BY RateFacts
<1>a. s % r \in 0 .. r - 1 /\ (s \div r) * r \in Nat /\ s = (s \div r) * r + (s % r)
  BY Division
<1>1. PICK p \in Nat, m \in 0 .. r - 1 : p = (s \div r) * r /\ m = s % r /\ s = p + m
  BY <1>a
<1>2. EndOf(g) = t + p
  BY <1>0, <1>1 DEF EndOf, Sec
<1>3. t + p = t + s - m /\ t + p \in Nat
  BY <1>1
<1> QED BY <1>0, <1>1, <1>2, <1>3

LEMMA CycleContains ==
  ASSUME NEW e \in Nat
  PROVE  /\ (e \div Cycle) * Cycle \in Nat
         /\ (e \div Cycle) * Cycle <= e /\ e < (e \div Cycle) * Cycle + Cycle
         /\ e % Cycle = e - (e \div Cycle) * Cycle
<1>1. PICK c \in Nat \ {0} : c = Cycle
  BY RateFacts
<1>2. PICK q \in Nat, m \in 0 .. c - 1 : q = e \div c /\ m = e % c /\ e = q * c + m
  BY Division
<1>3. q * c \in Nat
  BY <1>2
<1> QED BY <1>1, <1>2, <1>3

(* Times in one cycle have the same cycle start.                            *)
LEMMA SameCycle ==
  ASSUME NEW k \in Nat, NEW e \in Nat, k * Cycle <= e, e < k * Cycle + Cycle
  PROVE  e \div Cycle = k
<1>1. PICK c \in Nat \ {0} : c = Cycle
  BY RateFacts
<1>2. PICK q \in Nat, m \in 0 .. c - 1 : q = e \div c /\ m = e % c /\ e = q * c + m
  BY Division
<1>3. ~(q < k)
  <2> SUFFICES ASSUME q < k PROVE FALSE
    OBVIOUS
  <2>1. (q + 1) * c <= k * c
    BY <1>2
  <2> QED BY <1>1, <1>2, <2>1
<1>4. ~(k < q)
  <2> SUFFICES ASSUME k < q PROVE FALSE
    OBVIOUS
  <2>1. (k + 1) * c <= q * c
    BY <1>2
  <2> QED BY <1>1, <1>2, <2>1
<1> QED BY <1>1, <1>2, <1>3, <1>4

LEMMA NextCycle ==
  ASSUME NEW k \in Nat
  PROVE  (k + 1) * Cycle = k * Cycle + Cycle /\ k * Cycle \in Nat
BY RateFacts

(* What decode_loop() works out from t0 and the number of samples.          *)
LEMMA CycleOfSamples ==
  ASSUME NEW g, NEW t \in Nat, NEW s \in Nat, g.t0 = t, g.size = s
  PROVE  /\ CycleOf(g) \in Nat /\ NominalStart(g) \in Int
         /\ NominalStart(g) = CycleOf(g) + Half - t + (s % Rate)
         /\ CycleOf(g) <= EndOf(g) /\ EndOf(g) < CycleOf(g) + Cycle
<1>1. EndOf(g) \in Nat /\ EndOf(g) = t + s - (s % Rate) /\ s % Rate \in 0 .. Rate - 1
  BY EndOfSamples
<1>2. PICK e \in Nat, m \in 0 .. Rate - 1 : e = EndOf(g) /\ m = s % Rate
  BY <1>1
<1>3. CycleOf(g) \in Nat /\ CycleOf(g) <= e /\ e < CycleOf(g) + Cycle
  BY <1>2, CycleContains DEF CycleOf
<1>4. PICK c \in Nat : c = CycleOf(g)
  BY <1>3
<1>5. NominalStart(g) = s - (e - c - Half)
  BY <1>2, <1>4 DEF NominalStart, Half
<1>6. e = t + s - m
  BY <1>1, <1>2
<1>7. Half \in Nat /\ m \in Nat
  BY <1>2, RateFacts
<1>8. s - (e - c - Half) = c + Half - t + m /\ c + Half - t + m \in Int
  BY <1>2, <1>4, <1>6, <1>7
<1> QED BY <1>2, <1>3, <1>4, <1>5, <1>8

(* What is decoded is well placed.                                          *)
LEMMA CoversPlaced ==
  ASSUME NEW g \in Samples, CoversCycle(g),
         NEW e \in Decode, e.cycle = CycleOf(g), e.nominal = NominalStart(g),
         e.t0 = g.t0, e.size = g.size
  PROVE  WellPlaced(e)
<1>1. PICK t \in Nat, s \in Nat : t = g.t0 /\ s = g.size
  BY DEF Samples
<1>0. /\ CycleOf(g) \in Nat /\ s % Rate \in 0 .. Rate - 1 /\ NominalStart(g) \in Int
      /\ NominalStart(g) = CycleOf(g) + Half - t + (s % Rate)
  BY <1>1, CycleOfSamples, EndOfSamples
<1>2. PICK c, m, n : c = CycleOf(g) /\ m = s % Rate /\ n = NominalStart(g)
  OBVIOUS
<1>a. c \in Nat /\ m \in 0 .. Rate - 1 /\ n \in Int /\ n = c + Half - t + m
  BY <1>0, <1>2
<1>3. n >= 0 /\ n + Sec(10) < s
  BY <1>1, <1>2, <1>a DEF CoversCycle
<1>4. Sec(10) = 10 * Rate
  BY DEF Sec
<1>5. CycleOf(e) = CycleOf(g)
  BY <1>1 DEF CycleOf, EndOf
<1>6. TrueStart(e) = c + Half - t
  BY <1>1, <1>2, <1>a DEF TrueStart, Half
<1>7. n - (c + Half - t) = m
  BY <1>2, <1>a, RateFacts
<1>8. c + 10 * Rate + Half < t + s /\ t < c + Rate + Half
  BY <1>2, <1>a, <1>3, <1>4, RateFacts
<1> QED BY <1>1, <1>2, <1>a, <1>4, <1>5, <1>6, <1>7, <1>8 DEF WellPlaced
-------------------------------------------------------------------------------
(* PassBudget: a pass may start late by what the passes before it went over *)
(* their time, and goes over by its search and one candidate itself: once   *)
(* the deadline is behind, only a first candidate is tried, or one within   *)
(* the budget of the whole.                                                 *)
Ends ==
  /\ step = "pass" => spent <= Budget + pass * Overhead
  /\ step = "try" =>
       /\ deadline <= Budget + pass * Overhead
       /\ spent <= Budget + pass * Overhead + Longest(Searches)
                     + (IF tried THEN Longest(Tries) ELSE 0)

LEMMA LongestOf ==
  ASSUME NEW S \in SUBSET Nat, \E d \in S : \A e \in S : e <= d
  PROVE  Longest(S) \in S /\ Longest(S) \in Nat /\ \A e \in S : e <= Longest(S)
BY DEF Longest

LEMMA OverheadFacts ==
  /\ Longest(Searches) \in Nat /\ \A e \in Searches : e \in Nat /\ e <= Longest(Searches)
  /\ Longest(Tries) \in Nat /\ \A e \in Tries : e \in Nat /\ e <= Longest(Tries)
  /\ Overhead = Longest(Searches) + Longest(Tries) /\ Overhead \in Nat
<1>1. Longest(Searches) \in Nat /\ \A e \in Searches : e \in Nat /\ e <= Longest(Searches)
  BY BudgetAssumption, LongestOf
<1>2. Longest(Tries) \in Nat /\ \A e \in Tries : e \in Nat /\ e <= Longest(Tries)
  BY BudgetAssumption, LongestOf
<1> QED BY <1>1, <1>2 DEF Overhead

LEMMA Multiples ==
  ASSUME NEW k \in Nat, NEW n \in Nat, NEW m \in Nat
  PROVE  k * m \in Nat /\ (k + 1) * m = k * m + m /\ (k <= n => k * m <= n * m)
OBVIOUS

(* A share is at most what is left, and none when nothing is left.          *)
LEMMA ShareBound ==
  ASSUME NEW b \in Nat, NEW s \in Nat, NEW k \in Nat \ {0}
  PROVE  /\ (b - s) \div k \in Int
         /\ s <= b => s + ((b - s) \div k) <= b
         /\ b < s => s + ((b - s) \div k) <= s
OBVIOUS

LEMMA GoTypeStep ==
  ASSUME GoTypeOK, GoNext \/ GoStart \/ UNCHANGED goVars
  PROVE  GoTypeOK'
<1> USE DEF GoTypeOK
<1>0. /\ Passes \in Nat \ {0} /\ Budget \in Nat
      /\ Searches \subseteq Nat /\ Tries \subseteq Nat
  BY BudgetAssumption
<1>1. CASE StartPass
  <2>1. PICK s \in Searches : spent' = spent + s
    BY <1>1 DEF StartPass
  <2>2. spent \in Nat /\ Passes - pass \in Nat \ {0} /\ s \in Nat
    BY <1>0, <1>1, <2>1 DEF StartPass
  <2>3. Share \in Int
    BY <1>0, <2>2, ShareBound DEF Share
  <2>4. spent' \in Nat /\ deadline' \in Int /\ pass' = pass /\ pass < Passes /\ step' = "try"
    BY <1>1, <2>1, <2>2, <2>3 DEF StartPass
  <2>5. tried' = FALSE /\ decodes' = FALSE /\ starved' = starved
    BY <1>1 DEF StartPass
  <2> QED BY <2>4, <2>5
<1>2. CASE TryCandidate
  <2>1. PICK d \in Tries : spent' = spent + d
    BY <1>2 DEF TryCandidate
  <2>2. decodes' \in BOOLEAN /\ starved' \in BOOLEAN /\ tried' \in BOOLEAN
    BY <1>2 DEF TryCandidate
  <2> QED BY <1>0, <1>2, <2>1, <2>2 DEF TryCandidate
<1>3. CASE EndPass
  BY <1>0, <1>3 DEF EndPass
<1>4. CASE GoStart
  <2>1. spent' = 0 /\ pass' = 0 /\ step' = "pass" /\ deadline' = 0
    BY <1>4 DEF GoStart
  <2>2. tried' = FALSE /\ decodes' = FALSE /\ starved' = FALSE
    BY <1>4 DEF GoStart
  <2>3. spent' \in Nat /\ pass' \in 0 .. Passes /\ deadline' \in Int
    BY <1>0, <2>1
  <2>4. tried' \in BOOLEAN /\ decodes' \in BOOLEAN /\ starved' \in BOOLEAN
    BY <2>2
  <2> QED BY <2>1, <2>3, <2>4
<1>5. CASE UNCHANGED goVars
  BY <1>5 DEF goVars
<1> QED BY <1>1, <1>2, <1>3, <1>4, <1>5 DEF GoNext

LEMMA GoEndsStep ==
  ASSUME GoTypeOK, Ends, GoNext \/ GoStart \/ UNCHANGED goVars
  PROVE  Ends'
<1>1. PICK s \in Nat, t \in Nat, p \in Nat :
        /\ s = Longest(Searches) /\ t = Longest(Tries) /\ p = pass * Overhead
        /\ Overhead = s + t
  BY OverheadFacts DEF GoTypeOK
<1>2. CASE StartPass
  <2>1. PICK e \in Nat : e <= s /\ spent' = spent + e
    BY <1>1, <1>2, OverheadFacts DEF StartPass
  <2>2. spent <= Budget + p /\ spent \in Nat /\ Budget \in Nat
    BY <1>1, <1>2, BudgetAssumption DEF StartPass, Ends, GoTypeOK
  <2>a. Passes - pass \in Nat \ {0}
    BY <1>2, BudgetAssumption DEF StartPass, GoTypeOK
  <2>3. /\ Share \in Int
        /\ spent <= Budget => spent + Share <= Budget
        /\ Budget < spent => spent + Share <= spent
    BY <2>2, <2>a, ShareBound DEF Share
  <2>4. PICK h \in Int : h = Share
    BY <2>3
  <2>5. spent + h <= Budget + p /\ spent + e <= Budget + p + s
    BY <1>1, <2>1, <2>2, <2>3, <2>4
  <2>6. deadline' <= Budget + p /\ spent' <= Budget + p + s /\ tried' = FALSE
        /\ pass' = pass /\ step' = "try"
    BY <1>2, <2>1, <2>4, <2>5 DEF StartPass
  <2>7. Budget + p + s + 0 = Budget + p + s
    BY <1>1, <2>2
  <2> QED BY <1>1, <2>6, <2>7 DEF Ends
<1>3. CASE TryCandidate
  <2>1. PICK e \in Nat : e <= t /\ spent' = spent + e
    BY <1>1, <1>3, OverheadFacts DEF TryCandidate
  <2>2. /\ spent \in Nat /\ Budget \in Nat /\ deadline \in Int /\ deadline <= Budget + p
        /\ ~tried => spent <= Budget + p + s
    BY <1>1, <1>3, BudgetAssumption DEF TryCandidate, Ends, GoTypeOK
  <2>3. tried => spent <= deadline \/ spent <= Budget
    BY <1>3, <2>2 DEF TryCandidate, TimeIsUp, GoTypeOK
  <2>4. spent + e <= Budget + p + s + t
    BY <1>1, <2>1, <2>2, <2>3
  <2>5. spent' <= Budget + p + s + t /\ deadline' <= Budget + p /\ tried' = TRUE
        /\ pass' = pass /\ step' = "try"
    BY <1>3, <2>1, <2>2, <2>4 DEF TryCandidate
  <2> QED BY <1>1, <2>5 DEF Ends
<1>4. CASE EndPass
  <2>1. spent \in Nat /\ Budget \in Nat /\ spent <= Budget + p + s + t
    BY <1>1, <1>4, BudgetAssumption DEF EndPass, Ends, GoTypeOK
  <2>2. (pass + 1) * Overhead = p + (s + t)
    BY <1>1, Multiples DEF GoTypeOK
  <2>3. spent <= Budget + (p + (s + t))
    BY <1>1, <2>1
  <2> QED BY <1>4, <2>2, <2>3 DEF EndPass, Ends
<1>5. CASE GoStart
  BY <1>5, BudgetAssumption, OverheadFacts DEF GoStart, Ends
<1>6. CASE UNCHANGED goVars
  BY <1>6 DEF goVars, Ends
<1> QED BY <1>2, <1>3, <1>4, <1>5, <1>6 DEF GoNext

LEMMA EndsInTime ==
  ASSUME GoTypeOK, Ends
  PROVE  EndsOnTime
<1>1. PICK s \in Nat, t \in Nat, k \in Nat, b \in Nat, c \in Nat :
        /\ s = Longest(Searches) /\ t = Longest(Tries) /\ Overhead = s + t
        /\ k = pass /\ k <= Passes /\ b = Budget /\ c = spent
        /\ step = "try" => k + 1 <= Passes
  BY OverheadFacts, BudgetAssumption DEF GoTypeOK
<1>2. CASE step = "pass"
  <2>1. c <= b + k * (s + t)
    BY <1>1, <1>2 DEF Ends
  <2>2. k * (s + t) <= Passes * (s + t) /\ k * (s + t) \in Nat /\ Passes * (s + t) \in Nat
    BY <1>1, Multiples, BudgetAssumption
  <2> QED BY <1>1, <2>1, <2>2 DEF EndsOnTime
<1>3. CASE step = "try"
  <2>0. Passes \in Nat /\ k + 1 \in Nat /\ k + 1 <= Passes /\ s + t \in Nat
    BY <1>1, <1>3, BudgetAssumption
  <2>a. /\ k * (s + t) \in Nat /\ (k + 1) * (s + t) = k * (s + t) + (s + t)
        /\ Passes * (s + t) \in Nat /\ (k + 1) * (s + t) <= Passes * (s + t)
    BY <2>0, <1>1, Multiples
  <2>1. PICK w \in Nat, r \in Nat :
          /\ w = k * (s + t) /\ r = Passes * (s + t) /\ w + (s + t) <= r
    BY <2>a
  <2>2. c <= b + w + s + t
    BY <1>1, <1>3, <2>1 DEF Ends, GoTypeOK
  <2>3. c <= b + r
    BY <1>1, <2>1, <2>2
  <2> QED BY <1>1, <2>1, <2>3 DEF EndsOnTime
<1> QED BY <1>2, <1>3 DEF GoTypeOK
-------------------------------------------------------------------------------
(* decode_loop(): what the ring still holds is younger than all that was    *)
(* ever taken, so two decodes share no sample.                              *)
Clockwork ==
  /\ newest <= clock /\ buffered <= newest /\ buffered <= Cycle
  /\ pc = "got" => got.t0 + got.size <= newest - buffered

Logged ==
  /\ \A i \in DOMAIN log :
       /\ WellPlaced(log[i])
       /\ log[i].t0 + log[i].size <= newest - buffered
       /\ pc = "got" => log[i].t0 + log[i].size <= got.t0
  /\ \A i, j \in DOMAIN log : i < j => log[i].t0 + log[i].size <= log[j].t0

TimingInv == GoTypeOK /\ Ends /\ LoopTypeOK /\ Clockwork /\ Logged

LEMMA Appended ==
  ASSUME NEW s \in Seq(Decode), NEW e \in Decode
  PROVE  /\ Append(s, e) \in Seq(Decode) /\ DOMAIN s = 1 .. Len(s) /\ Len(s) \in Nat
         /\ DOMAIN Append(s, e) = 1 .. Len(s) + 1 /\ Append(s, e)[Len(s) + 1] = e
         /\ \A i \in 1 .. Len(s) : Append(s, e)[i] = s[i]
OBVIOUS

(* What a ring of at most c samples holds after m - n more of them.         *)
LEMMA RingGrows ==
  ASSUME NEW n \in Nat, NEW m \in Nat, NEW b \in Nat, NEW c \in Nat,
         n <= m, b <= n, b <= c
  PROVE  LET y == Smaller(b + (m - n), c) IN
         /\ y \in Nat /\ y <= m /\ y <= c
         /\ n - b <= m - y
         /\ m - y <= n - b \/ m - y <= m - c
BY DEF Smaller

LEMMA ElapseFacts ==
  ASSUME LoopTypeOK, Clockwork, NEW d \in Nat, Elapse(d)
  PROVE  /\ clock' \in Nat /\ clock' = clock + d
         /\ newest' \in Nat /\ newest' >= newest /\ newest' <= clock'
         /\ buffered' \in Nat /\ buffered' <= newest' /\ buffered' <= Cycle
         /\ newest - buffered <= newest' - buffered'
         /\ newest' - buffered' <= newest - buffered \/ newest' - buffered' <= newest' - Cycle
<1>1. PICK lag \in Nat :
        newest' = IF up /\ clock' - lag > newest THEN clock' - lag ELSE newest
  BY TimingAssumption DEF Elapse
<1>2. clock' \in Nat /\ clock' = clock + d
  BY DEF Elapse, LoopTypeOK
<1>3. newest' \in Nat /\ newest' >= newest /\ newest' <= clock'
  BY <1>1, <1>2 DEF LoopTypeOK, Clockwork
<1>4. newest \in Nat /\ buffered \in Nat /\ buffered <= newest /\ buffered <= Cycle
  BY DEF LoopTypeOK, Clockwork
<1>5. PICK n \in Nat, m \in Nat, b \in Nat, c \in Nat :
        /\ n = newest /\ m = newest' /\ b = buffered /\ c = Cycle
        /\ n <= m /\ b <= n /\ b <= c
  BY <1>3, <1>4, RateFacts
<1>6. buffered' = Smaller(b + (m - n), c)
  BY <1>5 DEF Elapse
<1>7. /\ buffered' \in Nat /\ buffered' <= m /\ buffered' <= c /\ n - b <= m - buffered'
      /\ m - buffered' <= n - b \/ m - buffered' <= m - c
  BY <1>5, <1>6, RingGrows
<1> QED BY <1>2, <1>3, <1>5, <1>7

(* A step that adds no decode and does not get() leaves the log in order.   *)
LEMMA LogKept ==
  ASSUME LoopTypeOK, Logged, UNCHANGED log,
         newest' \in Nat, buffered' \in Nat, newest - buffered <= newest' - buffered',
         pc' = "got" => pc = "got" /\ UNCHANGED got
  PROVE  Logged'
<1>0. newest \in Nat /\ buffered \in Nat /\ log \in Seq(Decode)
  BY DEF LoopTypeOK
<1>1. \A i \in DOMAIN log : log[i] \in Decode
  BY <1>0
<1>2. ASSUME NEW i \in DOMAIN log
      PROVE  log[i].t0 + log[i].size <= newest' - buffered'
  <2>1. PICK e \in Decode : e = log[i]
    BY <1>1
  <2>2. e.t0 \in Nat /\ e.size \in Nat
    BY DEF Decode
  <2>3. e.t0 + e.size <= newest - buffered
    BY <2>1 DEF Logged
  <2>a. newest' - buffered' \in Int /\ newest - buffered \in Int
    BY <1>0
  <2>b. e.t0 + e.size \in Nat
    BY <2>2
  <2>c. newest - buffered <= newest' - buffered'
    OBVIOUS
  <2>4. PICK a \in Nat, n \in Int, m \in Int :
          /\ a = e.t0 + e.size /\ n = newest - buffered /\ m = newest' - buffered'
          /\ a <= n /\ n <= m
    BY <2>3, <2>a, <2>b, <2>c
  <2>5. a <= m
    BY <2>4
  <2> QED BY <2>1, <2>4, <2>5
<1>3. \A i \in DOMAIN log : WellPlaced(log[i])'
  BY DEF Logged, WellPlaced, CycleOf, EndOf, TrueStart
<1> QED BY <1>2, <1>3 DEF Logged

LEMMA LoopInit == Init => TimingInv
<1> SUFFICES ASSUME Init PROVE TimingInv
  OBVIOUS
<1>0. Passes \in Nat \ {0} /\ Budget \in Nat /\ Overhead \in Nat /\ Cycle \in Nat
  BY BudgetAssumption, OverheadFacts, RateFacts
<1>1. GoTypeOK
  <2>1. spent \in Nat /\ pass \in 0 .. Passes /\ deadline \in Int /\ step = "pass"
    BY <1>0 DEF Init, GoInit
  <2>2. tried \in BOOLEAN /\ decodes \in BOOLEAN /\ starved \in BOOLEAN
    BY DEF Init, GoInit
  <2> QED BY <2>1, <2>2 DEF GoTypeOK
<1>2. Ends
  BY <1>0 DEF Ends, Init, GoInit
<1>3. LoopTypeOK
  <2>1. clock \in Nat /\ newest \in Nat /\ buffered \in Nat /\ got \in Samples /\ pc = "poll"
    BY DEF Init, Samples
  <2>2. up \in BOOLEAN /\ smooth \in BOOLEAN
    BY DEF Init
  <2>3. log \in Seq(Decode)
    BY DEF Init
  <2> QED BY <2>1, <2>2, <2>3 DEF LoopTypeOK
<1>4. Clockwork /\ Logged
  BY <1>0 DEF Clockwork, Logged, Init
<1> QED BY <1>1, <1>2, <1>3, <1>4 DEF TimingInv

LEMMA GoStays ==
  ASSUME TimingInv, [Next]_vars
  PROVE  GoTypeOK' /\ Ends'
<1>1. GoNext \/ GoStart \/ UNCHANGED goVars
  BY DEF Next, SourceDown, SourceUp, Nap, GetSamples, SkipCycle, DecodeSamples, Work,
         DecodeReturns, Rest, Over, vars
<1> QED BY <1>1, GoTypeStep, GoEndsStep DEF TimingInv

LEMMA LoopStep ==
  ASSUME TimingInv, [Next]_vars
  PROVE  LoopTypeOK' /\ Clockwork' /\ Logged'
<1>0. /\ LoopTypeOK /\ Clockwork /\ Logged /\ GoTypeOK
      /\ clock \in Nat /\ newest \in Nat /\ buffered \in Nat /\ log \in Seq(Decode)
      /\ got \in Samples /\ got.t0 \in Nat /\ got.size \in Nat
  BY DEF TimingInv, LoopTypeOK, Samples
<1>1. CASE SourceDown
  <2>1. LoopTypeOK' /\ Clockwork'
    BY <1>0, <1>1 DEF SourceDown, LoopTypeOK, Clockwork
  <2>2. Logged'
    BY <1>0, <1>1, LogKept DEF SourceDown
  <2> QED BY <2>1, <2>2
<1>2. CASE SourceUp
  <2>1. newest <= clock /\ newest' = clock /\ buffered' = buffered /\ log' = log
    BY <1>0, <1>2 DEF SourceUp, Clockwork
  <2>2. LoopTypeOK' /\ Clockwork'
    BY <1>0, <1>2, <2>1 DEF SourceUp, LoopTypeOK, Clockwork
  <2>3. Logged'
    BY <1>0, <1>2, <2>1, LogKept DEF SourceUp
  <2> QED BY <2>2, <2>3
<1>3. ASSUME Nap \/ DecodeReturns \/ Rest
      PROVE  LoopTypeOK' /\ Clockwork' /\ Logged'
  <2>1. PICK d \in Nat : Elapse(d)
    <3>1. CASE Nap
      BY <3>1, TimingAssumption DEF Nap
    <3>2. CASE DecodeReturns
      <4>1. PICK d \in Slow : Elapse(spent + d)
        BY <3>2 DEF DecodeReturns
      <4>2. spent + d \in Nat
        BY <1>0, TimingAssumption DEF GoTypeOK
      <4> QED BY <4>1, <4>2
    <3>3. CASE Rest
      <4>1. PICK d \in Naps : Elapse(Sec(2) + d)
        BY <3>3 DEF Rest
      <4>2. Sec(2) + d \in Nat
        BY TimingAssumption DEF Sec
      <4> QED BY <4>1, <4>2
    <3> QED BY <1>3, <3>1, <3>2, <3>3
  <2>2. /\ clock' \in Nat /\ newest' \in Nat /\ newest' <= clock'
        /\ buffered' \in Nat /\ buffered' <= newest' /\ buffered' <= Cycle
        /\ newest - buffered <= newest' - buffered'
    BY <1>0, <2>1, ElapseFacts
  <2>3. pc' \in {"poll", "sleep"} /\ got' = got /\ log' = log /\ up' = up
    BY <1>3 DEF Nap, DecodeReturns, Rest
  <2>4. smooth' \in BOOLEAN
    BY <1>0, <1>3 DEF Nap, DecodeReturns, Rest, LoopTypeOK
  <2>5. LoopTypeOK'
    BY <1>0, <2>2, <2>3, <2>4 DEF LoopTypeOK
  <2>6. Clockwork'
    BY <2>2, <2>3 DEF Clockwork
  <2> QED BY <1>0, <2>2, <2>3, <2>5, <2>6, LogKept
<1>4. CASE GetSamples
  <2>1. PICK t \in Nat, b \in Nat :
          /\ t = newest - buffered /\ b = buffered
          /\ got' = [t0 |-> t, size |-> b, up |-> up] /\ t + b = newest
    BY <1>0, <1>4 DEF GetSamples, Clockwork
  <2>2. /\ buffered' = 0 /\ pc' = "got" /\ got'.t0 = t /\ got'.size = b
        /\ UNCHANGED <<clock, up, newest, smooth, log>>
    BY <1>4, <2>1 DEF GetSamples
  <2>3. got' \in Samples
    BY <1>0, <2>1 DEF Samples, LoopTypeOK
  <2>4. LoopTypeOK'
    BY <1>0, <2>2, <2>3 DEF LoopTypeOK
  <2>5. Clockwork'
    BY <1>0, <2>1, <2>2, RateFacts DEF Clockwork
  <2>6. \A i \in DOMAIN log : log[i] \in Decode
    BY <1>0
  <2>7. ASSUME NEW i \in DOMAIN log
        PROVE  /\ log[i].t0 + log[i].size <= t
               /\ log[i].t0 + log[i].size <= newest' - buffered'
    <3>1. PICK e \in Decode : e = log[i]
      BY <2>6
    <3>2. e.t0 \in Nat /\ e.size \in Nat
      BY DEF Decode
    <3>3. e.t0 + e.size <= t
      BY <1>0, <2>1, <3>1 DEF Logged
    <3> QED BY <1>0, <2>1, <2>2, <3>1, <3>2, <3>3
  <2>8. \A i \in DOMAIN log : WellPlaced(log[i])'
    BY <1>0, <2>2 DEF Logged, WellPlaced, CycleOf, EndOf, TrueStart
  <2>9. Logged'
    BY <1>0, <2>2, <2>7, <2>8 DEF Logged
  <2> QED BY <2>4, <2>5, <2>9
<1>5. CASE SkipCycle
  <2>1. LoopTypeOK' /\ Clockwork'
    BY <1>0, <1>5 DEF SkipCycle, LoopTypeOK, Clockwork
  <2>2. Logged'
    BY <1>0, <1>5, LogKept DEF SkipCycle
  <2> QED BY <2>1, <2>2
<1>6. CASE Work \/ Over \/ UNCHANGED vars
  <2>1. UNCHANGED loop
    BY <1>6 DEF Work, Over, vars
  <2>2. LoopTypeOK' /\ Clockwork'
    BY <1>0, <2>1 DEF loop, LoopTypeOK, Clockwork
  <2>3. Logged'
    BY <1>0, <2>1, LogKept DEF loop
  <2> QED BY <2>2, <2>3
<1>7. CASE DecodeSamples
  <2>1. PICK e : /\ e = [cycle |-> CycleOf(got), nominal |-> NominalStart(got),
                         t0 |-> got.t0, size |-> got.size, smooth |-> smooth]
                 /\ log' = Append(log, e)
    BY <1>7 DEF DecodeSamples
  <2>2. e \in Decode
    BY <1>0, <2>1, CycleOfSamples DEF Decode, LoopTypeOK
  <2>3. e.t0 = got.t0 /\ e.size = got.size /\ WellPlaced(e)
    BY <1>0, <1>7, <2>1, <2>2, CoversPlaced DEF DecodeSamples
  <2>4. PICK n \in Nat : n = Len(log)
    BY <1>0
  <2>5. /\ log' \in Seq(Decode) /\ DOMAIN log = 1 .. n /\ DOMAIN log' = 1 .. n + 1
        /\ log'[n + 1] = e /\ \A i \in 1 .. n : log'[i] = log[i]
    BY <1>0, <2>1, <2>2, <2>4, Appended
  <2>6. pc = "got" /\ pc' = "decode" /\ UNCHANGED <<clock, up, newest, buffered, got, smooth>>
    BY <1>7 DEF DecodeSamples
  <2>7. LoopTypeOK' /\ Clockwork'
    BY <1>0, <2>5, <2>6 DEF LoopTypeOK, Clockwork
  <2>8. \A i \in DOMAIN log' : WellPlaced(log'[i])
    BY <1>0, <2>3, <2>5 DEF Logged
  <2>9. ASSUME NEW i \in DOMAIN log'
        PROVE  log'[i].t0 + log'[i].size <= newest - buffered
    BY <1>0, <2>3, <2>5, <2>6 DEF Logged, Clockwork
  <2>10. ASSUME NEW i \in DOMAIN log', NEW j \in DOMAIN log', i < j
         PROVE  log'[i].t0 + log'[i].size <= log'[j].t0
    BY <1>0, <2>3, <2>5, <2>6, <2>10 DEF Logged
  <2>11. \A i \in DOMAIN log' : WellPlaced(log[i])'
    BY <2>8 DEF WellPlaced, CycleOf, EndOf, TrueStart
  <2>12. Logged'
    BY <2>6, <2>9, <2>10, <2>11 DEF Logged
  <2> QED BY <2>7, <2>12
<1> QED BY <1>1, <1>2, <1>3, <1>4, <1>5, <1>6, <1>7 DEF Next
-------------------------------------------------------------------------------
(* The clockwork of decode_loop() and of go() keeps its times: the inductive *)
(* invariant holds in every state.                                          *)
THEOREM TimingInvariant == Spec => []TimingInv
<1>1. TimingInv /\ [Next]_vars => TimingInv'
  BY GoStays, LoopStep DEF TimingInv
<1> QED BY <1>1, LoopInit, PTL DEF Spec

(* No cycle is decoded twice, whatever the naps, the jitter of the stamps,  *)
(* the outages and the time entry() takes: get() took the samples of the    *)
(* cycle away, and 10.5 seconds of them are needed for another decode.      *)
THEOREM CyclesDecodedOnce == Spec => []OncePerCycle
<1>1. ASSUME TimingInv PROVE OncePerCycle
  <2> SUFFICES ASSUME NEW i \in DOMAIN log, NEW j \in DOMAIN log, i < j
               PROVE  log[i].cycle < log[j].cycle
    BY DEF OncePerCycle
  <2>1. log \in Seq(Decode) /\ Logged
    BY <1>1 DEF TimingInv, LoopTypeOK
  <2>2. PICK a \in Decode, b \in Decode : a = log[i] /\ b = log[j]
    BY <2>1
  <2>3. /\ a.cycle + 10 * Rate + Half < a.t0 + a.size
        /\ a.t0 + a.size <= b.t0 /\ b.t0 < b.cycle + Rate + Half
    BY <2>1, <2>2 DEF Logged, WellPlaced, Sec
  <2>4. a.cycle \in Nat /\ b.cycle \in Nat /\ a.t0 + a.size \in Nat /\ b.t0 \in Nat
    BY DEF Decode
  <2>5. a.cycle < b.cycle
    BY <2>3, <2>4, RateFacts
  <2> QED BY <2>2, <2>5
<1> QED BY <1>1, TimingInvariant, PTL

(* entry() is told where its cycle begins, to less than a second: what the  *)
(* integer division of samples.size() / rate cuts off, and never too early. *)
THEOREM NominalStartNear == Spec => []NominalNear
<1>1. TimingInv => NominalNear
  BY DEF TimingInv, Logged, WellPlaced, NominalNear
<1> QED BY <1>1, TimingInvariant, PTL

(* A decoder thread ends within its budget and one search and one candidate *)
(* per pass, for every number of passes and every budget.                   *)
THEOREM ThreadEndsOnTime == Spec => []EndsOnTime
<1>1. TimingInv => EndsOnTime
  BY EndsInTime DEF TimingInv
<1> QED BY <1>1, TimingInvariant, PTL
-------------------------------------------------------------------------------
(* No cycle is missed if the machine is prompt: a nap is not longer than    *)
(* the window of one second, and the newest sample at most 2.5 seconds old. *)
Prompt ==
  /\ \A n \in Naps : n <= Rate
  /\ \A l \in Lags : 2 * l <= 5 * Rate

Last == log[Len(log)]

(* Samples that end at x are fresh.                                         *)
Fresh(x) == x <= clock /\ 2 * clock <= 2 * x + 5 * Rate

Window ==
  /\ up => Fresh(newest)
  /\ pc \in {"got", "decode"} => InWindow
  /\ pc \in {"got", "decode"} /\ got.up => Fresh(got.t0 + got.size)
  /\ pc = "decode" => log # <<>> /\ Last.cycle = CycleOf(got)

(* After a smooth decode the loop is back before the next window opens, and *)
(* the ring has all of the next cycle.                                      *)
OnSchedule ==
  smooth /\ pc # "decode" =>
    /\ up /\ log # <<>>
    /\ pc = "got" => CoversCycle(got) /\ CycleOf(got) = Last.cycle + Cycle
    /\ pc # "got" => newest - buffered <= Last.cycle + Cycle
    /\ pc = "sleep" => Last.cycle + Sec(14) <= clock /\ clock <= Last.cycle + Sec(26)
    /\ pc = "poll" => Last.cycle + Cycle <= clock /\ clock < Last.cycle + 2 * Cycle

ScheduleInv == Window /\ OnSchedule /\ NoCycleMissed

LEMMA ElapseFresh ==
  ASSUME Prompt, TimingInv, NEW d \in Nat, Elapse(d), up, up' = up
  PROVE  Fresh(newest)'
<1>1. PICK lag \in Nat :
        /\ newest' = IF clock' - lag > newest THEN clock' - lag ELSE newest
        /\ 2 * lag <= 5 * Rate
  BY TimingAssumption DEF Elapse, Prompt
<1>2. clock' \in Nat /\ newest' \in Nat /\ newest' <= clock'
  BY ElapseFacts DEF TimingInv
<1>3. newest \in Nat
  BY DEF TimingInv, LoopTypeOK
<1>4. PICK c \in Nat, n \in Nat, m \in Nat : c = clock' /\ n = newest' /\ m = newest
  BY <1>2, <1>3
<1>a. n = IF c - lag > m THEN c - lag ELSE m
  BY <1>1, <1>4
<1>5. c <= n + lag
  BY <1>a
<1>6. 2 * c <= 2 * n + 5 * Rate
  BY <1>1, <1>5, RateFacts
<1> QED BY <1>2, <1>4, <1>6 DEF Fresh

(* Fresh samples belong to the cycle whose window is open.                  *)
LEMMA FreshCycle ==
  ASSUME NEW g, NEW t \in Nat, NEW s \in Nat, g.t0 = t, g.size = s,
         clock \in Nat, InWindow, Fresh(t + s)
  PROVE  /\ CycleOf(g) = (clock \div Cycle) * Cycle /\ CycleOf(g) \in Nat
         /\ CycleOf(g) + 14 * Rate <= clock /\ clock < CycleOf(g) + Cycle
<1>0. clock \div Cycle \in Nat /\ (clock \div Cycle) * Cycle \in Nat
  BY Division, RateFacts
<1>1. PICK k \in Nat, z \in Nat, c \in Nat : c = clock /\ k = clock \div Cycle /\ z = k * Cycle
  BY <1>0
<1>2. z <= c /\ c < z + Cycle /\ clock % Cycle = c - z
  BY <1>1, CycleContains
<1>3. z + 14 * Rate <= c
  BY <1>1, <1>2, RateFacts DEF InWindow, Sec
<1>4. PICK e \in Nat, m \in 0 .. Rate - 1 : e = EndOf(g) /\ e = t + s - m
  BY EndOfSamples
<1>5. t + s <= c /\ 2 * c <= 2 * (t + s) + 5 * Rate
  BY <1>1 DEF Fresh
<1>6. z <= e /\ e < z + Cycle
  BY <1>2, <1>3, <1>4, <1>5, RateFacts
<1>7. e \div Cycle = k
  BY <1>1, <1>6, SameCycle
<1> QED BY <1>1, <1>2, <1>3, <1>4, <1>7 DEF CycleOf

(* Fresh samples that begin before the cycle cover it.                      *)
LEMMA FreshCovers ==
  ASSUME NEW g, NEW t \in Nat, NEW s \in Nat, g.t0 = t, g.size = s, clock \in Nat,
         Fresh(t + s), CycleOf(g) + 14 * Rate <= clock, t <= CycleOf(g)
  PROVE  CoversCycle(g)
<1>1. CycleOf(g) \in Nat /\ NominalStart(g) = CycleOf(g) + Half - t + (s % Rate)
  BY CycleOfSamples
<1>2. PICK z \in Nat, m \in 0 .. Rate - 1 : z = CycleOf(g) /\ m = s % Rate
  BY <1>1, EndOfSamples
<1>3. 2 * clock <= 2 * (t + s) + 5 * Rate
  BY DEF Fresh
<1>4. NominalStart(g) = z + Half - t + m
  BY <1>1, <1>2
<1>5. z + Half - t + m >= 0 /\ z + Half - t + m + 10 * Rate < s
  BY <1>2, <1>3, RateFacts
<1> QED BY <1>4, <1>5 DEF CoversCycle, Sec

(* What a decode was given is known again from what is logged of it.        *)
LEMMA LastFacts ==
  ASSUME TimingInv, log # <<>>
  PROVE  /\ Len(log) \in DOMAIN log /\ Last \in Decode /\ Last.cycle \in Nat
         /\ \E k \in Nat : Last.cycle = k * Cycle
<1>1. log \in Seq(Decode) /\ Len(log) \in DOMAIN log
  BY DEF TimingInv, LoopTypeOK
<1>2. Last \in Decode /\ Last.cycle \in Nat
  <2>1. Last \in Decode
    BY <1>1 DEF Last
  <2> QED BY <2>1 DEF Decode
<1>3. PICK t \in Nat, s \in Nat : t = Last.t0 /\ s = Last.size
  BY <1>2 DEF Decode
<1>4. Last.cycle = (EndOf(Last) \div Cycle) * Cycle
  BY <1>1 DEF TimingInv, Logged, WellPlaced, CycleOf, Last
<1>5. EndOf(Last) \in Nat
  BY <1>3, EndOfSamples
<1>6. EndOf(Last) \div Cycle \in Nat
  BY <1>5, RateFacts, Division
<1> QED BY <1>1, <1>2, <1>4, <1>6

LEMMA ScheduleInit == Init => ScheduleInv
BY RateFacts DEF Init, ScheduleInv, Window, OnSchedule, NoCycleMissed, Fresh

(* The steps while the main thread sleeps.                                  *)
LEMMA ElapseOnTime ==
  ASSUME Prompt, TimingInv, ScheduleInv, NEW d \in Nat, Elapse(d),
         pc # "got", pc' \in {"poll", "sleep"}, up' = up, log' = log, got' = got,
         smooth' => /\ up /\ log # <<>> /\ Last.cycle \in Nat
                    /\ newest - buffered <= Last.cycle + Cycle
                    /\ clock' < Last.cycle + 2 * Cycle
                    /\ pc' = "sleep" => Last.cycle + Sec(14) <= clock' /\ clock' <= Last.cycle + Sec(26)
                    /\ pc' = "poll" => Last.cycle + Cycle <= clock'
  PROVE  ScheduleInv'
<1>1. up' => Fresh(newest)'
  BY ElapseFresh
<1>2. Window'
  BY <1>1 DEF Window
<1>3. NoCycleMissed'
  BY DEF ScheduleInv, NoCycleMissed
<1>4. ASSUME smooth' PROVE newest' - buffered' <= Last.cycle + Cycle
  <2>1. /\ newest' \in Nat /\ newest' <= clock' /\ buffered' \in Nat /\ clock' \in Nat
        /\ newest' - buffered' <= newest - buffered \/ newest' - buffered' <= newest' - Cycle
    BY ElapseFacts DEF TimingInv
  <2>2. newest \in Nat /\ buffered \in Nat /\ Last.cycle \in Nat
    BY <1>4 DEF TimingInv, LoopTypeOK
  <2>3. PICK n \in Nat, b \in Nat, m \in Nat, y \in Nat, c \in Nat, z \in Nat :
          /\ n = newest /\ b = buffered /\ m = newest' /\ y = buffered'
          /\ c = clock' /\ z = Last.cycle
    BY <2>1, <2>2
  <2>4. m - y <= n - b \/ m - y <= m - Cycle
    BY <2>1, <2>3
  <2>5. m <= c /\ c < z + 2 * Cycle /\ n - b <= z + Cycle
    BY <1>4, <2>1, <2>3
  <2>a. PICK r \in Nat : r = Cycle
    BY RateFacts
  <2>6. m - y <= z + r
    BY <2>4, <2>5, <2>a
  <2> QED BY <2>3, <2>6, <2>a
<1>5. OnSchedule'
  BY <1>4 DEF OnSchedule, Last
<1> QED BY <1>2, <1>3, <1>5 DEF ScheduleInv

LEMMA ScheduleStep ==
  ASSUME Prompt, TimingInv, TimingInv', ScheduleInv, [Next]_vars
  PROVE  ScheduleInv'
<1>0. /\ Window /\ OnSchedule /\ NoCycleMissed /\ LoopTypeOK /\ Clockwork
      /\ clock \in Nat /\ newest \in Nat /\ buffered \in Nat /\ log \in Seq(Decode)
      /\ newest <= clock /\ buffered <= newest
  BY DEF TimingInv, ScheduleInv, LoopTypeOK, Clockwork
<1>1. CASE SourceDown
  <2>1. up' = FALSE /\ smooth' = FALSE
        /\ UNCHANGED <<clock, pc, newest, buffered, got, log>>
    BY <1>1 DEF SourceDown
  <2>2. Window'
    BY <1>0, <2>1 DEF Window, InWindow, Fresh, Last, CycleOf, EndOf
  <2>3. OnSchedule' /\ NoCycleMissed'
    BY <1>0, <2>1 DEF OnSchedule, NoCycleMissed
  <2> QED BY <2>2, <2>3 DEF ScheduleInv
<1>2. CASE SourceUp
  <2>1. /\ ~up /\ newest' = clock /\ pc # "decode"
        /\ UNCHANGED <<clock, pc, buffered, got, smooth, log>>
    BY <1>2 DEF SourceUp
  <2>2. 2 * clock <= 2 * clock + 5 * Rate
    BY <1>0, RateFacts
  <2>3. Window'
    BY <1>0, <2>1, <2>2 DEF Window, InWindow, Fresh
  <2>4. OnSchedule' /\ NoCycleMissed'
    BY <1>0, <2>1 DEF OnSchedule, NoCycleMissed
  <2> QED BY <2>3, <2>4 DEF ScheduleInv
<1>3. CASE Nap
  <2>1. PICK d \in Nat : Elapse(d) /\ d <= Rate
    BY <1>3, TimingAssumption DEF Nap, Prompt
  <2>2. pc = "poll" /\ pc' = "poll" /\ up' = up /\ log' = log /\ got' = got /\ smooth' = smooth
    BY <1>3 DEF Nap
  <2>3. ASSUME smooth
        PROVE  /\ up /\ log # <<>> /\ Last.cycle \in Nat
               /\ newest - buffered <= Last.cycle + Cycle
               /\ clock' < Last.cycle + 2 * Cycle /\ Last.cycle + Cycle <= clock'
    <3>1. /\ up /\ log # <<>> /\ newest - buffered <= Last.cycle + Cycle
          /\ Last.cycle + Cycle <= clock /\ clock < Last.cycle + 2 * Cycle
      BY <1>0, <2>2, <2>3 DEF OnSchedule
    <3>2. PICK k \in Nat, z \in Nat : Last.cycle = z /\ z = k * Cycle
      BY <3>1, LastFacts
    <3>3. clock \div Cycle = k + 1
      <4>1. (k + 1) * Cycle = z + Cycle
        BY <3>2, NextCycle
      <4>2. (k + 1) * Cycle <= clock /\ clock < (k + 1) * Cycle + Cycle
        BY <1>0, <3>1, <3>2, <4>1, RateFacts
      <4> QED BY <1>0, <4>2, SameCycle
    <3>4. clock % Cycle = clock - (z + Cycle)
      BY <1>0, <3>2, <3>3, CycleContains, NextCycle
    <3>5. clock - (z + Cycle) < 14 * Rate
      BY <1>0, <1>3, <3>2, <3>4, RateFacts DEF Nap, InWindow, Sec
    <3>6. clock' = clock + d
      BY <1>0, <2>1, ElapseFacts DEF TimingInv
    <3>7. clock + d < z + 2 * Cycle /\ z + Cycle <= clock + d
      BY <1>0, <2>1, <3>1, <3>2, <3>5, RateFacts
    <3> QED BY <3>1, <3>2, <3>6, <3>7
  <2> QED BY <2>1, <2>2, <2>3, ElapseOnTime
<1>4. CASE Rest
  <2>1. PICK n \in Nat : Elapse(Sec(2) + n) /\ n <= Rate
    BY <1>4, TimingAssumption DEF Rest, Prompt
  <2>2. PICK d \in Nat : d = Sec(2) + n /\ Elapse(d) /\ d = 2 * Rate + n
    BY <2>1, RateFacts DEF Sec
  <2>3. pc = "sleep" /\ pc' = "poll" /\ up' = up /\ log' = log /\ got' = got /\ smooth' = smooth
    BY <1>4 DEF Rest
  <2>4. ASSUME smooth
        PROVE  /\ up /\ log # <<>> /\ Last.cycle \in Nat
               /\ newest - buffered <= Last.cycle + Cycle
               /\ clock' < Last.cycle + 2 * Cycle /\ Last.cycle + Cycle <= clock'
    <3>1. /\ up /\ log # <<>> /\ newest - buffered <= Last.cycle + Cycle
          /\ Last.cycle + 14 * Rate <= clock /\ clock <= Last.cycle + 26 * Rate
      BY <1>0, <2>3, <2>4 DEF OnSchedule, Sec
    <3>2. PICK z \in Nat : z = Last.cycle
      BY <3>1, LastFacts
    <3>3. clock' = clock + d
      BY <1>0, <2>2, ElapseFacts DEF TimingInv
    <3>a. PICK r \in Nat \ {0}, c \in Nat : r = Rate /\ c = clock /\ Cycle = 15 * r
      BY <1>0, RateFacts
    <3>b. z + 14 * r <= c /\ c <= z + 26 * r /\ d = 2 * r + n /\ n <= r /\ n \in Nat
      BY <2>1, <2>2, <3>1, <3>2, <3>a, TimingAssumption
    <3>c. c + d < z + 2 * (15 * r) /\ z + 15 * r <= c + d
      BY <3>a, <3>b
    <3>4. clock + d < z + 2 * Cycle /\ z + Cycle <= clock + d
      BY <3>a, <3>c
    <3> QED BY <3>1, <3>2, <3>3, <3>4
  <2> QED BY <2>2, <2>3, <2>4, ElapseOnTime
<1>5. CASE DecodeReturns
  <2>1. PICK x \in Slow : /\ Elapse(spent + x)
                          /\ smooth' = (got.up /\ up /\ spent + x <= Sec(11))
    BY <1>5 DEF DecodeReturns
  <2>2. PICK d \in Nat : d = spent + x /\ Elapse(d)
    BY <2>1, TimingAssumption DEF TimingInv, GoTypeOK
  <2>3. pc = "decode" /\ pc' = "sleep" /\ up' = up /\ log' = log /\ got' = got
    BY <1>5 DEF DecodeReturns
  <2>4. ASSUME smooth'
        PROVE  /\ up /\ log # <<>> /\ Last.cycle \in Nat
               /\ newest - buffered <= Last.cycle + Cycle
               /\ clock' < Last.cycle + 2 * Cycle
               /\ Last.cycle + Sec(14) <= clock' /\ clock' <= Last.cycle + Sec(26)
    <3>1. got.up /\ up /\ d <= 11 * Rate
      BY <2>1, <2>2, <2>4 DEF Sec
    <3>2. InWindow /\ Fresh(got.t0 + got.size) /\ log # <<>> /\ Last.cycle = CycleOf(got)
      BY <1>0, <2>3, <3>1 DEF Window
    <3>3. PICK t \in Nat, s \in Nat : t = got.t0 /\ s = got.size
      BY <1>0 DEF LoopTypeOK, Samples
    <3>4. CycleOf(got) \in Nat /\ CycleOf(got) + 14 * Rate <= clock /\ clock < CycleOf(got) + Cycle
      BY <1>0, <3>2, <3>3, FreshCycle
    <3>5. PICK z \in Nat : z = Last.cycle /\ z + 14 * Rate <= clock /\ clock < z + Cycle
      BY <3>2, <3>4
    <3>6. clock' = clock + d
      BY <1>0, <2>2, ElapseFacts DEF TimingInv
    <3>7. /\ newest - buffered <= z + Cycle /\ clock + d < z + 2 * Cycle
          /\ z + 14 * Rate <= clock + d /\ clock + d <= z + 26 * Rate
      BY <1>0, <2>2, <3>1, <3>5, RateFacts
    <3> QED BY <3>1, <3>2, <3>5, <3>6, <3>7 DEF Sec
  <2> QED BY <2>2, <2>3, <2>4, ElapseOnTime
<1>6. CASE GetSamples
  <2>1. PICK t \in Nat, b \in Nat :
          /\ t = newest - buffered /\ b = buffered /\ t + b = newest
          /\ got' = [t0 |-> t, size |-> b, up |-> up]
    BY <1>0, <1>6 DEF GetSamples
  <2>2. /\ pc = "poll" /\ InWindow /\ pc' = "got" /\ got'.t0 = t /\ got'.size = b /\ got'.up = up
        /\ UNCHANGED <<clock, up, newest, smooth, log>>
    BY <1>6, <2>1 DEF GetSamples
  <2>3. Window'
    BY <1>0, <2>1, <2>2 DEF Window, InWindow, Fresh
  <2>4. NoCycleMissed'
    BY <1>0, <2>2 DEF NoCycleMissed
  <2>5. ASSUME smooth
        PROVE  up /\ log # <<>> /\ CoversCycle(got') /\ CycleOf(got') = Last.cycle + Cycle
    <3>1. /\ up /\ log # <<>> /\ t <= Last.cycle + Cycle
          /\ Last.cycle + Cycle <= clock /\ clock < Last.cycle + 2 * Cycle
      BY <1>0, <2>1, <2>2, <2>5 DEF OnSchedule
    <3>2. PICK k \in Nat, z \in Nat : Last.cycle = z /\ z = k * Cycle
      BY <3>1, LastFacts
    <3>3. (k + 1) * Cycle = z + Cycle
      BY <3>2, NextCycle
    <3>4. clock \div Cycle = k + 1
      <4>1. (k + 1) * Cycle <= clock /\ clock < (k + 1) * Cycle + Cycle
        BY <1>0, <3>1, <3>2, <3>3, RateFacts
      <4> QED BY <1>0, <4>1, SameCycle
    <3>5. Fresh(t + b)
      BY <1>0, <2>1, <3>1 DEF Window
    <3>6. PICK g : g = got' /\ g.t0 = t /\ g.size = b
      BY <2>2
    <3>7. CycleOf(g) = (clock \div Cycle) * Cycle /\ CycleOf(g) + 14 * Rate <= clock
      BY <1>0, <2>2, <3>5, <3>6, FreshCycle
    <3>8. CycleOf(g) = z + Cycle /\ t <= CycleOf(g)
      BY <3>1, <3>2, <3>3, <3>4, <3>7
    <3>9. CoversCycle(g)
      BY <1>0, <3>5, <3>6, <3>7, <3>8, FreshCovers
    <3> QED BY <3>1, <3>2, <3>6, <3>8, <3>9
  <2>6. OnSchedule'
    <3>1. CoversCycle(got)' = CoversCycle(got') /\ CycleOf(got)' = CycleOf(got')
      BY DEF CoversCycle, NominalStart, CycleOf, EndOf
    <3> QED BY <2>2, <2>5, <3>1 DEF OnSchedule, Last
  <2> QED BY <2>3, <2>4, <2>6 DEF ScheduleInv
<1>7. CASE SkipCycle
  <2>1. /\ pc = "got" /\ ~CoversCycle(got) /\ pc' = "sleep"
        /\ UNCHANGED <<clock, up, newest, buffered, got, smooth, log>>
    BY <1>7 DEF SkipCycle
  <2>2. ~smooth
    BY <1>0, <2>1 DEF OnSchedule
  <2> QED BY <1>0, <2>1, <2>2 DEF ScheduleInv, Window, OnSchedule, NoCycleMissed, Fresh
<1>8. CASE DecodeSamples
  <2>1. PICK e : /\ e = [cycle |-> CycleOf(got), nominal |-> NominalStart(got),
                         t0 |-> got.t0, size |-> got.size, smooth |-> smooth]
                 /\ log' = Append(log, e)
    BY <1>8 DEF DecodeSamples
  <2>2. e \in Decode /\ e.cycle = CycleOf(got) /\ e.smooth = smooth
    BY <1>0, <2>1, CycleOfSamples DEF Decode, LoopTypeOK, Samples
  <2>3. PICK n \in Nat : n = Len(log)
    BY <1>0
  <2>4. /\ log' \in Seq(Decode) /\ DOMAIN log = 1 .. n /\ DOMAIN log' = 1 .. n + 1
        /\ Len(log') = n + 1
        /\ log'[n + 1] = e /\ \A i \in 1 .. n : log'[i] = log[i]
    BY <1>0, <2>1, <2>2, <2>3, Appended
  <2>5. pc = "got" /\ pc' = "decode" /\ UNCHANGED <<clock, up, newest, buffered, got, smooth>>
    BY <1>8 DEF DecodeSamples
  <2>6. Window'
    <3>1. log' # <<>> /\ Last' = e
      BY <2>3, <2>4 DEF Last
    <3>2. CycleOf(got)' = CycleOf(got)
      BY <2>5 DEF CycleOf, EndOf
    <3> QED BY <1>0, <2>2, <2>5, <3>1, <3>2 DEF Window, InWindow, Fresh
  <2>7. OnSchedule'
    BY <2>5 DEF OnSchedule
  <2>8. ASSUME NEW i \in DOMAIN log', i > 1 /\ log'[i].smooth
        PROVE  log'[i].cycle = log'[i-1].cycle + Cycle
    <3>1. CASE i \in 1 .. n
      BY <1>0, <2>3, <2>4, <2>8, <3>1 DEF NoCycleMissed
    <3>2. CASE i = n + 1
      <4>1. smooth /\ n > 0
        BY <2>2, <2>3, <2>4, <2>8, <3>2
      <4>2. CycleOf(got) = log[n].cycle + Cycle
        BY <1>0, <2>3, <2>5, <4>1 DEF OnSchedule, Last
      <4> QED BY <2>2, <2>3, <2>4, <3>2, <4>1, <4>2
    <3> QED BY <2>3, <2>4, <3>1, <3>2
  <2>9. NoCycleMissed'
    BY <2>8 DEF NoCycleMissed
  <2> QED BY <2>6, <2>7, <2>9 DEF ScheduleInv
<1>9. CASE Work \/ Over \/ UNCHANGED vars
  <2>1. UNCHANGED loop
    BY <1>9 DEF Work, Over, vars
  <2>2. Window'
    BY <1>0, <2>1 DEF loop, Window, InWindow, Fresh, Last, CycleOf, EndOf
  <2>3. OnSchedule'
    BY <1>0, <2>1 DEF loop, OnSchedule, Last, CycleOf, EndOf, CoversCycle, NominalStart
  <2>4. NoCycleMissed'
    BY <1>0, <2>1 DEF loop, NoCycleMissed
  <2> QED BY <2>2, <2>3, <2>4 DEF ScheduleInv
<1> QED BY <1>1, <1>2, <1>3, <1>4, <1>5, <1>6, <1>7, <1>8, <1>9 DEF Next

(* On a prompt machine no cycle is left out between two decodes, as long as *)
(* the source stays up and entry() takes at most 11 seconds.                *)
THEOREM EveryCycleDecoded ==
  ASSUME Prompt
  PROVE  Spec => []NoCycleMissed
<1>1. Init => ScheduleInv
  BY ScheduleInit
<1>2. TimingInv /\ TimingInv' /\ ScheduleInv /\ [Next]_vars => ScheduleInv'
  BY ScheduleStep
<1>3. ScheduleInv => NoCycleMissed
  BY DEF ScheduleInv
<1> QED BY <1>1, <1>2, <1>3, TimingInvariant, PTL DEF Spec
-------------------------------------------------------------------------------
(* The shares of the budget are fair if no search for candidates takes      *)
(* longer than the share of a pass and a candidate.                         *)
SearchesFit == Longest(Searches) <= (Budget \div Passes) + Longest(Tries)

(* x is within q shares and k candidates.                                   *)
Within(x, q, k) == Passes * (x - k * Longest(Tries)) <= q * Budget

Shared ==
  /\ step = "try" /\ decodes => tried
  /\ ~starved /\ step = "pass" /\ pass < Passes => Within(spent, pass, pass)
  /\ ~starved /\ step = "try" /\ pass < Passes - 1 =>
       Within(deadline, pass + 1, pass) /\ Within(spent, pass + 1, pass + 1)

LEMMA MulMono ==
  ASSUME NEW n \in Nat, NEW a \in Int, NEW b \in Int, a <= b
  PROVE  n * a <= n * b /\ n * a \in Int /\ n * b \in Int
OBVIOUS

LEMMA MulCancel ==
  ASSUME NEW k \in Nat \ {0}, NEW a \in Int, NEW b \in Int, k * a <= k * b
  PROVE  a <= b
<1> SUFFICES ASSUME b + 1 <= a PROVE FALSE
  OBVIOUS
<1>1. k * (b + 1) <= k * a
  BY MulMono
<1>2. k * (b + 1) = k * b + k
  OBVIOUS
<1>3. k * a \in Int /\ k * b \in Int
  OBVIOUS
<1> QED BY <1>1, <1>2, <1>3

LEMMA DivBelow ==
  ASSUME NEW n \in Nat \ {0}, NEW a \in Int
  PROVE  a \div n \in Int /\ n * (a \div n) <= a
OBVIOUS

LEMMA DivLargest ==
  ASSUME NEW n \in Nat \ {0}, NEW a \in Int, NEW x \in Int, n * x <= a
  PROVE  x <= a \div n
<1>1. a \div n \in Int /\ a < n * ((a \div n) + 1)
  OBVIOUS
<1>2. PICK q \in Int : q = a \div n
  BY <1>1
<1> SUFFICES ASSUME q + 1 <= x PROVE FALSE
  BY <1>2
<1>3. n * (q + 1) <= n * x /\ n * (q + 1) \in Int /\ n * x \in Int
  BY MulMono
<1> QED BY <1>1, <1>2, <1>3

(* A pass that begins in time has a deadline in time.                       *)
LEMMA ShareFair ==
  ASSUME NEW n \in Nat \ {0}, NEW p \in Nat, p < n, NEW b \in Nat, NEW s \in Nat,
         NEW w \in Nat, n * (s - w) <= p * b
  PROVE  n * (s + ((b - s) \div (n - p)) - w) <= (p + 1) * b
<1>1. PICK k \in Nat \ {0} : k = n - p
  OBVIOUS
<1>2. PICK q \in Int : q = (b - s) \div k /\ k * q <= b - s
  BY DivBelow
<1>3. PICK x \in Int : x = s - w
  OBVIOUS
<1>4. PICK a \in Int, c \in Nat : a = n * x /\ c = p * b /\ a <= c
  BY <1>3
<1>5. (k - 1) * a <= (k - 1) * c /\ (k - 1) * a \in Int /\ (k - 1) * c \in Int
  BY <1>4, MulMono
<1>6. n * (k * q) <= n * (b - s) /\ n * (k * q) \in Int /\ n * (b - s) \in Int
  BY <1>2, MulMono
<1>7. k * (n * (x + q)) = k * a + n * (k * q)
  BY <1>4
<1>8. k * a = (k - 1) * a + a /\ k * a \in Int
  BY <1>4
<1>9. n * (b - s) = n * b - (a + n * w) /\ n * w \in Nat /\ n * b \in Nat
  <2>1. s = x + w
    BY <1>3
  <2>2. n * (b - (x + w)) = n * b - (n * x + n * w)
    OBVIOUS
  <2> QED BY <1>4, <2>1, <2>2
<1>10. k * (n * (x + q)) <= (k - 1) * c + n * b
  BY <1>4, <1>5, <1>6, <1>7, <1>8, <1>9
<1>11. (k - 1) * c + n * b = k * ((p + 1) * b)
  <2>1. n = k + p
    BY <1>1
  <2>2. (k - 1) * (p * b) + (k + p) * b = k * ((p + 1) * b)
    OBVIOUS
  <2> QED BY <1>4, <2>1, <2>2
<1>12. n * (x + q) \in Int /\ (p + 1) * b \in Int
  OBVIOUS
<1>13. n * (x + q) <= (p + 1) * b
  BY <1>10, <1>11, <1>12, MulCancel
<1>14. s + q - w = x + q
  BY <1>3
<1> QED BY <1>1, <1>2, <1>13, <1>14

LEMMA SharedInit ==
  ASSUME spent = 0, pass = 0, step = "pass", decodes = FALSE
  PROVE  Shared
<1>1. 0 * Longest(Tries) = 0 /\ 0 * Budget = 0 /\ Passes * (0 - 0) = 0
  BY BudgetAssumption, OverheadFacts
<1> QED BY <1>1 DEF Shared, Within

LEMMA SharedStep ==
  ASSUME SearchesFit, GoTypeOK, Shared, GoNext \/ GoStart \/ UNCHANGED goVars
  PROVE  Shared'
<1>1. PICK n \in Nat \ {0}, b \in Nat, t \in Nat, p \in Nat, s \in Nat, d \in Int :
        /\ n = Passes /\ b = Budget /\ t = Longest(Tries)
        /\ p = pass /\ s = spent /\ d = deadline
  BY BudgetAssumption, OverheadFacts DEF GoTypeOK
<1>2. CASE StartPass
  <2>1. PICK e \in Nat : e \in Searches /\ spent' = s + e
    BY <1>1, <1>2, BudgetAssumption DEF StartPass
  <2>2. step = "pass" /\ p < n /\ step' = "try" /\ pass' = pass /\ decodes' = FALSE
        /\ starved' = starved /\ deadline' = spent + Share
    BY <1>1, <1>2 DEF StartPass
  <2>3. ASSUME ~starved
        PROVE  Within(deadline', p + 1, p) /\ Within(spent', p + 1, p + 1)
    <3>1. PICK w \in Nat : w = p * t
      BY <1>1
    <3>2. n * (s - w) <= p * b
      BY <1>1, <2>2, <2>3, <3>1 DEF Shared, Within
    <3>3. PICK h \in Int : h = (b - s) \div (n - p)
      BY <1>1, <2>2, DivBelow
    <3>4. n * (s + h - w) <= (p + 1) * b
      BY <1>1, <2>2, <3>1, <3>2, <3>3, ShareFair
    <3>5. deadline' = s + h
      BY <1>1, <2>2, <3>3 DEF Share
    <3>6. (s + h) - w = s + h - w
      BY <3>3
    <3>7. Within(deadline', p + 1, p)
      BY <1>1, <3>1, <3>4, <3>5, <3>6 DEF Within
    <3>8. PICK q \in Int : q = b \div n /\ n * q <= b
      BY DivBelow
    <3>9. e <= q + t
      BY <1>1, <2>1, <3>8, OverheadFacts DEF SearchesFit
    <3>10. n * (s - w + (e - t)) <= (p + 1) * b
      <4>1. n * (e - t) <= n * q
        BY <3>8, <3>9, MulMono
      <4>2. n * (s - w + (e - t)) = n * (s - w) + n * (e - t)
        BY <3>1
      <4>3. (p + 1) * b = p * b + b /\ p * b \in Nat
        OBVIOUS
      <4>4. n * (s - w) \in Int /\ n * (e - t) \in Int /\ n * q \in Int
        BY <3>1, <3>8
      <4> QED BY <3>2, <3>8, <4>1, <4>2, <4>3, <4>4
    <3>11. (p + 1) * t = w + t
      BY <3>1
    <3>12. (s + e) - (w + t) = s - w + (e - t)
      BY <3>1
    <3>13. Within(spent', p + 1, p + 1)
      BY <1>1, <2>1, <3>10, <3>11, <3>12 DEF Within
    <3> QED BY <3>7, <3>13
  <2>4. Within(deadline', p + 1, p) = Within(deadline, pass + 1, pass)'
        /\ Within(spent', p + 1, p + 1) = Within(spent, pass + 1, pass + 1)'
    BY <1>1, <2>2 DEF Within
  <2> QED BY <2>2, <2>3, <2>4 DEF Shared
<1>3. CASE TryCandidate
  <2>1. PICK e \in Nat : e <= t /\ spent' = s + e
    BY <1>1, <1>3, OverheadFacts DEF TryCandidate
  <2>2. /\ step = "try" /\ step' = "try" /\ tried' = TRUE /\ pass' = pass /\ deadline' = deadline
        /\ ~TimeIsUp
    BY <1>3 DEF TryCandidate
  <2>a. ~starved' => ~starved /\ (~(spent > deadline) \/ decodes)
    BY <1>3, Zenon DEF TryCandidate
  <2>3. ASSUME ~starved', p < n - 1
        PROVE  Within(deadline', p + 1, p) /\ Within(spent', p + 1, p + 1)
    <3>1. s <= d
      <4>1. s <= d \/ decodes
        BY <1>1, <2>a, <2>3
      <4>2. decodes => tried
        BY <2>2 DEF Shared
      <4> QED BY <1>1, <2>2, <2>3, <4>1, <4>2 DEF TimeIsUp
    <3>2. PICK w \in Nat : w = p * t
      BY <1>1
    <3>3. n * (d - w) <= (p + 1) * b
      BY <1>1, <2>2, <2>a, <2>3, <3>2 DEF Shared, Within
    <3>4. n * ((s + e) - (w + t)) <= n * (d - w)
      BY <2>1, <3>1, <3>2, MulMono
    <3>5. (p + 1) * t = w + t
      BY <3>2
    <3>6. n * ((s + e) - (w + t)) <= (p + 1) * b
      <4>1. /\ n * ((s + e) - (w + t)) \in Int /\ n * (d - w) \in Int /\ (p + 1) * b \in Int
        BY <2>1, <3>2
      <4> QED BY <3>3, <3>4, <4>1
    <3> QED BY <1>1, <2>1, <2>2, <3>2, <3>3, <3>5, <3>6 DEF Within
  <2>4. Within(deadline', p + 1, p) = Within(deadline, pass + 1, pass)'
        /\ Within(spent', p + 1, p + 1) = Within(spent, pass + 1, pass + 1)'
    BY <1>1, <2>2 DEF Within
  <2> QED BY <1>1, <2>2, <2>3, <2>4 DEF Shared
<1>4. CASE EndPass
  <2>1. step = "try" /\ step' = "pass" /\ pass' = pass + 1 /\ spent' = spent /\ starved' = starved
    BY <1>4 DEF EndPass
  <2>2. Within(spent, pass, pass)' = Within(spent, pass + 1, pass + 1)
    BY <2>1 DEF Within
  <2>3. pass' < Passes => pass < Passes - 1
    BY <1>1, <2>1
  <2> QED BY <2>1, <2>2, <2>3 DEF Shared
<1>5. CASE GoStart
  <2>1. spent' = 0 /\ pass' = 0 /\ step' = "pass" /\ decodes' = FALSE
    BY <1>5 DEF GoStart
  <2>2. 0 * Longest(Tries) = 0 /\ 0 * Budget = 0 /\ Passes * (0 - 0) = 0
    BY BudgetAssumption, OverheadFacts
  <2> QED BY <2>1, <2>2 DEF Shared, Within
<1>6. CASE UNCHANGED goVars
  BY <1>6 DEF goVars, Shared, Within
<1> QED BY <1>2, <1>3, <1>4, <1>5, <1>6 DEF GoNext

(* Later passes have their time: unless a pass went on past its deadline    *)
(* for want of a decode, the next one begins when its part of the budget    *)
(* does, but for a candidate per pass.                                      *)
THEOREM PassesShareTheBudget ==
  ASSUME SearchesFit
  PROVE  Spec => []LaterPassesHaveTime
<1>1. Init => Shared
  BY SharedInit DEF Init, GoInit
<1>2. TimingInv /\ Shared /\ [Next]_vars => Shared'
  <2> SUFFICES ASSUME TimingInv, Shared, [Next]_vars PROVE Shared'
    OBVIOUS
  <2>1. GoNext \/ GoStart \/ UNCHANGED goVars
    BY DEF Next, SourceDown, SourceUp, Nap, GetSamples, SkipCycle, DecodeSamples, Work,
           DecodeReturns, Rest, Over, vars
  <2> QED BY <2>1, SharedStep DEF TimingInv
<1>3. TimingInv /\ Shared => LaterPassesHaveTime
  <2> SUFFICES ASSUME TimingInv, Shared, step = "pass", pass < Passes, ~starved
               PROVE  spent <= ((pass * Budget) \div Passes) + pass * Longest(Tries)
    BY DEF LaterPassesHaveTime
  <2>1. PICK n \in Nat \ {0}, b \in Nat, t \in Nat, p \in Nat, s \in Nat :
          n = Passes /\ b = Budget /\ t = Longest(Tries) /\ p = pass /\ s = spent
    BY BudgetAssumption, OverheadFacts DEF TimingInv, GoTypeOK
  <2>2. PICK w \in Nat, c \in Nat : w = p * t /\ c = p * b
    BY <2>1
  <2>3. n * (s - w) <= c
    BY <2>1, <2>2 DEF Shared, Within
  <2>4. s - w <= c \div n /\ c \div n \in Int
    BY <2>2, <2>3, DivLargest, DivBelow
  <2>5. s <= (c \div n) + w
    BY <2>2, <2>4
  <2> QED BY <2>1, <2>2, <2>5
<1> QED BY <1>1, <1>2, <1>3, TimingInvariant, PTL DEF Spec
===============================================================================
