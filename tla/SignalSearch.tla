------------------------------ MODULE SignalSearch -----------------------------
(***************************************************************************)
(* Where a decoder thread (ft8.cc) looks for a signal.  entry() gives each *)
(* thread a band.  go() reduces the rate and moves the band down, pads the *)
(* samples, and searches a coarse grid.  A candidate is moved down to      *)
(* 25 Hz at 200 samples a second, searched for on a finer grid, adjusted,  *)
(* searched for again at the thread's rate, reported, and subtracted.      *)
(* The model keeps frequencies, offsets, rates and lengths, and every      *)
(* index into an array that is computed from them.  What the search finds  *)
(* is open: it is the first or the last of the positions that are tried,   *)
(* as all the indices grow with the position.                              *)
(*                                                                         *)
(* Frequencies are in units of 1/240 Hz, which makes every one that the    *)
(* program computes an integer.                                            *)
(***************************************************************************)
EXTENDS Integers, Sequences

CONSTANTS
  Inputs,   (* a set of <<rate, number of samples, start>>                   *)
  NThreads, (* nthreads: 4 in ft8mon                                        *)
  MinHz, MaxHz (* what ft8mon.cc calls entry() with, in Hz                   *)

VARIABLES
  stage,    (* the step that is next                                         *)
  input,    (* the input's rate, length and start                            *)
  thread,   (* number of the thread                                          *)
  lo, hi,   (* min_hz_ and max_hz_                                           *)
  rate,     (* rate_                                                         *)
  size,     (* samples_.size()                                               *)
  start,    (* start_                                                        *)
  down,     (* down_hz_                                                      *)
  cand,     (* the candidate of the coarse search: hz and off                *)
  best,     (* best_hz and best_off, at 200 samples a second up to "known",  *)
            (* then at rate                                                  *)
  report,   (* what the callback gets                                        *)
  touched,  (* the indices of the last step, each with the array's size      *)
  held,     (* FALSE when an assertion has failed                            *)
  moved     (* history: how far the spectrum has really been moved           *)

pos  == <<cand, best, report>>
band == <<input, thread, lo, hi, rate, size, start, down, moved>>
searchVars == <<stage, band, pos, touched, held>>

Hz(x) == 240 * x
Bin   == 1500                   (* 6.25 Hz                                   *)

(* C's conversions: round half away from zero, and truncate.                *)
RoundDiv(a, b) == IF a >= 0 THEN (2*a + b) \div (2*b) ELSE -((b - 2*a) \div (2*b))
TruncDiv(a, b) == IF a >= 0 THEN a \div b ELSE -((-a) \div b)

Larger(a, b)  == IF a > b THEN a ELSE b
Smaller(a, b) == IF a < b THEN a ELSE b

Block(r) == (16 * r) \div 100   (* blocksize()                               *)
-------------------------------------------------------------------------------
(* entry(): the part of thread i.                                           *)

Top(r) == Smaller(Hz(MaxHz), Hz(r \div 2))
Per(r) == (Top(r) - Hz(MinHz)) \div NThreads

(* Mutant: the parts do not overlap.                                        *)
BandOfNoOverlap(i, r) ==
  << Hz(MinHz) + i * Per(r), Smaller(Hz(MinHz) + (i + 1) * Per(r), 120 * r - Hz(50)) >>

BandOf(i, r) ==
  << Larger(0, Hz(MinHz) + i * Per(r) - (IF i > 0 THEN Hz(20) ELSE 0)),
     Smaller(Hz(MinHz) + (i + 1) * Per(r) + (IF i # NThreads - 1 THEN Hz(20) ELSE 0),
             120 * r - Hz(50)) >>

(* go(): a length that is near a nice one is made that.                     *)
NiceSizes == <<18000, 18225, 36000, 36450, 54000, 54675, 72000, 72900,
               144000, 145800, 216000, 218700>>

Trimmed(n) ==
  LET near == {i \in DOMAIN NiceSizes :
                 20 * (IF n > NiceSizes[i] THEN n - NiceSizes[i] ELSE NiceSizes[i] - n) < n}
  IN IF near = {} THEN n ELSE NiceSizes[CHOOSE i \in near : \A j \in near : i <= j]

(* Symbols, and the bins of all transforms, are whole numbers.              *)
ASSUME SearchAssumption ==
  /\ Inputs \subseteq Nat \X Nat \X Nat /\ NThreads \in Nat \ {0}
  /\ MinHz \in Nat /\ MaxHz \in Nat /\ MinHz < MaxHz
  /\ \A i \in Inputs :
       /\ i[1] > 0 /\ i[1] % 100 = 0
       /\ Trimmed(i[2]) \in Nat \ {0} /\ Hz(i[1]) % Trimmed(i[2]) = 0

(* An input is longer than two seconds, the band ends below 10/11 of half   *)
(* of its rate, and each thread has at least the overlap of two.            *)
ASSUME RoomAssumption ==
  /\ MinHz >= 7 /\ MaxHz <= 50000
  /\ \A i \in Inputs :
       /\ i[1] >= 3000 /\ 11 * MaxHz <= 5 * i[1] /\ Per(i[1]) >= Hz(20)
       /\ Trimmed(i[2]) >= 2 * i[1]

Nothing == [hz |-> 0, off |-> 0]

SearchInit ==
  /\ stage = "reduce" /\ input \in Inputs /\ thread \in 0 .. NThreads - 1
  /\ lo = BandOf(thread, input[1])[1] /\ hi = BandOf(thread, input[1])[2]
  /\ rate = input[1] /\ size = Trimmed(input[2]) /\ start = input[3]
  /\ down = 0 /\ moved = 0 /\ cand = Nothing /\ best = Nothing /\ report = Nothing
  /\ touched = {}
  /\ held = (lo >= 0 /\ hi + Hz(50) <= Hz(rate \div 2))
-------------------------------------------------------------------------------
(* go(): the rate is reduced to the first that is wide enough for the band, *)
(* if that pays.                                                            *)

WideRates ==
  {x \in {100 * k : k \in 1 .. (rate - 1) \div 100} :
     40 * (hi - lo + Hz(57)) < 37 * Hz(x \div 2)}

(* reduce_rate(): the band with its margins, its taper, and how many bins   *)
(* it is moved down.                                                        *)
Reduction(brate) ==
  LET hz0   == Larger(0, lo - 1584)           (* 3.1 + 3.5 Hz below          *)
      hz1   == Smaller(120 * rate, hi + 12096)(* 50 - 3.1 + 3.5 Hz above     *)
      mid   == (hz0 + hz1) \div 2
      outer == << Smaller(mid - Hz(brate) \div 4, hz0), Larger(mid + Hz(brate) \div 4, hz1) >>
      bin   == Hz(rate) \div size
      delta == mid \div bin - (Hz(brate) \div 4) \div bin
      nbins == size \div 2 + 1
      blen  == RoundDiv(size * (brate \div 100), rate \div 100)
  IN [ delta |-> delta, hz |-> delta * bin, size |-> 2 * (blen \div 2),
       touched |-> {<<(blen \div 2) + Larger(delta, 0), nbins>>},
       held |-> /\ brate < rate /\ hi - lo + Hz(57) <= Hz(brate \div 2) /\ delta < nbins
                /\ outer[1] <= hz0 /\ hz0 <= hz1 /\ hz1 <= outer[2] ]

(* The signals of an earlier decode, prevdecs_, which go() moves down here  *)
(* (ft8.cc:784-787) and subtracts (829-851), are left out: ft8mon passes    *)
(* none.                                                                    *)
Reduce ==
  /\ stage = "reduce" /\ stage' = "pad"
  /\ IF \E x \in WideRates : 4 * x < 3 * rate
     THEN \E nrate \in {x \in WideRates : \A y \in WideRates : x <= y} :
            LET r  == Reduction(nrate)
                by == Larger(r.hz, 0)
            IN
             /\ rate' = nrate /\ size' = r.size
             /\ start' = RoundDiv(start * (nrate \div 100), rate \div 100)
             /\ down' = by /\ moved' = by /\ lo' = lo - by /\ hi' = hi - by
             /\ touched' = r.touched
             /\ held' = (held /\ r.held /\ hi' + Hz(50) < Hz(nrate) \div 2 /\ lo' >= 0)
     ELSE touched' = {} /\ UNCHANGED <<rate, size, start, down, moved, lo, hi, held>>
  /\ UNCHANGED <<input, thread, pos>>

(* Copies of samples are added, so that a late signal has an end.           *)
Pad ==
  LET last == start + (24 * rate) \div 10 + 79 * Block(rate)
      need == last - size
  IN
  /\ stage = "pad" /\ stage' = "coarse"
  /\ size' = IF last + Block(rate) <= size \/ need = 0 THEN size
             ELSE size + (IF need < 0 THEN rate ELSE rate * ((need + rate - 1) \div rate))
  /\ touched' = {}
  /\ UNCHANGED <<input, thread, lo, hi, rate, start, down, moved, pos, held>>
-------------------------------------------------------------------------------
(* The coarse search: the first and the last position of the grid, in       *)
(* fractions of a bin and of a symbol.                                      *)

FirstBin == lo \div Bin
LastBin  == Smaller((hi \div Bin) - 1, Block(rate) \div 2 - 7)

FirstSym == Larger(0, TruncDiv(start - (22 * rate) \div 10, Block(rate)))
LastSym(f) ==
  Smaller((start + (24 * rate) \div 10) \div Block(rate) - 1,
          (size - f * (Block(rate) \div 4)) \div Block(rate) - 80)

Coarse ==
  /\ stage = "coarse" /\ FirstBin <= LastBin
  /\ \E h \in {0, 3}, f \in {0, 3} :
       /\ FirstSym <= LastSym(f)
       /\ \E bi \in {FirstBin, LastBin}, si \in {FirstSym, LastSym(f)} :
            LET hz == bi * Bin + h * (Bin \div 4) IN
            /\ cand' = [hz |-> hz, off |-> si * Block(rate) + f * (Block(rate) \div 4)]
            /\ touched' =
                 { <<si + 79, (size - f * (Block(rate) \div 4)) \div Block(rate)>>,
                   <<bi + 7, Block(rate) \div 2 + 1>>, <<RoundDiv(hz, Hz(27)), 2000>> }
  /\ stage' = "search"
  /\ UNCHANGED <<band, best, report, held>>
-------------------------------------------------------------------------------
(* one() and one_iter(): the fine search at 200 samples a second.           *)

Size200 == 2 * (RoundDiv(size * 2, rate \div 100) \div 2)

(* search_both() and search_time_fine(): offsets in steps of 3 from off0 to *)
(* offN; nothing if there are too few samples.                              *)
Search ==
  LET off  == RoundDiv(2 * cand.off, rate \div 100)
      off0 == Larger(0, off - 16)
      offN == off + 16
      len  == (offN - off0) + 79 * 32 + 32
      blen == RoundDiv(size * 2, rate \div 100)
  IN
  /\ stage = "search"
  /\ held' = (held /\ offN >= off0)
  /\ IF off0 + len > Size200
     THEN stage' = "done" /\ touched' = {} /\ UNCHANGED best
     ELSE \E hz \in {Hz(25) - 840, Hz(25) + 840}, g \in {0, 3 * ((offN - off0) \div 3)} :
            /\ best' = [hz |-> hz, off |-> off0 + g]
            /\ touched' = { <<g + 79 * 32 - 1, 2 * (len \div 2)>>,
                            <<blen \div 2, size \div 2 + 1>> }
            /\ stage' = "adjust"
  /\ UNCHANGED <<band, cand, report>>

(* Mutant: the offset may become negative.                                  *)
AdjustBelow ==
  /\ stage = "adjust" /\ stage' = "known"
  /\ \E dhz \in {-374, 374}, doff \in {-2, 2} :
       best' = [hz |-> best.hz + dhz, off |-> best.off + doff]
  /\ touched' = {<<best'.off, Size200>>}
  /\ UNCHANGED <<band, cand, report, held>>

(* one_iter1() and fine(): at most a quarter of a bin and two samples.      *)
Adjust ==
  /\ stage = "adjust" /\ stage' = "known"
  /\ \E dhz \in {-374, 374}, doff \in {-2, 2} :
       best' = [hz |-> best.hz + dhz, off |-> Larger(0, best.off + doff)]
  /\ touched' = {<<best'.off, Size200>>}
  /\ UNCHANGED <<band, cand, report, held>>
-------------------------------------------------------------------------------
(* try_decode(): back to the thread's rate; search_both_known().            *)

OffWin == Larger(1, (75 * Block(rate)) \div 1000)
OffInc == Larger(1, (2 * OffWin) \div 3)

(* search_time_fine_known(): those offsets that leave room for a signal.    *)
KnownOffsets(off) ==
  LET off0 == Larger(0, off - OffWin)
  IN {g \in {off0 + k * OffInc : k \in 0 .. (off + OffWin - off0) \div OffInc} :
        g + 79 * Block(rate) <= 2 * (size \div 2)}

Known ==
  LET hz0  == cand.hz + (best.hz - Hz(25))
      off  == RoundDiv(best.off * (rate \div 100), 2)
      gs   == KnownOffsets(off)
      bin0(hz) == RoundDiv(hz, Bin)
  IN
  /\ stage = "known" /\ stage' = "call"
  /\ held' = (held /\ hz0 >= 0 /\ 2 * (hz0 + Hz(50)) < Hz(rate))
  /\ IF gs = {} THEN best' = [hz |-> hz0, off |-> off] /\ touched' = {}
     ELSE \E dhz \in {-60, 60}, g \in gs :
            /\ (\A o \in gs : g <= o) \/ (\A o \in gs : o <= g)
            /\ best' = [hz |-> hz0 + dhz, off |-> g]
            /\ touched' = { <<bin0(hz0 + dhz), Block(rate) \div 2 + 1>>,
                            <<bin0(hz0 + dhz) + 7, Block(rate) \div 2 + 1>>,
                            <<g + 79 * Block(rate) - 1, 2 * (size \div 2)>> }
  /\ UNCHANGED <<band, cand, report>>

(* Mutant: reports the frequency after the reduction of the rate.           *)
CallDown ==
  /\ stage = "call" /\ stage' = "subtract"
  /\ report' = best
  /\ touched' = {} /\ UNCHANGED <<band, cand, best, held>>

Call ==
  /\ stage = "call" /\ stage' = "subtract"
  /\ report' = [best EXCEPT !.hz = @ + down]
  /\ touched' = {} /\ UNCHANGED <<band, cand, best, held>>

(* subtract(): the offset goes through seconds and is truncated, so that it *)
(* may come out one less.                                                   *)
Subtract ==
  LET bin0  == RoundDiv(best.hz, Bin)
      nbins == Block(rate) \div 2 + 1
  IN
  /\ stage = "subtract" /\ stage' = "done"
  /\ \E off0 \in {best.off, Larger(0, best.off - 1)} :
       touched' =
         IF bin0 + 8 > nbins \/ (size - off0) \div Block(rate) < 79 THEN {<<off0, size>>}
         ELSE { <<bin0, nbins>>, <<bin0 + 7, nbins>>, <<off0, size>>,
                <<off0 + 79 * Block(rate) - 1, size>> }
  /\ UNCHANGED <<band, pos, held>>
-------------------------------------------------------------------------------
SearchNext == Reduce \/ Pad \/ Coarse \/ Search \/ Adjust \/ Known \/ Call \/ Subtract

SearchSpec == SearchInit /\ [][SearchNext]_searchVars
-------------------------------------------------------------------------------
(* Every index exists, through all the changes of rate, scale and origin,   *)
(* and no assertion of ft8.cc fails: the band fits the reduced rate with    *)
(* its margins, and a candidate that has wandered is still inside it.       *)
InRange == held /\ \A a \in touched : 0 <= a[1] /\ a[1] < a[2]

(* A signal is reported at the frequency of the input at which it has been  *)
(* found, give or take the fine searches, though it has been moved down     *)
(* twice; and at its time.                                                  *)
ReportedWhereFound ==
  stage \in {"subtract", "done"} /\ report # Nothing =>
    LET dhz == report.hz - (cand.hz + moved)
        off == report.off - cand.off
    IN /\ -(840 + 374 + 60) <= dhz /\ dhz <= 840 + 374 + 60
       /\ 200 * (IF off < 0 THEN -off ELSE off) <= 18 * rate + 200 * (OffWin + 2)

(* Every frequency of a thread's part of the band is near enough to a       *)
(* position of its coarse grid for the fine search to reach it, up to the   *)
(* last bin of the last part, and so is every start between 2.2 seconds     *)
(* before the nominal one and a symbol less than 2.4 after it.              *)
Covered ==
  stage = "coarse" =>
    LET from == Hz(MinHz) + thread * Per(input[1])
        to   == from + Per(input[1]) - (IF thread = NThreads - 1 THEN Bin ELSE 0)
    IN /\ FirstBin * Bin + moved - 840 <= from
       /\ Smaller(to, 120 * input[1] - Hz(60)) <= LastBin * Bin + 3 * (Bin \div 4) + moved + 840
       /\ FirstSym * Block(rate) <= Larger(0, start - (22 * rate) \div 10)
       /\ start + (24 * rate) \div 10 - Block(rate) <= LastSym(0) * Block(rate) + Block(rate)
===============================================================================
