--------------------------------- MODULE Codes ---------------------------------
(***************************************************************************)
(* From the 77 bits of a message to its 79 tones and back: the CRC, the    *)
(* parity code with its two encoders and two decoders, the Gray code and   *)
(* the soft decoders.  All of it is exact arithmetic on bits; what the     *)
(* program computes in floating point is abstracted as follows.  A tone    *)
(* has a strength, a natural number; bayes() becomes the difference of the *)
(* strengths it compares; and ldpc_decode() may end with any codeword or   *)
(* near the received bits, except that it keeps received bits that are a   *)
(* codeword already (then every check confirms every bit).                 *)
(***************************************************************************)
EXTENDS Integers, SequencesExt

CONSTANTS
  MsgBits, CrcBits,   (* 77, 14                                             *)
  CrcPadding, Div,    (* 82 - 77 zeros, and the divisor of ft8_crc()        *)
  Checks,             (* Nm[]: the bits of each parity check                *)
  GenSys,             (* gen_sys[]: the plain bits that make each bit       *)
  Costas, Half,       (* the tones of a sync block; symbols between two     *)
  OsdDepth, OsdLdpcThresh, OsdThresh

K == MsgBits + CrcBits       (* 91  *)
M == Len(Checks)             (* 83  *)
N == K + M                   (* 174 *)

ASSUME CodeAssumption ==
  /\ MsgBits \in Nat \ {0} /\ CrcBits \in Nat \ {0} /\ CrcPadding \in Nat
  /\ Div \in [1..(CrcBits + 1) -> {0, 1}] /\ Div[1] = 1
  /\ \A j \in DOMAIN Checks : Checks[j] \subseteq 1..N
  /\ GenSys \in Seq(SUBSET (1..K)) /\ Len(GenSys) = N
  /\ Costas \in Seq(0..7) /\ N = 6 * Half

Zeros(n) == [i \in 1..n |-> 0]
Xor(x, y) == (x + y) % 2
Parity(w, bits) == Cardinality({i \in bits : w[i] = 1}) % 2
UpTo(n) == [i \in 1..n |-> i]
Swap(s, i, j) == [s EXCEPT ![i] = s[j], ![j] = s[i]]
-------------------------------------------------------------------------------
(* CRC                                                                      *)
Crc(msg) ==
  LET step(m, i) ==
        IF m[i] = 0 THEN m
        ELSE [k \in DOMAIN m |-> IF k - i \in 0..CrcBits THEN Xor(m[k], Div[k - i + 1]) ELSE m[k]]
      rest == FoldLeft(step, msg \o Zeros(CrcBits), UpTo(Len(msg)))
  IN SubSeq(rest, Len(msg) + 1, Len(msg) + CrcBits)

AddCrc(a77) == a77 \o Crc(a77 \o Zeros(CrcPadding))

CheckCrc(a91) ==
  LET aa == SubSeq(a91, 1, MsgBits)
  IN aa # Zeros(MsgBits) /\ SubSeq(a91, MsgBits + 1, K) = Crc(aa \o Zeros(CrcPadding))

(* Parity                                                                   *)
LdpcCheck(w) == Cardinality({j \in 1..M : Parity(w, Checks[j]) = 0})

(* osd.cc: gen_sys says which plain bits make a parity bit.                 *)
LdpcEncode(plain) == plain \o [i \in 1..M |-> Parity(plain, GenSys[K + i])]

(* ft8gen.cc: the parity bits solve the checks.  A row is the set of the    *)
(* parity bits in a check, and 0 if its plain bits do not cancel.           *)
Eliminate(rows, col) ==
  LET piv     == {r \in col..M : col \in rows[r]}
      swapped == Swap(rows, CHOOSE r \in piv : \A q \in piv : r =< q, col)
  IN IF piv = {} THEN rows
     ELSE [r \in 1..M |-> IF r # col /\ col \in swapped[r]
                          THEN SymDiff(swapped[r], swapped[col]) ELSE swapped[r]]

EncodeByChecks(a91) ==
  LET row(j) == {i - K : i \in {k \in Checks[j] : k > K}}
                  \cup (IF Parity(a91, Checks[j] \cap 1..K) = 1 THEN {0} ELSE {})
      solved == FoldLeft(Eliminate, [j \in 1..M |-> row(j)], UpTo(M))
  IN a91 \o [j \in 1..M |-> IF 0 \in solved[j] THEN 1 ELSE 0]
-------------------------------------------------------------------------------
(* Symbols                                                                  *)
C        == Len(Costas)
NSymbols == 3 * C + 2 * Half

InCostas(i) ==
  i =< C \/ i \in (C + Half + 1)..(2 * C + Half) \/ i > 2 * (C + Half)
CostasTone(i)   == Costas[((i - 1) % (C + Half)) + 1]
SymbolOfBit(n) ==
  LET d == (n - 1) \div 3 + 1 IN IF d =< Half THEN C + d ELSE 2 * C + d
FirstBit(i) == 3 * (IF i =< C + Half THEN i - C ELSE i - 2 * C) - 2

GrayMap == <<0, 1, 3, 2, 5, 6, 4, 7>>
UnGray  == <<0, 1, 3, 2, 6, 4, 5, 7>>

DataTone(w, i) ==
  GrayMap[4 * w[FirstBit(i)] + 2 * w[FirstBit(i) + 1] + w[FirstBit(i) + 2] + 1]

ToSymbols(w) ==
  [i \in 1..NSymbols |-> IF InCostas(i) THEN CostasTone(i) ELSE DataTone(w, i)]

(* Mutant: the map of the decoder is taken for that of the encoder.         *)
RecodeUnGray(w) ==
  [i \in 1..NSymbols |-> IF InCostas(i) THEN CostasTone(i)
                         ELSE UnGray[DataTone(w, i) + 1]]

Recode(w) ==
  [i \in 1..NSymbols |-> IF InCostas(i) THEN CostasTone(i) ELSE DataTone(w, i)]

BitOfTone(tone, b) == (UnGray[tone + 1] \div 2^(2 - b)) % 2
Highest(S) == CHOOSE x \in S : \A y \in S : x >= y

(* The strongest tone that makes a bit zero against the strongest that      *)
(* makes it one; s is the strength of each tone in each symbol.             *)
SoftDecode(s) ==
  [n \in 1..N |->
    LET i == SymbolOfBit(n)
        best(bit) == Highest({s[i][t] : t \in {u \in 0..7 : BitOfTone(u, (n - 1) % 3) = bit}})
    IN best(0) - best(1)]

(* The same with the sums over all tones of g symbols that follow each      *)
(* other, sync blocks included; the last group may be short.                *)
SoftDecodeGroups(s, g) ==
  LET group(i) == {j \in 1..NSymbols : (j - 1) \div g = (i - 1) \div g}
      corrs(i) == {<<f[i], SumFunction([j \in group(i) |-> s[j][f[j]]])>> :
                     f \in [group(i) -> 0..7]}
  IN [n \in 1..N |->
       LET i == SymbolOfBit(n)
           x == corrs(i)
           best(bit) == Highest({0} \cup
             {c[2] : c \in {d \in x : BitOfTone(d[1], (n - 1) % 3) = bit}})
       IN best(0) - best(1)]
-------------------------------------------------------------------------------
(* Decoding                                                                 *)
Hard(ll) == [n \in 1..N |-> IF ll[n] =< 0 THEN 1 ELSE 0]

Answer(w) == [plain |-> w, ok |-> LdpcCheck(w)]
Codewords == {Answer(LdpcEncode(p)) : p \in [1..K -> {0, 1}]}

(* What ldpc_decode() returns, with the number of checks that it passes.    *)
LdpcDecode(ll) ==
  LET r == Answer(Hard(ll))
  IN IF r.ok = M THEN {r}
     ELSE {r} \cup {Answer([r.plain EXCEPT ![n] = 1 - @]) : n \in 1..N} \cup Codewords

(* gauss_jordan(): rows are bits of the codeword, as sets of columns; the   *)
(* columns after K collect the inverse.  which says what bit a row is.      *)
GaussStep(st, row) ==
  LET piv     == {r \in row..N : row \in st.rows[r]}
      from    == CHOOSE r \in piv : \A q \in piv : r =< q
      swapped == Swap(st.rows, row, from)
      pivot   == SymDiff(swapped[row], {K + row})
  IN IF ~st.ok \/ piv = {} THEN [st EXCEPT !.ok = FALSE]
     ELSE [ok |-> TRUE, which |-> Swap(st.which, row, from),
           rows |-> [r \in 1..N |->
             IF r = row THEN pivot
             ELSE IF row \in swapped[r] THEN SymDiff(swapped[r], pivot) ELSE swapped[r]]]

(* Mutant: the order of the bits is not changed along with the rows.        *)
GaussJordanKeepsWhich(which) ==
  [FoldLeft(GaussStep, [ok |-> TRUE, which |-> which,
                        rows |-> [r \in 1..N |-> GenSys[which[r]]]], UpTo(K)) EXCEPT !.which = which]

GaussJordan(which) ==
  FoldLeft(GaussStep, [ok |-> TRUE, which |-> which, rows |-> [r \in 1..N |-> GenSys[which[r]]]],
           UpTo(K))

Abs(x) == IF x < 0 THEN 0 - x ELSE x

(* Bits in the order of their strength, equal ones in the order they have.  *)
StrongestFirst(ll) == SortSeq(UpTo(N), LAMBDA a, b : \/ Abs(ll[a]) > Abs(ll[b])
                                                     \/ Abs(ll[a]) = Abs(ll[b]) /\ a < b)

MatMul(rows, y) == [i \in 1..K |-> Parity(y, {j \in 1..K : K + j \in rows[i]})]

OsdScore(plain, ll) ==
  LET w == LdpcEncode(plain)
  IN SumFunction([n \in 1..N |-> IF w[n] = 1 THEN ll[n] ELSE 0 - ll[n]])

OsdCheck(plain) == plain # Zeros(K) /\ CheckCrc(plain)

(* osd_decode(): the plain bits it finds, a set of one or none.             *)
OsdDecode(ll) ==
  LET g == GaussJordan(StrongestFirst(ll))
      y1 == [i \in 1..K |-> IF ll[g.which[i]] < 0 THEN 1 ELSE 0]
      plain(flips) == MatMul(g.rows, [i \in 1..K |-> IF i \in flips THEN 1 - y1[i] ELSE y1[i]])
      good(p) == OsdScore(p, ll) < OsdThresh /\ OsdCheck(p)
      tries == SelectSeq([ii \in 1..OsdDepth |-> plain({K + 1 - ii})], good)
      best == CHOOSE i \in DOMAIN tries : \A j \in DOMAIN tries :
                LET a == OsdScore(tries[i], ll)
                    b == OsdScore(tries[j], ll)
                IN a < b \/ (a = b /\ i =< j)
  IN IF good(plain({})) THEN {plain({})}
     ELSE IF tries = <<>> THEN {} ELSE {tries[best]}

Decode(ll, useOsd) ==
  LET r0 == LdpcDecode(ll)
      sure == {r \in r0 : r.ok = M /\ CheckCrc(r.plain)}
      osd == IF useOsd /\ OsdDepth >= 0 /\ \E r \in r0 \ sure : r.ok >= OsdLdpcThresh
               THEN OsdDecode(ll) ELSE {}
  IN {r.plain : r \in sure} \cup {LdpcEncode(p) : p \in osd}

(* one_iter1(): bits that are guessed take the place of received ones.      *)
Strong == 5
Hinted(ll, hint) ==
  [n \in 1..N |-> IF n \in DOMAIN hint THEN (IF hint[n] = 1 THEN 0 - Strong ELSE Strong)
                  ELSE ll[n]]
===============================================================================
