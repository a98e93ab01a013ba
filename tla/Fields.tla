--------------------------------- MODULE Fields ---------------------------------
(***************************************************************************)
(* The fields of an FT8 message: ft8gen packs a text into them (pack77()), *)
(* the decoder turns them into a text again (unpack()).  A text is a       *)
(* sequence of character codes: 0 for a blank, 1..10 the digits, 11..36    *)
(* the letters, 37 a slash.  A message of 77 bits is a record of its       *)
(* numbers; only the 58 bits of a long call are kept as characters.        *)
(***************************************************************************)
EXTENDS Integers, SequencesExt

CONSTANT Hash(_, _)   (* the hash of eleven characters, in 12 or 22 bits    *)

Digits == 1..10
Letters == 11..36
Slash == 37
Less == 38            (* begins a name that is not a call: <TOKEN>, <...12> *)
Plus == 39
Minus == 40

NGBASE == 180 * 180
NTOKENS == 2063592
MAX22 == 4194304
P3 == 27 * 27 * 27

DE == <<14, 15>>
QRZ == <<27, 28, 36>>
CQ == <<13, 27>>
RRR == <<28, 28, 28>>
RR73 == <<28, 28, 8, 4>>
Seven3 == <<8, 4>>
Token == <<Less, 30>>
Unknown(m) == <<Less, m>>

NoBlanks(text) == SelectSeq(text, LAMBDA c : c # 0)
DropFirst(s, n) == SubSeq(s, n + 1, Len(s))
Padded(s, n) == IF Len(s) >= n THEN s ELSE s \o [i \in 1..(n - Len(s)) |-> 0]
-------------------------------------------------------------------------------
(* The tables of characters, the same in ft8gen.cc and unpack.cc.           *)
C1(i) == [j \in 0..36 |-> j][i]
C2(i) == [j \in 0..35 |-> j + 1][i]
C3(i) == [j \in 0..9 |-> j + 1][i]
C4(i) == [j \in 0..26 |-> IF j = 0 THEN 0 ELSE j + 10][i]
InC4(c) == c = 0 \/ c \in Letters
Index4(c) == IF c = 0 THEN 0 ELSE c - 10

(* Packing, ft8gen.  -1 stands for die().                                   *)
Dies == -1

Field6(call) == Padded(IF call[2] \in Digits THEN <<0>> \o call ELSE call, 6)

Packable(call) ==
  /\ Len(call) \in 3..6
  /\ LET s == Field6(call)
     IN /\ Len(s) = 6
        /\ s[1] \in 0..36 /\ s[2] \in 1..36 /\ s[3] \in Digits
        /\ \A i \in 4..6 : InC4(s[i])

(* Mutant: the table without a blank is used for the first character.       *)
PackCallNoBlank(call) ==
  CASE call = DE  -> 0
    [] call = QRZ -> 1
    [] call = CQ  -> 2
    [] OTHER ->
       IF ~Packable(call) THEN Dies
       ELSE LET s == Field6(call)
            IN (((((s[1] - 1) * 36 + s[2] - 1) * 10 + s[3] - 1) * 27 + Index4(s[4])) * 27
                 + Index4(s[5])) * 27 + Index4(s[6]) + MAX22 + NTOKENS

PackCall(call) ==
  CASE call = DE  -> 0
    [] call = QRZ -> 1
    [] call = CQ  -> 2
    [] OTHER ->
       IF ~Packable(call) THEN Dies
       ELSE LET s == Field6(call)
            IN ((((s[1] * 36 + s[2] - 1) * 10 + s[3] - 1) * 27 + Index4(s[4])) * 27
                 + Index4(s[5])) * 27 + Index4(s[6]) + MAX22 + NTOKENS

PackDirectedCq(dir) ==
  IF Len(dir) > 4 \/ \E i \in DOMAIN dir : ~InC4(dir[i]) THEN Dies
  ELSE 1003 + FoldLeft(LAMBDA x, c : 27 * x + Index4(c), 0, Padded(dir, 4))

IsGrid(ex) ==
  /\ Len(ex) = 4
  /\ \A i \in {1, 2} : ex[i] \in 11..28
  /\ \A i \in {3, 4} : ex[i] \in Digits

(* A report is a sign and digits; ir says that an R came before it.         *)
Db(ex) ==
  LET n == FoldLeft(LAMBDA x, c : 10 * x + c - 1, 0, Tail(ex))
  IN IF ex[1] = Minus THEN 0 - n ELSE n

PackReport(ex) ==
  IF Len(ex) < 2 \/ ex[1] \notin {Plus, Minus} THEN Dies
  ELSE LET v == Db(ex) + 35
       IN IF v < 5 \/ v > NGBASE - 1 THEN Dies ELSE NGBASE + v

PackGrid(ex) ==
  CASE ex = <<>>   -> [ir |-> 0, ng |-> NGBASE + 1]
    [] ex = RRR    -> [ir |-> 0, ng |-> NGBASE + 2]
    [] ex = RR73   -> [ir |-> 0, ng |-> NGBASE + 3]
    [] ex = Seven3 -> [ir |-> 0, ng |-> NGBASE + 4]
    [] IsGrid(ex) /\ ex # RR73 -> [ir |-> 0, ng |-> (((ex[1] - 11) * 18 + ex[2] - 11) * 10
                                                         + ex[3] - 1) * 10 + ex[4] - 1]
    [] OTHER -> IF ex[1] = 28 THEN [ir |-> 1, ng |-> PackReport(Tail(ex))]
                ELSE [ir |-> 0, ng |-> PackReport(ex)]

HasRover(call) == Len(call) > 2 /\ DropFirst(call, Len(call) - 2) = <<Slash, 28>>
StripRover(call) == IF HasRover(call) THEN SubSeq(call, 1, Len(call) - 2) ELSE call
Bit(condition) == IF condition THEN 1 ELSE 0

(* The words that were typed become a message of type 1; putbits() keeps    *)
(* the low bits of a number.                                                *)
Pack77(t) ==
  LET directed == t[1] = CQ /\ Len(t) >= 4 /\ \A i \in DOMAIN t[2] : t[2][i] \notin Digits
      idx  == IF directed THEN 3 ELSE 2
      x1   == IF directed THEN PackDirectedCq(t[2]) ELSE PackCall(StripRover(t[1]))
      x2   == PackCall(StripRover(t[idx]))
      exch == PackGrid(IF idx < Len(t) THEN t[idx + 1] ELSE <<>>)
  IN [i3 |-> 1, call1 |-> x1 % 2^28, rover1 |-> Bit(~directed /\ HasRover(t[1])),
      call2 |-> x2 % 2^28, rover2 |-> Bit(HasRover(t[idx])),
      ir |-> exch.ir, grid |-> exch.ng % 2^15]
-------------------------------------------------------------------------------
(* Unpacking.  tabs holds the calls that were heard, by their hashes.       *)
NoCalls == [h12 |-> <<>>, h22 |-> <<>>]

Named(table, x, m) == IF x \in DOMAIN table THEN table[x] ELSE Unknown(m)

Trim(call) ==
  LET first == CHOOSE i \in 1..(Len(call) + 1) :
                 (i = Len(call) + 1 \/ call[i] # 0) /\ \A j \in 1..(i - 1) : call[j] = 0
      last  == CHOOSE i \in 0..Len(call) :
                 (i = 0 \/ call[i] # 0) /\ \A j \in (i + 1)..Len(call) : call[j] = 0
  IN SubSeq(call, first, last)

(* Mutant: the blanks before a short call are hashed too.                   *)
IHashCallBlanks(call, m) == Hash(SubSeq(Padded(call, 11), 1, 11), m)

IHashCall(call, m) == Hash(SubSeq(Padded(Trim(call), 11), 1, 11), m)

RememberCall(tabs, call) ==
  IF Len(call) >= 3 /\ call[1] # Less
    THEN [h12 |-> (IHashCall(call, 12) :> call) @@ tabs.h12,
          h22 |-> (IHashCall(call, 22) :> call) @@ tabs.h22]
    ELSE tabs

Width(n) == IF n < 10 THEN 1 ELSE IF n < 100 THEN 2 ELSE IF n < 1000 THEN 3 ELSE 4

Number(n, width) ==
  LET w == IF Width(n) > width THEN Width(n) ELSE width
  IN [i \in 1..w |-> ((n \div 10^(w - i)) % 10) + 1]

(* What a number of 28 bits means, below those of the calls.                *)
TOKEN0 == 532444
CqNumbers == 3..1002
CqLetters == 1003..(TOKEN0 - 1)
TokenCodes == TOKEN0..(NTOKENS - 1)
Hashes22 == NTOKENS..(NTOKENS + MAX22 - 1)

LettersOf(y) == <<C4(y \div P3), C4((y \div 27^2) % 27), C4((y \div 27) % 27), C4(y % 27)>>
CallOf(y) == <<C1(y \div (36 * 10 * P3)), C2((y \div (10 * P3)) % 36), C3((y \div P3) % 10),
               C4((y \div 27^2) % 27), C4((y \div 27) % 27), C4(y % 27)>>

UnpackCall(x, h22) ==
  CASE x = 0 -> DE
    [] x = 1 -> QRZ
    [] x = 2 -> CQ
    [] x \in CqNumbers -> CQ \o <<0>> \o Number(x - 3, 1)
    [] x \in CqLetters -> CQ \o <<0>> \o LettersOf(x - 1003)
    [] x \in TokenCodes -> Token
    [] x \in Hashes22 -> Named(h22, x - NTOKENS, 22)
    [] OTHER -> CallOf(x - NTOKENS - MAX22)

UnpackGrid(ng, ir) ==
  IF ng < NGBASE
    THEN <<11 + (ng \div 1800), 11 + ((ng \div 100) % 18), 1 + ((ng \div 10) % 10), 1 + (ng % 10)>>
    ELSE CASE ng = NGBASE + 1 -> <<0, 0, 0>>
           [] ng = NGBASE + 2 -> RRR \o <<0>>
           [] ng = NGBASE + 3 -> RR73
           [] ng = NGBASE + 4 -> Seven3 \o <<0, 0>>
           [] OTHER ->
                LET db == ng - NGBASE - 35
                IN (IF ir = 1 THEN <<28>> ELSE <<>>)
                     \o (IF db >= 0 THEN <<Plus>> \o Number(db, 2)
                                    ELSE <<Minus>> \o Number(0 - db, 2))

If(bit, text) == IF bit = 1 THEN text ELSE <<>>

(* i3 = 1 or 2                                                              *)
Unpack1(m, tabs) ==
  LET call1text == UnpackCall(m.call1, tabs.h22)
      call2text == UnpackCall(m.call2, tabs.h22)
      pr == <<Slash, IF m.i3 = 1 THEN 28 ELSE 26>>
  IN [text |-> call1text \o If(m.rover1, pr) \o <<0>> \o call2text \o If(m.rover2, pr)
                 \o <<0>> \o UnpackGrid(m.grid, m.ir),
      tabs |-> RememberCall(RememberCall(tabs, call1text), call2text)]

(* i3 = 3; the names of states and sections are a code each.                *)
NStates == 65
State(i) == <<200 + i>>
NSections == 84
Section(i) == <<300 + i>>

Unpack3(m, tabs) ==
  LET call1text == UnpackCall(m.call1, tabs.h22)
      call2text == UnpackCall(m.call2, tabs.h22)
  IN [text |-> If(m.tu, <<30, 31, 0>>) \o call1text \o <<0>> \o call2text \o <<0>>
                 \o If(m.r, <<28, 0>>) \o Number(529 + 10 * m.rst, 1) \o <<0>>
                 \o (IF m.serial > 8000 /\ m.serial - 8001 < NStates
                       THEN State(m.serial - 8001) ELSE Number(m.serial, 4)),
      tabs |-> RememberCall(RememberCall(tabs, call1text), call2text)]

(* i3 = 4: one call of up to eleven characters, the other by its hash.      *)
Unpack4(m, tabs) ==
  LET call  == Padded(m.call, 11)
      known == RememberCall(tabs, call)
      ocall == Named(known.h12, m.x12, 12)
  IN [text |-> IF m.cq = 1 THEN CQ \o <<0>> \o call
               ELSE (IF m.swap = 1 THEN call \o <<0>> \o ocall ELSE ocall \o <<0>> \o call)
                      \o <<0>> \o <<<<>>, RRR, RR73, Seven3>>[m.suffix + 1],
      tabs |-> known]

(* i3 = 0, n3 = 3 or 4                                                      *)
Unpack03(m, tabs) ==
  [text |-> UnpackCall(m.call1, tabs.h22) \o <<0>> \o UnpackCall(m.call2, tabs.h22) \o <<0>>
              \o If(m.r, <<28, 0>>)
              \o Number(m.transmitters + (IF m.n3 = 4 THEN 16 ELSE 0) + 1, 1)
              \o <<11 + m.class, 0>>
              \o (IF m.section \in 1..NSections THEN Section(m.section - 1) ELSE <<>>),
   tabs |-> tabs]

Unpack(m, tabs) ==
  CASE m.i3 = 0 /\ m.n3 = 0        -> [text |-> m.free, tabs |-> tabs]
    [] m.i3 = 0 /\ m.n3 \in {3, 4} -> Unpack03(m, tabs)
    [] m.i3 \in {1, 2}             -> Unpack1(m, tabs)
    [] m.i3 = 3                    -> Unpack3(m, tabs)
    [] m.i3 = 4                    -> Unpack4(m, tabs)
    [] OTHER                       -> [text |-> <<Less, m.i3, m.n3>>, tabs |-> tabs]
===============================================================================
