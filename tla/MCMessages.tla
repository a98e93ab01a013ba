------------------------------ MODULE MCMessages -------------------------------
(* Messages for TLC: a code of 12 bits with 6 checks for messages of four   *)
(* bits with a CRC of two, sent as four symbols between three sync blocks;  *)
(* fields, calls, grids and reports at the ends of their ranges.            *)
EXTENDS Messages

(* Text: one code per character.                                            *)
K1ABC  == <<21, 2, 11, 12, 13>>
AB1HL  == <<11, 12, 2, 18, 22>>
W9XYZ  == <<33, 10, 34, 35, 36>>
A0A    == <<11, 1, 11>>
ZZ9ZZZ == <<36, 36, 10, 36, 36, 36>>
PJ4    == <<26, 20, 5, 37, 21, 2, 11, 12, 13>>   (* PJ4/K1ABC *)
Rover(call) == call \o <<37, 28>>
Grid(a, b, c, d) == <<a, b, c, d>>

Calls  == {K1ABC, AB1HL, A0A, ZZ9ZZZ}
Extras ==
  {<<>>, <<RRR>>, <<RR73>>, <<Seven3>>, <<Grid(11, 11, 1, 1)>>, <<Grid(28, 28, 10, 10)>>,
   <<Grid(16, 24, 5, 3)>>, <<<<Minus, 1, 8>>>>, <<<<Plus, 5, 10>>>>, <<<<28, Plus, 1, 1>>>>,
   <<<<28, Minus, 4, 1>>>>}
MCTexts ==
  {<<a, b>> \o ex : a \in Calls \cup {CQ, DE, QRZ, Rover(K1ABC)}, b \in {AB1HL, Rover(A0A)},
                   ex \in {<<>>, <<Grid(20, 25, 4, 2)>>}}
    \cup {<<K1ABC, AB1HL>> \o ex : ex \in Extras}
    \cup {<<CQ, to, b, RR73>> : to \in {<<14, 34>>, <<11>>, <<36, 36, 36, 36>>}, b \in Calls}

MCHash(call, m) ==
  FoldLeft(LAMBDA x, c : (38 * x + c) % (IF m = 12 THEN 4093 ELSE 4194301), 0, call)
HashOf(call, m) == MCHash(Padded(call, 11), m)

One(call1, call2) ==
  [i3 |-> 1, call1 |-> call1, rover1 |-> 0, call2 |-> call2, rover2 |-> 0, ir |-> 0,
   grid |-> NGBASE + 1]
Hash22(call) == NTOKENS + HashOf(call, 22)
Four(call, x12, swap, suffix, cq) ==
  [i3 |-> 4, call |-> call, x12 |-> x12, swap |-> swap, suffix |-> suffix, cq |-> cq]

MCBook ==
  <<Pack77(<<Rover(K1ABC), AB1HL, <<28, Minus, 1, 8>>>>),
    One(Hash22(PJ4), PackCall(K1ABC)),
    One(Hash22(AB1HL), Hash22(PJ4)),
    Four(PJ4, HashOf(AB1HL, 12), 0, 2, 0),
    Four(PJ4, HashOf(W9XYZ, 12), 1, 0, 0),
    Four(PJ4, 0, 0, 0, 1),
    [i3 |-> 3, tu |-> 1, call1 |-> PackCall(W9XYZ), call2 |-> PackCall(K1ABC), r |-> 1,
     rst |-> 7, serial |-> 8065],
    [i3 |-> 3, tu |-> 0, call1 |-> Hash22(W9XYZ), call2 |-> PackCall(AB1HL), r |-> 0,
     rst |-> 0, serial |-> 8191],
    [i3 |-> 0, n3 |-> 4, call1 |-> PackCall(AB1HL), call2 |-> Hash22(W9XYZ), r |-> 1,
     transmitters |-> 15, class |-> 7, section |-> 84],
    [i3 |-> 0, n3 |-> 0, free |-> <<30, 15, 29, 30>>],
    [i3 |-> 2, call1 |-> 2^28 - 1, rover1 |-> 1, call2 |-> NTOKENS - 1, rover2 |-> 0,
     ir |-> 1, grid |-> 2^15 - 1],
    One(1002, 532443),
    [i3 |-> 5, n3 |-> 1], [i3 |-> 6, n3 |-> 2], [i3 |-> 7, n3 |-> 7]>>

Meaning(call, before, after, m) ==
  [call |-> call, named |-> before \o call \o after, unnamed |-> before \o Unknown(m) \o after]
MCMeant ==
  (2 :> Meaning(PJ4, <<>>, K1ABC, 22)) @@ (4 :> Meaning(AB1HL, <<>>, PJ4 \o RR73, 12))
    @@ (5 :> Meaning(W9XYZ, PJ4, <<>>, 12))
    @@ (8 :> Meaning(W9XYZ, <<>>, AB1HL \o Number(529, 1) \o Number(8191, 4), 22))

MCChecks == <<{1, 2, 8, 12}, {1, 3, 6, 11, 12}, {4, 10, 11, 12}, {2, 3, 7, 10}, {5, 12}, {2, 6, 9, 10}>>
MCGenSys == <<{1}, {2}, {3}, {4}, {5}, {6}, {1, 2, 4, 6}, {1, 2, 5}, {1, 2, 3, 4}, {1, 3, 4, 6},
              {1, 3, 5, 6}, {5}>>
MCOsdThresh == -10
MCDiv    == <<1, 1, 1>>
MCCostas == <<3, 1, 4>>

(* One or two of the four symbols at 4, 5, 9 and 10 sound like another.     *)
MCNoises ==
  {<<>>} \cup {<<i, t>> :> 4 : i \in {4, 5, 9, 10}, t \in {0, 5}}
    \cup {(<<4, t>> :> 4) @@ (<<9, u>> :> 2) @@ (<<2, 0>> :> 5) : t \in {2, 7}, u \in {1, 6}}
MCHints  == {(1 :> 0) @@ (2 :> 1)}
===============================================================================
