-------------------------------- MODULE Messages --------------------------------
(***************************************************************************)
(* A message on its way: text, fields, codeword, tones, noise, soft bits,  *)
(* codeword, fields, text, and the calls that the decoder remembers for    *)
(* the hashes of later messages.  The words of the small code stand for    *)
(* the messages in Book.  hcb() and with it unpack() run under the lock of *)
(* try_decode(), so that a callback is one step whichever thread makes it. *)
(***************************************************************************)
EXTENDS Codes, Fields

CONSTANTS
  Texts,      (* what is typed for ft8gen: sequences of words               *)
  Book,       (* Book[b]: the fields of the message with number b           *)
  Meant,      (* of messages with a hash: the call that is meant, and the   *)
              (* text with that call and without it                         *)
  Noises,     (* what happens to the tones: strengths by <<symbol, tone>>   *)
  Hints       (* hints1_: bits that are guessed                             *)

VARIABLES
  tabs,       (* hashes12 and hashes22                                      *)
  spoken,     (* history: the calls of the messages that unpack() remembers *)
  last        (* history: the last message, as it was sent and decoded      *)

vars == <<tabs, spoken, last>>

NothingYet == [word |-> <<>>]

Init == tabs = NoCalls /\ spoken = {} /\ last = NothingYet
-------------------------------------------------------------------------------
(* A message has the bits of its number in Book.                            *)
Numbers     == 1..(2^MsgBits - 1)
BitsOf(b)   == [i \in 1..MsgBits |-> (b \div 2^(MsgBits - i)) % 2]
NumberOf(w) == FoldLeft(LAMBDA x, bit : 2 * x + bit, 0, SubSeq(w, 1, MsgBits))

Encode(b) == EncodeByChecks(AddCrc(BitsOf(b)))

SentStrength == 3

Received(b, noise) ==
  LET tones == ToSymbols(Encode(b))
  IN [i \in 1..NSymbols |-> [t \in 0..7 |->
       IF <<i, t>> \in DOMAIN noise THEN noise[<<i, t>>]
       ELSE IF t = tones[i] THEN SentStrength ELSE 0]]

(* The attempts of one_iter1() to get soft bits from the tones.             *)
Ones(b, noise)    == SoftDecode(Received(b, noise))
Pairs(b, noise)   == SoftDecodeGroups(Received(b, noise), 2)
Triples(b, noise) == SoftDecodeGroups(Received(b, noise), 3)

(* The words that are decoded without noise, and those that are decoded     *)
(* from noise, by the attempts with and without hints.                      *)
Clean == UNION {{[sent |-> b, word |-> w] : w \in
           UNION {Decode(ll, TRUE) : ll \in {Ones(b, <<>>), Pairs(b, <<>>), Triples(b, <<>>)}}} :
           b \in Numbers}
Noisy == {[sent |-> 0, word |-> w] : w \in
           UNION {Decode(Ones(b, n), TRUE)
                    \cup UNION {Decode(Hinted(Ones(b, n), h), FALSE) : h \in Hints} :
                  b \in Numbers, n \in Noises}}
Decoded == Clean \cup Noisy

(* The calls that a message names in full.                                  *)
FullCalls(m) ==
  {Trim(c) : c \in {d \in
     CASE m.i3 \in 1..3 -> {UnpackCall(m.call1, <<>>), UnpackCall(m.call2, <<>>)}
       [] m.i3 = 4      -> {Padded(m.call, 11)}
       [] OTHER         -> {} : Len(d) >= 3 /\ d[1] # Less}}

(* A word is decoded: hcb() makes a text of it, and subtract() gets its     *)
(* tones.                                                                   *)
TryDecode ==
  \E d \in Decoded :
    LET m == Book[NumberOf(d.word)]
        heard == Unpack(m, tabs)
    IN /\ tabs' = heard.tabs
       /\ spoken' = spoken \cup FullCalls(m)
       /\ last' = [sent |-> d.sent, word |-> d.word, tones |-> Recode(d.word),
                   text |-> heard.text, known |-> spoken]

Next == TryDecode

Spec == Init /\ [][Next]_vars
-------------------------------------------------------------------------------
Reported == last # NothingYet

(* What is reported is always a message as ft8gen would encode it, whatever *)
(* the noise did and whether ldpc_decode() or OSD found it, and subtract()  *)
(* is given the tones that ft8gen would send; without noise every soft      *)
(* decoder hears what was sent.                                             *)
HeardAsSent ==
  Reported =>
    /\ last.word = Encode(NumberOf(last.word)) /\ last.tones = ToSymbols(last.word)
    /\ last.sent # 0 => last.sent = NumberOf(last.word)

(* A text that ft8gen packs comes out again, but for blanks, whatever calls *)
(* the decoder remembers by then.                                           *)
TextAsTyped ==
  \A t \in Texts : NoBlanks(Unpack(Pack77(t), tabs).text) = FlattenSeq(t)

(* For a hash the call is shown that was meant, however the messages came   *)
(* that named it; and it is shown as unknown only if none has named it.     *)
NamesAsMeant ==
  (Reported /\ NumberOf(last.word) \in DOMAIN Meant) =>
     LET x == Meant[NumberOf(last.word)]
     IN NoBlanks(last.text) = IF x.call \in last.known THEN x.named ELSE x.unnamed

(* Alone, too, OSD finds every message that is reported, when the bits that *)
(* it relies on are right, and the others may be wrong.                     *)
OsdMisses(b) ==
  \E noise \in Noises :
    LET ll    == Ones(b, noise)
        plain == AddCrc(BitsOf(b))
        which == GaussJordan(StrongestFirst(ll)).which
    IN /\ \A i \in 1..K : Encode(b)[which[i]] = IF ll[which[i]] < 0 THEN 1 ELSE 0
       /\ OsdScore(plain, ll) < OsdThresh
       /\ OsdDecode(ll) # {plain}

Missed == {b \in Numbers : OsdMisses(b)}

OsdFinds == Reported => NumberOf(last.word) \notin Missed
===============================================================================
