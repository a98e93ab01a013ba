------------------------------ MODULE SourceProofs -----------------------------
(***************************************************************************)
(* Theorems about two sources of decode_loop(): the network audio server   *)
(* of NetStream, and the buffered radios of IqStream, for all layouts,     *)
(* rates, packet sizes and sequence numbers.                               *)
(*                                                                         *)
(* The argument about the server follows the layout from client to client: *)
(* reader_loop() saves it when a client leaves and puts it back when the   *)
(* next one has been accepted, whatever read_header() has stored in        *)
(* between, and the bytes of a partial frame are dropped with their client. *)
(*                                                                         *)
(* That about the radios counts: the zeros never stand for more samples    *)
(* than are missing, so what a packet adds lies after all that came before *)
(* it; and if they stand for all that is missing, what waits is the last   *)
(* part of the samples that are kept, from which t0 follows.               *)
(***************************************************************************)
EXTENDS NetStream, IqStream, TLAPS

AnyLayout == [rate : Nat, ch : Nat, bits : Nat, format : Nat]
Usable(l) == l.ch >= 1 /\ l.bits \in {8, 16, 24, 32}

TypeOK ==
  /\ raw \in BOOLEAN /\ booting \in BOOLEAN /\ waiting \in BOOLEAN /\ gotFmt \in BOOLEAN
  /\ pc \in {"accept", "riff", "chunk", "accepted", "read", "ended", "exited"}
  /\ layout \in AnyLayout /\ saved \in AnyLayout /\ actual \in AnyLayout
  /\ frameBytes \in Nat /\ acc \in Nat /\ ringRate \in Nat /\ phase \in Nat
  /\ kept \in BOOLEAN /\ garbled \in BOOLEAN

(* The layout of the ring is that of the client, or is saved between two.   *)
Layout ==
  /\ raw => layout = RawLayout /\ saved = RawLayout /\ pc \notin {"riff", "chunk"}
  /\ pc = "riff" => ~gotFmt
  /\ pc \in {"chunk", "accepted"} /\ gotFmt => actual = layout
  /\ pc = "accepted" => actual = layout /\ Usable(layout)
  /\ booting => pc # "read"
  /\ pc = "read" =>
       Usable(actual) /\ Usable(layout) /\ layout.rate = ringRate /\ frameBytes = Frame(layout)
  /\ ~booting /\ pc # "read" =>
       Usable(saved) /\ saved.rate = ringRate /\ frameBytes = Frame(saved)

Framing ==
  /\ pc # "read" => acc = 0
  /\ pc = "read" /\ ~kept =>
       phase = 0 /\ Frame(layout) = Frame(actual) /\ Sample(layout) = Sample(actual)
  /\ garbled => kept

NetInv == TypeOK /\ Layout /\ Framing
-------------------------------------------------------------------------------
LEMMA FrameSize ==
  ASSUME NEW l \in AnyLayout, Usable(l)
  PROVE  Frame(l) \in Nat \ {0}
<1>1. PICK c \in Nat, w \in {1, 2, 3, 4} : c = l.ch /\ w = l.bits \div 8 /\ c >= 1
  <2>1. l.ch \in Nat /\ l.ch >= 1
    BY DEF AnyLayout, Usable
  <2>2. l.bits \div 8 \in {1, 2, 3, 4}
    BY DEF Usable
  <2> QED BY <2>1, <2>2
<1>2. c * w \in Nat /\ c * w # 0
  BY <1>1
<1> QED BY <1>1, <1>2 DEF Frame

LEMMA SupportedUsable ==
  ASSUME NEW l \in AnyLayout, Supported(l)
  PROVE  Usable(l)
BY DEF Supported, Usable, AnyLayout

(* Whole frames are taken from the bytes, and end where a frame begins.     *)
LEMMA WholeFrames ==
  ASSUME NEW f \in Nat \ {0}, NEW b \in Nat
  PROVE  /\ b \div f \in Nat /\ (b \div f) * f \in Nat
         /\ b - (b \div f) * f \in Nat
         /\ ((b \div f) * f) % f = 0
<1>1. PICK q \in Nat : q = b \div f
  OBVIOUS
<1>2. q * f <= b /\ q * f \in Nat
  BY <1>1
<1>3. (q * f) % f = 0
  BY <1>1
<1> QED BY <1>1, <1>2, <1>3

LEMMA NetInit == Init => NetInv
<1> SUFFICES ASSUME Init PROVE NetInv
  OBVIOUS
<1> USE NetAssumption DEF Init
<1>1. RawLayout \in AnyLayout /\ [RawLayout EXCEPT !.rate = 0] \in AnyLayout
  BY DEF AnyLayout
<1>2. layout \in AnyLayout
  BY <1>1
<1>3. TypeOK
  BY <1>2 DEF TypeOK
<1>4. Layout /\ Framing
  BY DEF Layout, Framing
<1> QED BY <1>3, <1>4 DEF NetInv

LEMMA NetStep ==
  ASSUME NetInv, [Next]_vars
  PROVE  NetInv'
<1> USE NetAssumption DEF NetInv, TypeOK, Layout, Framing, setup, stream
<1>0. NetInv
  OBVIOUS
<1>1. CASE Connect
  BY <1>1 DEF Connect
<1>2. CASE Accept
  <2>1. raw => Usable(layout)
    BY DEF Usable
  <2> QED BY <1>2, <2>1 DEF Accept
<1>3. CASE AcceptFails
  BY <1>3 DEF AcceptFails
<1>4. CASE ReadRiff
  <2>1. TypeOK'
    BY <1>4 DEF ReadRiff
  <2>2. ~raw
    BY <1>4 DEF ReadRiff
  <2>3. Layout' /\ Framing'
    BY <1>4, <2>2 DEF ReadRiff
  <2> QED BY <2>1, <2>3
<1>5. CASE ReadData
  BY <1>5, SupportedUsable DEF ReadData
<1>6. CASE BadHeader
  BY <1>6 DEF BadHeader
<1>7. ASSUME NEW l \in Layouts, ReadFmt(l) PROVE NetInv'
  <2>1. l \in AnyLayout
    BY DEF AnyLayout
  <2> QED BY <1>7, <2>1 DEF ReadFmt
<1>8. CASE StartReader
  <2>1. Usable(layout) /\ actual = layout /\ Frame(layout) \in Nat
    BY <1>8, FrameSize DEF StartReader
  <2>2. TypeOK'
    BY <1>8, <2>1 DEF StartReader, AnyLayout
  <2>3. Layout'
    BY <1>8, <2>1 DEF StartReader, Frame, Usable
  <2>4. Framing'
    BY <1>8, <2>1 DEF StartReader, Frame, Sample
  <2> QED BY <2>2, <2>3, <2>4
<1>9. CASE Resume
  <2>1. /\ Usable(layout) /\ actual = layout /\ acc = 0 /\ Frame(actual) \in Nat \ {0}
        /\ Usable(saved) /\ saved.rate = ringRate /\ frameBytes = Frame(saved)
    BY <1>9, FrameSize DEF Resume
  <2>2. PhaseOfRest = 0
    <3>1. PICK f \in Nat \ {0} : f = Frame(actual)
      BY <2>1
    <3>2. ((f - 1) * 0) % f = 0
      BY <3>1
    <3> QED BY <2>1, <3>1, <3>2 DEF PhaseOfRest
  <2>3. PICK l \in AnyLayout :
          /\ l = [saved EXCEPT !.format = layout.format] /\ layout' = l
          /\ l.rate = saved.rate /\ l.ch = saved.ch /\ l.bits = saved.bits
          /\ l.format = layout.format
    BY <1>9 DEF Resume, AnyLayout
  <2>4. Usable(l) /\ Frame(l) = Frame(saved) /\ Frame(l) \in Nat
    BY <2>1, <2>3, FrameSize DEF Usable, Frame
  <2>5. /\ frameBytes' = Frame(l) /\ phase' = 0 /\ garbled' = FALSE /\ pc' = "read"
        /\ kept' = ~SameFormat /\ actual' = actual /\ saved' = saved /\ ringRate' = ringRate
        /\ raw' = raw /\ booting' = booting /\ ~booting
    BY <1>9, <2>1, <2>2, <2>3, <2>4 DEF Resume
  <2>6. SameFormat => l = layout
    BY <2>3 DEF SameFormat, AnyLayout
  <2>7. TypeOK'
    BY <1>9, <2>3, <2>4, <2>5 DEF Resume
  <2>8. Layout'
    <3>1. raw => l = RawLayout
      BY <2>3
    <3> QED BY <2>1, <2>3, <2>4, <2>5, <3>1 DEF Frame, Usable
  <2>9. Framing'
    BY <2>1, <2>3, <2>5, <2>6 DEF Frame, Sample
  <2> QED BY <2>7, <2>8, <2>9
<1>10. CASE Closed
  BY <1>10 DEF Closed, Frame, Usable
<1>11. ASSUME NEW k \in 1 .. MaxRead, Read(k) PROVE NetInv'
  <2>1. /\ pc = "read" /\ Frame(layout) \in Nat \ {0} /\ Frame(actual) \in Nat \ {0}
        /\ frameBytes = Frame(layout)
    BY <1>11, FrameSize DEF Read
  <2>2. PICK f \in Nat \ {0}, b \in Nat : f = frameBytes /\ b = acc + k
    BY <2>1
  <2>3. /\ acc' = b - (b \div f) * f /\ acc' \in Nat
        /\ phase' = (phase + (b \div f) * f) % Frame(actual)
        /\ garbled' = (garbled \/ (b \div f > 0 /\ ~Right))
        /\ UNCHANGED <<pc, waiting, layout, gotFmt, actual, setup, kept>>
    BY <1>11, <2>2, WholeFrames DEF Read
  <2>4. phase' \in Nat
    <3>1. PICK g \in Nat \ {0}, m \in Nat : g = Frame(actual) /\ m = phase + (b \div f) * f
      BY <2>1, <2>2, WholeFrames
    <3>2. m % g \in Nat
      BY <3>1
    <3> QED BY <2>3, <3>1, <3>2
  <2>5. ~kept => phase' = 0 /\ Right
    <3>1. SUFFICES ASSUME ~kept PROVE phase' = 0 /\ Right
      OBVIOUS
    <3>2. phase = 0 /\ Frame(actual) = f /\ Right
      BY <2>1, <2>2, <3>1 DEF Right
    <3>3. phase + (b \div f) * f = (b \div f) * f
      BY <3>2, <2>2, WholeFrames
    <3> QED BY <2>2, <2>3, <3>2, <3>3, WholeFrames
  <2>6. TypeOK'
    BY <2>3, <2>4
  <2>7. Layout'
    BY <2>3 DEF Frame, Usable
  <2>8. Framing'
    BY <2>1, <2>3, <2>5 DEF Frame, Sample
  <2> QED BY <2>6, <2>7, <2>8
<1>12. CASE UNCHANGED vars
  BY <1>12 DEF vars, Frame, Usable, Sample
<1> QED BY <1>1, <1>2, <1>3, <1>4, <1>5, <1>6, <1>7, <1>8, <1>9, <1>10, <1>11, <1>12
        DEF Next, Header

(* The inductive invariant: while bytes are read the layout is usable and   *)
(* has the rate of the ring, and acc begins where a frame of the client     *)
(* begins (accept_and_header(), read_header(), reader_loop()).              *)
THEOREM NetInvariant == Spec => []NetInv
BY NetInit, NetStep, PTL DEF Spec

(* While samples are stored, rate_ is the rate of the ring, whatever the    *)
(* clients in between have said in their headers (read_header() stores      *)
(* rate_ before it has decided to accept).                                  *)
THEOREM NetStoredAtRingRate == Spec => []StoredAtRingRate
<1>1. NetInv => StoredAtRingRate
  BY DEF NetInv, Layout, StoredAtRingRate
<1> QED BY <1>1, NetInvariant, PTL

(* The samples of a client that ft8mon has not warned of are cut and        *)
(* decoded as it sent them, however the network cuts the stream             *)
(* (reader_loop() and net_sample()).                                        *)
THEOREM NetRightUnlessKept == Spec => []RightUnlessKept
<1>1. NetInv => RightUnlessKept
  BY DEF NetInv, Framing, RightUnlessKept
<1> QED BY <1>1, NetInvariant, PTL
-------------------------------------------------------------------------------
(* Every packet after newest is on its way or lost, and the reader expects  *)
(* the one that follows newest.                                             *)
Arrivals ==
  /\ kind \in Kinds /\ sent \in Nat /\ newest \in Nat /\ newest <= sent /\ count \in Nat
  /\ net \subseteq newest + 1 .. sent /\ gone \subseteq 1 .. sent
  /\ newest + 1 .. sent \subseteq net \cup gone
  /\ ~Udp => gone = {}
  /\ Udp => expect = SeqNo(newest + 1)
  /\ count <= newest * Size

CountInv == Arrivals /\ InStep

(* s ascends, and lies above lo and not above hi.                           *)
Ascends(s, lo, hi) ==
  /\ s \in Seq(Int) /\ Increasing(s)
  /\ \A i \in 1 .. Len(s) : lo < s[i] /\ s[i] <= hi

(* What the caller has got.                                                 *)
Given == out \cup Elements(ret.s)

(* s has nothing twice, nothing of R, and comes in order after R unless m.  *)
Unseen(s, R, m) ==
  /\ Once(s) /\ \A i \in 1 .. Len(s) : s[i] \notin R
  /\ ~m => Increasing(s) /\ \A x \in R, i \in 1 .. Len(s) : x < s[i]

(* Two positions separate what was given or is left over from v, and v from *)
(* the vector.                                                              *)
Apart(lo, mid, hi) ==
  /\ lo \in Nat /\ mid \in Nat /\ lo <= mid /\ mid <= hi
  /\ (\A x \in Given : x <= lo) /\ (\A i \in 1 .. Len(buf) : buf[i] <= lo)
  /\ Ascends(call.v, lo, mid) /\ Ascends(samples, mid, hi)

Order ==
  /\ kind = "cloud" => latest = 1
  /\ out \subseteq Int /\ ret.s \in Seq(Int) /\ buf \in Seq(Int)
  /\ \E lo, mid \in Nat : Apart(lo, mid, newest * Size)
  /\ Unseen(buf, Given, mixed) /\ Unseen(ret.s, out, ret.mixed)
  /\ latest = 1 => buf = <<>> /\ ~ret.mixed
  /\ buf = <<>> => ~mixed

(* s holds the last samples of those that are kept of the first c.          *)
SuffixOf(s, c) ==
  /\ Len(s) <= Kept(c)
  /\ \A i \in 1 .. Len(s) : s[i] = KeptAt(Kept(c) - Len(s) + i)

Suffix(s) == SuffixOf(s, count)

(* What get() has taken is recent: nothing was sent meanwhile; what it has  *)
(* left over was recent when time_ was set.                                 *)
Recent ==
  /\ fresh \in BOOLEAN /\ fresh => newest = sent
  /\ newest = 0 => samples = <<>>
  /\ GapsFilled => Suffix(samples)
  /\ GapsFilled /\ fresh /\ call # Idle => Suffix(call.v)
  /\ ~Udp /\ newest = sent /\ newest # 0 => stamp = Clock
  /\ ~Udp /\ fresh /\ call # Idle /\ call.v # <<>> => call.t = Clock
  /\ dated /\ ~mixed /\ buf # <<>> => time \in Nat /\ SuffixOf(buf, time)

Calls ==
  /\ call \in [n : Nat, v : Seq(Int), t : Int]
  /\ time \in Int /\ stamp \in Int

OutInv == Calls /\ Order /\ Recent /\ T0Right
-------------------------------------------------------------------------------
LEMMA Product ==
  ASSUME NEW p \in Int, NEW q \in Int, NEW d \in Nat, p <= q
  PROVE  p * d \in Int /\ q * d \in Int /\ p * d <= q * d
OBVIOUS

LEMMA Quotient ==
  ASSUME NEW x \in Int, NEW d \in Nat \ {0}
  PROVE  /\ x \div d \in Int /\ x % d \in 0 .. d - 1
         /\ (x \div d) * d \in Int /\ x = (x \div d) * d + (x % d)
<1>1. x \div d \in Int /\ x % d \in 0 .. d - 1
  OBVIOUS
<1>2. (x \div d) * d \in Int
  BY <1>1
<1>3. x = (x \div d) * d + (x % d)
  OBVIOUS
<1> QED BY <1>1, <1>2, <1>3

(* Division rounds down.                                                    *)
LEMMA AtMostQuotient ==
  ASSUME NEW x \in Int, NEW d \in Nat \ {0}, NEW q \in Int
  PROVE  q <= x \div d <=> q * d <= x
<1>1. PICK p \in Int, r \in 0 .. d - 1 : p = x \div d /\ p * d \in Int /\ x = p * d + r
  BY Quotient
<1>2. q * d \in Int
  OBVIOUS
<1>3. ASSUME q <= p PROVE q * d <= x
  <2>1. q * d <= p * d
    BY <1>3, Product
  <2> QED BY <1>1, <1>2, <2>1
<1>4. ASSUME p + 1 <= q PROVE ~ (q * d <= x)
  <2>1. (p + 1) * d <= q * d /\ (p + 1) * d \in Int
    BY <1>4, Product
  <2>2. (p + 1) * d = p * d + d
    OBVIOUS
  <2> QED BY <1>1, <1>2, <2>1, <2>2
<1> QED BY <1>1, <1>3, <1>4

(* x is q d + r with a remainder in 0 .. d - 1 in one way.                  *)
LEMMA Remainder ==
  ASSUME NEW q \in Int, NEW d \in Nat \ {0}, NEW r \in 0 .. d - 1
  PROVE  (q * d + r) % d = r /\ (q * d + r) \div d = q
<1>1. PICK x \in Int, m \in Int : x = q * d + r /\ m = q * d
  OBVIOUS
<1>2. q <= x \div d
  BY <1>1, AtMostQuotient
<1>3. ~ (q + 1 <= x \div d)
  <2>1. (q + 1) * d = m + d
    BY <1>1
  <2> QED BY <1>1, <2>1, AtMostQuotient
<1>4. x \div d = q
  BY <1>1, <1>2, <1>3
<1>5. x = (x \div d) * d + (x % d) /\ x % d \in Int
  BY Quotient
<1> QED BY <1>1, <1>4, <1>5

LEMMA Rates ==
  ASSUME kind \in Kinds
  PROVE  /\ kind \in {"hpsdr", "sdrip", "cloud"}
         /\ Rate[kind] \in Nat \ {0} /\ IqRate[kind] \in Nat \ {0}
         /\ Rate[kind] <= IqRate[kind]
         /\ kind = "cloud" => IqRate[kind] = Rate[kind]
         /\ kind = "hpsdr" => Group \in Nat \ {0} /\ IqRate[kind] = Group * Rate[kind]
<1>1. /\ kind \in {"hpsdr", "sdrip", "cloud"}
      /\ Rate[kind] \in Nat \ {0} /\ IqRate[kind] \in Nat \ {0}
      /\ Rate[kind] <= IqRate[kind]
      /\ kind = "cloud" => IqRate[kind] = Rate[kind]
      /\ kind = "hpsdr" => IqRate[kind] % Rate[kind] = 0
  BY IqAssumption
<1>2. ASSUME kind = "hpsdr" PROVE Group \in Nat \ {0} /\ IqRate[kind] = Group * Rate[kind]
  <2>1. PICK q \in Nat \ {0}, r \in Nat \ {0} : q = IqRate[kind] /\ r = Rate[kind] /\ q % r = 0
    BY <1>1, <1>2
  <2>2. q \div r \in Int /\ q = (q \div r) * r
    <3>1. q \div r \in Int /\ q = (q \div r) * r + (q % r) /\ (q \div r) * r \in Int
      BY Quotient
    <3> QED BY <2>1, <3>1
  <2>3. 1 <= q \div r
    <3>1. 1 * r <= q
      BY <1>1, <2>1
    <3> QED BY <3>1, AtMostQuotient
  <2> QED BY <2>1, <2>2, <2>3 DEF Group
<1> QED BY <1>1, <1>2
-------------------------------------------------------------------------------
(* KeptAt(m) is the number of a sample, and m of them are kept once it has  *)
(* been counted.                                                            *)
LEMMA KeptAtOnce ==
  ASSUME kind \in Kinds, NEW m \in Nat \ {0}, NEW c \in Nat
  PROVE  /\ Kept(c) \in Nat /\ KeptAt(m) \in Nat \ {0}
         /\ KeptAt(m) <= c <=> m <= Kept(c)
<1>1. CASE kind = "hpsdr"
  <2>1. PICK g \in Nat \ {0} : g = Group
    BY <1>1, Rates
  <2>2. Kept(c) = (c + g - 1) \div g /\ KeptAt(m) = (m - 1) * g + 1
    BY <1>1, <2>1 DEF Kept, KeptAt
  <2>3. PICK y \in Nat : y = (m - 1) * g
    OBVIOUS
  <2>4. m * g = y + g
    BY <2>3
  <2>5. m <= Kept(c) <=> y + g <= c + g - 1
    <3>1. m <= (c + g - 1) \div g <=> m * g <= c + g - 1
      BY AtMostQuotient
    <3> QED BY <2>2, <2>4, <3>1
  <2>6. Kept(c) \in Nat
    <3>1. c + g - 1 \in Nat
      OBVIOUS
    <3> QED BY <2>2, <3>1
  <2> QED BY <2>2, <2>3, <2>5, <2>6
<1>2. CASE kind = "sdrip"
  <2>1. PICK r \in Nat \ {0}, q \in Nat \ {0} : r = Rate[kind] /\ q = IqRate[kind] /\ r <= q
    BY Rates
  <2>2. Kept(c) = (c * r) \div q /\ KeptAt(m) = (m * q + r - 1) \div r
    BY <1>2, <2>1 DEF Kept, KeptAt
  <2>3. PICK y \in Nat, x \in Nat : y = m * q /\ x = c * r
    OBVIOUS
  <2>4. (c + 1) * r = x + r
    BY <2>3
  <2>5. m <= Kept(c) <=> y <= x
    <3>1. m <= x \div q <=> m * q <= x
      BY AtMostQuotient
    <3> QED BY <2>2, <2>3, <3>1
  <2>6. c + 1 <= KeptAt(m) <=> x + r <= y + r - 1
    <3>1. c + 1 <= (y + r - 1) \div r <=> (c + 1) * r <= y + r - 1
      BY AtMostQuotient
    <3> QED BY <2>2, <2>3, <2>4, <3>1
  <2>7. Kept(c) \in Nat
    <3>1. x \div q \in Nat
      OBVIOUS
    <3> QED BY <2>2, <2>3, <3>1
  <2>8. KeptAt(m) \in Int /\ 1 <= KeptAt(m)
    <3>1. q <= y
      BY <2>3, Product
    <3>2. 1 * r <= y + r - 1
      BY <2>3, <3>1
    <3>3. /\ 1 <= (y + r - 1) \div r <=> 1 * r <= y + r - 1
          /\ (y + r - 1) \div r \in Int
      BY AtMostQuotient, Quotient
    <3> QED BY <2>2, <2>3, <3>2, <3>3
  <2> QED BY <2>3, <2>5, <2>6, <2>7, <2>8
<1>3. CASE kind = "cloud"
  BY <1>3 DEF Kept, KeptAt
<1> QED BY <1>1, <1>2, <1>3, Rates

LEMMA KeptAtGrows ==
  ASSUME kind \in Kinds, NEW m \in Nat \ {0}, NEW n \in Nat \ {0}, m < n
  PROVE  KeptAt(m) < KeptAt(n)
<1>1. KeptAt(m) \in Nat /\ KeptAt(n) \in Nat
  BY KeptAtOnce
<1>2. CASE kind = "hpsdr"
  <2>1. PICK g \in Nat \ {0} : g = Group
    BY <1>2, Rates
  <2>2. m * g <= (n - 1) * g /\ m * g = (m - 1) * g + g
    BY <2>1, Product
  <2>3. (m - 1) * g \in Int /\ (n - 1) * g \in Int
    BY <2>1
  <2> QED BY <1>2, <2>1, <2>2, <2>3 DEF KeptAt
<1>3. CASE kind = "sdrip"
  <2>1. PICK r \in Nat \ {0}, q \in Nat \ {0} : r = Rate[kind] /\ q = IqRate[kind] /\ r <= q
    BY Rates
  <2>2. PICK y \in Nat, z \in Nat, a \in Nat : y = m * q /\ z = n * q /\ a = KeptAt(m)
    <3>1. m * q \in Nat /\ n * q \in Nat
      OBVIOUS
    <3> QED BY <1>1, <3>1
  <2>3. a = (y + r - 1) \div r /\ KeptAt(n) = (z + r - 1) \div r
    BY <1>3, <2>1, <2>2 DEF KeptAt
  <2>4. PICK b \in Int : b = a * r /\ b <= y + r - 1
    BY <2>2, <2>3, AtMostQuotient
  <2>5. (a + 1) * r = b + r
    BY <2>4
  <2>6. y + q <= z
    <3>1. (m + 1) * q <= n * q /\ (m + 1) * q = y + q
      BY <2>2, Product
    <3> QED BY <2>2, <3>1
  <2>7. a + 1 <= KeptAt(n)
    <3>1. a + 1 <= (z + r - 1) \div r <=> (a + 1) * r <= z + r - 1
      BY AtMostQuotient
    <3> QED BY <2>1, <2>2, <2>3, <2>4, <2>5, <2>6, <3>1
  <2> QED BY <1>1, <2>2, <2>7
<1>4. CASE kind = "cloud"
  BY <1>4 DEF KeptAt
<1> QED BY <1>2, <1>3, <1>4, Rates

(* The samples that pass the test of the source are those with the numbers  *)
(* KeptAt(1), KeptAt(2), ... (HPSDR::process_data() takes the first of each *)
(* group, SDRIP::data_reader() the one that completes an output period).    *)
THEOREM KeptAreThose ==
  ASSUME kind \in Kinds, NEW c \in Nat \ {0}
  PROVE  Keeps(c) <=> \E m \in Nat \ {0} : c = KeptAt(m)
<1>1. CASE kind = "hpsdr"
  <2>1. PICK g \in Nat \ {0} : g = Group
    BY <1>1, Rates
  <2>2. Keeps(c) <=> (c - 1) % g = 0
    BY <1>1, <2>1 DEF Keeps
  <2>3. ASSUME (c - 1) % g = 0 PROVE \E m \in Nat \ {0} : c = KeptAt(m)
    <3>1. PICK q \in Int : q = (c - 1) \div g /\ q * g \in Int /\ c - 1 = q * g
      BY <2>3, Quotient
    <3>2. 0 <= q
      BY <3>1, AtMostQuotient
    <3>3. q + 1 \in Nat \ {0} /\ KeptAt(q + 1) = q * g + 1
      BY <1>1, <2>1, <3>1, <3>2 DEF KeptAt
    <3> QED BY <3>1, <3>3
  <2>4. ASSUME NEW m \in Nat \ {0}, c = KeptAt(m) PROVE (c - 1) % g = 0
    <3>1. c - 1 = (m - 1) * g + 0
      BY <1>1, <2>1, <2>4 DEF KeptAt
    <3> QED BY <3>1, Remainder
  <2> QED BY <2>2, <2>3, <2>4
<1>2. CASE kind = "sdrip"
  <2>1. Keeps(c) <=> Kept(c) > Kept(c - 1)
    BY <1>2 DEF Keeps, Kept
  <2>2. Kept(c) \in Nat /\ Kept(c - 1) \in Nat
    BY KeptAtOnce
  <2>3. ASSUME Kept(c) > Kept(c - 1) PROVE c = KeptAt(Kept(c))
    <3>1. PICK m \in Nat \ {0} : m = Kept(c) /\ ~ (m <= Kept(c - 1))
      BY <2>2, <2>3
    <3>2. KeptAt(m) \in Nat /\ KeptAt(m) <= c /\ ~ (KeptAt(m) <= c - 1)
      BY <3>1, KeptAtOnce
    <3> QED BY <3>1, <3>2
  <2>4. ASSUME NEW m \in Nat \ {0}, c = KeptAt(m) PROVE Kept(c) > Kept(c - 1)
    <3>1. m <= Kept(c) /\ ~ (m <= Kept(c - 1))
      BY <2>4, KeptAtOnce
    <3> QED BY <2>2, <3>1
  <2>5. Kept(c) > Kept(c - 1) => Kept(c) \in Nat \ {0}
    BY <2>2
  <2> QED BY <2>1, <2>3, <2>4, <2>5
<1>3. CASE kind = "cloud"
  BY <1>3 DEF Keeps, KeptAt
<1> QED BY <1>1, <1>2, <1>3, Rates
-------------------------------------------------------------------------------
LEMMA LaterSeqNo ==
  ASSUME kind = "sdrip", NEW k \in Nat \ {0, 1}
  PROVE  SeqNo(k) = ((k - 2) % MaxSeq) + 1
<1>1. PICK n \in Nat \ {0} : n = MaxSeq
  BY IqAssumption
<1>2. CASE k - 1 <= n
  <2>1. (0 * n + (k - 2)) % n = k - 2
    BY <1>2, Remainder
  <2>2. (k - 2) % n = k - 2
    BY <2>1
  <2> QED BY <1>1, <1>2, <2>2 DEF SeqNo
<1> QED BY <1>1, <1>2 DEF SeqNo

LEMMA SeqNoRange ==
  ASSUME kind \in {"hpsdr", "sdrip"}, NEW k \in Nat \ {0}
  PROVE  SeqNo(k) \in Nat
<1>1. PICK n \in Nat \ {0}, w \in Nat \ {0} : n = MaxSeq /\ w = Word
  BY IqAssumption
<1>2. (k - 1) % w \in Nat
  OBVIOUS
<1>3. ASSUME k # 1 PROVE (k - 2) % n \in Nat
  BY <1>3
<1> QED BY <1>1, <1>2, <1>3 DEF SeqNo

(* What the reader expects after packet k is the number of packet k + 1.    *)
LEMMA NextExpected ==
  ASSUME NEW k \in Nat \ {0}
  PROVE  /\ kind = "hpsdr" => HpsdrExpected(SeqNo(k)) = SeqNo(k + 1)
         /\ kind = "sdrip" => SdripExpected(SeqNo(k)) = SeqNo(k + 1)
<1>1. PICK n \in Nat \ {0}, w \in Nat \ {0} : n = MaxSeq /\ w = Word
  BY IqAssumption
<1>2. ASSUME kind = "hpsdr" PROVE HpsdrExpected(SeqNo(k)) = SeqNo(k + 1)
  <2>1. (((k - 1) % w) + 1) % w = k % w
    <3>1. PICK q \in Int, r \in 0 .. w - 1 :
            (k - 1) % w = r /\ k - 1 = q * w + r /\ q * w \in Int
      <4>1. /\ (k - 1) \div w \in Int /\ (k - 1) % w \in 0 .. w - 1
            /\ ((k - 1) \div w) * w \in Int
            /\ k - 1 = ((k - 1) \div w) * w + ((k - 1) % w)
        BY Quotient
      <4> QED BY <4>1
    <3>2. CASE r + 1 < w
      <4>1. (0 * w + (r + 1)) % w = r + 1 /\ (q * w + (r + 1)) % w = r + 1
        BY <3>2, Remainder
      <4> QED BY <3>1, <4>1
    <3>3. CASE r + 1 = w
      <4>1. (1 * w + 0) % w = 0 /\ ((q + 1) * w + 0) % w = 0
        BY Remainder
      <4>2. (q + 1) * w = q * w + w
        OBVIOUS
      <4> QED BY <3>1, <3>3, <4>1, <4>2
    <3> QED BY <3>2, <3>3
  <2> QED BY <1>1, <1>2, <2>1 DEF HpsdrExpected, SeqNo
<1>3. ASSUME kind = "sdrip" PROVE SdripExpected(SeqNo(k)) = SeqNo(k + 1)
  <2>1. SeqNo(k + 1) = ((k - 1) % n) + 1
    BY <1>1, <1>3, LaterSeqNo
  <2>2. CASE k = 1
    <3>1. (0 * n + 0) % n = 0
      BY Remainder
    <3> QED BY <1>1, <1>3, <2>1, <2>2, <3>1 DEF SdripExpected, SeqNo
  <2>3. CASE k # 1
    <3>1. PICK q \in Int, r \in 0 .. n - 1 :
            (k - 2) % n = r /\ q = (k - 2) \div n /\ k - 2 = q * n + r /\ q * n \in Int
      BY Quotient
    <3>2. SeqNo(k) = r + 1
      BY <1>1, <1>3, <2>3, <3>1, LaterSeqNo
    <3>3. CASE r + 1 < n
      <4>1. (q * n + (r + 1)) % n = r + 1
        BY <3>3, Remainder
      <4> QED BY <1>1, <2>1, <3>1, <3>2, <3>3, <4>1 DEF SdripExpected
    <3>4. CASE r + 1 = n
      <4>1. ((q + 1) * n + 0) % n = 0
        BY Remainder
      <4>2. (q + 1) * n = q * n + n
        OBVIOUS
      <4> QED BY <1>1, <2>1, <3>1, <3>2, <3>4, <4>1, <4>2 DEF SdripExpected
    <3> QED BY <3>3, <3>4
  <2> QED BY <2>2, <2>3
<1> QED BY <1>2, <1>3

(* From packet a to packet k the number grows by k - a, if none in between  *)
(* has the last one, and never by more.                                     *)
LEMMA SeqNoGap ==
  ASSUME kind = "sdrip", NEW a \in Nat \ {0}, NEW k \in Nat, a <= k
  PROVE  /\ SeqNo(k) - SeqNo(a) <= k - a
         /\ \/ SeqNo(k) - SeqNo(a) = k - a
            \/ \E i \in a .. k - 1 : SeqNo(i) = MaxSeq
<1>1. PICK n \in Nat \ {0} : n = MaxSeq
  BY IqAssumption
<1>2. SeqNo(1) = 0
  BY IqAssumption DEF SeqNo
<1>3. PICK b \in {1, 2} : b = IF a = 1 THEN 1 ELSE 2
  OBVIOUS
<1>4. CASE k = 1
  BY <1>2, <1>4
<1>5. CASE k # 1
  <2>1. PICK p \in Int, s \in 0 .. n - 1 :
          (k - 2) % n = s /\ p = (k - 2) \div n /\ k - 2 = p * n + s /\ p * n \in Int
    BY <1>5, Quotient
  <2>2. SeqNo(k) = s + 1
    BY <1>1, <1>5, <2>1, LaterSeqNo
  <2>3. PICK q \in Int, r \in -1 .. n - 1 : SeqNo(a) = r + 1 /\ a - 2 = q * n + r /\ q * n \in Int
    <3>1. CASE a = 1
      <4>1. 0 * n = 0
        OBVIOUS
      <4> QED BY <1>2, <3>1, <4>1
    <3>2. CASE a # 1
      <4>1. PICK q \in Int, r \in 0 .. n - 1 :
              (a - 2) % n = r /\ q = (a - 2) \div n /\ a - 2 = q * n + r /\ q * n \in Int
        BY Quotient
      <4>2. SeqNo(a) = r + 1
        BY <1>1, <3>2, <4>1, LaterSeqNo
      <4> WITNESS q \in Int, r \in -1 .. n - 1
      <4> QED BY <4>1, <4>2
    <3> QED BY <3>1, <3>2
  <2>4. (q + 1) * n = q * n + n
    OBVIOUS
  <2>5. CASE k - 2 < q * n + n
    <3>1. ~ (q + 1 <= p)
      BY <2>1, <2>4, <2>5, AtMostQuotient
    <3>2. p * n <= q * n
      BY <3>1, Product
    <3>3. q * n = p * n \/ (p + 1) * n <= q * n
      <4>1. p = q \/ p + 1 <= q
        BY <3>1
      <4> QED BY <4>1, Product
    <3>4. (p + 1) * n = p * n + n
      OBVIOUS
    <3>5. SeqNo(k) - SeqNo(a) = k - a
      BY <2>1, <2>2, <2>3, <3>2, <3>3, <3>4
    <3> QED BY <3>5
  <2>6. CASE q * n + n <= k - 2
    <3>1. q + 1 <= p
      <4>1. (q + 1) * n <= k - 2 <=> q + 1 <= (k - 2) \div n
        BY AtMostQuotient
      <4> QED BY <2>1, <2>4, <2>6, <4>1
    <3>2. (q + 1) * n <= p * n
      BY <3>1, Product
    <3>3. SeqNo(k) - SeqNo(a) <= k - a
      BY <2>1, <2>2, <2>3, <2>4, <3>2
    <3>4. PICK i \in Nat : i - 2 = q * n + (n - 1)
      BY <2>3
    <3>5. i \in a .. k - 1
      BY <2>3, <2>6, <3>4
    <3>6. (q * n + (n - 1)) % n = n - 1
      BY Remainder
    <3>7. CASE i = 1
      BY <1>2, <3>7, <3>4, <3>5, <2>3
    <3>8. CASE i # 1
      <4>1. SeqNo(i) = n
        BY <1>1, <3>4, <3>5, <3>6, <3>8, LaterSeqNo
      <4> QED BY <1>1, <3>3, <3>5, <4>1
    <3> QED BY <3>7, <3>8
  <2> QED BY <2>5, <2>6, <2>1, <2>3
<1> QED BY <1>4, <1>5
-------------------------------------------------------------------------------
(* The HPSDR never puts in more zeros than samples are missing, for the     *)
(* unsigned difference of the numbers is the negative of what is missing.   *)
LEMMA HpsdrGap ==
  ASSUME kind = "hpsdr", NEW j \in Nat, NEW k \in Nat, j < k, expect = SeqNo(j + 1)
  PROVE  HpsdrZeros(SeqNo(k)) \in Nat /\ HpsdrZeros(SeqNo(k)) <= (k - 1 - j) * Size
<1>1. PICK w \in Nat \ {0}, n \in Nat \ {0} : w = Word /\ n = Size
  BY IqAssumption
<1>2. PICK a \in Int, u \in 0 .. w - 1 : SeqNo(j + 1) = u /\ j = a * w + u /\ a * w \in Int
  <2>1. PICK x \in Int : x = j
    OBVIOUS
  <2>2. /\ x \div w \in Int /\ x % w \in 0 .. w - 1
        /\ (x \div w) * w \in Int /\ x = (x \div w) * w + (x % w)
    BY Quotient
  <2>3. SeqNo(j + 1) = x % w
    BY <1>1, <2>1 DEF SeqNo
  <2> QED BY <2>1, <2>2, <2>3
<1>3. PICK b \in Int, v \in 0 .. w - 1 : SeqNo(k) = v /\ k - 1 = b * w + v /\ b * w \in Int
  <2>1. PICK x \in Int : x = k - 1
    OBVIOUS
  <2>2. /\ x \div w \in Int /\ x % w \in 0 .. w - 1
        /\ (x \div w) * w \in Int /\ x = (x \div w) * w + (x % w)
    BY Quotient
  <2>3. SeqNo(k) = x % w
    BY <1>1, <2>1 DEF SeqNo
  <2> QED BY <2>1, <2>2, <2>3
<1>4. PICK x \in Int, c \in Int, y \in 0 .. w - 1 :
        x = (u - v) * n /\ x % w = y /\ x = c * w + y /\ c * w \in Int
  <2>1. PICK x \in Int : x = (u - v) * n
    OBVIOUS
  <2>2. /\ x \div w \in Int /\ x % w \in 0 .. w - 1
        /\ (x \div w) * w \in Int /\ x = (x \div w) * w + (x % w)
    BY Quotient
  <2> QED BY <2>1, <2>2
<1>5. PICK z \in Nat : z = (k - 1 - j) * n
  <2>1. k - 1 - j \in Nat
    OBVIOUS
  <2> QED BY <2>1
<1>6. PICK t \in Int : t = (b - a) * n - c
  OBVIOUS
<1>7. y + z = t * w
  <2>1. PICK d \in Int, e \in Int : d = b - a /\ e = u - v
    OBVIOUS
  <2>2. d * w = b * w - a * w
    BY <2>1
  <2>3. k - 1 - j = d * w - e
    BY <1>2, <1>3, <2>1, <2>2
  <2>4. z = (d * w) * n - e * n
    BY <1>5, <2>3
  <2>5. t * w = (d * n) * w - c * w
    BY <1>6, <2>1
  <2>6. (d * w) * n = (d * n) * w /\ (d * w) * n \in Int /\ e * n \in Int
    OBVIOUS
  <2> QED BY <1>4, <2>1, <2>4, <2>5, <2>6
<1>8. HpsdrZeros(SeqNo(k)) = IF y < w \div 2 THEN y ELSE 0
  <2>1. Signed(x) = IF y < w \div 2 THEN y ELSE y - w
    BY <1>1, <1>4 DEF Signed
  <2> QED BY <1>1, <1>2, <1>3, <1>4, <2>1 DEF HpsdrZeros, Max0
<1>9. ASSUME y < w \div 2 PROVE y <= z
  <2>1. y + y < w
    <3>1. (w \div 2) + (w \div 2) <= w /\ w \div 2 \in Nat
      OBVIOUS
    <3> QED BY <1>9, <3>1
  <2>2. CASE 1 <= t
    <3>1. 1 * w <= t * w
      BY <2>2, Product
    <3> QED BY <1>7, <2>1, <3>1
  <2>3. CASE t <= 0
    <3>1. t * w <= 0 * w
      BY <2>3, Product
    <3> QED BY <1>7, <3>1
  <2> QED BY <2>2, <2>3
<1> QED BY <1>1, <1>5, <1>8, <1>9

(* The SDR-IP puts in zeros for exactly the packets that are missing, if    *)
(* none of them has the last number, and never for more.                    *)
LEMMA SdripGap ==
  ASSUME kind = "sdrip", NEW j \in Nat, NEW k \in Nat, j < k, expect = SeqNo(j + 1)
  PROVE  /\ SdripZeros(SeqNo(k)) \in Nat /\ SdripZeros(SeqNo(k)) <= (k - 1 - j) * Size
         /\ \/ SdripZeros(SeqNo(k)) = (k - 1 - j) * Size
            \/ \E i \in j + 1 .. k - 1 : SeqNo(i) = MaxSeq
<1>1. PICK n \in Nat \ {0} : n = Size
  BY IqAssumption
<1>2. PICK d \in Int, g \in Nat : d = SeqNo(k) - SeqNo(j + 1) /\ g = k - 1 - j
  BY SeqNoRange
<1>3. d <= g /\ (d = g \/ \E i \in j + 1 .. k - 1 : SeqNo(i) = MaxSeq)
  BY <1>2, SeqNoGap
<1>4. SdripZeros(SeqNo(k)) = n * Max0(d)
  BY <1>1, <1>2 DEF SdripZeros
<1>5. Max0(d) \in Nat /\ Max0(d) <= g /\ (d = g => Max0(d) = g)
  BY <1>3 DEF Max0
<1>6. PICK m \in Nat : m = Max0(d)
  BY <1>5
<1>7. n * m \in Nat /\ n * m = m * n /\ m * n <= g * n
  BY <1>5, <1>6, Product
<1> QED BY <1>1, <1>2, <1>3, <1>4, <1>5, <1>6, <1>7

LEMMA InitCounted == IqInit => CountInv
<1> SUFFICES ASSUME IqInit PROVE CountInv
  OBVIOUS
<1> USE IqAssumption DEF IqInit
<1>1. 0 = 0 * Size
  OBVIOUS
<1>2. Udp => expect = SeqNo(newest + 1)
  <2>1. PICK w \in Nat \ {0} : w = Word
    OBVIOUS
  <2>2. (0 * w + 0) % w = 0
    BY Remainder
  <2> QED BY <2>1, <2>2 DEF Udp, SeqNo
<1>3. 1 .. 0 = {}
  OBVIOUS
<1>4. Arrivals
  BY <1>1, <1>2, <1>3 DEF Arrivals
<1> QED BY <1>1, <1>4 DEF CountInv, InStep, GapsFilled

(* The reader takes packet k: all between it and newest are lost.           *)
LEMMA StoreFacts ==
  ASSUME Arrivals, NEW k \in net, NEW z \in Nat, Store(k, z), z <= (k - 1 - newest) * Size
  PROVE  /\ k \in Nat /\ newest < k /\ k <= sent /\ newest + 1 .. k - 1 \subseteq gone
         /\ newest' = k /\ count' = count + z + Size
         /\ net' \subseteq k + 1 .. sent /\ k + 1 .. sent \subseteq net' \cup gone
         /\ UNCHANGED <<kind, sent, gone>>
         /\ count' \in Nat /\ count' <= k * Size
         /\ k * Size - count' >= newest * Size - count
         /\ k * Size - count' = newest * Size - count => z = (k - 1 - newest) * Size
         /\ z = (k - 1 - newest) * Size => k * Size - count' = newest * Size - count
<1>1. PICK n \in Nat \ {0} : n = Size
  BY IqAssumption
<1>2. /\ k \in Nat /\ newest < k /\ k <= sent /\ newest + 1 .. k - 1 \subseteq gone
      /\ newest' = k /\ count' = count + z + Size
      /\ net' \subseteq k + 1 .. sent /\ k + 1 .. sent \subseteq net' \cup gone
      /\ UNCHANGED <<kind, sent, gone>> /\ newest \in Nat /\ count \in Nat /\ sent \in Nat
      /\ count <= newest * Size
  BY DEF Arrivals, Store
<1>3. PICK g \in Nat : g = k - 1 - newest
  BY <1>2
<1>4. k = newest + g + 1 /\ (newest + g + 1) * n = newest * n + g * n + n
  BY <1>2, <1>3
<1>5. newest * n \in Nat /\ g * n \in Nat /\ k * n \in Nat
  BY <1>2, <1>3
<1> QED BY <1>1, <1>2, <1>3, <1>4, <1>5

LEMMA CountStep ==
  ASSUME CountInv, [IqNext]_iqVars
  PROVE  CountInv'
<1> USE IqAssumption
<1>0. Arrivals /\ InStep
  BY DEF CountInv
<1>1. /\ kind \in {"hpsdr", "sdrip", "cloud"} /\ sent \in Nat /\ newest \in Nat /\ newest <= sent
      /\ count \in Nat /\ count <= newest * Size /\ newest * Size \in Nat
  BY <1>0 DEF Arrivals
<1>2. ASSUME UNCHANGED <<kind, newest, count, expect>>, gone \subseteq gone',
             Arrivals' PROVE CountInv'
  <2>1. \A i \in Nat : SeqNo(i)' = SeqNo(i)
    BY <1>2 DEF SeqNo
  <2>2. gone # {} => gone' # {}
    BY <1>2
  <2>3. WrapLost => WrapLost'
    BY <1>2, <2>1 DEF WrapLost, SeqNo
  <2>4. GapsFilled => GapsFilled'
    BY <1>2 DEF GapsFilled
  <2> QED BY <1>0, <1>2, <2>2, <2>3, <2>4 DEF CountInv, InStep
<1>3. CASE Send
  <2>1. Arrivals'
    BY <1>3, <1>0, <1>1 DEF Send, Arrivals, reader, Udp, SeqNo
  <2> QED BY <1>2, <1>3, <2>1 DEF Send, reader
<1>4. ASSUME NEW k \in net, Lose(k) PROVE CountInv'
  <2>1. Arrivals'
    BY <1>4, <1>0, <1>1 DEF Lose, Arrivals, reader, Udp, SeqNo
  <2> QED BY <1>2, <1>4, <2>1 DEF Lose, reader
<1>5. ASSUME UNCHANGED <<radio, reader>> PROVE CountInv'
  <2>1. Arrivals'
    BY <1>5, <1>0 DEF Arrivals, radio, reader, Udp, SeqNo
  <2> QED BY <1>2, <1>5, <2>1 DEF radio, reader
<1>6. ASSUME NEW k \in net, NEW z \in Nat, Store(k, z), z <= (k - 1 - newest) * Size,
             Udp => expect' = SeqNo(k + 1),
             \/ kind = "hpsdr" /\ gone # {}
             \/ kind = "sdrip" /\ WrapLost
             \/ z = (k - 1 - newest) * Size
      PROVE  CountInv'
  <2>1. /\ k \in Nat /\ k <= sent /\ newest' = k
        /\ net' \subseteq k + 1 .. sent /\ k + 1 .. sent \subseteq net' \cup gone
        /\ UNCHANGED <<kind, sent, gone>>
        /\ count' \in Nat /\ count' <= k * Size /\ k * Size \in Nat
        /\ z = (k - 1 - newest) * Size => k * Size - count' = newest * Size - count
    BY <1>0, <1>6, StoreFacts
  <2>2. Udp' = Udp /\ SeqNo(k + 1)' = SeqNo(k + 1)
    BY <2>1 DEF Udp, SeqNo
  <2>3. Arrivals'
    BY <1>0, <1>6, <2>1, <2>2 DEF Arrivals, Udp, SeqNo
  <2>4. WrapLost => WrapLost'
    BY <2>1 DEF WrapLost, SeqNo
  <2>5. z = (k - 1 - newest) * Size /\ GapsFilled => GapsFilled'
    BY <1>1, <2>1 DEF GapsFilled
  <2> QED BY <1>0, <1>6, <2>1, <2>3, <2>4, <2>5 DEF CountInv, InStep
<1>7. ASSUME NEW k \in net
      PROVE  k \in Nat \ {0} /\ newest < k /\ newest + 1 .. k - 1 \subseteq net \cup gone
  BY <1>0, <1>1 DEF Arrivals
<1>8. ASSUME NEW k \in net, NEW z \in Nat, Store(k, z)
      PROVE  newest + 1 .. k - 1 \subseteq gone
  BY <1>7, <1>8 DEF Store
<1>9. ASSUME NEW k \in net, ReceiveHpsdr(k) PROVE CountInv'
  <2>1. PICK z \in Nat : z = HpsdrZeros(SeqNo(k)) /\ z <= (k - 1 - newest) * Size
    BY <1>0, <1>1, <1>7, <1>9, HpsdrGap DEF ReceiveHpsdr, Arrivals, Udp
  <2>2. Store(k, z) /\ kind = "hpsdr" /\ expect' = SeqNo(k + 1)
    BY <1>7, <1>9, <2>1, NextExpected DEF ReceiveHpsdr
  <2>3. ASSUME gone = {} PROVE z = (k - 1 - newest) * Size
    <3>1. k = newest + 1
      <4>1. newest + 1 .. k - 1 = {}
        BY <1>8, <2>2, <2>3
      <4>2. newest + 1 <= k - 1 => newest + 1 \in newest + 1 .. k - 1
        BY <1>1, <1>7
      <4> QED BY <1>1, <1>7, <4>1, <4>2
    <3>2. (k - 1 - newest) * Size = 0
      BY <1>1, <3>1
    <3> QED BY <2>1, <3>2
  <2> QED BY <1>6, <2>1, <2>2, <2>3
<1>10. ASSUME NEW k \in net, ReceiveSdrip(k) PROVE CountInv'
  <2>1. PICK z \in Nat :
          /\ z = SdripZeros(SeqNo(k)) /\ z <= (k - 1 - newest) * Size
          /\ \/ z = (k - 1 - newest) * Size
             \/ \E i \in newest + 1 .. k - 1 : SeqNo(i) = MaxSeq
    BY <1>0, <1>1, <1>7, <1>10, SdripGap DEF ReceiveSdrip, Arrivals, Udp
  <2>2. Store(k, z) /\ kind = "sdrip" /\ expect' = SeqNo(k + 1)
    BY <1>7, <1>10, <2>1, NextExpected DEF ReceiveSdrip
  <2>3. z = (k - 1 - newest) * Size \/ WrapLost
    BY <1>8, <2>1, <2>2 DEF WrapLost
  <2> QED BY <1>6, <2>1, <2>2, <2>3
<1>11. ASSUME NEW k \in net, ReceiveCloud(k) PROVE CountInv'
  <2>1. Store(k, 0) /\ ~Udp /\ gone = {}
    BY <1>0, <1>11 DEF ReceiveCloud, Udp, Arrivals
  <2>2. k = newest + 1
    <3>1. newest + 1 .. k - 1 = {}
      BY <1>8, <2>1
    <3> QED BY <1>1, <1>7, <3>1
  <2>3. (k - 1 - newest) * Size = 0
    BY <1>1, <2>2
  <2> QED BY <1>6, <2>1, <2>3
<1>12. CASE TickClears
  BY <1>5, <1>12 DEF TickClears
<1>13. ASSUME NEW n \in Requests, TakeAudio(n) PROVE CountInv'
  BY <1>5, <1>13 DEF TakeAudio
<1>14. ASSUME NEW n \in Requests, TakeIq(n) PROVE CountInv'
  BY <1>5, <1>14 DEF TakeIq
<1>15. CASE ReturnAll
  BY <1>5, <1>15 DEF ReturnAll
<1>16. CASE ReturnSome
  BY <1>5, <1>16 DEF ReturnSome
<1>17. CASE UNCHANGED iqVars
  BY <1>5, <1>17 DEF iqVars
<1> QED BY <1>3, <1>4, <1>9, <1>10, <1>11, <1>12, <1>13, <1>14, <1>15, <1>16, <1>17 DEF IqNext

(* The zeros that the readers put in stand for exactly what is missing, as  *)
(* long as the SDR-IP does not lose a packet with the last sequence number  *)
(* and the HPSDR loses none (HPSDR::process_data(), SDRIP::data_reader()).  *)
THEOREM ZerosFillTheGaps == IqSpec => []InStep
<1>1. CountInv => InStep
  BY DEF CountInv
<1> QED BY InitCounted, CountStep, <1>1, PTL DEF IqSpec
-------------------------------------------------------------------------------
LEMMA KeptNat ==
  ASSUME kind \in Kinds, NEW c \in Nat
  PROVE  Kept(c) \in Nat
<1>1. 1 \in Nat \ {0}
  OBVIOUS
<1> QED BY <1>1, KeptAtOnce

LEMMA KeptGrows ==
  ASSUME kind \in Kinds, NEW c \in Nat, NEW d \in Nat, c <= d
  PROVE  Kept(c) \in Nat /\ Kept(d) \in Nat /\ Kept(c) <= Kept(d)
<1>1. Kept(c) \in Nat /\ Kept(d) \in Nat
  BY KeptNat
<1>2. ASSUME Kept(c) # 0 PROVE Kept(c) <= Kept(d)
  <2>1. PICK m \in Nat \ {0} : m = Kept(c)
    BY <1>1, <1>2
  <2>2. KeptAt(m) \in Nat /\ KeptAt(m) <= c
    BY <2>1, KeptAtOnce
  <2>3. KeptAt(m) <= d
    BY <2>2
  <2> QED BY <2>1, <2>3, KeptAtOnce
<1> QED BY <1>1, <1>2

(* What is appended for packet k ascends, from after the packets that are   *)
(* missing to the end of packet k.                                          *)
LEMMA NewAscends ==
  ASSUME kind \in Kinds, count \in Nat, NEW k \in Nat \ {0}, NEW z \in Nat
  PROVE  /\ Ascends(New(k, z), (k - 1) * Size - z, k * Size)
         /\ Len(New(k, z)) = Kept(count + z + Size) - Kept(count)
         /\ \A m \in 1 .. Len(New(k, z)) :
              New(k, z)[m] = (k - 1) * Size + KeptAt(Kept(count) + m) - (count + z)
<1>1. PICK n \in Nat \ {0} : n = Size
  BY IqAssumption
<1>2. PICK a \in Nat, b \in Nat :
        a = Kept(count) /\ b = Kept(count + z + n) /\ a <= b
  <2>1. count + z + n \in Nat /\ count <= count + z + n
    OBVIOUS
  <2> QED BY <2>1, KeptGrows
<1>3. PICK y \in Nat : y = (k - 1) * n /\ k * n = y + n
  <2>1. (k - 1) * n \in Nat /\ k * n = (k - 1) * n + n
    <3>1. k - 1 \in Nat
      OBVIOUS
    <3> QED BY <3>1
  <2> QED BY <2>1
<1>4. ASSUME NEW m \in 1 .. b - a
      PROVE  /\ KeptAt(a + m) \in Nat
             /\ count < KeptAt(a + m) /\ KeptAt(a + m) <= count + z + n
  <2>1. PICK i \in Nat \ {0} : i = a + m
    BY <1>2
  <2>2. count + z + n \in Nat
    OBVIOUS
  <2>3. /\ KeptAt(i) \in Nat
        /\ KeptAt(i) <= count <=> i <= a
        /\ KeptAt(i) <= count + z + n <=> i <= b
    BY <1>2, <2>2, KeptAtOnce
  <2> QED BY <1>2, <2>1, <2>3
<1>5. New(k, z) = [m \in 1 .. b - a |-> y + KeptAt(a + m) - (count + z)]
  BY <1>1, <1>2, <1>3 DEF New, Position
<1>6. PICK s : s = New(k, z)
  OBVIOUS
<1>7. /\ s \in Seq(Int) /\ Len(s) = b - a
      /\ \A m \in 1 .. b - a : s[m] = y + KeptAt(a + m) - (count + z)
  <2>1. b - a \in Nat
    BY <1>2
  <2>2. \A m \in 1 .. b - a : y + KeptAt(a + m) - (count + z) \in Int
    BY <1>2, <1>3, <1>4
  <2> QED BY <1>5, <1>6, <2>1, <2>2
<1>8. \A m \in 1 .. Len(s) : y - z < s[m] /\ s[m] <= y + n
  <2>1. SUFFICES ASSUME NEW m \in 1 .. b - a PROVE y - z < s[m] /\ s[m] <= y + n
    BY <1>7
  <2>2. PICK x \in Nat : x = KeptAt(a + m) /\ count < x /\ x <= count + z + n
    BY <1>4
  <2>3. s[m] = y + x - (count + z)
    BY <1>7, <2>2
  <2> QED BY <2>2, <2>3
<1>9. Increasing(s)
  <2>1. SUFFICES ASSUME NEW i \in 1 .. b - a, NEW j \in 1 .. b - a, i < j PROVE s[i] < s[j]
    BY <1>7 DEF Increasing
  <2>2. a + i \in Nat \ {0} /\ a + j \in Nat \ {0} /\ a + i < a + j
    BY <1>2, <2>1
  <2>3. KeptAt(a + i) < KeptAt(a + j)
    BY <2>2, KeptAtGrows
  <2> QED BY <1>3, <1>4, <1>7, <2>3
<1> QED BY <1>1, <1>2, <1>3, <1>6, <1>7, <1>8, <1>9 DEF Ascends

LEMMA Nothing ==
  ASSUME NEW a \in Int, NEW b \in Int
  PROVE  Ascends(<<>>, a, b)
BY DEF Ascends, Increasing

LEMMA AscendsWidely ==
  ASSUME NEW a \in Int, NEW b \in Int, NEW c \in Int, NEW d \in Int, c <= a, b <= d,
         NEW s, Ascends(s, a, b)
  PROVE  Ascends(s, c, d)
BY DEF Ascends

LEMMA AscendsOn ==
  ASSUME NEW a \in Int, NEW b \in Int, NEW c \in Int, NEW d \in Int, a <= b, b <= c, c <= d,
         NEW s, NEW t, Ascends(s, a, b), Ascends(t, c, d)
  PROVE  Ascends(s \o t, a, d)
<1>1. s \in Seq(Int) /\ t \in Seq(Int)
  BY DEF Ascends
<1>2. /\ s \o t \in Seq(Int) /\ Len(s \o t) = Len(s) + Len(t)
      /\ \A i \in 1 .. Len(s) : (s \o t)[i] = s[i]
      /\ \A i \in Len(s) + 1 .. Len(s) + Len(t) : (s \o t)[i] = t[i - Len(s)]
  BY <1>1
<1>3. PICK u : u = s \o t
  OBVIOUS
<1>4. PICK m \in Nat, n \in Nat : m = Len(s) /\ n = Len(t)
  BY <1>1
<1>5. \A i \in 1 .. m : u[i] = s[i] /\ a < s[i] /\ s[i] <= b /\ s[i] \in Int
  BY <1>1, <1>2, <1>3, <1>4 DEF Ascends
<1>6. \A i \in m + 1 .. m + n :
        u[i] = t[i - m] /\ i - m \in 1 .. n /\ c < t[i - m] /\ t[i - m] <= d /\ t[i - m] \in Int
  BY <1>1, <1>2, <1>3, <1>4 DEF Ascends
<1>7. \A i \in 1 .. m + n : i \in 1 .. m \/ i \in m + 1 .. m + n
  OBVIOUS
<1>8. \A i \in 1 .. m + n : a < u[i] /\ u[i] <= d
  BY <1>5, <1>6, <1>7
<1>9. \A i, j \in 1 .. m + n : i < j => u[i] < u[j]
  <2>1. SUFFICES ASSUME NEW i \in 1 .. m + n, NEW j \in 1 .. m + n, i < j PROVE u[i] < u[j]
    OBVIOUS
  <2>2. CASE j <= m
    <3>1. i \in 1 .. m /\ j \in 1 .. m
      BY <2>1, <2>2
    <3>2. s[i] < s[j]
      BY <1>4, <2>1, <3>1 DEF Ascends, Increasing
    <3> QED BY <1>5, <3>1, <3>2
  <2>3. CASE i <= m /\ m < j
    <3>1. i \in 1 .. m /\ j \in m + 1 .. m + n
      BY <2>3
    <3>2. u[i] \in Int /\ u[j] \in Int /\ u[i] <= b /\ c < u[j]
      BY <1>5, <1>6, <3>1
    <3> QED BY <3>2
  <2>4. CASE m < i
    <3>1. i \in m + 1 .. m + n /\ j \in m + 1 .. m + n /\ i - m < j - m
      BY <2>1, <2>4
    <3>2. i - m \in 1 .. n /\ j - m \in 1 .. n
      BY <3>1
    <3>3. t[i - m] < t[j - m]
      BY <1>4, <3>1, <3>2 DEF Ascends, Increasing
    <3> QED BY <1>6, <3>1, <3>3
  <2> QED BY <2>2, <2>3, <2>4
<1> QED BY <1>2, <1>3, <1>4, <1>8, <1>9 DEF Ascends, Increasing

LEMMA LastOnes ==
  ASSUME NEW s \in Seq(Int), NEW n \in Nat
  PROVE  /\ LastOf(s, n) \in Seq(Int)
         /\ Len(LastOf(s, n)) = (IF n < Len(s) THEN n ELSE Len(s))
         /\ Len(LastOf(s, n)) <= Len(s)
         /\ \A i \in 1 .. Len(LastOf(s, n)) :
              LastOf(s, n)[i] = s[Len(s) - Len(LastOf(s, n)) + i]
<1>1. PICK m \in Nat : m = Len(s)
  OBVIOUS
<1>2. PICK j \in Nat \ {0} : j = Max0(m - n) + 1 /\ j = IF n < m THEN m - n + 1 ELSE 1
  <2>1. Max0(m - n) = IF n < m THEN m - n ELSE 0
    BY DEF Max0
  <2> QED BY <2>1
<1>3. LastOf(s, n) = SubSeq(s, j, m)
  BY <1>1, <1>2 DEF LastOf
<1>4. /\ SubSeq(s, j, m) \in Seq(Int) /\ Len(SubSeq(s, j, m)) = m - j + 1
      /\ \A i \in 1 .. m - j + 1 : SubSeq(s, j, m)[i] = s[j + i - 1]
  <2>1. j <= m + 1
    BY <1>2
  <2>2. Len(SubSeq(s, j, m)) = m - j + 1
    BY <1>1, <2>1
  <2>3. \A i \in 1 .. m - j + 1 : SubSeq(s, j, m)[i] = s[j + i - 1]
    BY <1>1, <2>1
  <2>4. SubSeq(s, j, m) \in Seq(Int)
    BY <1>1, <2>1
  <2> QED BY <2>2, <2>3, <2>4
<1>5. m - j + 1 = IF n < m THEN n ELSE m
  BY <1>2
<1>6. PICK t \in Seq(Int) : t = LastOf(s, n)
  BY <1>3, <1>4
<1>7. Len(t) = m - j + 1 /\ \A i \in 1 .. m - j + 1 : t[i] = s[j + i - 1]
  BY <1>3, <1>4, <1>6
<1>8. \A i \in 1 .. Len(t) : t[i] = s[m - Len(t) + i]
  <2>1. SUFFICES ASSUME NEW i \in 1 .. m - j + 1 PROVE t[i] = s[m - Len(t) + i]
    BY <1>7
  <2>2. m - Len(t) + i = j + i - 1
    BY <1>7
  <2> QED BY <1>7, <2>2
<1>9. Len(t) <= m
  BY <1>2, <1>7
<1> QED BY <1>1, <1>5, <1>6, <1>7, <1>8, <1>9

(* The last l of those that are kept of c samples begin within two output   *)
(* periods after the time that Start() gives.                               *)
LEMMA StartNear ==
  ASSUME kind \in Kinds, NEW c \in Nat, NEW l \in Nat \ {0}, l <= Kept(c)
  PROVE  LET p == KeptAt(Kept(c) - l + 1) * Rate[kind] IN
         Start(c, l) < p /\ p <= Start(c, l) + IqRate[kind] + Rate[kind]
<1>1. PICK r \in Nat \ {0}, q \in Nat \ {0} : r = Rate[kind] /\ q = IqRate[kind] /\ r <= q
  BY Rates
<1>0. PICK k \in Nat : k = Kept(c)
  BY KeptNat
<1>2. PICK x \in Nat, a \in Int, b \in Int, y \in Int :
        /\ x = c * r /\ a = l * q /\ k = Kept(c) /\ b = k * q
        /\ y = (k - l + 1) * q /\ y = b - a + q
  <2>1. c * r \in Nat /\ l * q \in Int /\ k * q \in Int /\ (k - l + 1) * q \in Int
    OBVIOUS
  <2>2. (k - l + 1) * q = k * q - l * q + q
    OBVIOUS
  <2> QED BY <1>0, <2>1, <2>2
<1>3. k - l + 1 \in Nat \ {0} /\ Start(c, l) = x - a
  BY <1>1, <1>2 DEF Start
<1>4. PICK m \in Nat \ {0} : m = KeptAt(k - l + 1)
  BY <1>3, KeptAtOnce
<1>5. PICK p \in Int : p = m * r
  OBVIOUS
<1>6. CASE kind = "hpsdr"
  <2>1. PICK g \in Nat \ {0} : g = Group /\ q = g * r
    BY <1>1, <1>6, Rates
  <2>2. k = (c + g - 1) \div g /\ m = (k - l) * g + 1
    BY <1>2, <1>4, <1>6, <2>1 DEF Kept, KeptAt
  <2>3. PICK kg \in Int, lg \in Int : kg = k * g /\ lg = l * g /\ (k - l) * g = kg - lg
    OBVIOUS
  <2>4. kg <= c + g - 1 /\ c <= kg
    <3>1. k <= (c + g - 1) \div g <=> k * g <= c + g - 1
      BY AtMostQuotient
    <3>2. k + 1 <= (c + g - 1) \div g <=> (k + 1) * g <= c + g - 1
      <4>1. PICK j \in Int : j = k + 1
        OBVIOUS
      <4>2. j <= (c + g - 1) \div g <=> j * g <= c + g - 1
        BY AtMostQuotient
      <4> QED BY <4>1, <4>2
    <3>3. (k + 1) * g = kg + g
      BY <2>3
    <3> QED BY <2>2, <2>3, <3>1, <3>2, <3>3
  <2>5. p = (kg - lg) * r + r
    <3>1. m = kg - lg + 1
      BY <2>2, <2>3
    <3> QED BY <1>5, <3>1
  <2>6. b = kg * r /\ a = lg * r
    BY <1>2, <2>1, <2>3
  <2>7. p = b - a + r
    BY <2>5, <2>6
  <2>8. x <= b /\ b <= x + q - r
    <3>1. c * r <= kg * r
      BY <2>4, Product
    <3>2. kg * r <= (c + g - 1) * r
      BY <2>4, Product
    <3>3. (c + g - 1) * r = x + q - r
      BY <1>2, <2>1
    <3> QED BY <1>2, <2>6, <3>1, <3>2, <3>3
  <2> QED BY <1>1, <1>2, <1>3, <1>4, <1>5, <2>7, <2>8
<1>7. CASE kind = "sdrip"
  <2>1. k = x \div q /\ m = (y + r - 1) \div r
    BY <1>1, <1>2, <1>4, <1>7 DEF Kept, KeptAt
  <2>2. b <= x /\ x < b + q
    <3>1. k <= x \div q <=> k * q <= x
      BY AtMostQuotient
    <3>2. k + 1 <= x \div q <=> (k + 1) * q <= x
      BY AtMostQuotient
    <3>3. (k + 1) * q = b + q
      BY <1>2
    <3> QED BY <1>2, <2>1, <3>1, <3>2, <3>3
  <2>3. y <= p /\ p <= y + r - 1
    <3>1. m <= (y + r - 1) \div r <=> m * r <= y + r - 1
      BY AtMostQuotient
    <3>2. m + 1 <= (y + r - 1) \div r <=> (m + 1) * r <= y + r - 1
      BY AtMostQuotient
    <3>3. (m + 1) * r = p + r
      BY <1>5
    <3> QED BY <1>5, <2>1, <3>1, <3>2, <3>3
  <2> QED BY <1>1, <1>2, <1>3, <1>4, <1>5, <2>2, <2>3
<1>8. CASE kind = "cloud"
  <2>1. k = c /\ m = k - l + 1 /\ q = r
    BY <1>1, <1>2, <1>4, <1>8, Rates DEF Kept, KeptAt
  <2> QED BY <1>1, <1>2, <1>3, <1>4, <1>5, <2>1
<1> QED BY <1>6, <1>7, <1>8, Rates
-------------------------------------------------------------------------------
LEMMA InitOut == IqInit => OutInv
<1> SUFFICES ASSUME IqInit PROVE OutInv
  OBVIOUS
<1> USE IqAssumption DEF IqInit
<1>1. Calls
  BY DEF Calls, Idle
<1>2. Order
  <2>1. newest * Size = 0 /\ Given = {} /\ buf = <<>> /\ ret.s = <<>>
    BY DEF Given, Elements
  <2>2. Apart(0, 0, newest * Size)
    <3>1. Ascends(call.v, 0, 0) /\ Ascends(samples, 0, 0)
      BY Nothing DEF Idle
    <3> QED BY <2>1, <3>1 DEF Apart
  <2>3. Unseen(buf, Given, mixed) /\ Unseen(ret.s, out, ret.mixed)
    BY <2>1 DEF Unseen, Once, Increasing
  <2>4. \E lo, mid \in Nat : Apart(lo, mid, newest * Size)
    BY <2>2
  <2>5. /\ kind = "cloud" => latest = 1
        /\ out \subseteq Int /\ ret.s \in Seq(Int) /\ buf \in Seq(Int)
        /\ ~ret.mixed /\ ~mixed
    BY <2>1
  <2> QED BY <2>1, <2>3, <2>4, <2>5 DEF Order
<1>3. Recent
  <2>1. Kept(0) \in Nat
    BY KeptNat
  <2> QED BY <2>1 DEF Recent, Suffix, SuffixOf, Idle
<1>4. T0Right
  BY DEF T0Right
<1> QED BY <1>1, <1>2, <1>3, <1>4 DEF OutInv

LEMMA Invariably ==
  ASSUME kind' = kind
  PROVE  /\ \A c : Kept(c)' = Kept(c) /\ KeptAt(c)' = KeptAt(c)
         /\ Udp' = Udp
BY DEF Kept, KeptAt, Group, Udp

LEMMA SuffixNext ==
  ASSUME kind' = kind
  PROVE  Suffix(samples)' <=>
           /\ Len(samples') <= Kept(count')
           /\ \A i \in 1 .. Len(samples') :
                samples'[i] = KeptAt(Kept(count') - Len(samples') + i)
BY DEF Suffix, SuffixOf, Kept, KeptAt, Group

LEMMA GivenInt ==
  ASSUME OutInv
  PROVE  Given \subseteq Int
<1>1. out \subseteq Int /\ ret.s \in Seq(Int)
  BY DEF OutInv, Order
<1>2. Elements(ret.s) \subseteq Int
  BY <1>1 DEF Elements
<1> QED BY <1>1, <1>2 DEF Given

LEMMA LeftOverNext ==
  ASSUME kind' = kind, NEW rest, NEW now, buf' = rest, time' = now
  PROVE  SuffixOf(buf, time)' <=> SuffixOf(rest, now)
<1>1. SuffixOf(buf, time)' <=>
        /\ Len(buf') <= Kept(time')
        /\ \A i \in 1 .. Len(buf') : buf'[i] = KeptAt(Kept(time') - Len(buf') + i)
  BY DEF SuffixOf, Kept, KeptAt, Group
<1> QED BY <1>1 DEF SuffixOf

(* The caller's side of Order and Recent does not change.                   *)
LEMMA CallerStays ==
  ASSUME OutInv, UNCHANGED <<kind, latest, call, buf, time, history>>
  PROVE  /\ Given' = Given
         /\ Unseen(buf, Given, mixed)' /\ Unseen(ret.s, out, ret.mixed)'
         /\ (dated /\ ~mixed /\ buf # <<>> => time \in Nat /\ SuffixOf(buf, time))'
         /\ T0Right'
<1>1. Given' = Given
  BY DEF Given, Elements, history
<1>2. Unseen(buf, Given, mixed)' /\ Unseen(ret.s, out, ret.mixed)'
  BY <1>1 DEF OutInv, Order, Unseen, Once, Increasing, history
<1>3. SuffixOf(buf, time)' <=> SuffixOf(buf, time)
  BY DEF SuffixOf, Kept, KeptAt, Group
<1>4. (dated /\ ~mixed /\ buf # <<>> => time \in Nat /\ SuffixOf(buf, time))'
  BY <1>3 DEF OutInv, Recent, history
<1>5. T0Right'
  BY DEF OutInv, T0Right, history
<1> QED BY <1>1, <1>2, <1>4, <1>5

(* Nothing that get() sees is changed, or samples are dropped.              *)
LEMMA OutStays ==
  ASSUME CountInv, OutInv, UNCHANGED <<kind, latest, newest, count, call, buf, time, history>>,
         stamp' = stamp, samples' = samples \/ samples' = <<>>,
         \/ fresh' = fresh /\ sent' = sent
         \/ fresh' = FALSE /\ sent' = sent + 1
  PROVE  OutInv'
<1>1. Calls'
  BY DEF OutInv, Calls, Idle
<1>2. Order'
  <2>1. PICK lo \in Nat, mid \in Nat : Apart(lo, mid, newest * Size)
    BY DEF OutInv, Order
  <2>2. newest * Size \in Nat
    BY IqAssumption DEF CountInv, Arrivals
  <2>3. Ascends(samples', mid, newest * Size)
    BY <2>1, <2>2, Nothing DEF Apart
  <2>4. Given' = Given /\ Unseen(buf, Given, mixed)' /\ Unseen(ret.s, out, ret.mixed)'
    BY CallerStays
  <2>5. Apart(lo, mid, newest * Size)'
    BY <2>1, <2>3, <2>4 DEF Apart, Ascends, Increasing
  <2> QED BY <2>4, <2>5 DEF OutInv, Order, history
<1>3. GapsFilled' = GapsFilled /\ Udp' = Udp /\ Idle' = Idle
  BY DEF GapsFilled, Udp, Idle
<1>4. Recent'
  <2>1. Kept(count)' = Kept(count) /\ \A m : KeptAt(m)' = KeptAt(m)
    BY Invariably
  <2>2. Kept(count) \in Nat
    BY KeptNat DEF CountInv, Arrivals
  <2>3. /\ Suffix(samples) /\ samples' = samples => Suffix(samples)'
        /\ Suffix(call.v) => Suffix(call.v)'
    BY DEF Suffix, SuffixOf, Kept, KeptAt, Group
  <2>4. samples' = <<>> => Suffix(samples)'
    BY <2>1, <2>2 DEF Suffix, SuffixOf
  <2>5. sent \in Nat /\ newest <= sent /\ newest \in Nat
    BY DEF CountInv, Arrivals
  <2>6. ~Udp' /\ newest' = sent' /\ newest' # 0 => stamp' = Clock'
    BY <1>3, <2>5 DEF OutInv, Recent, Clock
  <2>7. ~Udp' /\ fresh' /\ call' # Idle /\ call'.v # <<>> => call'.t = Clock'
    BY <1>3 DEF OutInv, Recent, Clock
  <2>8. (dated /\ ~mixed /\ buf # <<>> => time \in Nat /\ SuffixOf(buf, time))'
    BY CallerStays
  <2> QED BY <1>3, <2>3, <2>5, <2>6, <2>7, <2>4, <2>8 DEF OutInv, Recent
<1>5. T0Right'
  BY CallerStays
<1> QED BY <1>1, <1>2, <1>4, <1>5 DEF OutInv

LEMMA OutStore ==
  ASSUME CountInv, OutInv, NEW k \in net, NEW z \in Nat, Store(k, z),
         z <= (k - 1 - newest) * Size, stamp' \in Int, ~Udp => stamp' = Clock
  PROVE  OutInv'
<1>1. /\ kind \in Kinds /\ newest \in Nat /\ count \in Nat /\ sent \in Nat
      /\ k \in Nat \ {0} /\ newest < k /\ newest' = k /\ count' = count + z + Size
      /\ UNCHANGED <<kind, sent>> /\ count' \in Nat
  BY StoreFacts DEF CountInv, Arrivals
<1>2. /\ samples' = Bounded(samples \o New(k, z)) /\ fresh' = FALSE
      /\ UNCHANGED <<kind, latest, call, buf, time, history>>
  BY DEF Store
<1>3. PICK lo \in Nat, from \in Nat, hi \in Nat :
        /\ lo = newest * Size /\ from = (k - 1) * Size /\ hi = k * Size
        /\ lo <= from - z /\ from <= hi /\ count' <= hi /\ count <= lo
        /\ hi - count' >= lo - count
        /\ hi - count' = lo - count => from = lo + z
  <2>1. PICK n \in Nat \ {0} : n = Size
    BY IqAssumption
  <2>2. (k - 1 - newest) * n = (k - 1) * n - newest * n /\ k * n = (k - 1) * n + n
    BY <1>1
  <2>3. (k - 1) * n \in Nat /\ newest * n \in Nat
    <3>1. k - 1 \in Nat
      BY <1>1
    <3> QED BY <1>1, <3>1
  <2>4. /\ k * Size - count' >= newest * Size - count
        /\ k * Size - count' = newest * Size - count => z = (k - 1 - newest) * Size
        /\ count' <= k * Size /\ count <= newest * Size
    BY StoreFacts DEF CountInv, Arrivals
  <2> QED BY <1>1, <2>1, <2>2, <2>3, <2>4
<1>4. PICK new \in Seq(Int) :
        /\ new = New(k, z) /\ Ascends(new, from - z, hi)
        /\ Len(new) = Kept(count') - Kept(count)
        /\ \A m \in 1 .. Len(new) : new[m] = from + KeptAt(Kept(count) + m) - (count + z)
  <2>1. /\ Ascends(New(k, z), (k - 1) * Size - z, k * Size)
        /\ Len(New(k, z)) = Kept(count + z + Size) - Kept(count)
        /\ \A m \in 1 .. Len(New(k, z)) :
             New(k, z)[m] = (k - 1) * Size + KeptAt(Kept(count) + m) - (count + z)
    BY <1>1, NewAscends
  <2>2. New(k, z) \in Seq(Int)
    BY <2>1 DEF Ascends
  <2> QED BY <1>1, <1>3, <2>1, <2>2
<1>5. samples' = samples \o new \/ samples' = <<>>
  BY <1>2, <1>4 DEF Bounded
<1>6. Calls'
  BY <1>2 DEF OutInv, Calls, Idle
<1>7. Order'
  <2>1. PICK low \in Nat, mid \in Nat : Apart(low, mid, lo)
    BY <1>3 DEF OutInv, Order
  <2>2. Ascends(samples \o new, mid, hi)
    <3>1. from - z \in Int /\ mid <= lo /\ lo <= from - z /\ from - z <= hi
      BY <1>3, <2>1 DEF Apart
    <3> QED BY <1>4, <2>1, <3>1, AscendsOn DEF Apart
  <2>3. Ascends(samples', mid, hi)
    <3>1. CASE samples' = samples \o new
      BY <2>2, <3>1
    <3>2. CASE samples' = <<>>
      <4>1. mid \in Int /\ hi \in Int
        BY <1>3, <2>1
      <4> QED BY <3>2, <4>1, Nothing
    <3> QED BY <1>5, <3>1, <3>2
  <2>4. mid <= hi /\ newest' * Size = hi
    <3>1. newest' * Size = hi
      BY <1>1, <1>3
    <3>2. mid <= lo
      BY <2>1 DEF Apart
    <3>3. lo <= hi
      BY <1>3
    <3> QED BY <1>3, <2>1, <3>1, <3>2, <3>3
  <2>5. Given' = Given /\ Unseen(buf, Given, mixed)' /\ Unseen(ret.s, out, ret.mixed)'
    BY <1>2, CallerStays
  <2>6. Apart(low, mid, newest * Size)'
    BY <1>2, <2>1, <2>3, <2>4, <2>5 DEF Apart, Ascends, Increasing
  <2> QED BY <1>2, <2>5, <2>6 DEF OutInv, Order, history
<1>8. GapsFilled' => Suffix(samples)'
  <2>1. SUFFICES ASSUME GapsFilled' PROVE Suffix(samples)'
    OBVIOUS
  <2>2. count' = hi
    BY <1>1, <1>3, <2>1 DEF GapsFilled
  <2>3. count = lo /\ from = lo + z
    <3>1. /\ count <= lo /\ hi - count' >= lo - count
          /\ hi - count' = lo - count => from = lo + z
      BY <1>3
    <3>2. hi - count' = 0
      BY <2>2
    <3>3. 0 >= lo - count /\ (0 = lo - count => from = lo + z)
      BY <3>1, <3>2
    <3> QED BY <1>1, <3>1, <3>3
  <2>4. samples \in Seq(Int)
    BY DEF OutInv, Order, Apart, Ascends
  <2>5. PICK a \in Nat, b \in Nat : a = Kept(count) /\ b = Kept(count')
    <3>1. Kept(count) \in Nat /\ Kept(count') \in Nat
      BY <1>1, KeptNat
    <3> QED BY <3>1
  <2>6. PICK m \in Nat, n \in Nat : m = Len(samples) /\ n = Len(new)
    BY <2>4
  <2>7. m <= a /\ \A i \in 1 .. m : samples[i] = KeptAt(a - m + i)
    BY <1>3, <2>3, <2>5, <2>6 DEF OutInv, Recent, GapsFilled, Suffix, SuffixOf
  <2>8. n = b - a /\ \A i \in 1 .. n : new[i] = KeptAt(a + i)
    <3>1. n = b - a
      BY <1>4, <2>5, <2>6
    <3>2. SUFFICES ASSUME NEW i \in 1 .. n PROVE new[i] = KeptAt(a + i)
      BY <3>1
    <3>3. KeptAt(a + i) \in Nat
      <4>1. a + i \in Nat \ {0}
        OBVIOUS
      <4> QED BY <1>1, <4>1, KeptAtOnce
    <3>4. new[i] = from + KeptAt(a + i) - (count + z)
      BY <1>4, <2>5, <2>6
    <3> QED BY <1>1, <2>3, <3>3, <3>4
  <2>9. PICK u \in Seq(Int) : u = samples \o new
    <3>1. samples \o new \in Seq(Int)
      BY <2>4
    <3> QED BY <3>1
  <2>10. /\ Len(u) = m + n
         /\ \A i \in 1 .. m : u[i] = samples[i]
         /\ \A i \in m + 1 .. m + n : u[i] = new[i - m]
    BY <2>4, <2>6, <2>9
  <2>11. m + n <= b /\ \A i \in 1 .. m + n : u[i] = KeptAt(b - (m + n) + i)
    <3>1. SUFFICES ASSUME NEW i \in 1 .. m + n PROVE u[i] = KeptAt(b - (m + n) + i)
      BY <2>7, <2>8
    <3>2. b - (m + n) + i = a - m + i
      BY <2>8
    <3>3. CASE i <= m
      <4>1. i \in 1 .. m
        BY <3>3
      <4>2. u[i] = KeptAt(a - m + i)
        BY <2>7, <2>10, <4>1
      <4> QED BY <3>2, <4>2
    <3>4. CASE m < i
      <4>1. i - m \in 1 .. n /\ i \in m + 1 .. m + n /\ a + (i - m) = a - m + i
        BY <3>4
      <4>2. new[i - m] = KeptAt(a + (i - m))
        BY <2>8, <4>1
      <4> QED BY <2>10, <3>2, <4>1, <4>2
    <3> QED BY <3>3, <3>4
  <2>12. CASE samples' = u
    BY <1>1, <2>5, <2>10, <2>11, <2>12, SuffixNext
  <2>13. CASE samples' = <<>>
    BY <1>1, <2>5, <2>13, SuffixNext
  <2> QED BY <1>5, <2>9, <2>12, <2>13
<1>9. Recent' /\ T0Right'
  <2>1. Clock' = Clock /\ Udp' = Udp
    BY <1>1 DEF Clock, Udp
  <2>2. /\ (dated /\ ~mixed /\ buf # <<>> => time \in Nat /\ SuffixOf(buf, time))'
        /\ T0Right'
    BY <1>2, CallerStays
  <2> QED BY <1>1, <1>2, <1>8, <2>1, <2>2 DEF Recent
<1> QED BY <1>6, <1>7, <1>9 DEF OutInv

LEMMA OutTake ==
  ASSUME CountInv, OutInv, call = Idle, NEW n \in Requests, NEW t \in Int,
         call' = [n |-> n, v |-> samples, t |-> t],
         samples' = <<>>, fresh' = (newest = sent), ~Udp => t = stamp,
         UNCHANGED <<radio, reader, stamp, buf, time, history>>
  PROVE  OutInv'
<1>1. UNCHANGED <<kind, latest, sent, newest, count, gone>>
  BY DEF radio, reader
<1>2. samples \in Seq(Int) /\ n \in Nat \ {0} /\ call' # Idle /\ Idle' = Idle
  BY IqAssumption DEF OutInv, Order, Apart, Ascends, Idle
<1>3. Calls'
  BY <1>2 DEF OutInv, Calls, Idle
<1>4. PICK hi \in Nat : hi = newest * Size
  BY IqAssumption DEF CountInv, Arrivals
<1>5. Unseen(buf, Given, mixed)' /\ Unseen(ret.s, out, ret.mixed)' /\ Given' = Given
  <2>1. Given' = Given
    BY DEF Given, Elements, history
  <2> QED BY <2>1 DEF OutInv, Order, Unseen, Once, Increasing, history
<1>6. Order'
  <2>1. PICK lo \in Nat, mid \in Nat : Apart(lo, mid, hi)
    BY <1>4 DEF OutInv, Order
  <2>2. Ascends(samples, lo, hi)
    BY <1>4, <2>1, AscendsWidely DEF Apart
  <2>3. Ascends(samples', hi, hi) /\ lo <= hi
    BY <1>4, <2>1, Nothing DEF Apart
  <2>4. Apart(lo, hi, newest * Size)'
    BY <1>1, <1>2, <1>4, <1>5, <2>1, <2>2, <2>3 DEF Apart, Ascends, Increasing
  <2> QED BY <1>1, <1>5, <2>4 DEF OutInv, Order, history
<1>7. Recent'
  <2>1. Clock' = Clock /\ Udp' = Udp /\ GapsFilled' = GapsFilled
    BY <1>1 DEF Clock, Udp, GapsFilled
  <2>2. GapsFilled' => Suffix(call.v)'
    BY <1>1, <2>1 DEF OutInv, Recent, Suffix, SuffixOf, Kept, KeptAt, Group
  <2>3. Suffix(samples)'
    <3>1. Kept(count') \in Nat
      BY <1>1, KeptNat DEF CountInv, Arrivals
    <3> QED BY <1>1, <3>1, SuffixNext
  <2>4. ~Udp' /\ newest' = sent' /\ newest' # 0 => stamp' = Clock'
    BY <1>1, <2>1 DEF OutInv, Recent
  <2>5. ~Udp' /\ fresh' /\ call'.v # <<>> => call'.t = Clock'
    BY <1>1, <2>1 DEF OutInv, Recent
  <2>6. SuffixOf(buf, time)' <=> SuffixOf(buf, time)
    BY <1>1 DEF SuffixOf, Kept, KeptAt, Group
  <2>7. (dated /\ ~mixed /\ buf # <<>> => time \in Nat /\ SuffixOf(buf, time))'
    BY <2>6 DEF OutInv, Recent, history
  <2> QED BY <1>1, <2>1, <2>2, <2>3, <2>4, <2>5, <2>7 DEF Recent
<1>8. T0Right'
  BY <1>1 DEF OutInv, T0Right, history
<1> QED BY <1>3, <1>6, <1>7, <1>8 DEF OutInv
-------------------------------------------------------------------------------
(* s and the rest are the last parts of all, which begin after the first a. *)
Parts(all, s, rest, a, k, l, n) ==
  /\ k = Len(s) /\ l = Len(rest) /\ n = Len(all) /\ a + k + l = n
  /\ s \in Seq(Int) /\ rest \in Seq(Int)
  /\ \A i \in 1 .. k : a + i \in 1 .. n /\ s[i] = all[a + i]
  /\ \A i \in 1 .. l : a + k + i \in 1 .. n /\ rest[i] = all[a + k + i]

Served(all, s, rest) == \E a, k, l, n \in Nat : Parts(all, s, rest, a, k, l, n)

(* all is cut in three, and the first part dropped: s is new to the caller, *)
(* and so is the rest once s is known.                                      *)
LEMMA Cut ==
  ASSUME NEW all, all \in Seq(Int), NEW s, NEW rest, Served(all, s, rest),
         NEW R, NEW m, Unseen(all, R, m)
  PROVE  Unseen(s, R, m) /\ Unseen(rest, R \cup Elements(s), m)
<1>1. PICK a \in Nat, k \in Nat, l \in Nat, n \in Nat : Parts(all, s, rest, a, k, l, n)
  BY DEF Served
<1>2. /\ \A i \in 1 .. k : \E p \in 1 .. n : p = a + i /\ s[i] = all[p]
      /\ \A i \in 1 .. l : \E p \in 1 .. n : p = a + k + i /\ rest[i] = all[p]
  BY <1>1 DEF Parts
<1>3. /\ \A i, j \in 1 .. n : i # j => all[i] # all[j]
      /\ \A i \in 1 .. n : all[i] \notin R
      /\ ~m => \A i, j \in 1 .. n : i < j => all[i] < all[j]
      /\ ~m => \A x \in R, i \in 1 .. n : x < all[i]
  BY <1>1 DEF Unseen, Once, Increasing, Parts
<1>4. ASSUME NEW i \in 1 .. k, NEW j \in 1 .. k, i < j
      PROVE  s[i] # s[j] /\ s[j] # s[i] /\ (~m => s[i] < s[j])
  <2>1. PICK p \in 1 .. n : p = a + i /\ s[i] = all[p]
    BY <1>2
  <2>2. PICK q \in 1 .. n : q = a + j /\ s[j] = all[q]
    BY <1>2
  <2>3. p < q /\ p # q
    BY <1>4, <2>1, <2>2
  <2> QED BY <1>3, <2>1, <2>2, <2>3
<1>5. ASSUME NEW i \in 1 .. l, NEW j \in 1 .. l, i < j
      PROVE  rest[i] # rest[j] /\ rest[j] # rest[i] /\ (~m => rest[i] < rest[j])
  <2>1. PICK p \in 1 .. n : p = a + k + i /\ rest[i] = all[p]
    BY <1>2
  <2>2. PICK q \in 1 .. n : q = a + k + j /\ rest[j] = all[q]
    BY <1>2
  <2>3. p < q /\ p # q
    BY <1>5, <2>1, <2>2
  <2> QED BY <1>3, <2>1, <2>2, <2>3
<1>6. ASSUME NEW i \in 1 .. l, NEW j \in 1 .. k
      PROVE  rest[i] # s[j] /\ (~m => s[j] < rest[i])
  <2>1. PICK p \in 1 .. n : p = a + k + i /\ rest[i] = all[p]
    BY <1>2
  <2>2. PICK q \in 1 .. n : q = a + j /\ s[j] = all[q]
    BY <1>2
  <2>3. q < p /\ p # q
    BY <2>1, <2>2
  <2> QED BY <1>3, <2>1, <2>2, <2>3
<1>7. Unseen(s, R, m)
  <2>1. Once(s)
    <3>1. SUFFICES ASSUME NEW i \in 1 .. k, NEW j \in 1 .. k, i # j PROVE s[i] # s[j]
      BY <1>1 DEF Once, Parts
    <3>2. i < j \/ j < i
      BY <3>1
    <3> QED BY <1>4, <3>2
  <2>2. (\A i \in 1 .. k : s[i] \notin R) /\ (~m => \A x \in R, i \in 1 .. k : x < s[i])
    <3>1. SUFFICES ASSUME NEW i \in 1 .. k
                   PROVE  s[i] \notin R /\ (~m => \A x \in R : x < s[i])
      OBVIOUS
    <3>2. PICK p \in 1 .. n : s[i] = all[p]
      BY <1>2
    <3> QED BY <1>3, <3>2
  <2>3. ~m => \A i, j \in 1 .. k : i < j => s[i] < s[j]
    BY <1>4
  <2> QED BY <1>1, <2>1, <2>2, <2>3 DEF Unseen, Increasing, Parts
<1>8. Unseen(rest, R \cup Elements(s), m)
  <2>1. Once(rest)
    <3>1. SUFFICES ASSUME NEW i \in 1 .. l, NEW j \in 1 .. l, i # j PROVE rest[i] # rest[j]
      BY <1>1 DEF Once, Parts
    <3>2. i < j \/ j < i
      BY <3>1
    <3> QED BY <1>5, <3>2
  <2>2. (\A i \in 1 .. l : rest[i] \notin R) /\ (~m => \A x \in R, i \in 1 .. l : x < rest[i])
    <3>1. SUFFICES ASSUME NEW i \in 1 .. l
                   PROVE  rest[i] \notin R /\ (~m => \A x \in R : x < rest[i])
      OBVIOUS
    <3>2. PICK p \in 1 .. n : rest[i] = all[p]
      BY <1>2
    <3> QED BY <1>3, <3>2
  <2>3. \A x \in Elements(s) : \E j \in 1 .. k : x = s[j]
    BY <1>1 DEF Elements, Parts
  <2>4. \A i \in 1 .. l : rest[i] \notin Elements(s)
    BY <1>6, <2>3
  <2>5. ~m => \A x \in Elements(s), i \in 1 .. l : x < rest[i]
    BY <1>6, <2>3
  <2>6. ~m => \A i, j \in 1 .. l : i < j => rest[i] < rest[j]
    BY <1>5
  <2>7. \A i \in 1 .. l : rest[i] \notin R \cup Elements(s)
    BY <2>2, <2>4
  <2>8. ~m => \A x \in R \cup Elements(s), i \in 1 .. l : x < rest[i]
    BY <2>2, <2>5
  <2> QED BY <1>1, <2>1, <2>6, <2>7, <2>8 DEF Unseen, Increasing, Parts
<1> QED BY <1>7, <1>8

(* What a call can hand out, and what is known of it.                       *)
Offered(all, m, d, now) ==
  /\ all \in Seq(Int) /\ now \in Int
  /\ \E mid \in Nat :
       /\ mid <= newest * Size
       /\ (\A x \in Given : x <= mid) /\ (\A i \in 1 .. Len(all) : all[i] <= mid)
       /\ Ascends(samples, mid, newest * Size)
  /\ Unseen(all, Given, m)
  /\ d /\ ~m /\ all # <<>> => now \in Nat /\ SuffixOf(all, now)
  /\ latest = 1 => ~m

(* s is handed out, the rest is kept, and what lies before s is forgotten.  *)
LEMMA OutReturn ==
  ASSUME CountInv, OutInv, NEW all, NEW m, NEW d, NEW now, Offered(all, m, d, now),
         NEW s, NEW rest, Served(all, s, rest),
         NEW t0 \in Int, s # <<>> => t0 = Start(now, Len(s) + Len(rest)),
         Returned(s, t0, m, d), buf' = rest, time' \in Int,
         latest = 1 => rest = <<>>, mixed' => m /\ rest # <<>>,
         rest # <<>> => time' = now /\ dated' = d /\ (m => mixed'),
         UNCHANGED <<radio, reader, samples, stamp, fresh>>
  PROVE  OutInv'
<1>1. PICK a \in Nat, k \in Nat, l \in Nat, n \in Nat : Parts(all, s, rest, a, k, l, n)
  BY DEF Served
<1> USE DEF Parts
<1>2. a + k + l = n
  BY <1>1
<1>3. UNCHANGED <<kind, latest, sent, newest, count, gone>>
  BY DEF radio, reader
<1>4. /\ call' = Idle /\ Idle' = Idle /\ ret' = [s |-> s, t0 |-> t0, mixed |-> m, dated |-> d]
      /\ all \in Seq(Int) /\ out' = Given /\ ret'.s = s /\ ret'.mixed = m /\ call'.v = <<>>
  BY DEF Returned, Offered, Given, Idle
<1>5. Calls'
  BY <1>4 DEF OutInv, Calls, Idle
<1>6. PICK hi \in Nat : hi = newest * Size
  BY IqAssumption DEF CountInv, Arrivals
<1>7. Given' = Given \cup Elements(s)
  <2>1. Given' = out' \cup Elements(ret.s)'
    BY DEF Given
  <2>2. Elements(ret.s)' = Elements(s)
    BY <1>4 DEF Elements
  <2> QED BY <1>4, <2>1, <2>2
<1>8. Unseen(s, Given, m) /\ Unseen(rest, Given \cup Elements(s), m)
  <2>1. Unseen(all, Given, m)
    BY DEF Offered
  <2> QED BY <1>4, <2>1, Cut
<1>9. Unseen(ret.s, out, ret.mixed)'
  BY <1>4, <1>8 DEF Unseen, Once, Increasing
<1>10. Unseen(buf, Given, mixed)'
  <2>1. CASE rest = <<>>
    BY <2>1 DEF Unseen, Once, Increasing
  <2>2. CASE rest # <<>>
    BY <1>7, <1>8, <2>2 DEF Unseen, Once, Increasing
  <2> QED BY <2>1, <2>2
<1>11. Order'
  <2>1. PICK mid \in Nat :
          /\ mid <= hi /\ Ascends(samples, mid, hi)
          /\ (\A x \in Given : x <= mid) /\ (\A i \in 1 .. Len(all) : all[i] <= mid)
    BY <1>6 DEF Offered
  <2>2. (\A i \in 1 .. k : s[i] <= mid) /\ (\A i \in 1 .. l : rest[i] <= mid)
    <3>1. \A i \in 1 .. n : all[i] <= mid
      BY <1>1, <2>1
    <3> QED BY <1>1, <3>1
  <2>3. \A x \in Given' : x <= mid
    <3>1. SUFFICES ASSUME NEW x \in Elements(s) PROVE x <= mid
      BY <1>7, <2>1
    <3>2. PICK i \in 1 .. k : x = s[i]
      BY <1>1 DEF Elements
    <3> QED BY <2>2, <3>2
  <2>4. Ascends(call.v, mid, mid)' /\ Ascends(samples, mid, newest * Size)'
    <3>1. Ascends(call'.v, mid, mid) /\ Ascends(samples', mid, newest' * Size)
      <4>1. Ascends(<<>>, mid, mid)
        BY Nothing
      <4> QED BY <1>3, <1>4, <1>6, <2>1, <4>1
    <3> QED BY <3>1 DEF Ascends, Increasing
  <2>5. Apart(mid, mid, newest * Size)'
    <3>1. mid <= newest' * Size
      BY <1>3, <1>6, <2>1
    <3>2. \A i \in 1 .. Len(buf') : buf'[i] <= mid
      BY <1>1, <2>2
    <3> QED BY <2>3, <2>4, <3>1, <3>2 DEF Apart
  <2>6. out' \subseteq Int /\ ret'.s \in Seq(Int) /\ buf' \in Seq(Int)
    <3>1. Given \subseteq Int
      BY GivenInt
    <3> QED BY <1>1, <1>4, <3>1
  <2>7. /\ kind' = "cloud" => latest' = 1
        /\ latest' = 1 => buf' = <<>> /\ ~ret'.mixed
        /\ buf' = <<>> => ~mixed'
    BY <1>3, <1>4 DEF OutInv, Order, Offered
  <2> QED BY <1>9, <1>10, <2>5, <2>6, <2>7 DEF Order
<1>12. ASSUME d, ~m, all # <<>>
       PROVE  /\ now \in Nat /\ Len(all) <= Kept(now)
              /\ \A i \in 1 .. Len(all) : all[i] = KeptAt(Kept(now) - Len(all) + i)
  BY <1>12 DEF Offered, SuffixOf
<1>13. ASSUME d, ~m, rest # <<>> PROVE now \in Nat /\ SuffixOf(rest, now)
  <2>1. l # 0 /\ l <= n
    BY <1>1, <1>13
  <2>2. all # <<>>
    BY <1>1, <2>1
  <2>3. PICK c \in Nat : c = Kept(now)
    BY <1>12, <1>13, <2>2, KeptNat DEF CountInv, Arrivals
  <2>4. n <= c /\ \A i \in 1 .. n : all[i] = KeptAt(c - n + i)
    <3>1. /\ Len(all) <= Kept(now)
          /\ \A i \in 1 .. Len(all) : all[i] = KeptAt(Kept(now) - Len(all) + i)
      BY <1>12, <1>13, <2>2
    <3> QED BY <1>1, <2>3, <3>1
  <2>5. \A i \in 1 .. l : rest[i] = KeptAt(c - l + i)
    <3>1. SUFFICES ASSUME NEW i \in 1 .. l PROVE rest[i] = KeptAt(c - l + i)
      OBVIOUS
    <3>2. PICK p \in 1 .. n : p = a + k + i /\ rest[i] = all[p]
      BY <1>1
    <3>3. c - n + p = c - l + i
      BY <1>2, <3>2
    <3> QED BY <2>4, <3>2, <3>3
  <2>6. l <= c
    BY <2>1, <2>4
  <2> QED BY <1>1, <1>12, <1>13, <2>2, <2>3, <2>5, <2>6 DEF SuffixOf
<1>14. Recent'
  <2>1. Clock' = Clock /\ Udp' = Udp /\ GapsFilled' = GapsFilled
    BY <1>3 DEF Clock, Udp, GapsFilled
  <2>2. Suffix(samples)' <=> Suffix(samples)
    BY <1>3, SuffixNext DEF Suffix, SuffixOf
  <2>3. (dated /\ ~mixed /\ buf # <<>> => time \in Nat /\ SuffixOf(buf, time))'
    <3>1. SUFFICES ASSUME dated', ~mixed', rest # <<>>
                   PROVE  time' \in Nat /\ SuffixOf(buf, time)'
      OBVIOUS
    <3>2. SuffixOf(buf, time)' <=> SuffixOf(rest, now)
      BY <1>3, <3>1, LeftOverNext
    <3> QED BY <1>13, <3>1, <3>2
  <2> QED BY <1>3, <1>4, <2>1, <2>2, <2>3 DEF OutInv, Recent
<1>15. T0Right'
  <2>1. SUFFICES ASSUME d, ~m, s # <<>>
                 PROVE  LET p == s[1] * Rate[kind] IN
                        t0 < p /\ p <= t0 + IqRate[kind] + Rate[kind]
    BY <1>3, <1>4 DEF T0Right
  <2>2. k # 0 /\ k <= n
    BY <1>1, <2>1
  <2>3. all # <<>>
    BY <1>1, <2>2
  <2>4. PICK c \in Nat : c = Kept(now)
    BY <1>12, <2>1, <2>3, KeptNat DEF CountInv, Arrivals
  <2>5. n <= c /\ \A i \in 1 .. n : all[i] = KeptAt(c - n + i)
    <3>1. /\ Len(all) <= Kept(now)
          /\ \A i \in 1 .. Len(all) : all[i] = KeptAt(Kept(now) - Len(all) + i)
      BY <1>12, <2>1, <2>3
    <3> QED BY <1>1, <2>4, <3>1
  <2>6. s[1] = KeptAt(c - (k + l) + 1)
    <3>1. PICK p \in 1 .. n : p = a + 1 /\ s[1] = all[p]
      BY <1>1, <2>2
    <3>2. c - n + p = c - (k + l) + 1
      BY <1>2, <3>1
    <3> QED BY <2>5, <3>1, <3>2
  <2>7. k + l \in Nat \ {0} /\ k + l <= c /\ t0 = Start(now, k + l)
    BY <1>1, <2>1, <2>2, <2>5
  <2>8. now \in Nat /\ kind \in Kinds
    BY <1>12, <2>1, <2>3 DEF CountInv, Arrivals
  <2>9. LET p == KeptAt(Kept(now) - (k + l) + 1) * Rate[kind] IN
        Start(now, k + l) < p /\ p <= Start(now, k + l) + IqRate[kind] + Rate[kind]
    BY <2>4, <2>7, <2>8, StartNear
  <2> QED BY <2>4, <2>6, <2>7, <2>9
<1> QED BY <1>5, <1>11, <1>14, <1>15 DEF OutInv

(* What get_iq() hands out of tail, and the rest.                           *)
LEMMA FirstAndRest ==
  ASSUME NEW tail, tail \in Seq(Int), NEW n \in Nat, NEW k \in Nat, k = Len(tail),
         NEW s, s = FirstOf(tail, n), NEW rest, rest = LastOf(tail, k - Len(s))
  PROVE  \E l, r \in Nat : Parts(tail, s, rest, 0, l, r, k) /\ (k <= n => rest = <<>>)
<1>1. PICK l \in Nat : l = (IF n < k THEN n ELSE k) /\ l <= k /\ (k <= n => l = k)
  OBVIOUS
<1>2. PICK r \in Nat : r = k - l /\ l + r = k
  BY <1>1
<1>3. s \in Seq(Int) /\ Len(s) = l /\ \A i \in 1 .. l : s[i] = tail[i]
  <2>1. s = SubSeq(tail, 1, l)
    BY <1>1 DEF FirstOf
  <2>2. l <= k
    BY <1>2
  <2>3. /\ SubSeq(tail, 1, l) \in Seq(Int) /\ Len(SubSeq(tail, 1, l)) = l
        /\ \A i \in 1 .. l : SubSeq(tail, 1, l)[i] = tail[i]
    BY <2>2
  <2> QED BY <2>1, <2>3
<1>4. k - Len(s) = r /\ (IF r < k THEN r ELSE k) = r /\ \A i \in 1 .. r : k - r + i = l + i
  <2>1. k - l = r /\ r <= k /\ k - r = l
    BY <1>2
  <2> QED BY <1>3, <2>1
<1>5. rest = LastOf(tail, r)
  BY <1>4
<1>6. /\ rest \in Seq(Int) /\ Len(rest) = r
      /\ \A i \in 1 .. r : rest[i] = tail[k - r + i]
  <2>1. /\ LastOf(tail, r) \in Seq(Int)
        /\ Len(LastOf(tail, r)) = (IF r < k THEN r ELSE k)
        /\ \A i \in 1 .. Len(LastOf(tail, r)) :
             LastOf(tail, r)[i] = tail[k - Len(LastOf(tail, r)) + i]
    BY LastOnes
  <2>2. PICK u : u = LastOf(tail, r)
    OBVIOUS
  <2>3. u \in Seq(Int) /\ Len(u) = r /\ \A i \in 1 .. Len(u) : u[i] = tail[k - Len(u) + i]
    BY <1>4, <2>1, <2>2
  <2>4. \A i \in 1 .. r : u[i] = tail[k - r + i]
    BY <2>3
  <2> QED BY <1>5, <2>2, <2>3, <2>4
<1>7. k <= n => rest = <<>>
  <2>1. k <= n => r = 0
    BY <1>1, <1>2
  <2> QED BY <1>6, <2>1
<1>8. \A i \in 1 .. r : rest[i] = tail[l + i]
  BY <1>4, <1>6
<1>9. (\A i \in 1 .. l : i \in 1 .. k /\ 0 + i = i) /\ (\A i \in 1 .. r : l + i \in 1 .. k)
      /\ 0 + l + r = k /\ 0 + l = l
  BY <1>2
<1>10. Parts(tail, s, rest, 0, l, r, k)
  BY <1>3, <1>6, <1>8, <1>9 DEF Parts
<1> QED BY <1>7, <1>10

LEMMA OldOffered ==
  ASSUME CountInv, OutInv
  PROVE  Offered(buf, mixed, dated, time)
<1>1. PICK hi \in Nat : hi = newest * Size
  BY IqAssumption DEF CountInv, Arrivals
<1>2. PICK lo \in Nat, mid \in Nat : Apart(lo, mid, hi)
  BY <1>1 DEF OutInv, Order
<1>3. Ascends(samples, lo, hi) /\ lo <= hi
  BY <1>1, <1>2, AscendsWidely DEF Apart
<1> QED BY <1>1, <1>2, <1>3 DEF OutInv, Order, Calls, Recent, Apart, Offered

(* The samples of v lie above those that are left over.                     *)
LEMMA Above ==
  ASSUME OutInv, NEW lo, NEW mid, NEW hi, Apart(lo, mid, hi)
  PROVE  /\ call.v \in Seq(Int) /\ buf \in Seq(Int)
         /\ \A i \in 1 .. Len(call.v) : lo < call.v[i] /\ call.v[i] <= mid
         /\ Increasing(call.v) /\ Once(buf)
         /\ \A i \in 1 .. Len(buf) : buf[i] <= lo /\ buf[i] <= mid /\ buf[i] \notin Given
         /\ \A x \in Given : x \in Int /\ x <= lo /\ x <= mid
<1>1. buf \in Seq(Int) /\ Once(buf) /\ \A i \in 1 .. Len(buf) : buf[i] \notin Given
  BY DEF OutInv, Order, Unseen
<1>2. /\ lo \in Nat /\ mid \in Nat /\ lo <= mid /\ Ascends(call.v, lo, mid)
      /\ (\A x \in Given : x <= lo) /\ \A i \in 1 .. Len(buf) : buf[i] <= lo
  BY DEF Apart
<1>3. /\ call.v \in Seq(Int) /\ Increasing(call.v)
      /\ \A i \in 1 .. Len(call.v) : lo < call.v[i] /\ call.v[i] <= mid
  BY <1>2 DEF Ascends
<1>4. \A i \in 1 .. Len(buf) : buf[i] \in Int
  BY <1>1
<1>5. \A i \in 1 .. Len(buf) : buf[i] <= mid
  BY <1>2, <1>4
<1>6. \A x \in Given : x \in Int
  BY GivenInt
<1>7. \A x \in Given : x <= mid
  BY <1>2, <1>6
<1> QED BY <1>1, <1>2, <1>3, <1>5, <1>6, <1>7

Join(s, t, u, k, l) ==
  /\ k = Len(s) /\ l = Len(t) /\ u \in Seq(Int) /\ Len(u) = k + l
  /\ \A i \in 1 .. k : u[i] = s[i]
  /\ \A i \in k + 1 .. k + l : \E p \in 1 .. l : p = i - k /\ u[i] = t[p]

LEMMA Joined ==
  ASSUME NEW s, s \in Seq(Int), NEW t, t \in Seq(Int), NEW u, u = s \o t
  PROVE  \E k, l \in Nat : Join(s, t, u, k, l)
<1>1. PICK k \in Nat, l \in Nat : k = Len(s) /\ l = Len(t)
  OBVIOUS
<1>2. u \in Seq(Int) /\ Len(u) = k + l /\ \A i \in 1 .. k : u[i] = s[i]
  BY <1>1
<1>3. \A i \in k + 1 .. k + l : u[i] = t[i - k]
  BY <1>1
<1>4. \A i \in k + 1 .. k + l : i - k \in 1 .. l
  OBVIOUS
<1>5. Join(s, t, u, k, l)
  BY <1>1, <1>2, <1>3, <1>4 DEF Join
<1> QED BY <1>5

(* One sequence after another that has no element of it.                    *)
LEMMA OnceOn ==
  ASSUME NEW s, s \in Seq(Int), NEW t, t \in Seq(Int), NEW lo \in Int, Increasing(s), Once(t),
         \A i \in 1 .. Len(s) : lo < s[i], \A i \in 1 .. Len(t) : t[i] <= lo
  PROVE  Once(s \o t)
<1>1. PICK u : u = s \o t
  OBVIOUS
<1>2. PICK k \in Nat, l \in Nat : Join(s, t, u, k, l)
  BY <1>1, Joined
<1>3. k = Len(s) /\ l = Len(t) /\ Len(u) = k + l /\ \A i \in 1 .. k : u[i] = s[i]
  BY <1>2 DEF Join
<1>4. \A i \in 1 .. k : u[i] = s[i] /\ s[i] \in Int /\ lo < s[i]
  BY <1>3
<1>5. \A i \in k + 1 .. k + l : \E p \in 1 .. l : p = i - k /\ u[i] = t[p]
  BY <1>2 DEF Join
<1>6. \A p \in 1 .. l : t[p] \in Int /\ t[p] <= lo
  BY <1>3
<1>7. (\A i, j \in 1 .. k : i < j => s[i] < s[j]) /\ \A i, j \in 1 .. l : i # j => t[i] # t[j]
  BY <1>3 DEF Increasing, Once
<1>8. ASSUME NEW i \in 1 .. k + l, NEW j \in 1 .. k + l, i < j PROVE u[i] # u[j] /\ u[j] # u[i]
  <2>1. CASE j <= k
    <3>1. i \in 1 .. k /\ j \in 1 .. k
      BY <1>8, <2>1
    <3>2. u[i] = s[i] /\ u[j] = s[j] /\ s[i] < s[j] /\ s[i] \in Int /\ s[j] \in Int
      BY <1>4, <1>7, <1>8, <3>1
    <3> QED BY <3>2
  <2>2. CASE i <= k /\ k < j
    <3>1. i \in 1 .. k /\ j \in k + 1 .. k + l
      BY <2>2
    <3>2. PICK p \in 1 .. l : u[j] = t[p]
      BY <1>5, <3>1
    <3>3. u[i] \in Int /\ u[j] \in Int /\ lo < u[i] /\ u[j] <= lo
      BY <1>4, <1>6, <3>1, <3>2
    <3> QED BY <3>3
  <2>3. CASE k < i
    <3>1. i \in k + 1 .. k + l /\ j \in k + 1 .. k + l
      BY <1>8, <2>3
    <3>2. PICK p \in 1 .. l : p = i - k /\ u[i] = t[p]
      BY <1>5, <3>1
    <3>3. PICK q \in 1 .. l : q = j - k /\ u[j] = t[q]
      BY <1>5, <3>1
    <3>4. p # q
      BY <1>8, <3>2, <3>3
    <3> QED BY <1>7, <3>2, <3>3, <3>4
  <2> QED BY <2>1, <2>2, <2>3
<1>9. \A i, j \in 1 .. k + l : i # j => u[i] # u[j]
  <2>1. SUFFICES ASSUME NEW i \in 1 .. k + l, NEW j \in 1 .. k + l, i # j PROVE u[i] # u[j]
    OBVIOUS
  <2>2. i < j \/ j < i
    BY <2>1
  <2> QED BY <1>8, <2>2
<1> QED BY <1>1, <1>3, <1>9 DEF Once

LEMMA NewOffered ==
  ASSUME CountInv, OutInv, call # Idle, NEW all, all = call.v \o buf \/ all = <<>>,
         NEW m, m = (buf # <<>>), NEW d, d = (fresh /\ GapsFilled),
         NEW now \in Int, d /\ call.v # <<>> => now = Clock
  PROVE  Offered(all, m, d, now)
<1>1. PICK hi \in Nat : hi = newest * Size
  BY IqAssumption DEF CountInv, Arrivals
<1>2. PICK lo \in Nat, mid \in Nat : Apart(lo, mid, hi)
  BY <1>1 DEF OutInv, Order
<1>3. PICK v :
        /\ v = call.v /\ v \in Seq(Int) /\ buf \in Seq(Int) /\ Increasing(v) /\ Once(buf)
        /\ \A i \in 1 .. Len(v) : lo < v[i] /\ v[i] <= mid
        /\ \A i \in 1 .. Len(buf) : buf[i] <= lo /\ buf[i] <= mid /\ buf[i] \notin Given
        /\ \A x \in Given : x \in Int /\ x <= lo /\ x <= mid
  BY <1>2, Above
<1>4. Ascends(samples, mid, newest * Size) /\ mid <= newest * Size
  BY <1>1, <1>2 DEF Apart
<1>5. latest = 1 => ~m
  BY DEF OutInv, Order
<1>6. CASE all = <<>>
  <2>1. Unseen(all, Given, m)
    BY <1>6 DEF Unseen, Once, Increasing
  <2>2. all \in Seq(Int) /\ \A i \in 1 .. Len(all) : all[i] <= mid
    BY <1>6
  <2> QED BY <1>3, <1>4, <1>5, <1>6, <2>1, <2>2 DEF Offered
<1>7. CASE all = v \o buf
  <2>1. PICK k \in Nat, l \in Nat : Join(v, buf, all, k, l)
    BY <1>3, <1>7, Joined
  <2>2. /\ k = Len(v) /\ l = Len(buf) /\ all \in Seq(Int) /\ Len(all) = k + l
        /\ \A i \in 1 .. k : all[i] = v[i]
    BY <2>1 DEF Join
  <2>3. \A i \in 1 .. k : all[i] <= mid /\ lo < all[i] /\ all[i] \in Int
    <3>1. SUFFICES ASSUME NEW i \in 1 .. k PROVE v[i] <= mid /\ lo < v[i] /\ v[i] \in Int
      BY <2>2
    <3>2. i \in 1 .. Len(v) /\ v \in Seq(Int)
      BY <1>3, <2>2
    <3>3. v[i] \in Int
      BY <3>2
    <3> QED BY <1>3, <3>2, <3>3
  <2>4. \A i \in k + 1 .. k + l : \E p \in 1 .. l : all[i] = buf[p]
    BY <2>1 DEF Join
  <2>5. \A p \in 1 .. l : buf[p] <= mid /\ buf[p] \notin Given
    BY <1>3, <2>2
  <2>6. \A i \in 1 .. k + l : i \in 1 .. k \/ i \in k + 1 .. k + l
    OBVIOUS
  <2>7. \A i \in 1 .. Len(all) : all[i] <= mid
    BY <2>2, <2>3, <2>4, <2>5, <2>6
  <2>8. \A i \in 1 .. k : all[i] \notin Given /\ \A x \in Given : x < all[i]
    BY <1>3, <2>3
  <2>9. \A i \in 1 .. Len(all) : all[i] \notin Given
    BY <2>2, <2>4, <2>5, <2>6, <2>8
  <2>10. Once(all)
    <3>1. (\A i \in 1 .. Len(v) : lo < v[i]) /\ \A i \in 1 .. Len(buf) : buf[i] <= lo
      BY <1>3
    <3>2. v \in Seq(Int) /\ buf \in Seq(Int) /\ lo \in Int /\ Increasing(v) /\ Once(buf)
      BY <1>3
    <3>3. Once(v \o buf)
      BY <3>1, <3>2, OnceOn
    <3> QED BY <1>7, <3>3
  <2>11. ASSUME ~m PROVE all = v
    <3>1. buf = <<>>
      BY <2>11
    <3> QED BY <1>3, <1>7, <3>1
  <2>12. ~m => Increasing(all) /\ \A x \in Given, i \in 1 .. Len(all) : x < all[i]
    <3>1. ASSUME ~m PROVE \A x \in Given, i \in 1 .. Len(all) : x < all[i]
      <4>1. Len(all) = k
        BY <2>2, <2>11, <3>1
      <4> QED BY <2>8, <4>1
    <3> QED BY <1>3, <2>11, <3>1
  <2>13. Unseen(all, Given, m)
    BY <2>9, <2>10, <2>12 DEF Unseen
  <2>14. ASSUME d, ~m, all # <<>> PROVE now \in Nat /\ SuffixOf(all, now)
    <3>1. now = count /\ count \in Nat
      <4>1. now = Clock
        BY <1>3, <2>11, <2>14
      <4> QED BY <2>14, <4>1 DEF OutInv, Recent, CountInv, Arrivals, GapsFilled, Clock
    <3>2. Suffix(v)
      BY <1>3, <2>14 DEF OutInv, Recent
    <3> QED BY <2>11, <2>14, <3>1, <3>2 DEF Suffix
  <2> QED BY <1>3, <1>4, <1>5, <2>2, <2>7, <2>13, <2>14 DEF Offered
<1> QED BY <1>3, <1>6, <1>7

LEMMA SomeReturned ==
  ASSUME CountInv, OutInv, ReturnSome
  PROVE  OutInv'
<1>1. /\ call # Idle /\ call.n \in Nat /\ call.v \in Seq(Int) /\ buf \in Seq(Int)
      /\ time \in Int /\ Clock \in Int
  BY IqAssumption DEF ReturnSome, OutInv, Calls, Order, Clock, CountInv, Arrivals
<1>2. PICK new : new = (call.v # <<>>)
  OBVIOUS
<1>3. PICK now : now = IF new THEN Clock ELSE time
  OBVIOUS
<1>4. PICK all : all = IF new THEN Absorbed ELSE buf
  OBVIOUS
<1>5. PICK m : m = IF new THEN buf # <<>> ELSE mixed
  OBVIOUS
<1>6. PICK d : d = IF new THEN fresh /\ GapsFilled ELSE dated
  OBVIOUS
<1>7. PICK tail : tail = IF latest = 1 THEN LastOf(all, call.n) ELSE all
  OBVIOUS
<1>8. PICK s : s = FirstOf(tail, call.n)
  OBVIOUS
<1>9. /\ time' = now /\ dated' = d /\ mixed' = (m /\ buf' # <<>>)
      /\ UNCHANGED <<radio, reader, samples, stamp, fresh>>
      /\ IF now < 0 /\ all = <<>>
           THEN buf' = all /\ Returned(<<>>, -1, m, d)
           ELSE /\ buf' = LastOf(tail, Len(tail) - Len(s))
                /\ Returned(s, Start(now, Len(tail)), m, d)
  BY <1>2, <1>3, <1>4, <1>5, <1>6, <1>7, <1>8, Zenon DEF ReturnSome
<1>10. Offered(all, m, d, now)
  <2>1. CASE ~new
    <3>1. all = buf /\ m = mixed /\ d = dated /\ now = time
      BY <1>3, <1>4, <1>5, <1>6, <2>1
    <3> QED BY <3>1, OldOffered
  <2>2. CASE new
    <3>1. all = call.v \o buf \/ all = <<>>
      BY <1>4, <2>2 DEF Absorbed
    <3>2. m = (buf # <<>>) /\ d = (fresh /\ GapsFilled) /\ now = Clock
      BY <1>3, <1>5, <1>6, <2>2
    <3> QED BY <1>1, <3>1, <3>2, NewOffered
  <2> QED BY <2>1, <2>2
<1>11. all \in Seq(Int) /\ now \in Int /\ time' \in Int
  BY <1>9, <1>10 DEF Offered
<1>12. CASE now < 0 /\ all = <<>>
  <2>1. PICK none : none = <<>>
    OBVIOUS
  <2>2. /\ Returned(none, -1, m, d) /\ buf' = none /\ ~mixed'
        /\ UNCHANGED <<radio, reader, samples, stamp, fresh>>
    BY <1>9, <1>12, <2>1
  <2>3. Parts(all, none, none, 0, 0, 0, 0)
    BY <1>12, <2>1 DEF Parts
  <2>4. Served(all, none, none)
    BY <2>3 DEF Served
  <2> QED BY <1>10, <1>11, <2>1, <2>2, <2>4, OutReturn
<1>13. CASE ~ (now < 0 /\ all = <<>>)
  <2>1. PICK n \in Nat : n = Len(all)
    BY <1>11
  <2>2. PICK k \in Nat :
          /\ k = Len(tail) /\ k <= n /\ (latest = 1 => k <= call.n) /\ tail \in Seq(Int)
          /\ \A i \in 1 .. k : tail[i] = all[n - k + i]
    <3>1. CASE latest = 1
      <4>1. PICK k \in Nat : k = (IF call.n < n THEN call.n ELSE n) /\ k <= n /\ k <= call.n
        BY <1>1
      <4>2. /\ LastOf(all, call.n) \in Seq(Int)
            /\ Len(LastOf(all, call.n)) = (IF call.n < Len(all) THEN call.n ELSE Len(all))
            /\ \A i \in 1 .. Len(LastOf(all, call.n)) :
                 LastOf(all, call.n)[i] = all[Len(all) - Len(LastOf(all, call.n)) + i]
        BY <1>1, <1>11, LastOnes
      <4>3. tail = LastOf(all, call.n)
        BY <1>7, <3>1
      <4>4. tail \in Seq(Int) /\ Len(tail) = k
        BY <2>1, <4>1, <4>2, <4>3
      <4>5. \A i \in 1 .. k : tail[i] = all[n - k + i]
        BY <2>1, <4>2, <4>3, <4>4
      <4> QED BY <4>1, <4>4, <4>5
    <3>2. CASE latest # 1
      <4>1. tail = all
        BY <1>7, <3>2
      <4>2. \A i \in 1 .. n : n - n + i = i
        OBVIOUS
      <4> QED BY <1>11, <2>1, <3>2, <4>1, <4>2
    <3> QED BY <3>1, <3>2
  <2>3. PICK rest : rest = LastOf(tail, k - Len(s)) /\ buf' = rest
    BY <1>9, <1>13, <2>2
  <2>4. tail \in Seq(Int) /\ k = Len(tail) /\ call.n \in Nat /\ k <= n
    BY <1>1, <2>2
  <2>5. rest = LastOf(tail, k - Len(s))
    BY <2>3
  <2>6. PICK l \in Nat, r \in Nat :
          Parts(tail, s, rest, 0, l, r, k) /\ (k <= call.n => rest = <<>>)
    BY <1>8, <2>4, <2>5, FirstAndRest
  <2>7. /\ s \in Seq(Int) /\ rest \in Seq(Int) /\ l = Len(s) /\ r = Len(rest) /\ l + r = k
        /\ \A i \in 1 .. l : s[i] = tail[i]
        /\ \A i \in 1 .. r : rest[i] = tail[l + i]
        /\ k <= call.n => rest = <<>>
    <3>1. /\ l = Len(s) /\ r = Len(rest) /\ 0 + l + r = k
          /\ s \in Seq(Int) /\ rest \in Seq(Int)
          /\ \A i \in 1 .. l : s[i] = tail[0 + i]
          /\ \A i \in 1 .. r : rest[i] = tail[0 + l + i]
      BY <2>6 DEF Parts
    <3>2. /\ 0 + l + r = l + r /\ \A i \in 1 .. l : 0 + i = i
          /\ \A i \in 1 .. r : 0 + l + i = l + i
      OBVIOUS
    <3>3. l + r = k
      BY <3>1, <3>2
    <3>4. (\A i \in 1 .. l : s[i] = tail[i]) /\ \A i \in 1 .. r : rest[i] = tail[l + i]
      BY <3>1, <3>2
    <3>5. k <= call.n => rest = <<>>
      BY <2>6
    <3> QED BY <3>1, <3>3, <3>4, <3>5
  <2>8. k <= n
    BY <2>4
  <2>9. PICK a \in Nat : a = n - k
    BY <2>8
  <2>10. l + r = k /\ a + l + r = n
    <3>1. l + r = k
      BY <2>7
    <3> QED BY <2>9, <3>1
  <2>11. \A i \in 1 .. l : a + i \in 1 .. n /\ s[i] = all[a + i]
    <3>1. SUFFICES ASSUME NEW i \in 1 .. l PROVE a + i \in 1 .. n /\ s[i] = all[a + i]
      OBVIOUS
    <3>2. i \in 1 .. k /\ a + i \in 1 .. n /\ n - k + i = a + i
      BY <2>9, <2>10
    <3> QED BY <2>2, <2>7, <3>2
  <2>12. \A i \in 1 .. r : a + l + i \in 1 .. n /\ rest[i] = all[a + l + i]
    <3>1. SUFFICES ASSUME NEW i \in 1 .. r
                   PROVE  a + l + i \in 1 .. n /\ rest[i] = all[a + l + i]
      OBVIOUS
    <3>2. PICK p \in 1 .. k : p = l + i /\ n - k + p = a + l + i
      BY <2>9, <2>10
    <3>3. a + l + i \in 1 .. n
      BY <2>10
    <3>4. rest[i] = tail[p] /\ tail[p] = all[n - k + p]
      BY <2>2, <2>7, <3>2
    <3> QED BY <3>2, <3>3, <3>4
  <2>13. Served(all, s, rest)
    <3>1. Parts(all, s, rest, a, l, r, n)
      BY <2>1, <2>7, <2>10, <2>11, <2>12 DEF Parts
    <3> QED BY <3>1 DEF Served
  <2>14. PICK t0 \in Int : t0 = Start(now, k)
    <3>1. Start(now, k) \in Int
      BY <1>11, Rates DEF Start, CountInv, Arrivals
    <3> QED BY <3>1
  <2>15. Returned(s, t0, m, d)
    BY <1>9, <1>13, <2>2, <2>14
  <2>16. t0 = Start(now, Len(s) + Len(rest)) /\ (latest = 1 => rest = <<>>)
    <3>1. Len(s) + Len(rest) = k
      BY <2>7
    <3>2. latest = 1 => rest = <<>>
      BY <2>2, <2>7
    <3> QED BY <2>14, <3>1, <3>2
  <2>17. /\ mixed' => m /\ rest # <<>>
         /\ rest # <<>> => time' = now /\ dated' = d /\ (m => mixed')
    <3>1. mixed' = (m /\ rest # <<>>)
      BY <1>9, <2>3, Zenon
    <3> QED BY <1>9, <3>1
  <2> QED BY <1>9, <1>10, <1>11, <2>3, <2>13, <2>15, <2>16, <2>17, OutReturn
<1> QED BY <1>12, <1>13

LEMMA AllReturned ==
  ASSUME CountInv, OutInv, ReturnAll
  PROVE  OutInv'
<1>1. /\ call # Idle /\ ~Udp /\ call.v \in Seq(Int) /\ call.n \in Nat /\ call.t \in Int
      /\ buf = <<>> /\ ~mixed
  BY DEF ReturnAll, OutInv, Calls, Order, Udp
<1>2. PICK d : d = (fresh /\ GapsFilled)
  OBVIOUS
<1>3. PICK s : s = LastOf(call.v, call.n)
  OBVIOUS
<1>4. PICK k \in Nat, n \in Nat :
        /\ k = Len(s) /\ n = Len(call.v) /\ k <= n /\ s \in Seq(Int)
        /\ \A i \in 1 .. k : s[i] = call.v[n - k + i]
  <2>1. /\ LastOf(call.v, call.n) \in Seq(Int) /\ Len(LastOf(call.v, call.n)) <= Len(call.v)
        /\ \A i \in 1 .. Len(LastOf(call.v, call.n)) :
             LastOf(call.v, call.n)[i] = call.v[Len(call.v) - Len(LastOf(call.v, call.n)) + i]
    BY <1>1, LastOnes
  <2>2. /\ s \in Seq(Int) /\ Len(s) <= Len(call.v)
        /\ \A i \in 1 .. Len(s) : s[i] = call.v[Len(call.v) - Len(s) + i]
    BY <1>3, <2>1
  <2>3. PICK k \in Nat, n \in Nat : k = Len(s) /\ n = Len(call.v)
    BY <1>1, <2>2
  <2> QED BY <2>2, <2>3
<1>5. k <= n
  BY <1>4
<1>6. PICK a \in Nat : a = n - k
  BY <1>5
<1>7. PICK rest : rest = <<>>
  OBVIOUS
<1>8. rest = <<>> /\ rest \in Seq(Int) /\ Len(rest) = 0
  BY <1>7
<1>9. Served(call.v, s, rest)
  <2>1. a + k + 0 = n /\ \A i \in 1 .. k : a + i \in 1 .. n /\ n - k + i = a + i
    BY <1>6, <1>5
  <2>2. k = Len(s) /\ n = Len(call.v) /\ s \in Seq(Int)
    BY <1>4
  <2>3. \A i \in 1 .. k : a + i \in 1 .. n /\ s[i] = call.v[a + i]
    BY <1>4, <2>1
  <2>4. \A i \in 1 .. 0 : a + k + i \in 1 .. n /\ rest[i] = call.v[a + k + i]
    OBVIOUS
  <2>5. Parts(call.v, s, rest, a, k, 0, n)
    BY <1>8, <2>1, <2>2, <2>3, <2>4 DEF Parts
  <2> QED BY <2>5 DEF Served
<1>10. Offered(call.v, FALSE, d, call.t)
  <2>1. call.v = call.v \o buf /\ FALSE = (buf # <<>>)
    BY <1>1
  <2>2. d /\ call.v # <<>> => call.t = Clock
    BY <1>1, <1>2 DEF OutInv, Recent
  <2> QED BY <1>1, <1>2, <2>1, <2>2, NewOffered
<1>11. PICK t0 \in Int : t0 = Start(call.t, k) /\ t0 = Start(call.t, Len(s) + Len(rest))
  <2>1. Start(call.t, k) \in Int
    BY <1>1, Rates DEF Start, CountInv, Arrivals
  <2>2. Len(s) + Len(rest) = k
    BY <1>4, <1>8
  <2> QED BY <2>1, <2>2
<1>12. /\ Returned(s, t0, FALSE, d) /\ buf' = rest /\ time' \in Int /\ ~mixed'
       /\ UNCHANGED <<radio, reader, samples, stamp, fresh>>
  BY <1>1, <1>2, <1>3, <1>4, <1>8, <1>11 DEF ReturnAll, OutInv, Calls
<1> QED BY <1>8, <1>9, <1>10, <1>11, <1>12, OutReturn

LEMMA OutStep ==
  ASSUME CountInv, OutInv, [IqNext]_iqVars
  PROVE  OutInv'
<1>1. Clock \in Int /\ stamp \in Int /\ expect = expect
  BY IqAssumption DEF Clock, CountInv, Arrivals, OutInv, Calls
<1>2. CASE Send
  BY <1>2, OutStays DEF Send, reader
<1>3. ASSUME NEW k \in net, Lose(k) PROVE OutInv'
  BY <1>3, OutStays DEF Lose, reader, consumer
<1>4. ASSUME NEW k \in net PROVE k \in Nat /\ newest < k
  BY DEF CountInv, Arrivals
<1>5. ASSUME NEW k \in net, ReceiveHpsdr(k) PROVE OutInv'
  <2>1. PICK z \in Nat : z = HpsdrZeros(SeqNo(k)) /\ z <= (k - 1 - newest) * Size
    BY <1>4, <1>5, HpsdrGap DEF ReceiveHpsdr, CountInv, Arrivals, Udp
  <2> QED BY <1>1, <1>5, <2>1, OutStore DEF ReceiveHpsdr, Udp
<1>6. ASSUME NEW k \in net, ReceiveSdrip(k) PROVE OutInv'
  <2>1. PICK z \in Nat : z = SdripZeros(SeqNo(k)) /\ z <= (k - 1 - newest) * Size
    BY <1>4, <1>6, SdripGap DEF ReceiveSdrip, CountInv, Arrivals, Udp
  <2> QED BY <1>1, <1>6, <2>1, OutStore DEF ReceiveSdrip, Udp
<1>7. ASSUME NEW k \in net, ReceiveCloud(k) PROVE OutInv'
  <2>1. 0 <= (k - 1 - newest) * Size
    <3>1. k - 1 - newest \in Nat /\ Size \in Nat
      BY <1>4, IqAssumption DEF CountInv, Arrivals
    <3> QED BY <3>1
  <2> QED BY <1>1, <1>7, <2>1, OutStore DEF ReceiveCloud, Udp
<1>8. CASE TickClears
  BY <1>8, OutStays DEF TickClears, radio, reader, consumer
<1>9. ASSUME NEW n \in Requests, TakeAudio(n) PROVE OutInv'
  BY <1>1, <1>9, OutTake DEF TakeAudio
<1>10. ASSUME NEW n \in Requests, TakeIq(n) PROVE OutInv'
  BY <1>10, OutTake DEF TakeIq
<1>11. CASE ReturnAll
  BY <1>11, AllReturned
<1>12. CASE ReturnSome
  BY <1>12, SomeReturned
<1>13. CASE UNCHANGED iqVars
  BY <1>13, OutStays DEF iqVars, radio, reader, consumer
<1> QED BY <1>2, <1>3, <1>5, <1>6, <1>7, <1>8, <1>9, <1>10, <1>11, <1>12, <1>13 DEF IqNext

LEMMA OutAlways == IqSpec => [](CountInv /\ OutInv)
<1>1. IqInit => CountInv /\ OutInv
  BY InitCounted, InitOut
<1>2. CountInv /\ OutInv /\ [IqNext]_iqVars => (CountInv /\ OutInv)'
  BY CountStep, OutStep
<1> QED BY <1>1, <1>2, PTL DEF IqSpec

(* No sample comes out twice, and they come out oldest first, whatever is   *)
(* lost, dropped or filled in, unless absorb() has put newer ones in front  *)
(* of some that were left over; with latest set, as decode_loop() calls     *)
(* get(), it never does (absorb() and get_iq(), CloudSoundIn::get()).       *)
THEOREM SamplesOldestFirst == IqSpec => []OldestFirst
<1>1. OutInv => OldestFirst
  BY DEF OutInv, Order, Unseen, OldestFirst, NewerThanBefore, Elements
<1> QED BY <1>1, OutAlways, PTL

(* The time that get() returns is that of the first sample it returns, to   *)
(* two output periods, also for samples that an earlier call took and left  *)
(* over, if all that was sent had arrived and the zeros stood for what was  *)
(* lost when time_ was set (HPSDRSoundIn::get(), SDRIPSoundIn::get(),       *)
(* CloudSoundIn::get()).                                                    *)
THEOREM TimeOfFirstSample == IqSpec => []T0Right
<1>1. OutInv => T0Right
  BY DEF OutInv
<1> QED BY <1>1, OutAlways, PTL
===============================================================================
