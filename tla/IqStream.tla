-------------------------------- MODULE IqStream -------------------------------
(***************************************************************************)
(* The sources that hand over a vector under a mutex: the radio's packets  *)
(* reach a reader thread (HPSDR::process_data, SDRIP::data_reader,         *)
(* CloudSDR::reader), which makes up for lost packets with zeros, reduces  *)
(* the rate and appends to a vector; the main thread takes that vector and *)
(* serves get() from it (HPSDRSoundIn, SDRIPSoundIn, CloudSoundIn).        *)
(*                                                                         *)
(* A sample is its position in the radio's stream, and a zero that is put  *)
(* in is the position it stands for: that of the sample which it precedes, *)
(* less the samples between them.  Time is counted in samples of the radio.*)
(***************************************************************************)
EXTENDS Integers, FiniteSets, Sequences

CONSTANTS
  Kinds,    (* the sources: a subset of {"hpsdr", "sdrip", "cloud"}          *)
  Latest,   (* get()'s argument: 1 in decode_loop(), 0 in levels()           *)
  Requests, (* the numbers of samples that get() is called for               *)
  Size,     (* samples in a packet                                           *)
  MaxSeq,   (* the last sequence number of the SDR-IP: 65535                 *)
  Word,     (* how many numbers an unsigned int holds: 2^32                  *)
  Rate,     (* by source: the rate that ft8mon wants ...                     *)
  IqRate,   (* ... and the rate of the radio, both per unit of time          *)
  Cap,      (* the most samples that are kept: 100 seconds                   *)
  MaxSent   (* bound: packets the radio sends                                *)

ASSUME IqAssumption ==
  /\ Kinds \subseteq {"hpsdr", "sdrip", "cloud"} /\ Latest \subseteq {0, 1}
  /\ Requests \subseteq Nat \ {0}
  /\ {Size, MaxSeq, Word, Cap} \subseteq Nat \ {0} /\ MaxSent \in Nat
  /\ \A k \in Kinds : {Rate[k], IqRate[k]} \subseteq Nat \ {0} /\ IqRate[k] >= Rate[k]
  /\ "hpsdr" \in Kinds => IqRate["hpsdr"] % Rate["hpsdr"] = 0   (* asserted     *)
  /\ "cloud" \in Kinds => IqRate["cloud"] = Rate["cloud"]

VARIABLES
  kind,     (* the source, fixed                                             *)
  latest,   (* get()'s argument, which a run of the program never changes    *)
  sent,     (* packets the radio has sent                                    *)
  net,      (* packets on their way                                          *)
  expect,   (* expect_seq_ or next_seq                                       *)
  count,    (* count_ or iqcount_: samples that went into the rate reduction *)
  samples,  (* input_ or samples_, guarded by its mutex                      *)
  stamp,    (* samples_time_, guarded by it too                              *)
  call,     (* get() in the main thread: idle, or its argument n and v       *)
  buf,      (* buf_                                                          *)
  time,     (* time_                                                         *)
  gone,     (* history: packets lost                                         *)
  newest,   (* history: the last packet received                             *)
  ret,      (* history: what get() returned last: samples, t0, mixed, dated  *)
  out,      (* history: all that it returned before                          *)
  mixed,    (* history: absorb() put samples in front of older ones in buf_  *)
  dated,    (* history: all that was sent had arrived and every gap was      *)
            (* filled when time_ was set                                     *)
  fresh     (* history: all that was sent had arrived when v was taken       *)

radio    == <<kind, latest, sent, net, gone>>
reader   == <<expect, count, newest>>
history  == <<ret, out, mixed, dated>>
consumer == <<call, buf, time, history, fresh>>
iqVars   == <<radio, reader, consumer, samples, stamp>>

Udp   == kind \in {"hpsdr", "sdrip"}
Clock == sent * Size
Idle  == [n |-> 0, v |-> <<>>, t |-> 0]

Max0(x) == IF x > 0 THEN x ELSE 0

(* An unsigned difference that is stored in an int.                         *)
Signed(x) == IF x % Word < Word \div 2 THEN x % Word ELSE (x % Word) - Word

(* The sequence number in packet k = 1, 2, ...; the SDR-IP goes from MaxSeq *)
(* to 1.                                                                    *)
SeqNo(k) ==
  IF kind = "hpsdr" THEN (k - 1) % Word
  ELSE IF k - 1 <= MaxSeq THEN k - 1 ELSE ((k - 2) % MaxSeq) + 1

Position(k, i) == (k - 1) * Size + i
-------------------------------------------------------------------------------
IqInit ==
  /\ kind \in Kinds /\ sent = 0 /\ net = {} /\ gone = {}
  /\ latest \in Latest /\ (kind = "cloud" => latest = 1)   (* asserted by it    *)
  /\ expect = 0 /\ count = 0 /\ newest = 0 /\ samples = <<>>
  /\ call = Idle /\ buf = <<>>
  /\ stamp \in (IF kind = "cloud" THEN {-1, 7} ELSE {-1})  (* uninitialized *)
  /\ time  \in (IF kind = "sdrip" THEN {-1, 7} ELSE {-1})  (* uninitialized *)
  /\ ret = [s |-> <<>>, t0 |-> 0, mixed |-> FALSE, dated |-> FALSE]
  /\ out = {} /\ mixed = FALSE /\ dated = FALSE /\ fresh = FALSE

Send ==
  /\ sent < MaxSent
  /\ sent' = sent + 1 /\ net' = net \cup {sent + 1}
  /\ fresh' = FALSE
  /\ UNCHANGED <<kind, latest, gone, reader, samples, stamp, call, buf, time, history>>

(* A UDP packet is lost; the CloudSDR sends its audio over TCP.             *)
Lose(k) ==
  /\ Udp /\ k \in net
  /\ net' = net \ {k} /\ gone' = gone \cup {k}
  /\ UNCHANGED <<kind, latest, sent, reader, samples, stamp, consumer>>
-------------------------------------------------------------------------------
(* How many zeros stand for the packets that are missing before number seq, *)
(* and what number comes next.  The 240 zeros of sdrip.cc:498 are the Size  *)
(* of the large packets that open() asks for (sdrip.cc:127); a small one,   *)
(* of 64 samples, which data_reader() would take as well, never comes.      *)
HpsdrZeros(seq)    == Max0(Signed((expect - seq) * Size))
HpsdrExpected(seq) == (seq + 1) % Word
SdripZeros(seq)    == Size * Max0(seq - expect)

(* Mutant: wraps around to 0.                                               *)
SdripExpectedZero(seq) == IF seq = MaxSeq THEN 0 ELSE seq + 1

SdripExpected(seq) == IF seq = MaxSeq THEN 1 ELSE seq + 1

(* Sample number c of the radio is one that is kept: the HPSDR's first of   *)
(* each group, the SDR-IP's that completes an output period; the CloudSDR   *)
(* keeps every sample of either encoding.                                   *)
Group == IqRate[kind] \div Rate[kind]

Keeps(c) ==
  CASE kind = "hpsdr" -> (c - 1) % Group = 0
    [] kind = "sdrip" ->
         (c * Rate[kind]) \div IqRate[kind] > ((c - 1) * Rate[kind]) \div IqRate[kind]
    [] kind = "cloud" -> TRUE

(* So many of the first c are kept ...                                      *)
Kept(c) ==
  CASE kind = "hpsdr" -> (c + Group - 1) \div Group
    [] kind = "sdrip" -> (c * Rate[kind]) \div IqRate[kind]
    [] kind = "cloud" -> c

(* ... and this is the number of the m-th of them.                          *)
KeptAt(m) ==
  CASE kind = "hpsdr" -> (m - 1) * Group + 1
    [] kind = "sdrip" -> (m * IqRate[kind] + Rate[kind] - 1) \div Rate[kind]
    [] kind = "cloud" -> m

(* CloudSDR and SDR-IP drop everything when too much is waiting.            *)
Bounded(s) == IF kind # "hpsdr" /\ Len(s) > Cap THEN <<>> ELSE s

(* The samples of packet k, and the zeros before it, that Keeps.            *)
New(k, zeros) ==
  [m \in 1 .. Kept(count + zeros + Size) - Kept(count) |->
     Position(k, KeptAt(Kept(count) + m) - (count + zeros))]

(* The reader takes packet k; zeros go in before it, and the rate is        *)
(* reduced.  Packets are lost, but not reordered or duplicated: the code    *)
(* takes one with any number, and what it makes of a late or repeated one   *)
(* (hpsdr.cc:1131-1144, sdrip.cc:494-506) is left out.                      *)
Store(k, zeros) ==
  /\ k \in net /\ \A j \in net : k <= j
  /\ net' = net \ {k} /\ newest' = k
  /\ count' = count + zeros + Size
  /\ samples' = Bounded(samples \o New(k, zeros))
  /\ fresh' = FALSE
  /\ UNCHANGED <<kind, latest, sent, gone, call, buf, time, history>>

ReceiveHpsdr(k) ==
  /\ kind = "hpsdr"
  /\ Store(k, HpsdrZeros(SeqNo(k)))
  /\ expect' = HpsdrExpected(SeqNo(k))
  /\ UNCHANGED stamp

ReceiveSdrip(k) ==
  /\ kind = "sdrip"
  /\ Store(k, SdripZeros(SeqNo(k)))
  /\ expect' = SdripExpected(SeqNo(k))
  /\ UNCHANGED stamp

ReceiveCloud(k) ==
  /\ kind = "cloud"
  /\ Store(k, 0)
  /\ stamp' = Clock
  /\ UNCHANGED expect

(* HPSDR::tick() clears the input of unit 0.                                *)
TickClears ==
  /\ kind = "hpsdr" /\ Len(samples) > Cap
  /\ samples' = <<>>
  /\ UNCHANGED <<radio, reader, stamp, consumer>>
-------------------------------------------------------------------------------
(* Mutant: reads without removing.                                          *)
TakeIqCopies(n) ==
  /\ call = Idle /\ Udp
  /\ call' = [n |-> n, v |-> samples, t |-> 0]
  /\ fresh' = (newest = sent)
  /\ UNCHANGED <<radio, reader, samples, stamp, buf, time, history>>

(* get() is called, and takes what is there under the mutex.                *)
TakeIq(n) ==
  /\ call = Idle /\ Udp
  /\ call' = [n |-> n, v |-> samples, t |-> 0]
  /\ samples' = <<>>
  /\ fresh' = (newest = sent)
  /\ UNCHANGED <<radio, reader, stamp, buf, time, history>>

(* CloudSoundIn takes their time with them.                                 *)
TakeAudio(n) ==
  /\ call = Idle /\ kind = "cloud"
  /\ call' = [n |-> n, v |-> samples, t |-> stamp]
  /\ samples' = <<>>
  /\ fresh' = (newest = sent)
  /\ UNCHANGED <<radio, reader, stamp, buf, time, history>>

(* As many samples were counted as the radio recorded up to the last one    *)
(* received: the zeros stand for exactly what is missing ("fake the missing *)
(* samples", hpsdr.cc:1135).                                                *)
GapsFilled == count = newest * Size

Elements(s) == {s[i] : i \in 1 .. Len(s)}

(* What get() hands to its caller.                                          *)
Returned(s, t0, m, d) ==
  /\ ret' = [s |-> s, t0 |-> t0, mixed |-> m, dated |-> d]
  /\ out' = out \cup Elements(ret.s)
  /\ call' = Idle

(* Mutant: counts from the start of the vector that was taken.              *)
StartOfRest(t, n) == t * Rate[kind] - (n + 1) * IqRate[kind]

(* t0, times the rate.                                                      *)
Start(t, n) == t * Rate[kind] - n * IqRate[kind]

FirstOf(s, n) == SubSeq(s, 1, IF n < Len(s) THEN n ELSE Len(s))
LastOf(s, n)  == SubSeq(s, Max0(Len(s) - n) + 1, Len(s))

(* CloudSoundIn::get(): hands out the last n and forgets the others.        *)
ReturnAll ==
  /\ call # Idle /\ kind = "cloud"
  /\ LET s == LastOf(call.v, call.n)
     IN  Returned(s, Start(call.t, Len(s)), FALSE, fresh /\ GapsFilled)
  /\ UNCHANGED <<radio, reader, samples, stamp, buf, time, mixed, dated, fresh>>

(* absorb() of the others: what was taken goes in FRONT of what is left of  *)
(* an earlier call.                                                         *)
Absorbed == IF Len(call.v \o buf) > Cap THEN <<>> ELSE call.v \o buf

(* absorb() and get_iq().                                                   *)
ReturnSome ==
  LET new  == call.v # <<>>
      now  == IF new THEN Clock ELSE time
      all  == IF new THEN Absorbed ELSE buf
      m    == IF new THEN buf # <<>> ELSE mixed
      d    == IF new THEN fresh /\ GapsFilled ELSE dated
      kept == IF latest = 1 THEN LastOf(all, call.n) ELSE all
      some == FirstOf(kept, call.n)
  IN
  /\ call # Idle /\ Udp
  /\ time' = now /\ dated' = d
  /\ IF now < 0 /\ all = <<>>
       THEN buf' = all /\ Returned(<<>>, -1, m, d)
       ELSE /\ buf' = LastOf(kept, Len(kept) - Len(some))
            /\ Returned(some, Start(now, Len(kept)), m, d)
  /\ mixed' = (m /\ buf' # <<>>)
  /\ UNCHANGED <<radio, reader, samples, stamp, fresh>>
-------------------------------------------------------------------------------
IqNext ==
  \/ Send \/ TickClears \/ ReturnAll \/ ReturnSome
  \/ \E k \in net : Lose(k) \/ ReceiveHpsdr(k) \/ ReceiveSdrip(k) \/ ReceiveCloud(k)
  \/ \E n \in Requests : TakeAudio(n) \/ TakeIq(n)

IqSpec == IqInit /\ [][IqNext]_iqVars
-------------------------------------------------------------------------------
Increasing(s) == \A i, j \in 1 .. Len(s) : i < j => s[i] < s[j]
Once(s)       == \A i, j \in 1 .. Len(s) : i # j => s[i] # s[j]

(* No sample comes out twice, within a call or in two of them, and they     *)
(* come out oldest first unless absorb() has put newer samples in front of  *)
(* some that a call had left over (snd.cc:1125, 1305) ...                   *)
NewerThanBefore(s) == Increasing(s) /\ \A x \in out, i \in 1 .. Len(s) : x < s[i]

(* ... which never happens if get() is asked for the latest samples, as     *)
(* decode_loop() does.                                                      *)
OldestFirst ==
  /\ Once(ret.s) /\ Elements(ret.s) \cap out = {}
  /\ ~ret.mixed => NewerThanBefore(ret.s)
  /\ latest = 1 => ~ret.mixed

(* That holds for the SDR-IP unless a packet with the last sequence number  *)
(* is lost, and for the HPSDR if nothing is.                                *)
WrapLost == \E k \in gone : SeqNo(k) = MaxSeq

InStep == (kind = "hpsdr" /\ gone # {}) \/ (kind = "sdrip" /\ WrapLost) \/ GapsFilled

(* The samples a call returns may have been taken by an earlier one, which  *)
(* set time_.  If everything the radio recorded had arrived then, t0 is the *)
(* time of the first sample returned, to two output periods, for samples    *)
(* that were not mixed with older ones.                                     *)
T0Right ==
  (ret.s # <<>> /\ ret.dated /\ ~ret.mixed) =>
    LET p == ret.s[1] * Rate[kind] IN
    ret.t0 < p /\ p <= ret.t0 + IqRate[kind] + Rate[kind]
===============================================================================
