---------------------------- MODULE SdrControlProofs ----------------------------
(***************************************************************************)
(* The control connection of the CloudSDR and the SDR-IP implements the     *)
(* atomic items of RadioItems, for any number of threads that call          *)
(* set_freq().  The argument: send_mu_ lets one call at a time write and    *)
(* poll, so there is one request, or one reply on its way, or one reply in  *)
(* the slot; and the slot was cleared before the request was written, so    *)
(* what is found there answers this call.                                   *)
(***************************************************************************)
EXTENDS SdrControl, TLAPS

Calls == [op : {"set"}, item : Items, val : Values] \cup [op : {"get"}, item : Items]

TypeOK ==
  /\ kind \in Kinds /\ alive \in BOOLEAN
  /\ mu \in Callers \cup {None}
  /\ reply \in Messages \cup {None} /\ v \in Messages \cup {None}
  /\ pc \in [Callers -> {"out", "lock", "clear", "write", "poll"}]
  /\ todo \in [Callers -> Seq(Calls)]
  /\ requests \in Seq([from : Callers, call : Calls]) /\ replies \in Seq(Messages)
  /\ item \in [Items -> Values]
  /\ answer \in [Callers -> Answers \cup {None}]
  /\ result \in [Callers -> Values \cup {None}]

(* send_mu_ is held by the one that clears, writes and polls.               *)
OneCaller ==
  /\ \A c \in Callers : pc[c] \in {"clear", "write", "poll"} => mu = c
  /\ \A c \in Callers : pc[c] # "out" => todo[c] # <<>>

IsReply(m) == m # None /\ m.type = 0
AnswerOf(m, c) == m.item = answer[c].item /\ m.val = answer[c].val

(* No reply is on its way from the radio to the slot.                       *)
NoneComes == ~IsReply(v) /\ \A i \in DOMAIN replies : ~IsReply(replies[i])

(* Nobody polls: the connection is empty but for audio.                     *)
Quiet == requests = <<>> /\ NoneComes

(* The request of the caller c has not been answered yet ...                *)
Asked(c) ==
  /\ requests = <<[from |-> c, call |-> Head(todo[c])]>>
  /\ NoneComes /\ reply = None

(* ... or the answer is in the slot, or the reader has it, or it is on its  *)
(* way, and nowhere else.                                                   *)
Answered(c) ==
  /\ requests = <<>> /\ answer[c].item = Head(todo[c]).item
  /\ \/ reply # None /\ AnswerOf(reply, c) /\ NoneComes
     \/ /\ reply = None /\ IsReply(v) /\ AnswerOf(v, c)
        /\ \A i \in DOMAIN replies : ~IsReply(replies[i])
     \/ /\ reply = None /\ ~IsReply(v)
        /\ \E i \in DOMAIN replies :
             /\ IsReply(replies[i]) /\ AnswerOf(replies[i], c)
             /\ \A j \in DOMAIN replies : IsReply(replies[j]) => j = i

Polling ==
  /\ \A c \in Callers : pc[c] # "poll" => answer[c] = None
  /\ (\A c \in Callers : pc[c] # "poll") => Quiet
  /\ \A c \in Callers : pc[c] = "write" => reply = None
  /\ \A c \in Callers : pc[c] = "poll" => IF answer[c] = None THEN Asked(c) ELSE Answered(c)

ControlInv == TypeOK /\ OneCaller /\ Polling
-------------------------------------------------------------------------------
(* The calls of open() and of set_freq() are calls for items of the radio.  *)

LEMMA BothInRange ==
  ASSUME NEW W, NEW s \in Seq(W), NEW t \in Seq(W)
  PROVE  /\ \A i \in DOMAIN s : s[i] \in ToSet(s \o t)
         /\ \A i \in DOMAIN t : t[i] \in ToSet(s \o t)
<1>1. ASSUME NEW i \in DOMAIN s PROVE s[i] \in ToSet(s \o t)
  <2>1. i \in DOMAIN (s \o t) /\ (s \o t)[i] = s[i]
    OBVIOUS
  <2> QED BY <2>1 DEF ToSet
<1>2. ASSUME NEW i \in DOMAIN t PROVE t[i] \in ToSet(s \o t)
  <2>1. Len(s) + i \in DOMAIN (s \o t) /\ (s \o t)[Len(s) + i] = t[i]
    OBVIOUS
  <2> QED BY <2>1 DEF ToSet
<1> QED BY <1>1, <1>2

Names ==
  {"state", "freq", "demod", "compression", "squelch", "af_filter", "name", "adc_rate",
   "iq_rate", "udp_addr", "gain", "packet_size"}

Written == [op : {"set"}, item : Names, val : {"stop", "open", "run"}]
             \cup [op : {"get"}, item : Names]

LEMMA OpenWritten == CloudOpen \in Seq(Written) /\ SdripOpen \in Seq(Written)
<1>1. /\ \A i \in Names : Get(i) \in Written
      /\ \A i \in Names : \A x \in {"stop", "open", "run"} : Set(i, x) \in Written
  BY DEF Get, Set, Written
<1>a. /\ Set("state", "stop") \in Written /\ Set("state", "run") \in Written
      /\ \A i \in Names : Set(i, "open") \in Written
  BY <1>1 DEF Names
<1>b. \A i \in {"state", "freq", "demod", "compression", "squelch", "af_filter", "adc_rate",
                "iq_rate", "udp_addr", "gain", "packet_size"} : i \in Names
  BY DEF Names
<1>2. ASSUME NEW names \in Seq(Names) PROVE Gets(names) \in Seq(Written)
  <2>1. PICK n \in Nat : n = Len(names) /\ DOMAIN names = 1 .. n
    OBVIOUS
  <2>2. \A i \in 1 .. n : names[i] \in Names
    BY <2>1
  <2>3. \A i \in 1 .. n : Get(names[i]) \in Written
    BY <1>1, <2>2
  <2> QED BY <2>1, <2>3 DEF Gets
<1>3. CloudOpen \in Seq(Written)
  <2>1. << Set("state", "stop"), Set("freq", "open"), Set("demod", "open"),
           Set("compression", "open"), Set("squelch", "open"), Set("af_filter", "open"),
           Set("state", "run") >> \in Seq(Written)
    BY <1>1, <1>a, <1>b
  <2>2. <<"name", "compression", "freq", "squelch", "af_filter">> \in Seq(Names)
    BY DEF Names
  <2>3. Gets(<<"name", "compression", "freq", "squelch", "af_filter">>) \in Seq(Written)
    BY <1>2, <2>2
  <2> QED BY <2>1, <2>3 DEF CloudOpen
<1>4. SdripOpen \in Seq(Written)
  <2>1. << Set("state", "stop"), Get("adc_rate"), Set("freq", "open"), Set("iq_rate", "open"),
           Set("udp_addr", "open"), Set("gain", "open"), Set("packet_size", "open"),
           Set("state", "run") >> \in Seq(Written)
    BY <1>1, <1>a, <1>b
  <2>2. <<"name", "freq", "gain", "packet_size", "adc_rate", "iq_rate", "udp_addr">> \in Seq(Names)
    BY DEF Names
  <2>3. Gets(<<"name", "freq", "gain", "packet_size", "adc_rate", "iq_rate", "udp_addr">>)
          \in Seq(Written)
    BY <1>2, <2>2
  <2> QED BY <2>1, <2>3 DEF SdripOpen
<1> QED BY <1>3, <1>4

LEMMA OpenCalls ==
  /\ CloudOpen \in Seq(Calls) /\ SdripOpen \in Seq(Calls)
  /\ \A c \in Others : <<Set("freq", c)>> \in Seq(Calls)
<1>1. \A s \in {CloudOpen, SdripOpen} : \A i \in DOMAIN s :
        s[i] \in Written /\ s[i].item \in Items
  BY OpenWritten, BothInRange DEF Items
<1>2. ASSUME NEW x \in Written, x.item \in Items PROVE x \in Calls
  BY <1>2 DEF Written, Calls, Values
<1>3. \A s \in {CloudOpen, SdripOpen} : \A i \in DOMAIN s : s[i] \in Calls
  BY <1>1, <1>2
<1>4. CloudOpen \in Seq(Calls) /\ SdripOpen \in Seq(Calls)
  BY <1>3, OpenWritten
<1>5. "freq" \in Items
  <2>1. PICK s \in Seq(Written) : s = CloudOpen
    BY OpenWritten
  <2>2. 2 \in DOMAIN CloudOpen /\ CloudOpen[2] = Set("freq", "open")
    BY OpenWritten DEF CloudOpen, Gets
  <2> QED BY <1>1, <2>2 DEF Set
<1>6. ASSUME NEW c \in Others PROVE <<Set("freq", c)>> \in Seq(Calls)
  BY <1>5 DEF Set, Calls, Values
<1> QED BY <1>4, <1>6
-------------------------------------------------------------------------------
(* The queues of the TCP connection.                                        *)

LEMMA Appended ==
  ASSUME NEW S, NEW s \in Seq(S), NEW m \in S
  PROVE  /\ Append(s, m) \in Seq(S) /\ DOMAIN s = 1 .. Len(s) /\ Len(s) \in Nat
         /\ DOMAIN Append(s, m) = 1 .. Len(s) + 1 /\ Append(s, m)[Len(s) + 1] = m
         /\ \A i \in 1 .. Len(s) : Append(s, m)[i] = s[i]
OBVIOUS

LEMMA HeadAndTail ==
  ASSUME NEW S, NEW s \in Seq(S), s # <<>>
  PROVE  /\ Tail(s) \in Seq(S) /\ Head(s) \in S /\ Head(s) = s[1] /\ 1 \in DOMAIN s
         /\ DOMAIN s = 1 .. Len(s) /\ Len(s) \in Nat
         /\ \A i \in DOMAIN Tail(s) : i + 1 \in DOMAIN s /\ Tail(s)[i] = s[i + 1]
         /\ \A j \in DOMAIN s : j # 1 => j - 1 \in DOMAIN Tail(s) /\ Tail(s)[j - 1] = s[j]
OBVIOUS

LEMMA OneRequest ==
  ASSUME NEW r
  PROVE  /\ Append(<<>>, r) = <<r>> /\ <<r>> # <<>>
         /\ Head(<<r>>) = r /\ Tail(<<r>>) = <<>>
OBVIOUS

LEMMA CallTyped ==
  ASSUME NEW k \in Calls
  PROVE  /\ k.item \in Items /\ k.op \in {"set", "get"}
         /\ k.op = "set" => k.val \in Values
BY DEF Calls

LEMMA ControlTypes ==
  ASSUME TypeOK, OneCaller, [Next]_vars
  PROVE  TypeOK'
<1>0. ASSUME NEW c \in Callers, pc[c] # "out"
      PROVE  /\ todo[c] \in Seq(Calls) /\ todo[c] # <<>>
             /\ Head(todo[c]) \in Calls /\ Tail(todo[c]) \in Seq(Calls)
  <2>1. PICK s \in Seq(Calls) : s = todo[c] /\ s # <<>>
    BY <1>0 DEF TypeOK, OneCaller
  <2> QED BY <2>1, HeadAndTail
<1> USE DEF TypeOK, slot, tcp
<1>1. ASSUME NEW c \in Callers, Enter(c) PROVE TypeOK'
  BY <1>1 DEF Enter
<1>2. ASSUME NEW c \in Callers, Lock(c) PROVE TypeOK'
  BY <1>2 DEF Lock
<1>3. ASSUME NEW c \in Callers, ClearReply(c) PROVE TypeOK'
  BY <1>3 DEF ClearReply
<1>4. ASSUME NEW c \in Callers, WriteRequest(c) PROVE TypeOK'
  <2>1. Head(todo[c]) \in Calls
    BY <1>0, <1>4 DEF WriteRequest
  <2>2. [from |-> c, call |-> Head(todo[c])] \in [from : Callers, call : Calls]
    BY <2>1
  <2>3. requests' \in Seq([from : Callers, call : Calls])
    BY <1>4, <2>2, Appended DEF WriteRequest
  <2> QED BY <1>4, <2>3 DEF WriteRequest
<1>5. ASSUME NEW c \in Callers, TakeReply(c) PROVE TypeOK'
  <2>1. Tail(todo[c]) \in Seq(Calls)
    BY <1>0, <1>5 DEF TakeReply
  <2>2. reply \in Messages /\ reply.val \in Values \cup {None}
    BY <1>5 DEF TakeReply, ItsForUs, Messages
  <2>3. todo' \in [Callers -> Seq(Calls)]
    BY <1>5, <2>1 DEF TakeReply
  <2>4. result' \in [Callers -> Values \cup {None}]
    BY <1>5, <2>2 DEF TakeReply
  <2>5. /\ answer' \in [Callers -> Answers \cup {None}]
        /\ pc' \in [Callers -> {"out", "lock", "clear", "write", "poll"}]
    BY <1>5 DEF TakeReply
  <2> QED BY <1>5, <2>3, <2>4, <2>5 DEF TakeReply
<1>6. CASE ReadMessage
  <2>1. Tail(replies) \in Seq(Messages) /\ Head(replies) \in Messages
    BY <1>6, HeadAndTail DEF ReadMessage
  <2> QED BY <1>6, <2>1 DEF ReadMessage
<1>7. CASE StoreReply
  BY <1>7 DEF StoreReply
<1>8. CASE ReadFails
  BY <1>8 DEF ReadFails
<1>9. CASE RadioAnswers
  <2>1. PICK r \in [from : Callers, call : Calls] : r = Head(requests)
    BY <1>9, HeadAndTail DEF RadioAnswers
  <2>2. PICK i \in Items : i = r.call.item
    BY <2>1, CallTyped
  <2>3. PICK x \in Values : x = IF r.call.op = "set" THEN r.call.val ELSE item[i]
    BY <2>1, <2>2, CallTyped
  <2>4. /\ requests' = Tail(requests) /\ item' = [item EXCEPT ![i] = x]
        /\ replies' = Append(replies, [type |-> 0, item |-> i, val |-> x])
        /\ answer' = [answer EXCEPT ![r.from] = [item |-> i, val |-> x]]
        /\ UNCHANGED <<kind, mu, slot, pc, todo, result, alive>>
    BY <1>9, <2>1, <2>2, <2>3 DEF RadioAnswers
  <2>5. requests' \in Seq([from : Callers, call : Calls])
    BY <1>9, <2>4, HeadAndTail DEF RadioAnswers
  <2>6. replies' \in Seq(Messages)
    BY <2>4, Appended DEF Messages
  <2>7. item' \in [Items -> Values] /\ answer' \in [Callers -> Answers \cup {None}]
    BY <2>1, <2>4 DEF Answers
  <2> QED BY <2>4, <2>5, <2>6, <2>7
<1>10. CASE RadioSendsAudio
  <2>1. [type |-> 4, item |-> None, val |-> None] \in Messages
    BY DEF Messages
  <2>2. replies' \in Seq(Messages)
    BY <1>10, <2>1 DEF RadioSendsAudio
  <2> QED BY <1>10, <2>2 DEF RadioSendsAudio
<1>11. CASE UNCHANGED vars
  BY <1>11 DEF vars
<1> QED BY <1>1, <1>2, <1>3, <1>4, <1>5, <1>6, <1>7, <1>8, <1>9, <1>10, <1>11
        DEF Next, Caller, Reader

LEMMA ControlInit == Init => ControlInv
<1> SUFFICES ASSUME Init PROVE ControlInv
  OBVIOUS
<1>1. todo \in [Callers -> Seq(Calls)]
  <2>1. Open \in Seq(Calls)
    BY OpenCalls DEF Open
  <2>2. \A c \in Callers : c # Main => c \in Others
    BY DEF Callers
  <2>3. \A c \in Callers : (IF c = Main THEN Open ELSE <<Set("freq", c)>>) \in Seq(Calls)
    BY <2>1, <2>2, OpenCalls
  <2> QED BY <2>3 DEF Init
<1>2. TypeOK
  <2>1. "own" \in Values
    BY DEF Values
  <2>2. requests \in Seq([from : Callers, call : Calls]) /\ replies \in Seq(Messages)
    BY DEF Init
  <2>3. item \in [Items -> Values]
    BY <2>1 DEF Init
  <2>4. /\ pc \in [Callers -> {"out", "lock", "clear", "write", "poll"}]
        /\ answer \in [Callers -> Answers \cup {None}]
        /\ result \in [Callers -> Values \cup {None}]
    BY DEF Init
  <2>5. kind \in Kinds /\ alive \in BOOLEAN
    BY DEF Init
  <2> QED BY <1>1, <2>2, <2>3, <2>4, <2>5 DEF Init, TypeOK
<1>3. OneCaller
  BY DEF Init, OneCaller
<1>4. Polling
  BY DEF Init, Polling, Quiet, NoneComes, IsReply
<1> QED BY <1>2, <1>3, <1>4 DEF ControlInv

(* Who polls is alone in it.                                                *)
LEMMA OnePolls ==
  ASSUME OneCaller, NEW c \in Callers, NEW d \in Callers,
         pc[c] \in {"clear", "write", "poll"}, pc[d] \in {"clear", "write", "poll"}
  PROVE  c = d
BY DEF OneCaller

LEMMA OneCallerStep ==
  ASSUME TypeOK, OneCaller, [Next]_vars
  PROVE  OneCaller'
<1> USE DEF OneCaller
<1>0. pc \in [Callers -> {"out", "lock", "clear", "write", "poll"}] /\ None \notin Callers
  BY ControlAssumption DEF TypeOK, Callers
<1>1. ASSUME NEW c \in Callers, Enter(c) PROVE OneCaller'
  BY <1>0, <1>1 DEF Enter
<1>2. ASSUME NEW c \in Callers, Lock(c) PROVE OneCaller'
  BY <1>0, <1>2 DEF Lock
<1>3. ASSUME NEW c \in Callers, ClearReply(c) PROVE OneCaller'
  BY <1>0, <1>3 DEF ClearReply
<1>4. ASSUME NEW c \in Callers, WriteRequest(c) PROVE OneCaller'
  BY <1>0, <1>4 DEF WriteRequest
<1>5. ASSUME NEW c \in Callers, TakeReply(c) PROVE OneCaller'
  <2>1. ASSUME NEW d \in Callers, pc'[d] \in {"clear", "write", "poll"} PROVE FALSE
    <3>1. d # c /\ pc[d] = pc'[d] /\ pc[c] = "poll"
      BY <1>0, <1>5, <2>1 DEF TakeReply
    <3> QED BY <2>1, <3>1, OnePolls
  <2>2. todo \in [Callers -> Seq(Calls)]
    BY DEF TypeOK
  <2>3. \A d \in Callers : pc'[d] # "out" => todo'[d] # <<>>
    BY <1>0, <1>5, <2>2 DEF TakeReply
  <2> QED BY <2>1, <2>3
<1>6. ASSUME UNCHANGED <<mu, pc, todo>> PROVE OneCaller'
  BY <1>6
<1> QED BY <1>1, <1>2, <1>3, <1>4, <1>5, <1>6
        DEF Next, Caller, Reader, ReadMessage, StoreReply, ReadFails, RadioAnswers,
            RadioSendsAudio, vars

LEMMA PollingStep ==
  ASSUME TypeOK, OneCaller, Polling, [Next]_vars
  PROVE  Polling'
<1>0. /\ pc \in [Callers -> {"out", "lock", "clear", "write", "poll"}] /\ None \notin Callers
      /\ todo \in [Callers -> Seq(Calls)] /\ answer \in [Callers -> Answers \cup {None}]
      /\ replies \in Seq(Messages) /\ requests \in Seq([from : Callers, call : Calls])
      /\ OneCaller /\ Polling
  BY ControlAssumption DEF TypeOK, Callers
<1> USE DEF slot, tcp
(* Steps of a caller outside of its call leave the slot and the connection. *)
<1>1. ASSUME NEW c \in Callers, Enter(c) \/ Lock(c) PROVE Polling'
  <2>1. /\ pc[c] \in {"out", "lock"} /\ pc'[c] \in {"lock", "clear"}
        /\ \A d \in Callers : d # c => pc'[d] = pc[d]
        /\ UNCHANGED <<reply, v, todo, requests, replies, answer>>
    BY <1>0, <1>1 DEF Enter, Lock
  <2>2. (Quiet => Quiet') /\ \A d \in Callers : Asked(d) => Asked(d)'
    BY <2>1 DEF Quiet, Asked, NoneComes
  <2>3. \A d \in Callers : Answered(d) => Answered(d)'
    BY <2>1 DEF Answered, NoneComes, AnswerOf
  <2>4. \A d \in Callers : /\ pc'[d] = "poll" <=> pc[d] = "poll"
                          /\ pc'[d] = "write" <=> pc[d] = "write"
    BY <1>0, <2>1
  <2> QED BY <1>0, <2>1, <2>2, <2>3, <2>4 DEF Polling
<1>2. ASSUME NEW c \in Callers, ClearReply(c) PROVE Polling'
  <2>1. /\ pc[c] = "clear" /\ pc'[c] = "write" /\ reply' = None
        /\ \A d \in Callers : d # c => pc'[d] = pc[d]
        /\ UNCHANGED <<v, todo, requests, replies, answer>>
    BY <1>0, <1>2 DEF ClearReply
  <2>2. \A d \in Callers : pc[d] # "poll" /\ pc'[d] # "poll"
    BY <1>0, <2>1, OnePolls
  <2>3. Quiet /\ Quiet'
    BY <1>0, <2>1, <2>2 DEF Polling, Quiet, NoneComes
  <2> QED BY <1>0, <2>1, <2>2, <2>3 DEF Polling
<1>3. ASSUME NEW c \in Callers, WriteRequest(c) PROVE Polling'
  <2>1. /\ pc[c] = "write" /\ pc'[c] = "poll"
        /\ requests' = Append(requests, [from |-> c, call |-> Head(todo[c])])
        /\ \A d \in Callers : d # c => pc'[d] = pc[d]
        /\ UNCHANGED <<reply, v, todo, replies, answer>>
    BY <1>0, <1>3 DEF WriteRequest
  <2>2. \A d \in Callers : pc[d] # "poll"
    BY <1>0, <2>1, OnePolls
  <2>3. Quiet /\ reply = None /\ answer[c] = None
    BY <1>0, <2>1, <2>2 DEF Polling
  <2>4. Asked(c)'
    BY <2>1, <2>3, OneRequest DEF Asked, Quiet, NoneComes
  <2>5. \A d \in Callers : pc'[d] = "poll" => d = c
    BY <2>1, <2>2
  <2>6. \A d \in Callers : pc'[d] = "write" => pc[d] = "write"
    BY <2>1
  <2> QED BY <1>0, <2>1, <2>2, <2>3, <2>4, <2>5, <2>6 DEF Polling
<1>4. ASSUME NEW c \in Callers, TakeReply(c) PROVE Polling'
  <2>1. /\ pc[c] = "poll" /\ pc'[c] = "out" /\ reply # None /\ answer'[c] = None
        /\ \A d \in Callers : d # c => pc'[d] = pc[d] /\ answer'[d] = answer[d]
        /\ UNCHANGED <<reply, v, requests, replies>>
    BY <1>0, <1>4 DEF TakeReply, ItsForUs
  <2>2. answer[c] # None => Answered(c)
    BY <1>0, <2>1 DEF Polling
  <2>3. requests = <<>> /\ NoneComes
    BY <1>0, <2>1, <2>2 DEF Polling, Asked, Answered
  <2>4. Quiet'
    BY <2>1, <2>3 DEF Quiet, NoneComes
  <2>5. \A d \in Callers : pc'[d] \notin {"poll", "write"}
    BY <1>0, <2>1, OnePolls
  <2> QED BY <1>0, <2>1, <2>4, <2>5 DEF Polling
<1>5. CASE ReadMessage
  <2>1. /\ v = None /\ v' = replies[1] /\ replies' = Tail(replies) /\ 1 \in DOMAIN replies
        /\ UNCHANGED <<reply, pc, todo, requests, answer>>
    BY <1>0, <1>5, HeadAndTail DEF ReadMessage
  <2>2. /\ \A i \in DOMAIN replies' : i + 1 \in DOMAIN replies /\ replies'[i] = replies[i + 1]
        /\ \A j \in DOMAIN replies : j # 1 =>
             j - 1 \in DOMAIN replies' /\ replies'[j - 1] = replies[j]
        /\ DOMAIN replies \subseteq Int /\ DOMAIN replies' \subseteq Int
    <3>1. replies # <<>>
      BY <1>5 DEF ReadMessage
    <3>2. /\ \A i \in DOMAIN Tail(replies) :
               i + 1 \in DOMAIN replies /\ Tail(replies)[i] = replies[i + 1]
          /\ \A j \in DOMAIN replies : j # 1 =>
               j - 1 \in DOMAIN Tail(replies) /\ Tail(replies)[j - 1] = replies[j]
      BY <1>0, <3>1, HeadAndTail
    <3>3. DOMAIN replies \subseteq Int /\ Tail(replies) \in Seq(Messages)
      BY <1>0, <3>1, HeadAndTail
    <3> QED BY <2>1, <3>2, <3>3
  <2>3. NoneComes => NoneComes'
    BY <2>1, <2>2 DEF NoneComes
  <2>4. ASSUME NEW c \in Callers, Answered(c) PROVE Answered(c)'
    <3>1. CASE reply # None /\ AnswerOf(reply, c) /\ NoneComes
      BY <2>1, <2>3, <2>4, <3>1 DEF Answered, AnswerOf
    <3>2. ASSUME reply = None, NEW i \in DOMAIN replies,
                 IsReply(replies[i]), AnswerOf(replies[i], c),
                 \A j \in DOMAIN replies : IsReply(replies[j]) => j = i
          PROVE  Answered(c)'
      <4>1. CASE i = 1
        <5>1. IsReply(v)' /\ AnswerOf(v, c)'
          BY <2>1, <3>2, <4>1 DEF IsReply, AnswerOf
        <5>2. \A j \in DOMAIN replies' : ~IsReply(replies'[j])
          <6>1. ASSUME NEW j \in DOMAIN replies' PROVE ~IsReply(replies'[j])
            <7>1. j \in Int /\ j + 1 \in DOMAIN replies /\ replies'[j] = replies[j + 1]
              BY <2>2
            <7>2. j \in 1 .. Len(replies') /\ j + 1 # 1
              BY <2>1, <2>2, <1>0, <7>1, HeadAndTail
            <7> QED BY <3>2, <4>1, <7>1, <7>2
          <6> QED BY <6>1
        <5>3. \A j \in DOMAIN replies' : ~IsReply(replies[j])'
          BY <5>2 DEF IsReply
        <5> QED BY <2>1, <2>4, <3>2, <5>1, <5>3 DEF Answered
      <4>2. CASE i # 1
        <5>1. ~IsReply(v)'
          BY <2>1, <3>2, <4>2 DEF IsReply
        <5>2. PICK k \in DOMAIN replies' : k = i - 1 /\ replies'[k] = replies[i]
          BY <2>2, <3>2, <4>2
        <5>3. \A j \in DOMAIN replies' : IsReply(replies'[j]) => j = k
          BY <2>2, <3>2, <5>2
        <5>4. /\ IsReply(replies[k])' /\ AnswerOf(replies[k], c)'
              /\ \A j \in DOMAIN replies' : IsReply(replies[j])' => j = k
          BY <2>1, <3>2, <5>2, <5>3 DEF IsReply, AnswerOf
        <5> QED BY <2>1, <2>4, <3>2, <5>1, <5>4 DEF Answered
      <4> QED BY <4>1, <4>2
    <3>3. ~IsReply(v)
      BY <2>1 DEF IsReply
    <3> QED BY <2>4, <3>1, <3>2, <3>3 DEF Answered
  <2>5. \A c \in Callers : Asked(c) => Asked(c)'
    BY <2>1, <2>3 DEF Asked
  <2>6. Quiet => Quiet'
    BY <2>1, <2>3 DEF Quiet
  <2> QED BY <1>0, <2>1, <2>4, <2>5, <2>6 DEF Polling
<1>6. CASE StoreReply
  <2>1. /\ v # None /\ v' = None /\ reply' = (IF v.type = 0 THEN v ELSE reply)
        /\ UNCHANGED <<pc, todo, requests, replies, answer>>
    BY <1>6 DEF StoreReply
  <2>2. NoneComes => NoneComes' /\ reply' = reply
    BY <2>1 DEF NoneComes, IsReply
  <2>3. ASSUME NEW c \in Callers, Answered(c) PROVE Answered(c)'
    <3>1. CASE reply # None /\ AnswerOf(reply, c) /\ NoneComes
      BY <2>1, <2>2, <2>3, <3>1 DEF Answered, AnswerOf
    <3>2. CASE /\ reply = None /\ IsReply(v) /\ AnswerOf(v, c)
               /\ \A i \in DOMAIN replies : ~IsReply(replies[i])
      <4>1. reply' = v /\ reply' # None
        BY <2>1, <3>2 DEF IsReply
      <4>2. AnswerOf(reply, c)' /\ NoneComes'
        BY <2>1, <3>2, <4>1 DEF AnswerOf, NoneComes, IsReply
      <4> QED BY <2>1, <2>3, <4>1, <4>2 DEF Answered
    <3>3. ASSUME reply = None, ~IsReply(v), NEW i \in DOMAIN replies,
                 IsReply(replies[i]), AnswerOf(replies[i], c),
                 \A j \in DOMAIN replies : IsReply(replies[j]) => j = i
          PROVE  Answered(c)'
      <4>1. reply' = None /\ ~IsReply(v)'
        BY <2>1, <3>3 DEF IsReply
      <4>2. /\ IsReply(replies[i])' /\ AnswerOf(replies[i], c)'
            /\ \A j \in DOMAIN replies' : IsReply(replies[j])' => j = i
        BY <2>1, <3>3 DEF IsReply, AnswerOf
      <4> QED BY <2>1, <2>3, <3>3, <4>1, <4>2 DEF Answered
    <3> QED BY <2>3, <3>1, <3>2, <3>3 DEF Answered
  <2>4. \A c \in Callers : Asked(c) => Asked(c)'
    BY <2>1, <2>2 DEF Asked
  <2>5. Quiet => Quiet' /\ reply' = reply
    BY <2>1, <2>2 DEF Quiet
  <2>6. ASSUME NEW c \in Callers, pc[c] = "write" PROVE reply' = None
    <3>1. \A d \in Callers : pc[d] # "poll"
      BY <1>0, <2>6, OnePolls
    <3> QED BY <1>0, <2>5, <2>6, <3>1 DEF Polling
  <2> QED BY <1>0, <2>1, <2>3, <2>4, <2>5, <2>6 DEF Polling
<1>7. CASE RadioAnswers
  <2>1. PICK c \in Callers : pc[c] = "poll"
    BY <1>0, <1>7 DEF RadioAnswers, Polling, Quiet
  <2>2. answer[c] = None /\ Asked(c)
    BY <1>0, <1>7, <2>1 DEF RadioAnswers, Polling, Answered
  <2>3. PICK k \in Calls : k = Head(todo[c])
    <3>1. PICK s \in Seq(Calls) : s = todo[c] /\ s # <<>>
      BY <1>0, <2>1 DEF OneCaller
    <3> QED BY <3>1, HeadAndTail
  <2>4. PICK i \in Items, x \in Values :
          i = k.item /\ x = IF k.op = "set" THEN k.val ELSE item[i]
    BY <2>3, CallTyped DEF TypeOK
  <2>5. PICK r : r = [from |-> c, call |-> k] /\ r.from = c /\ r.call = k
                 /\ requests = <<r>> /\ Head(requests) = r /\ Tail(requests) = <<>>
    BY <2>2, <2>3, OneRequest DEF Asked
  <2>6. PICK m \in Messages : m = [type |-> 0, item |-> i, val |-> x]
    BY DEF Messages
  <2>7. /\ requests' = <<>> /\ replies' = Append(replies, m)
        /\ answer' = [answer EXCEPT ![c] = [item |-> i, val |-> x]]
        /\ UNCHANGED <<reply, v, pc, todo>>
    BY <1>7, <2>4, <2>5, <2>6 DEF RadioAnswers
  <2>8. answer'[c] = [item |-> i, val |-> x] /\ \A d \in Callers : d # c => answer'[d] = answer[d]
    BY <1>0, <2>7
  <2>9. answer'[c] # None /\ answer'[c].item = i /\ answer'[c].val = x
    BY <2>8, NoneAssumption DEF Answers
  <2>10. PICK n \in Nat : n = Len(replies)
    BY <1>0
  <2>11. /\ DOMAIN replies = 1 .. n /\ DOMAIN replies' = 1 .. n + 1 /\ replies'[n + 1] = m
         /\ \A j \in 1 .. n : replies'[j] = replies[j]
    BY <1>0, <2>7, <2>10, Appended
  <2>12. m # None /\ m.type = 0 /\ m.item = i /\ m.val = x
    BY <2>6, NoneAssumption
  <2>13. /\ IsReply(replies[n + 1])' /\ AnswerOf(replies[n + 1], c)'
    BY <2>9, <2>11, <2>12 DEF IsReply, AnswerOf
  <2>14. \A j \in DOMAIN replies' : IsReply(replies[j])' => j = n + 1
    BY <2>2, <2>11 DEF Asked, NoneComes, IsReply
  <2>15. reply' = None /\ ~IsReply(v)'
    BY <2>2, <2>7 DEF Asked, NoneComes, IsReply
  <2>16. n + 1 \in DOMAIN replies'
    BY <2>11
  <2>17. Answered(c)'
    BY <2>3, <2>4, <2>7, <2>9, <2>13, <2>14, <2>15, <2>16 DEF Answered
  <2>18. \A d \in Callers : pc'[d] \in {"poll", "write"} => d = c
    BY <1>0, <2>1, <2>7, OnePolls
  <2> QED BY <1>0, <2>1, <2>7, <2>8, <2>9, <2>17, <2>18 DEF Polling
<1>8. CASE RadioSendsAudio
  <2>1. PICK m \in Messages : m.type = 4 /\ replies' = <<m>> /\ replies = <<>>
    BY <1>8 DEF RadioSendsAudio, Messages
  <2>2. UNCHANGED <<reply, v, pc, todo, requests, answer>>
    BY <1>8 DEF RadioSendsAudio
  <2>3. DOMAIN replies = {} /\ DOMAIN replies' = {1} /\ replies'[1] = m
    BY <2>1
  <2>4. \A i \in DOMAIN replies' : ~IsReply(replies[i])'
    BY <2>1, <2>3 DEF IsReply
  <2>5. ~IsReply(v) => ~IsReply(v)'
    BY <2>2 DEF IsReply
  <2>6. NoneComes => NoneComes'
    BY <2>4, <2>5 DEF NoneComes
  <2>7. ASSUME NEW c \in Callers, Answered(c) PROVE Answered(c)'
    <3>1. CASE reply # None /\ AnswerOf(reply, c) /\ NoneComes
      BY <2>2, <2>6, <2>7, <3>1 DEF Answered, AnswerOf
    <3>2. CASE reply = None /\ IsReply(v) /\ AnswerOf(v, c)
      BY <2>2, <2>4, <2>7, <3>2 DEF Answered, AnswerOf, IsReply
    <3> QED BY <2>3, <2>7, <3>1, <3>2 DEF Answered
  <2>8. \A c \in Callers : Asked(c) => Asked(c)'
    BY <2>2, <2>6 DEF Asked
  <2>9. Quiet => Quiet'
    BY <2>2, <2>6 DEF Quiet
  <2> QED BY <1>0, <2>2, <2>7, <2>8, <2>9 DEF Polling
<1>9. ASSUME UNCHANGED <<reply, v, pc, todo, requests, replies, answer>> PROVE Polling'
  BY <1>0, <1>9 DEF Polling, Quiet, Asked, Answered, NoneComes, AnswerOf
<1> QED BY <1>1, <1>2, <1>3, <1>4, <1>5, <1>6, <1>7, <1>8, <1>9
        DEF Next, Caller, Reader, ReadFails, vars
-------------------------------------------------------------------------------
(* The inductive invariant: send_mu_ is held by the caller that clears the  *)
(* slot, writes and polls, and its one answer is in one place between the   *)
(* radio and the slot (getitem(), setitem(), the reader).                   *)
THEOREM ControlInvariant == Spec => []ControlInv
<1>1. ControlInv /\ [Next]_vars => ControlInv'
  BY ControlTypes, OneCallerStep, PollingStep DEF ControlInv
<1> QED BY ControlInit, <1>1, PTL DEF Spec
-------------------------------------------------------------------------------
(* The refinement.                                                          *)

Phases == [c \in Callers |-> Phase(c)]

(* A step that leaves where the callers are, their answers and what they    *)
(* have to do leaves the phases.                                            *)
LEMMA SamePhase ==
  ASSUME NEW c \in Callers, pc'[c] = pc[c], answer'[c] = answer[c], todo'[c] = todo[c]
  PROVE  Phase(c)' = Phase(c)
BY DEF Phase

LEMMA PhasesStep ==
  ASSUME NEW c \in Callers, NEW p, Phase(c)' = p,
         \A d \in Callers : d # c => Phase(d)' = Phase(d)
  PROVE  Phases' = [Phases EXCEPT ![c] = p]
BY DEF Phases

LEMMA MadeCalls ==
  ASSUME NEW k \in Calls
  PROVE  /\ Made(k) \in Atomic!Call
         /\ Made(k).op = k.op /\ Made(k).item = k.item
         /\ k.op = "set" => Made(k).val = k.val
BY DEF Calls, Made, Atomic!Call

LEMMA ItemsInit == Init => Atomic!Init
<1> SUFFICES ASSUME Init PROVE Atomic!Init
  OBVIOUS
<1>1. "own" \in Values
  BY DEF Values
<1>2. \A c \in Callers : Phase(c) = Atomic!Idle
  BY DEF Init, Phase, Atomic!Idle
<1> QED BY <1>1, <1>2 DEF Init, Atomic!Init

LEMMA ItemsStep ==
  ASSUME ControlInv, [Next]_vars
  PROVE  [Atomic!Next]_(Atomic!vars)
<1>0. /\ pc \in [Callers -> {"out", "lock", "clear", "write", "poll"}]
      /\ todo \in [Callers -> Seq(Calls)] /\ answer \in [Callers -> Answers \cup {None}]
      /\ item \in [Items -> Values] /\ result \in [Callers -> Values \cup {None}]
      /\ OneCaller /\ Polling
  BY DEF ControlInv, TypeOK
<1>h. ASSUME NEW c \in Callers, todo[c] # <<>> PROVE Head(todo[c]) \in Calls
  <2>1. PICK s \in Seq(Calls) : s = todo[c] /\ s # <<>>
    BY <1>0, <1>h
  <2> QED BY <2>1, HeadAndTail
<1>p. \A c \in Callers : Phases[c] = Phase(c)
  BY DEF Phases
<1> USE DEF slot, tcp
<1>1. ASSUME NEW c \in Callers, Enter(c) PROVE Atomic!Next
  <2>1. /\ pc[c] = "out" /\ pc'[c] = "lock" /\ todo[c] # <<>> /\ answer[c] = None
        /\ \A d \in Callers : d # c => pc'[d] = pc[d]
        /\ UNCHANGED <<todo, answer, item, result>>
    BY <1>0, <1>1 DEF Enter, Polling
  <2>2. PICK k \in Calls : k = Head(todo[c])
    BY <1>h, <2>1
  <2>3. Phase(c) = Atomic!Idle /\ Phase(c)' = Made(k)
    BY <2>1, <2>2 DEF Phase, Atomic!Idle
  <2>4. Phases' = [Phases EXCEPT ![c] = Made(k)]
    BY <2>1, <2>3, SamePhase, PhasesStep
  <2>5. Atomic!Make(c)
    BY <1>p, <2>1, <2>3, <2>4, MadeCalls DEF Atomic!Make, Phases
  <2> QED BY <2>5 DEF Atomic!Next
<1>2. ASSUME NEW c \in Callers, Lock(c) \/ ClearReply(c) \/ WriteRequest(c)
      PROVE  UNCHANGED Atomic!vars
  <2>1. /\ pc[c] # "out" /\ pc'[c] # "out"
        /\ \A d \in Callers : d # c => pc'[d] = pc[d]
        /\ UNCHANGED <<todo, answer, item, result>>
    BY <1>0, <1>2 DEF Lock, ClearReply, WriteRequest
  <2>2. \A d \in Callers : Phase(d)' = Phase(d)
    BY <2>1 DEF Phase
  <2> QED BY <2>1, <2>2 DEF Atomic!vars
<1>3. ASSUME NEW c \in Callers, TakeReply(c) PROVE Atomic!Next
  <2>1. /\ pc[c] = "poll" /\ pc'[c] = "out" /\ reply # None
        /\ result' = [result EXCEPT ![c] = reply.val]
        /\ \A d \in Callers : d # c => /\ pc'[d] = pc[d] /\ answer'[d] = answer[d]
                                     /\ todo'[d] = todo[d]
        /\ UNCHANGED item
    BY <1>0, <1>3 DEF TakeReply, ItsForUs
  <2>2. answer[c] # None /\ AnswerOf(reply, c)
    BY <1>0, <2>1 DEF Polling, Asked, Answered
  <2>3. PICK i \in Items, x \in Values : answer[c] = [item |-> i, val |-> x]
    BY <1>0, <2>2 DEF Answers
  <2>4. reply.val = x
    BY <2>2, <2>3 DEF AnswerOf
  <2>5. Phase(c) = [at |-> "done", item |-> i, val |-> x] /\ Phase(c)' = Atomic!Idle
    BY <2>1, <2>2, <2>3 DEF Phase, Atomic!Idle
  <2>6. Phases' = [Phases EXCEPT ![c] = Atomic!Idle]
    BY <2>1, <2>5, SamePhase, PhasesStep
  <2>7. Phases[c] \in Atomic!Done /\ Phases[c].val = x
    BY <1>p, <2>5 DEF Atomic!Done
  <2>8. Atomic!Return(c)
    BY <2>1, <2>4, <2>6, <2>7 DEF Atomic!Return, Phases
  <2> QED BY <2>8 DEF Atomic!Next
<1>4. CASE RadioAnswers
  <2>1. PICK c \in Callers : pc[c] = "poll"
    BY <1>0, <1>4 DEF RadioAnswers, Polling, Quiet
  <2>2. answer[c] = None /\ Asked(c)
    BY <1>0, <1>4, <2>1 DEF RadioAnswers, Polling, Answered
  <2>3. PICK k \in Calls : k = Head(todo[c])
    BY <1>0, <1>h, <2>1 DEF OneCaller
  <2>4. PICK i \in Items, x \in Values :
          i = k.item /\ x = IF k.op = "set" THEN k.val ELSE item[i]
    BY <1>0, <2>3, CallTyped
  <2>5. PICK r : r = [from |-> c, call |-> k] /\ r.from = c /\ r.call = k
                 /\ Head(requests) = r
    BY <2>2, <2>3, OneRequest DEF Asked
  <2>6. /\ item' = [item EXCEPT ![i] = x]
        /\ answer' = [answer EXCEPT ![c] = [item |-> i, val |-> x]]
        /\ UNCHANGED <<pc, todo, result>>
    BY <1>4, <2>4, <2>5 DEF RadioAnswers
  <2>7. answer'[c] = [item |-> i, val |-> x] /\ \A d \in Callers : d # c => answer'[d] = answer[d]
    BY <1>0, <2>6
  <2>8. answer'[c] # None
    BY <2>7, NoneAssumption DEF Answers
  <2>9. /\ Phase(c) = Made(k)
        /\ Phase(c)' = [at |-> "done", item |-> i, val |-> x]
    BY <2>1, <2>2, <2>3, <2>6, <2>7, <2>8 DEF Phase
  <2>10. Phases' = [Phases EXCEPT ![c] = [at |-> "done", item |-> i, val |-> x]]
    BY <2>6, <2>7, <2>9, SamePhase, PhasesStep
  <2>11. Phases[c] = Made(k) /\ item'[i] = x
    BY <1>0, <1>p, <2>6, <2>9
  <2>12. item' = IF k.op = "set" THEN [item EXCEPT ![k.item] = k.val] ELSE item
    BY <1>0, <2>4, <2>6
  <2>13. /\ Phases[c] \in Atomic!Call /\ Phases[c].item = i /\ Phases[c].op = k.op
         /\ k.op = "set" => Phases[c].val = k.val
    BY <2>4, <2>11, MadeCalls
  <2>14. item' = IF Phases[c].op = "set"
                 THEN [item EXCEPT ![Phases[c].item] = Phases[c].val] ELSE item
    BY <2>4, <2>12, <2>13
  <2>15. Phases' = [Phases EXCEPT ![c] =
           [at |-> "done", item |-> Phases[c].item, val |-> item'[Phases[c].item]]]
    BY <2>10, <2>11, <2>13
  <2>16. Atomic!Perform(c)
    BY <2>6, <2>13, <2>14, <2>15 DEF Atomic!Perform, Phases
  <2> QED BY <2>16 DEF Atomic!Next
<1>5. ASSUME UNCHANGED <<pc, todo, item, answer, result>> PROVE UNCHANGED Atomic!vars
  <2>1. \A d \in Callers : Phase(d)' = Phase(d)
    BY <1>5, SamePhase
  <2> QED BY <1>5, <2>1 DEF Atomic!vars
<1> QED BY <1>1, <1>2, <1>3, <1>4, <1>5
        DEF Next, Caller, Reader, ReadMessage, StoreReply, ReadFails, RadioSendsAudio, vars

(* The radio behaves as its items do: a call of getitem() or setitem() takes *)
(* effect once, between its beginning and its end, and returns the answer to *)
(* it and to no other call, whatever the reader, the other callers and the   *)
(* audio do (send_mu_, the cleared slot, the item number in the reply).      *)
THEOREM ImplementsRadioItems == Spec => ImplementsItems
<1> QED BY ControlInvariant, ItemsInit, ItemsStep, PTL DEF Spec, ImplementsItems, Atomic!Spec
===============================================================================
