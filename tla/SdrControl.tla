------------------------------- MODULE SdrControl ------------------------------
(***************************************************************************)
(* The control connection of the CloudSDR (cloudsdr.cc) and of the SDR-IP  *)
(* (sdrip.cc).  getitem() and setitem() hold send_mu_, clear the slot      *)
(* reply_, write a request to the TCP connection and poll the slot until   *)
(* it holds a reply with the number of their item.  A reader thread puts   *)
(* every reply into the slot.  open() makes a series of calls; when it is  *)
(* through, set_freq() may be called by several threads.                   *)
(*                                                                         *)
(* A request carries a number that only the model knows, so that a reply   *)
(* can be told from the reply to another request for the same item.        *)
(***************************************************************************)
EXTENDS Naturals, Sequences, SequencesExt

CONSTANTS
  Kinds,   (* a subset of {"cloud", "sdrip"}                                 *)
  Main,    (* the thread that calls open()                                   *)
  Others,  (* the threads that may call set_freq() later, once each          *)
  None     (* nobody; nothing                                                *)

ASSUME ControlAssumption ==
  Kinds \subseteq {"cloud", "sdrip"} /\ Main \notin Others /\ None \notin Others \cup {Main}

VARIABLES
  kind,      (* the radio, fixed                                             *)
  mu,        (* who holds send_mu_                                           *)
  reply,     (* reply_, guarded by reply_mu_                                 *)
  v,         (* the message that the reader has read and not yet stored      *)
  pc,        (* of each caller: where it is in getitem() or setitem()        *)
  todo,      (* of each caller: the calls it has yet to make                 *)
  requests,  (* the TCP connection to the radio ...                          *)
  replies,   (* ... and from it                                              *)
  item,      (* the items of the radio                                       *)
  answer,    (* history: the radio's answer to the call that is being made   *)
  result,    (* history: what the last call returned                         *)
  alive      (* FALSE once the process has exited                            *)

slot == <<reply, v>>
tcp  == <<requests, replies>>
vars == <<kind, mu, slot, pc, todo, tcp, item, answer, result, alive>>

Callers == Others \cup {Main}
-------------------------------------------------------------------------------
Set(i, x) == [op |-> "set", item |-> i, val |-> x]
Get(i)    == [op |-> "get", item |-> i]

Gets(names) == [n \in DOMAIN names |-> Get(names[n])]

(* The calls of CloudSDR::open(), but for some more of getitem() whose      *)
(* answers are only printed (cloudsdr.cc:84-100): each kind is here ...     *)
CloudOpen ==
  << Set("state", "stop"), Set("freq", "open"), Set("demod", "open"),
     Set("compression", "open"), Set("squelch", "open"), Set("af_filter", "open"),
     Set("state", "run") >>
  \o Gets(<<"name", "compression", "freq", "squelch", "af_filter">>)

(* ... and of SDRIP::open(), likewise (sdrip.cc:157-173), for hz >= 0: -1   *)
(* leaves the frequency unset (sdrip.cc:106), one call less.                *)
SdripOpen ==
  << Set("state", "stop"), Get("adc_rate"), Set("freq", "open"), Set("iq_rate", "open"),
     Set("udp_addr", "open"), Set("gain", "open"), Set("packet_size", "open"),
     Set("state", "run") >>
  \o Gets(<<"name", "freq", "gain", "packet_size", "adc_rate", "iq_rate", "udp_addr">>)

Open == IF kind = "cloud" THEN CloudOpen ELSE SdripOpen

Items  == {c.item : c \in ToSet(CloudOpen \o SdripOpen)}
Values == {"own", "stop", "run", "open"} \cup Others

Answers  == [item : Items, val : Values]
Messages == [type : {0}, item : Items, val : Values]
              \cup [type : {4}, item : {None}, val : {None}]

ASSUME NoneAssumption == None \notin Answers /\ None \notin Messages

Init ==
  /\ kind \in Kinds /\ mu = None /\ reply = None /\ v = None
  /\ pc = [c \in Callers |-> "out"]
  /\ todo = [c \in Callers |-> IF c = Main THEN Open ELSE <<Set("freq", c)>>]
  /\ requests = <<>> /\ replies = <<>>
  /\ item = [i \in Items |-> "own"]
  /\ answer = [c \in Callers |-> None] /\ result = answer /\ alive = TRUE
-------------------------------------------------------------------------------
(* getitem() and setitem().                                                 *)

Enter(c) ==
  /\ alive /\ pc[c] = "out" /\ todo[c] # <<>>
  /\ c # Main => todo[Main] = <<>> /\ pc[Main] = "out"
  /\ pc' = [pc EXCEPT ![c] = "lock"]
  /\ UNCHANGED <<kind, mu, slot, todo, tcp, item, answer, result, alive>>

Lock(c) ==
  /\ alive /\ pc[c] = "lock" /\ mu = None
  /\ mu' = c /\ pc' = [pc EXCEPT ![c] = "clear"]
  /\ UNCHANGED <<kind, slot, todo, tcp, item, answer, result, alive>>

(* Mutant: leaves the last reply in the slot.                               *)
ClearNothing(c) ==
  /\ alive /\ pc[c] = "clear"
  /\ pc' = [pc EXCEPT ![c] = "write"]
  /\ UNCHANGED <<kind, mu, slot, todo, tcp, item, answer, result, alive>>

ClearReply(c) ==
  /\ alive /\ pc[c] = "clear"
  /\ reply' = None /\ pc' = [pc EXCEPT ![c] = "write"]
  /\ UNCHANGED <<kind, mu, v, todo, tcp, item, answer, result, alive>>

WriteRequest(c) ==
  /\ alive /\ pc[c] = "write"
  /\ requests' = Append(requests, [from |-> c, call |-> Head(todo[c])])
  /\ pc' = [pc EXCEPT ![c] = "poll"]
  /\ UNCHANGED <<kind, mu, slot, todo, replies, item, answer, result, alive>>

ItsForUs(c) == reply # None /\ reply.item = Head(todo[c]).item

(* The slot holds a reply for this item: that is what the call returns.     *)
TakeReply(c) ==
  /\ alive /\ pc[c] = "poll" /\ ItsForUs(c)
  /\ mu' = None /\ pc' = [pc EXCEPT ![c] = "out"]
  /\ todo' = [todo EXCEPT ![c] = Tail(@)]
  /\ answer' = [answer EXCEPT ![c] = None]
  /\ result' = [result EXCEPT ![c] = reply.val]
  /\ UNCHANGED <<kind, slot, tcp, item, alive>>
-------------------------------------------------------------------------------
(* The reader thread.                                                       *)

ReadMessage ==
  /\ alive /\ v = None /\ replies # <<>>
  /\ v' = Head(replies) /\ replies' = Tail(replies)
  /\ UNCHANGED <<kind, mu, reply, pc, todo, requests, item, answer, result, alive>>

(* Mutant: takes audio for a reply.                                         *)
StoreAnything ==
  /\ alive /\ v # None
  /\ reply' = v /\ v' = None
  /\ UNCHANGED <<kind, mu, pc, todo, tcp, item, answer, result, alive>>

(* A message of type 0 is a reply; the others are audio, or are reported.   *)
StoreReply ==
  /\ alive /\ v # None
  /\ reply' = IF v.type = 0 THEN v ELSE reply
  /\ v' = None
  /\ UNCHANGED <<kind, mu, pc, todo, tcp, item, answer, result, alive>>

(* The connection is closed: exit(1).                                       *)
ReadFails ==
  /\ alive /\ v = None /\ replies = <<>>
  /\ alive' = FALSE
  /\ UNCHANGED <<kind, mu, slot, pc, todo, tcp, item, answer, result>>
-------------------------------------------------------------------------------
(* The radio answers its requests one by one.                               *)
RadioAnswers ==
  LET r  == Head(requests)
      i  == r.call.item
      x  == IF r.call.op = "set" THEN r.call.val ELSE item[i]
  IN
  /\ requests # <<>>
  /\ requests' = Tail(requests)
  /\ item' = [item EXCEPT ![i] = x]
  /\ replies' = Append(replies, [type |-> 0, item |-> i, val |-> x])
  /\ answer' = [answer EXCEPT ![r.from] = [item |-> i, val |-> x]]
  /\ UNCHANGED <<kind, mu, slot, pc, todo, result, alive>>

(* It sends audio, or says that there is none, whenever it likes.           *)
RadioSendsAudio ==
  /\ replies = <<>>
  /\ replies' = <<[type |-> 4, item |-> None, val |-> None]>>
  /\ UNCHANGED <<kind, mu, slot, pc, todo, requests, item, answer, result, alive>>
-------------------------------------------------------------------------------
Caller(c) == Lock(c) \/ ClearReply(c) \/ WriteRequest(c) \/ TakeReply(c)

Reader == ReadMessage \/ StoreReply

Next ==
  \/ \E c \in Callers : Enter(c) \/ Caller(c)
  \/ Reader \/ ReadFails \/ RadioAnswers \/ RadioSendsAudio

(* The threads run, and the radio answers.                                  *)
Fairness ==
  /\ \A c \in Callers : WF_vars(Caller(c))
  /\ WF_vars(Reader) /\ WF_vars(RadioAnswers)

Spec == Init /\ [][Next]_vars /\ Fairness
-------------------------------------------------------------------------------
(* Every call that is made returns, or the process ends: nobody waits for   *)
(* ever for a reply or for send_mu_.                                        *)
CallsReturn == \A c \in Callers : pc[c] = "lock" ~> (pc[c] = "out" \/ ~alive)

Made(call) ==
  IF call.op = "set"
  THEN [at |-> "made", op |-> "set", item |-> call.item, val |-> call.val]
  ELSE [at |-> "made", op |-> "get", item |-> call.item]

(* A call takes effect once, while it is made, and returns the radio's      *)
(* answer to it and to no other.                                            *)
Phase(c) ==
  IF pc[c] = "out" THEN [at |-> "idle"]
  ELSE IF answer[c] # None
    THEN [at |-> "done", item |-> answer[c].item, val |-> answer[c].val]
    ELSE Made(Head(todo[c]))

Atomic == INSTANCE RadioItems WITH phase <- [c \in Callers |-> Phase(c)]

ImplementsItems == Atomic!Spec
===============================================================================
