--------------------------------- MODULE Hpsdr ---------------------------------
(***************************************************************************)
(* The control of an HPSDR radio (hpsdr.cc) by UDP packets that may get    *)
(* lost.  A loop thread finds the radio and sends it, again and again, the *)
(* general, DDC and DUC packets and the "high priority" packet.  The main  *)
(* thread allocates receivers and tunes them.  A transmission sets PTT,    *)
(* drive and relays in a certain order, with pauses, and sends high        *)
(* priority packets of its own; the loop thread reads the same variables   *)
(* one by one while it builds its packet, without a lock.                  *)
(*                                                                         *)
(* Times are left out: a timer of tick() may have run out whenever the     *)
(* loop looks at it.  The samples of a receiver are in IqStream.           *)
(***************************************************************************)
EXTENDS Naturals, Sequences, Functions, FiniteSetsExt

CONSTANTS
  NDDC,      (* the number of receivers of the radio                        *)
  Scenarios, (* a set of records: opens receivers are opened, the first is  *)
             (* retuned later if retune, the radio restarts if restart, and *)
             (* reports clipping if reports; transmit is "no", "anytime" or *)
             (* "connected"                                                 *)
  Lossy,     (* may packets get lost?                                       *)
  Up, Down, MaxStep  (* steps of the attenuator: 10, 5, 31 in the code      *)

ASSUME HpsdrAssumption ==
  /\ {NDDC, Up, Down, MaxStep} \subseteq Nat \ {0} /\ Lossy \in BOOLEAN
  /\ Scenarios \subseteq [opens : Nat, retune : BOOLEAN, restart : BOOLEAN,
                          reports : BOOLEAN, transmit : {"no", "anytime", "connected"}]

VARIABLES
  todo,     (* what is left of the scenario                                 *)
  state,    (* state_; radio_sin_ is set when it is Running                 *)
  answer,   (* a discovery response waits in the socket                     *)
  status,   (* a priority status packet waits: None, "clip" or "clean"      *)
  pc,       (* what the loop thread does next                               *)
  first,    (* it answers the discovery response                            *)
  high,     (* what it has put into its high priority packet                *)
  changed,  (* configuration_changed_                                       *)
  active,   (* the units with active_ set                                   *)
  hz,       (* of each unit: hz_                                            *)
  step,     (* step_ of one ADC                                             *)
  receivers,(* the unit of each receiver that has been opened               *)
  tx,       (* tx_active_, tx_ptt_, tx_hz_ and tx_drive_                    *)
  at,       (* how many steps of tx_iq() have been done                     *)
  radio,    (* what the radio has been told                                 *)
  alive     (* FALSE once an assertion has failed                           *)

loop    == <<state, answer, status, pc, first, high>>
program == <<changed, active, hz, receivers, alive>>
sending == <<tx, at>>
vars    == <<todo, loop, program, step, sending, radio>>

Units == 0 .. NDDC - 1
Off   == [active |-> FALSE, ptt |-> FALSE, hz |-> 0, drive |-> 0]

(* A radio that has been switched on.                                       *)
Fresh ==
  [general |-> FALSE, duc |-> FALSE, active |-> {}, run |-> FALSE,
   hz |-> [u \in Units |-> 0], tx |-> Off]

(* The bytes of a high priority packet before anything is put into it.      *)
Zeros == [active |-> FALSE, ptt |-> FALSE, hz |-> 0, drive |-> 0, rx |-> Fresh.hz]

(* configuration_changed_ is not initialised by the constructor.            *)
Init ==
  /\ todo \in Scenarios
  /\ state = "None" /\ answer = FALSE /\ status = "None"
  /\ pc = "loop" /\ first = FALSE /\ high = Zeros
  /\ changed \in BOOLEAN /\ active = {} /\ hz = Fresh.hz
  /\ step = 0 /\ receivers = <<>> /\ tx = Off /\ at = 0 /\ radio = Fresh
  /\ alive = TRUE

(* A packet that is sent before the radio has been found goes nowhere.      *)
Reached(arrives) == IF arrives THEN state = "Running" ELSE Lossy \/ state # "Running"
-------------------------------------------------------------------------------
(* Receivers: the constructor of HPSDRSoundIn and set_freq().               *)

Allocate ==
  LET free == {u \in Units : hz[u] = 0} IN
  /\ alive /\ todo.opens > 0 /\ (receivers # <<>> => hz[receivers[Len(receivers)]] # 0)
  /\ IF free = {}
     THEN alive' = FALSE /\ UNCHANGED <<changed, active, receivers>>
     ELSE /\ active' = active \cup {Min(free)} /\ changed' = TRUE
          /\ receivers' = Append(receivers, Min(free))
          /\ UNCHANGED alive
  /\ todo' = [todo EXCEPT !.opens = @ - 1]
  /\ UNCHANGED <<loop, hz, step, sending, radio>>

SetFreq ==
  /\ alive /\ receivers # <<>>
  /\ LET u == receivers[Len(receivers)] IN hz[u] = 0 /\ hz' = [hz EXCEPT ![u] = 1]
  /\ UNCHANGED <<todo, loop, changed, active, receivers, alive, step, sending, radio>>

Retune ==
  /\ alive /\ todo.retune /\ receivers # <<>> /\ hz[receivers[1]] # 0
  /\ hz' = [hz EXCEPT ![receivers[1]] = 2]
  /\ todo' = [todo EXCEPT !.retune = FALSE]
  /\ UNCHANGED <<loop, changed, active, receivers, alive, step, sending, radio>>
-------------------------------------------------------------------------------
(* The loop thread: finding the radio.                                      *)

OpenSocket ==
  /\ alive /\ pc = "loop" /\ state = "None"
  /\ state' = "Discovering"
  /\ UNCHANGED <<todo, answer, status, pc, first, high, program, step, sending, radio>>

Discover(arrives) ==
  /\ alive /\ pc = "loop" /\ state = "Discovering"
  /\ arrives \/ Lossy
  /\ answer' = (answer \/ arrives)
  /\ UNCHANGED <<todo, state, status, pc, first, high, program, step, sending, radio>>

ReceiveAnswer ==
  /\ alive /\ pc = "loop" /\ answer /\ answer' = FALSE
  /\ IF state = "Discovering"
     THEN state' = "Running" /\ first' = TRUE /\ pc' = "general"
     ELSE UNCHANGED <<state, first, pc>>
  /\ UNCHANGED <<todo, status, high, program, step, sending, radio>>

(* A report of clipping, or of none; whether 5 or 60 seconds have passed    *)
(* is open.                                                                 *)
ReceiveStatus ==
  /\ alive /\ pc = "loop" /\ state = "Running" /\ status # "None"
  /\ status' = "None"
  /\ \/ ~tx.active /\ status = "clip"  /\ step' = Min({step + Up, MaxStep})
     \/ ~tx.active /\ status = "clean" /\ step' = IF step > Down THEN step - Down ELSE 0
     \/ UNCHANGED step
  /\ UNCHANGED <<todo, state, answer, pc, first, high, program, sending, radio>>
-------------------------------------------------------------------------------
(* The loop thread: the general, DDC and DUC packets.                       *)

(* Mutant: no timer, the configuration is sent when it has changed.         *)
ConfigureOnce ==
  /\ alive /\ pc = "loop" /\ state = "Running" /\ changed
  /\ changed' = FALSE /\ pc' = "general"
  /\ UNCHANGED <<todo, state, answer, status, first, high, active, hz, receivers, alive>>
  /\ UNCHANGED <<step, sending, radio>>

Configure ==
  /\ alive /\ pc = "loop" /\ state = "Running"
  /\ changed' = FALSE /\ pc' = "general"
  /\ UNCHANGED <<todo, state, answer, status, first, high, active, hz, receivers, alive>>
  /\ UNCHANGED <<step, sending, radio>>

SendGeneral(arrives) ==
  /\ alive /\ pc = "general" /\ Reached(arrives)
  /\ radio' = IF arrives THEN [radio EXCEPT !.general = TRUE] ELSE radio
  /\ pc' = "ddc"
  /\ UNCHANGED <<todo, state, answer, status, first, high, program, step, sending>>

SendDdc(arrives) ==
  /\ alive /\ pc = "ddc" /\ Reached(arrives)
  /\ radio' = IF arrives THEN [radio EXCEPT !.active = active] ELSE radio
  /\ pc' = "duc"
  /\ UNCHANGED <<todo, state, answer, status, first, high, program, step, sending>>

SendDuc(arrives) ==
  /\ alive /\ pc = "duc" /\ Reached(arrives)
  /\ radio' = IF arrives THEN [radio EXCEPT !.duc = TRUE] ELSE radio
  /\ pc' = (IF first THEN "ptt" ELSE "loop") /\ first' = FALSE
  /\ UNCHANGED <<todo, state, answer, status, high, program, step, sending>>
-------------------------------------------------------------------------------
(* The loop thread: the high priority packet.                               *)

(* Mutant: the timer runs only during a transmission.                       *)
HighInTx ==
  /\ alive /\ pc = "loop" /\ state = "Running" /\ tx.active /\ pc' = "ptt"
  /\ UNCHANGED <<todo, state, answer, status, first, high, program, step, sending, radio>>

High ==
  /\ alive /\ pc = "loop" /\ state = "Running" /\ pc' = "ptt"
  /\ UNCHANGED <<todo, state, answer, status, first, high, program, step, sending, radio>>

Read(from, packet, to) ==
  /\ alive /\ pc = from /\ pc' = to /\ high' = packet
  /\ UNCHANGED <<todo, state, answer, status, first, program, step, sending, radio>>

ReadPtt   == Read("ptt", [high EXCEPT !.ptt = tx.ptt], "hz")
ReadHz    == Read("hz", [high EXCEPT !.rx = hz, !.hz = tx.hz], "drive")
ReadDrive == Read("drive", [high EXCEPT !.drive = tx.drive], "alex")
ReadAlex  == Read("alex", [high EXCEPT !.active = tx.active], "send")

(* What the radio does with a high priority packet; 0 leaves a receiver     *)
(* without a frequency.                                                     *)
Told(packet, rx) ==
  [radio EXCEPT !.run = TRUE, !.hz = rx,
                !.tx = [f \in DOMAIN Off |-> packet[f]]]

SendHigh(arrives) ==
  /\ alive /\ pc = "send" /\ Reached(arrives)
  /\ radio' = IF arrives THEN Told(high, high.rx) ELSE radio
  /\ high' = Zeros /\ pc' = "loop"
  /\ UNCHANGED <<todo, state, answer, status, first, program, step, sending>>
-------------------------------------------------------------------------------
(* tx_iq(): the transmission.                                               *)

Store(f, x) == [do |-> "store", field |-> f, val |-> x]
SendIt == [do |-> "send"]
Pause  == [do |-> "usleep"]

(* Mutant: no pauses at the end.                                            *)
TxIqHurried ==
  << Store("active", TRUE), Store("ptt", FALSE), Store("hz", 1), Store("drive", 0), SendIt, Pause,
     Store("ptt", TRUE), SendIt, Pause,
     Store("drive", 1), SendIt,
     Store("drive", 0), SendIt, Store("ptt", FALSE), SendIt, Store("active", FALSE), SendIt >>

(* usleep() is taken to outlast the building of one packet.  That packet    *)
(* has the frequency twice (as it is, and in the choice of filters,         *)
(* hpsdr.cc:669-671); here it is read once.                                 *)
TxIq ==
  << Store("active", TRUE), Store("ptt", FALSE), Store("hz", 1), Store("drive", 0), SendIt, Pause,
     Store("ptt", TRUE), SendIt, Pause,
     Store("drive", 1), SendIt,
     Store("drive", 0), SendIt, Pause,
     Store("ptt", FALSE), SendIt, Pause,
     Store("active", FALSE), SendIt >>

(* Step n of a transmission.  A pause of 10 ms is long enough for the loop  *)
(* thread to be done with a packet that it had begun.                       *)
Step(n, arrives) ==
  LET op == TxIq[n] IN
  /\ tx' = IF op.do = "store" THEN [tx EXCEPT ![op.field] = op.val] ELSE tx
  /\ op.do = "send" => Reached(arrives)
  /\ radio' = IF op.do = "send" /\ arrives THEN Told(tx, hz) ELSE radio
  /\ op.do = "usleep" => pc = "loop"

Transmit(arrives) ==
  /\ alive /\ todo.transmit # "no" /\ at < Len(TxIq)
  /\ at = 0 => todo.transmit = "anytime" \/ state = "Running"
  /\ Step(at + 1, arrives) /\ at' = at + 1
  /\ UNCHANGED <<todo, loop, program, step>>
-------------------------------------------------------------------------------
(* The radio.                                                               *)

RadioReports ==
  /\ todo.reports /\ radio.run /\ status = "None" /\ status' \in {"clip", "clean"}
  /\ UNCHANGED <<todo, state, answer, pc, first, high, program, step, sending, radio>>

RadioRestarts ==
  /\ todo.restart /\ radio # Fresh
  /\ radio' = Fresh /\ todo' = [todo EXCEPT !.restart = FALSE]
  /\ UNCHANGED <<loop, program, step, sending>>
-------------------------------------------------------------------------------
Main == Allocate \/ SetFreq \/ Retune

Build == ReadPtt \/ ReadHz \/ ReadDrive \/ ReadAlex

Packets(arrives) == SendGeneral(arrives) \/ SendDdc(arrives) \/ SendDuc(arrives) \/ SendHigh(arrives)

Next ==
  \/ Main \/ OpenSocket \/ ReceiveAnswer \/ ReceiveStatus \/ Configure \/ High \/ Build
  \/ \E arrives \in BOOLEAN : Discover(arrives) \/ Packets(arrives) \/ Transmit(arrives)
  \/ RadioReports \/ RadioRestarts

(* The threads run; the timers of tick() run out again and again; not       *)
(* every packet of a kind gets lost.                                        *)
Fairness ==
  /\ WF_vars(Main) /\ WF_vars(OpenSocket) /\ WF_vars(Build)
  /\ WF_vars(\E arrives \in BOOLEAN : Packets(arrives))
  /\ SF_vars(\E arrives \in BOOLEAN : Transmit(arrives))
  /\ SF_vars(Discover(TRUE)) /\ SF_vars(ReceiveAnswer) /\ SF_vars(Configure) /\ SF_vars(High)
  /\ SF_vars(SendGeneral(TRUE)) /\ SF_vars(SendDdc(TRUE)) /\ SF_vars(SendDuc(TRUE))
  /\ SF_vars(SendHigh(TRUE))

Spec == Init /\ [][Next]_vars /\ Fairness
-------------------------------------------------------------------------------
(* The radio is keyed only on the frequency of the transmission and with    *)
(* its relays set for it, and has power only when it is keyed, whichever    *)
(* packets get lost and whatever the loop thread had read before.           *)
KeyedInPlace ==
  /\ radio.tx.ptt => radio.tx.active /\ radio.tx.hz = 1
  /\ radio.tx.drive > 0 => radio.tx.ptt

(* Every receiver that is opened has a unit of its own, which gets its      *)
(* frequency in the end and keeps it, though packets get lost and the radio *)
(* may restart.                                                             *)
Served ==
  LET served(u) == /\ u \in radio.active /\ radio.hz[u] = hz[u]
                   /\ radio.run /\ radio.general /\ radio.duc
  IN <>[](alive => IsInjective(receivers) /\ \A u \in Range(receivers) : served(u))

(* A transmission ends, and then the radio is not keyed any more and its    *)
(* relays are set for receiving.                                            *)
Released ==
  <>[](alive /\ todo.transmit # "no" => at = Len(TxIq) /\ ~radio.tx.ptt /\ ~radio.tx.active)
===============================================================================
