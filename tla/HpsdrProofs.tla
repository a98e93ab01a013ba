------------------------------- MODULE HpsdrProofs -------------------------------
(***************************************************************************)
(* The radio is keyed in place, for any number of receivers, any scenario  *)
(* and any loss of packets.  The argument: the pauses of tx_iq() divide    *)
(* the transmission into phases, and the loop thread begins and finishes a *)
(* high priority packet within one of them.  The four variables that it    *)
(* reads one by one may differ within a phase, but never so far that PTT   *)
(* goes without the relays or the drive without PTT.                       *)
(***************************************************************************)
EXTENDS Hpsdr, TLAPS

Tx     == [active : BOOLEAN, ptt : BOOLEAN, hz : {0, 1}, drive : {0, 1}]
Packet == [active : BOOLEAN, ptt : BOOLEAN, hz : {0, 1}, drive : {0, 1}, rx : [Units -> {0, 1, 2}]]

TypeOK ==
  /\ pc \in {"loop", "general", "ddc", "duc", "ptt", "hz", "drive", "alex", "send"}
  /\ high \in Packet /\ tx \in Tx /\ radio.tx \in Tx /\ "tx" \in DOMAIN radio
  /\ hz \in [Units -> {0, 1, 2}] /\ at \in 0 .. 19

(* What tx_iq() has stored after so many steps.                             *)
Stored ==
  /\ tx.active <=> at \in 1 .. 17
  /\ tx.ptt <=> at \in 7 .. 14
  /\ tx.hz = 1 <=> at >= 3
  /\ tx.drive > 0 <=> at \in 10 .. 11

Consistent(packet) ==
  /\ packet.ptt => packet.active /\ packet.hz = 1
  /\ packet.drive > 0 => packet.ptt

(* While the loop thread builds a packet, the transmission stays in the     *)
(* phase in which PTT was read.                                             *)
InPhase ==
  pc \in {"hz", "drive", "alex"} => IF high.ptt THEN at \in 7 .. 16 ELSE at \notin 9 .. 13

Building ==
  /\ pc \in {"drive", "alex"} => (high.ptt => high.hz = 1)
  /\ pc = "alex" => (high.drive > 0 => high.ptt)
  /\ pc = "send" => Consistent(high)

HpsdrInv == TypeOK /\ Stored /\ InPhase /\ Building /\ Consistent(radio.tx)
-------------------------------------------------------------------------------
LEMMA Steps ==
  /\ Len(TxIq) = 19
  /\ TxIq[1] = Store("active", TRUE) /\ TxIq[2] = Store("ptt", FALSE)
  /\ TxIq[3] = Store("hz", 1) /\ TxIq[4] = Store("drive", 0)
  /\ TxIq[5] = SendIt /\ TxIq[6] = Pause
  /\ TxIq[7] = Store("ptt", TRUE) /\ TxIq[8] = SendIt /\ TxIq[9] = Pause
  /\ TxIq[10] = Store("drive", 1) /\ TxIq[11] = SendIt
  /\ TxIq[12] = Store("drive", 0) /\ TxIq[13] = SendIt /\ TxIq[14] = Pause
  /\ TxIq[15] = Store("ptt", FALSE) /\ TxIq[16] = SendIt /\ TxIq[17] = Pause
  /\ TxIq[18] = Store("active", FALSE) /\ TxIq[19] = SendIt
BY DEF TxIq

(* The radio does as the packet says.                                       *)
LEMMA RadioTold ==
  ASSUME NEW packet, packet \in Tx \/ packet \in Packet, NEW rx, "tx" \in DOMAIN radio
  PROVE  /\ Told(packet, rx).tx \in Tx /\ "tx" \in DOMAIN Told(packet, rx)
         /\ Consistent(packet) => Consistent(Told(packet, rx).tx)
<1>1. DOMAIN Off = {"active", "ptt", "hz", "drive"}
  BY DEF Off
<1> DEFINE t == [f \in DOMAIN Off |-> packet[f]]
<1>2. t = [active |-> packet.active, ptt |-> packet.ptt, hz |-> packet.hz, drive |-> packet.drive]
  BY <1>1
<1>3. t \in Tx /\ t.active = packet.active /\ t.ptt = packet.ptt /\ t.hz = packet.hz
      /\ t.drive = packet.drive
  BY <1>2 DEF Tx, Packet
<1> HIDE DEF t
<1>4. Told(packet, rx).tx = t /\ "tx" \in DOMAIN Told(packet, rx)
  BY DEF Told, t
<1> QED BY <1>3, <1>4 DEF Consistent

LEMMA ZerosSafe == Zeros \in Packet /\ Consistent(Zeros) /\ Off \in Tx /\ Consistent(Off)
<1>1. Fresh.hz \in [Units -> {0, 1, 2}]
  BY DEF Fresh
<1> QED BY <1>1 DEF Zeros, Packet, Off, Tx, Consistent

LEMMA HpsdrInit == Init => HpsdrInv
<1> SUFFICES ASSUME Init PROVE HpsdrInv
  OBVIOUS
<1>1. radio.tx = Off /\ "tx" \in DOMAIN radio /\ Fresh.hz \in [Units -> {0, 1, 2}]
  BY DEF Init, Fresh
<1>2. TypeOK
  BY <1>1, ZerosSafe DEF Init, TypeOK
<1>3. Stored
  BY DEF Init, Stored, Off
<1> QED BY <1>1, <1>2, <1>3, ZerosSafe DEF HpsdrInv, Init, InPhase, Building

(* A step that leaves the transmission alone, and the packet that is built. *)
LEMMA Elsewhere ==
  ASSUME HpsdrInv, UNCHANGED <<high, tx, at>>,
         pc' = pc \/ pc' \in {"loop", "general", "ddc", "duc", "ptt"},
         radio'.tx \in Tx /\ "tx" \in DOMAIN radio' /\ Consistent(radio'.tx),
         hz' \in [Units -> {0, 1, 2}]
  PROVE  HpsdrInv'
<1>1. TypeOK' /\ Consistent(radio.tx)'
  BY DEF HpsdrInv, TypeOK, Consistent
<1>2. Stored'
  BY DEF HpsdrInv, Stored
<1>3. InPhase' /\ Building'
  BY DEF HpsdrInv, InPhase, Building, Consistent
<1> QED BY <1>1, <1>2, <1>3 DEF HpsdrInv

(* The loop thread reads one variable after the other.                      *)
LEMMA BuildStep ==
  ASSUME HpsdrInv, Build
  PROVE  HpsdrInv'
<1>0. /\ high \in Packet /\ tx \in Tx /\ hz \in [Units -> {0, 1, 2}] /\ at \in 0 .. 19
      /\ high' \in Packet => TypeOK'
  BY DEF HpsdrInv, TypeOK, Build, ReadPtt, ReadHz, ReadDrive, ReadAlex, Read, program, sending
<1>1. UNCHANGED <<tx, at, radio>> /\ Stored' /\ Consistent(radio.tx)'
  BY DEF HpsdrInv, Stored, Consistent, Build, ReadPtt, ReadHz, ReadDrive, ReadAlex, Read, sending
<1>2. CASE ReadPtt
  <2>1. pc' = "hz" /\ high' = [high EXCEPT !.ptt = tx.ptt]
    BY <1>2 DEF ReadPtt, Read
  <2>2. high' \in Packet /\ high'.ptt = tx.ptt
    BY <1>0, <2>1 DEF Packet, Tx
  <2>3. InPhase'
    BY <1>0, <1>1, <2>1, <2>2 DEF InPhase, HpsdrInv, Stored
  <2> QED BY <1>0, <1>1, <2>1, <2>2, <2>3 DEF HpsdrInv, Building
<1>3. CASE ReadHz
  <2>1. pc = "hz" /\ pc' = "drive" /\ high' = [high EXCEPT !.rx = hz, !.hz = tx.hz]
    BY <1>3 DEF ReadHz, Read
  <2>2. high' \in Packet /\ high'.ptt = high.ptt /\ high'.hz = tx.hz
    BY <1>0, <2>1 DEF Packet, Tx
  <2>3. InPhase'
    BY <1>1, <2>1, <2>2 DEF InPhase, HpsdrInv
  <2>4. high.ptt => tx.hz = 1
    BY <1>0, <2>1 DEF InPhase, HpsdrInv, Stored
  <2> QED BY <1>0, <1>1, <2>1, <2>2, <2>3, <2>4 DEF HpsdrInv, Building
<1>4. CASE ReadDrive
  <2>1. pc = "drive" /\ pc' = "alex" /\ high' = [high EXCEPT !.drive = tx.drive]
    BY <1>4 DEF ReadDrive, Read
  <2>2. high' \in Packet /\ high'.ptt = high.ptt /\ high'.hz = high.hz /\ high'.drive = tx.drive
    BY <1>0, <2>1 DEF Packet, Tx
  <2>3. InPhase'
    BY <1>1, <2>1, <2>2 DEF InPhase, HpsdrInv
  <2>4. tx.drive > 0 => high.ptt
    BY <1>0, <2>1 DEF InPhase, HpsdrInv, Stored
  <2>5. Building'
    BY <2>1, <2>2, <2>4 DEF HpsdrInv, Building
  <2> QED BY <1>0, <1>1, <2>2, <2>3, <2>5 DEF HpsdrInv
<1>5. CASE ReadAlex
  <2>1. pc = "alex" /\ pc' = "send" /\ high' = [high EXCEPT !.active = tx.active]
    BY <1>5 DEF ReadAlex, Read
  <2>2. /\ high' \in Packet /\ high'.ptt = high.ptt /\ high'.hz = high.hz
        /\ high'.drive = high.drive /\ high'.active = tx.active
    BY <1>0, <2>1 DEF Packet, Tx
  <2>3. high.ptt => tx.active
    BY <1>0, <2>1 DEF InPhase, HpsdrInv, Stored
  <2>4. Building'
    BY <2>1, <2>2, <2>3 DEF HpsdrInv, Building, Consistent
  <2>5. InPhase'
    BY <2>1 DEF InPhase
  <2> QED BY <1>0, <1>1, <2>2, <2>4, <2>5 DEF HpsdrInv
<1> QED BY <1>2, <1>3, <1>4, <1>5 DEF Build

LEMMA SendHighStep ==
  ASSUME HpsdrInv, NEW arrives \in BOOLEAN, SendHigh(arrives)
  PROVE  HpsdrInv'
<1>0. /\ pc = "send" /\ pc' = "loop" /\ high' = Zeros
      /\ radio' = (IF arrives THEN Told(high, high.rx) ELSE radio)
      /\ UNCHANGED <<tx, at, hz>>
  BY DEF SendHigh, program, sending
<1>1. high \in Packet /\ Consistent(high) /\ radio.tx \in Tx /\ Consistent(radio.tx)
      /\ "tx" \in DOMAIN radio
  BY <1>0 DEF HpsdrInv, TypeOK, Building
<1>2. radio'.tx \in Tx /\ "tx" \in DOMAIN radio' /\ Consistent(radio'.tx)
  BY <1>0, <1>1, RadioTold
<1>3. TypeOK' /\ Consistent(radio.tx)'
  BY <1>0, <1>2, ZerosSafe DEF HpsdrInv, TypeOK, Consistent
<1>4. Stored'
  BY <1>0 DEF HpsdrInv, Stored
<1> QED BY <1>0, <1>3, <1>4 DEF HpsdrInv, InPhase, Building

(* One step of tx_iq().                                                     *)
LEMMA StepOf ==
  ASSUME NEW n \in 1 .. 19, NEW arrives \in BOOLEAN, Step(n, arrives)
  PROVE  /\ \A f, x : TxIq[n] = Store(f, x) => tx' = [tx EXCEPT ![f] = x] /\ radio' = radio
         /\ TxIq[n] = SendIt => tx' = tx /\ (radio' = radio \/ radio' = Told(tx, hz))
         /\ TxIq[n] = Pause => tx' = tx /\ radio' = radio /\ pc = "loop"
<1>1. \A f, x : Store(f, x).do = "store" /\ Store(f, x).field = f /\ Store(f, x).val = x
  BY DEF Store
<1>2. SendIt.do = "send" /\ Pause.do = "usleep"
  BY DEF SendIt, Pause
<1> QED BY <1>1, <1>2 DEF Step

LEMMA TransmitStep ==
  ASSUME HpsdrInv, NEW arrives \in BOOLEAN, Transmit(arrives)
  PROVE  HpsdrInv'
<1>0. /\ at \in 0 .. 18 /\ at' = at + 1 /\ Step(at + 1, arrives)
      /\ UNCHANGED <<pc, high, hz>>
  BY Steps DEF HpsdrInv, TypeOK, Transmit, loop, program
<1>1. /\ tx \in Tx /\ radio.tx \in Tx /\ "tx" \in DOMAIN radio
      /\ Stored /\ Consistent(radio.tx) /\ Consistent(tx)
  BY <1>0 DEF HpsdrInv, TypeOK, Stored, Consistent, Tx
<1>2. PICK n \in 1 .. 19 : n = at + 1
  BY <1>0
<1> DEFINE Goal == /\ tx' \in Tx /\ Stored'
                   /\ radio' = radio \/ radio' = Told(tx, hz)
                   /\ n \in {6, 9, 14, 17} => pc = "loop"
<1>a. ASSUME n \in {1, 18} PROVE Goal
  <2>1. TxIq[n] = Store("active", n = 1)
    BY <1>a, Steps
  <2>2. tx' = [tx EXCEPT !.active = (n = 1)] /\ radio' = radio
    BY <1>0, <1>2, <2>1, StepOf
  <2>3. /\ tx' \in Tx /\ (tx'.active <=> (n = 1))
        /\ (tx'.ptt <=> tx.ptt) /\ tx'.hz = tx.hz /\ tx'.drive = tx.drive
    BY <1>1, <1>a, <2>2 DEF Tx
  <2>4. Stored'
    BY <1>0, <1>1, <1>2, <1>a, <2>3 DEF Stored
  <2> QED BY <1>a, <2>2, <2>3, <2>4
<1>p. ASSUME n \in {2, 7, 15} PROVE Goal
  <2>1. TxIq[n] = Store("ptt", n = 7)
    BY <1>p, Steps
  <2>2. tx' = [tx EXCEPT !.ptt = (n = 7)] /\ radio' = radio
    BY <1>0, <1>2, <2>1, StepOf
  <2>3. /\ tx' \in Tx /\ (tx'.ptt <=> (n = 7))
        /\ (tx'.active <=> tx.active) /\ tx'.hz = tx.hz /\ tx'.drive = tx.drive
    BY <1>1, <1>p, <2>2 DEF Tx
  <2>4. Stored'
    BY <1>0, <1>1, <1>2, <1>p, <2>3 DEF Stored
  <2> QED BY <1>p, <2>2, <2>3, <2>4
<1>h. ASSUME n = 3 PROVE Goal
  <2>1. TxIq[n] = Store("hz", 1)
    BY <1>h, Steps
  <2>2. tx' = [tx EXCEPT !.hz = 1] /\ radio' = radio
    BY <1>0, <1>2, <2>1, StepOf
  <2>3. /\ tx' \in Tx /\ tx'.hz = 1
        /\ (tx'.active <=> tx.active) /\ (tx'.ptt <=> tx.ptt) /\ tx'.drive = tx.drive
    BY <1>1, <1>h, <2>2 DEF Tx
  <2>4. Stored'
    BY <1>0, <1>1, <1>2, <1>h, <2>3 DEF Stored
  <2> QED BY <1>h, <2>2, <2>3, <2>4
<1>d. ASSUME n \in {4, 10, 12} PROVE Goal
  <2>1. TxIq[n] = Store("drive", IF n = 10 THEN 1 ELSE 0)
    BY <1>d, Steps
  <2>2. tx' = [tx EXCEPT !.drive = IF n = 10 THEN 1 ELSE 0] /\ radio' = radio
    BY <1>0, <1>2, <2>1, StepOf
  <2>3. /\ tx' \in Tx /\ tx'.drive = (IF n = 10 THEN 1 ELSE 0)
        /\ (tx'.active <=> tx.active) /\ (tx'.ptt <=> tx.ptt) /\ tx'.hz = tx.hz
    BY <1>1, <1>d, <2>2 DEF Tx
  <2>4. Stored'
    BY <1>0, <1>1, <1>2, <1>d, <2>3 DEF Stored
  <2> QED BY <1>d, <2>2, <2>3, <2>4
<1>s. ASSUME n \in {5, 8, 11, 13, 16, 19} PROVE Goal
  <2>1. tx' = tx /\ (radio' = radio \/ radio' = Told(tx, hz))
    BY <1>0, <1>2, <1>s, StepOf, Steps
  <2>2. Stored'
    BY <1>0, <1>1, <1>2, <1>s, <2>1 DEF Stored
  <2> QED BY <1>1, <1>s, <2>1, <2>2
<1>u. ASSUME n \in {6, 9, 14, 17} PROVE Goal
  <2>1. tx' = tx /\ radio' = radio /\ pc = "loop"
    BY <1>0, <1>2, <1>u, StepOf, Steps
  <2>2. Stored'
    BY <1>0, <1>1, <1>2, <1>u, <2>1 DEF Stored
  <2> QED BY <1>1, <2>1, <2>2
<1>3. Goal
  <2> HIDE DEF Goal
  <2>1. n \in {1, 18} \/ n \in {2, 7, 15} \/ n = 3 \/ n \in {4, 10, 12}
          \/ n \in {5, 8, 11, 13, 16, 19} \/ n \in {6, 9, 14, 17}
    OBVIOUS
  <2> QED BY <2>1, <1>a, <1>p, <1>h, <1>d, <1>s, <1>u
<1>4. radio'.tx \in Tx /\ "tx" \in DOMAIN radio' /\ Consistent(radio'.tx)
  BY <1>1, <1>3, RadioTold
<1>5. TypeOK' /\ Consistent(radio.tx)'
  BY <1>0, <1>3, <1>4 DEF HpsdrInv, TypeOK, Consistent
(* The loop thread is at rest when a phase ends.                            *)
<1>6. InPhase'
  BY <1>0, <1>2, <1>3 DEF HpsdrInv, InPhase
<1>7. Building'
  BY <1>0 DEF HpsdrInv, Building, Consistent
<1> QED BY <1>3, <1>5, <1>6, <1>7 DEF HpsdrInv

LEMMA OthersStep ==
  ASSUME HpsdrInv,
         \/ Main \/ OpenSocket \/ ReceiveAnswer \/ ReceiveStatus \/ Configure \/ High
         \/ \E arrives \in BOOLEAN : \/ Discover(arrives) \/ SendGeneral(arrives)
                                   \/ SendDdc(arrives) \/ SendDuc(arrives)
         \/ RadioReports \/ RadioRestarts \/ UNCHANGED vars
  PROVE  HpsdrInv'
<1>0. /\ radio.tx \in Tx /\ "tx" \in DOMAIN radio /\ Consistent(radio.tx)
      /\ hz \in [Units -> {0, 1, 2}]
  BY DEF HpsdrInv, TypeOK
<1> USE DEF loop, program, sending
<1>1. ASSUME Main \/ RadioReports \/ UNCHANGED vars PROVE HpsdrInv'
  <2>1. UNCHANGED <<pc, high, tx, at, radio>> /\ hz' \in [Units -> {0, 1, 2}]
    BY <1>0, <1>1 DEF Main, Allocate, SetFreq, Retune, RadioReports, vars
  <2> QED BY <1>0, <2>1, Elsewhere
<1>2. ASSUME \/ OpenSocket \/ ReceiveAnswer \/ ReceiveStatus \/ Configure \/ High
             \/ \E arrives \in BOOLEAN : Discover(arrives)
      PROVE  HpsdrInv'
  <2>1. /\ UNCHANGED <<high, tx, at, radio, hz>>
        /\ pc' = pc \/ pc' \in {"loop", "general", "ptt"}
    BY <1>2 DEF OpenSocket, ReceiveAnswer, ReceiveStatus, Configure, High, Discover
  <2> QED BY <1>0, <2>1, Elsewhere
<1>3. ASSUME NEW arrives \in BOOLEAN,
             SendGeneral(arrives) \/ SendDdc(arrives) \/ SendDuc(arrives)
      PROVE  HpsdrInv'
  <2>1. /\ UNCHANGED <<high, tx, at, hz>> /\ pc' \in {"loop", "ddc", "duc", "ptt"}
        /\ radio'.tx = radio.tx /\ "tx" \in DOMAIN radio'
    BY <1>0, <1>3 DEF SendGeneral, SendDdc, SendDuc
  <2> QED BY <1>0, <2>1, Elsewhere
<1>4. CASE RadioRestarts
  <2>1. UNCHANGED <<pc, high, tx, at, hz>> /\ radio'.tx = Off /\ "tx" \in DOMAIN radio'
    BY <1>4 DEF RadioRestarts, Fresh
  <2> QED BY <1>0, <2>1, ZerosSafe, Elsewhere
<1> QED BY <1>1, <1>2, <1>3, <1>4

(* The inductive invariant: what tx_iq() has stored, in which phase of it   *)
(* the loop thread is building a packet, and what it has read so far.       *)
THEOREM HpsdrInvariant == Spec => []HpsdrInv
<1>1. HpsdrInv /\ [Next]_vars => HpsdrInv'
  <2> SUFFICES ASSUME HpsdrInv, [Next]_vars PROVE HpsdrInv'
    OBVIOUS
  <2> QED BY BuildStep, SendHighStep, TransmitStep, OthersStep DEF Next, Packets
<1> QED BY HpsdrInit, <1>1, PTL DEF Spec

(* The radio is keyed only on the frequency of the transmission and with    *)
(* its relays set for it, and has power only when it is keyed, although the *)
(* loop thread reads tx_ptt_, tx_hz_, tx_drive_ and tx_active_ without a    *)
(* lock while tx_iq() changes them, and packets get lost.                   *)
THEOREM HpsdrKeyedInPlace == Spec => []KeyedInPlace
<1>1. HpsdrInv => KeyedInPlace
  BY DEF HpsdrInv, Consistent, KeyedInPlace
<1> QED BY HpsdrInvariant, <1>1, PTL
===============================================================================
