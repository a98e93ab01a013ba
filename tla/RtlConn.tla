-------------------------------- MODULE RtlConn --------------------------------
(***************************************************************************)
(* The connection of RTLTCPSoundIn (rtltcp.cc) to rtl_tcp.  start()        *)
(* connects and configures the receiver; from then on a thread reads I/Q   *)
(* samples, and connects and configures again when the connection is lost. *)
(* set_freq() and the destructor run in another thread and share fd_, hz_  *)
(* and stop_ with it, without a lock.  The samples are in SampleRing.      *)
(*                                                                         *)
(* No other descriptor is opened meanwhile, so that socket() gives the     *)
(* number that was closed last: fd_ is that number or -1.                  *)
(***************************************************************************)
EXTENDS Naturals, Sequences

CONSTANTS
  Hosts,       (* what runs it: "ft8mon", which never retunes nor destroys  *)
               (* it, or "python", which ignores SIGPIPE                    *)
  Hf, Vhf,     (* dial frequencies below and above 24 MHz                   *)
  MaxRetunes,  (* bound: calls of set_freq()                                *)
  MaxFaults    (* bound: connections that get lost, refused or misgreeted   *)

ASSUME RtlAssumption ==
  /\ Hosts \subseteq {"ft8mon", "python"} /\ Hf \cap Vhf = {}
  /\ MaxRetunes \in Nat /\ MaxFaults \in Nat

VARIABLES
  host,
  hz,        (* hz_                                                         *)
  fd,        (* fd_ >= 0                                                    *)
  stop,      (* stop_                                                       *)
  socket,    (* what fd_ names: "closed", "new", "up", or "broken" when the *)
             (* peer is gone                                                *)
  wire,      (* commands on their way to rtl_tcp                            *)
  device,    (* the receiver: sampling mode and frequency                   *)
  rpc, rtuned, (* connect_and_configure() and the reader; its "tuned"       *)
  mpc, mtuned, (* the thread that owns the object; set_freq()'s "tuned"     *)
  mixed,     (* history: set_freq() began while the reader was sending      *)
             (* commands for an older frequency                             *)
  killed,    (* history: SIGPIPE has ended the program                      *)
  retunes, faults

shared == <<hz, fd, stop, socket, wire>>
counts == <<retunes, faults>>
vars   == <<host, shared, device, rpc, rtuned, mpc, mtuned, mixed, killed, counts>>

Frequencies == Hf \cup Vhf
Direct(f)   == IF f \in Hf THEN "q_branch" ELSE "off"

Init ==
  /\ host \in Hosts /\ hz \in Frequencies
  /\ fd = FALSE /\ stop = FALSE /\ socket = "closed" /\ wire = <<>>
  /\ device = [direct |-> "off", hz |-> 0]
  /\ rpc = "socket" /\ rtuned = 0 /\ mpc = "start" /\ mtuned = 0
  /\ mixed = FALSE /\ killed = FALSE /\ retunes = 0 /\ faults = 0

(* send_cmd(): what is written to a socket without a peer is lost, and      *)
(* raises SIGPIPE unless the peer's reset is still on its way.              *)
Send(cmd) ==
  \/ /\ fd /\ socket = "up" /\ wire' = Append(wire, cmd) /\ UNCHANGED killed
  \/ /\ ~(fd /\ socket = "up") /\ UNCHANGED wire
     /\ killed' \in {killed, killed \/ (fd /\ socket \in {"new", "broken"} /\ host = "ft8mon")}
-------------------------------------------------------------------------------
(* The reader thread; in start() the first connection is made by the main   *)
(* thread.                                                                  *)

ReaderRests == UNCHANGED <<host, hz, stop, device, mtuned, retunes>>

OpenSocket ==
  /\ rpc = "socket" /\ rpc' = "connect"
  /\ fd' = TRUE /\ socket' = "new"
  /\ UNCHANGED <<wire, rtuned, mpc, mixed, killed, faults>> /\ ReaderRests

(* connect() on a socket that the destructor has closed fails.              *)
Connected ==
  /\ rpc = "connect" /\ socket = "new"
  /\ socket' = "up" /\ wire' = <<>> /\ rpc' = "greeting"
  /\ UNCHANGED <<fd, rtuned, mpc, mixed, killed, faults>> /\ ReaderRests

(* Mutant: the reader ends, too.                                            *)
GiveUpForGood ==
  /\ socket' = IF fd THEN "closed" ELSE socket
  /\ fd' = FALSE /\ wire' = <<>> /\ rpc' = "ended"
  /\ mpc' = IF mpc = "start" THEN "ended" ELSE mpc
  /\ UNCHANGED <<rtuned, mixed, killed>> /\ ReaderRests

(* start() exits when it fails; the reader waits two seconds.  That         *)
(* getaddrinfo() or socket() fails (rtltcp.cc:217-228) has the same effect  *)
(* as a refused connection, and is counted as one.                          *)
GiveUp ==
  /\ socket' = IF fd THEN "closed" ELSE socket
  /\ fd' = FALSE /\ wire' = <<>>
  /\ rpc' = IF mpc = "start" THEN "ended" ELSE "again"
  /\ mpc' = IF mpc = "start" THEN "ended" ELSE mpc
  /\ UNCHANGED <<rtuned, mixed, killed>> /\ ReaderRests

Refused ==
  /\ rpc = "connect" /\ socket = "new" /\ faults < MaxFaults
  /\ faults' = faults + 1 /\ GiveUp

Misgreeted ==
  /\ rpc = "greeting" /\ socket = "up" /\ faults < MaxFaults
  /\ faults' = faults + 1 /\ GiveUp

(* The socket has been closed, or the peer is gone.                         *)
NoConnection ==
  /\ \/ rpc = "connect" /\ socket # "new"
     \/ rpc = "greeting" /\ socket # "up"
  /\ UNCHANGED faults /\ GiveUp

Greeted ==
  /\ rpc = "greeting" /\ socket = "up"
  /\ rpc' = "tuned"
  /\ UNCHANGED <<fd, socket, wire, rtuned, mpc, mixed, killed, faults>> /\ ReaderRests

(* Mutant: keeps the frequency of the first connection.                     *)
ReadHzOnce ==
  /\ rpc = "tuned" /\ rpc' = "direct"
  /\ rtuned' = (IF rtuned = 0 THEN hz ELSE rtuned) /\ mixed' = FALSE
  /\ UNCHANGED <<fd, socket, wire, mpc, killed, faults>> /\ ReaderRests

ReadHz ==
  /\ rpc = "tuned" /\ rpc' = "direct"
  /\ rtuned' = hz /\ mixed' = FALSE
  /\ UNCHANGED <<fd, socket, wire, mpc, killed, faults>> /\ ReaderRests

SendDirect ==
  /\ rpc = "direct" /\ rpc' = "rest"
  /\ Send(<<"direct", Direct(rtuned)>>)
  /\ UNCHANGED <<fd, socket, rtuned, mpc, mixed, faults>> /\ ReaderRests

(* Sample rate, frequency correction and gain: commands of no interest here.*)
SendRest ==
  /\ rpc = "rest" /\ rpc' = "hz"
  /\ Send(<<"rest">>)
  /\ UNCHANGED <<fd, socket, rtuned, mpc, mixed, faults>> /\ ReaderRests

SendHz ==
  /\ rpc = "hz" /\ rpc' = IF mpc = "start" \/ ~stop THEN "read" ELSE "ended"
  /\ mpc' = IF mpc = "start" THEN "idle" ELSE mpc
  /\ Send(<<"hz", rtuned>>)
  /\ UNCHANGED <<fd, socket, rtuned, mixed, faults>> /\ ReaderRests

(* read() returns nothing, or an error.                                     *)
ReadFails ==
  /\ rpc = "read" /\ socket # "up"
  /\ rpc' = IF stop THEN "ended" ELSE "lost"
  /\ UNCHANGED <<fd, socket, wire, rtuned, mpc, mixed, killed, faults>> /\ ReaderRests

CloseLost ==
  /\ rpc = "lost" /\ rpc' = "again"
  /\ socket' = IF fd THEN "closed" ELSE socket
  /\ fd' = FALSE /\ wire' = <<>>
  /\ UNCHANGED <<rtuned, mpc, mixed, killed, faults>> /\ ReaderRests

TryAgain ==
  /\ rpc = "again" /\ rpc' = IF stop THEN "ended" ELSE "socket"
  /\ UNCHANGED <<fd, socket, wire, rtuned, mpc, mixed, killed, faults>> /\ ReaderRests
-------------------------------------------------------------------------------
(* rtl_tcp and the network.                                                 *)

NetworkRests == UNCHANGED <<host, hz, fd, stop, rpc, rtuned, mpc, mtuned, mixed, killed, retunes>>

DeviceTakes ==
  /\ wire # <<>> /\ wire' = Tail(wire)
  /\ device' = CASE Head(wire)[1] = "direct" -> [device EXCEPT !.direct = Head(wire)[2]]
                 [] Head(wire)[1] = "hz" -> [device EXCEPT !.hz = Head(wire)[2]]
                 [] OTHER -> device
  /\ UNCHANGED <<socket, faults>> /\ NetworkRests

PeerGoes ==
  /\ socket = "up" /\ faults < MaxFaults
  /\ socket' = "broken" /\ wire' = <<>> /\ faults' = faults + 1
  /\ UNCHANGED device /\ NetworkRests
-------------------------------------------------------------------------------
(* set_freq().                                                              *)

Configuring == {"direct", "rest", "hz"}

OwnerRests == UNCHANGED <<host, socket, device, rpc, rtuned, faults>>

SetHz ==
  /\ host = "python" /\ mpc = "idle" /\ retunes < MaxRetunes
  /\ retunes' = retunes + 1
  /\ \E f \in Frequencies \ {hz} : hz' = f
  /\ mpc' = "test_fd" /\ mixed' = (rpc \in Configuring)
  /\ UNCHANGED <<fd, stop, wire, mtuned, killed>> /\ OwnerRests

TestFd ==
  /\ mpc = "test_fd"
  /\ mpc' = IF fd THEN "direct" ELSE "idle"
  /\ mtuned' = hz
  /\ UNCHANGED <<hz, fd, stop, wire, mixed, killed, retunes>> /\ OwnerRests

RetuneDirect ==
  /\ mpc = "direct" /\ mpc' = "hz"
  /\ Send(<<"direct", Direct(mtuned)>>)
  /\ UNCHANGED <<hz, fd, stop, mtuned, mixed, retunes>> /\ OwnerRests

RetuneHz ==
  /\ mpc = "hz" /\ mpc' = "idle"
  /\ Send(<<"hz", mtuned>>)
  /\ UNCHANGED <<hz, fd, stop, mtuned, mixed, retunes>> /\ OwnerRests
-------------------------------------------------------------------------------
(* The destructor.                                                          *)

DestructorRests == UNCHANGED <<host, hz, device, rpc, rtuned, mtuned, mixed, killed, counts>>

SetStop ==
  /\ host = "python" /\ mpc = "idle" /\ mpc' = "stopping"
  /\ stop' = TRUE
  /\ UNCHANGED <<fd, socket, wire>> /\ DestructorRests

(* Mutant: trusts stop_ to end the reader.                                  *)
CloseNothing ==
  /\ mpc = "stopping" /\ fd /\ mpc' = "clear"
  /\ UNCHANGED <<fd, stop, socket, wire>> /\ DestructorRests

(* shutdown() ends a read() or a connect() of the reader.                   *)
CloseFd ==
  /\ mpc = "stopping" /\ fd /\ mpc' = "clear"
  /\ socket' = "closed" /\ wire' = <<>>
  /\ UNCHANGED <<fd, stop>> /\ DestructorRests

ClearFd ==
  /\ \/ mpc = "clear" /\ fd' = FALSE
     \/ mpc = "stopping" /\ ~fd /\ UNCHANGED fd
  /\ mpc' = "join"
  /\ UNCHANGED <<stop, socket, wire>> /\ DestructorRests

Join ==
  /\ mpc = "join" /\ rpc = "ended" /\ mpc' = "ended"
  /\ UNCHANGED <<fd, stop, socket, wire>> /\ DestructorRests
-------------------------------------------------------------------------------
Reader ==
  \/ OpenSocket \/ Connected \/ Refused \/ Misgreeted \/ NoConnection \/ Greeted
  \/ ReadHz \/ SendDirect \/ SendRest \/ SendHz \/ ReadFails \/ CloseLost \/ TryAgain

Network == DeviceTakes \/ PeerGoes
SetFreq == TestFd \/ RetuneDirect \/ RetuneHz
Destructor == CloseFd \/ ClearFd \/ Join

(* Samples come in, or the program has ended.                               *)
Rest ==
  /\ killed \/ rpc = "ended" \/ (rpc = "read" /\ socket = "up")
  /\ UNCHANGED vars

Next ==
  \/ ~killed /\ (Reader \/ SetHz \/ SetFreq \/ SetStop \/ Destructor)
  \/ Network
  \/ Rest

(* The threads run, and rtl_tcp answers a connection or drops it.           *)
Fairness ==
  /\ WF_vars(~killed /\ Reader) /\ WF_vars(DeviceTakes)
  /\ WF_vars(~killed /\ SetFreq) /\ WF_vars(~killed /\ Destructor)

Spec == Init /\ [][Next]_vars /\ Fairness
-------------------------------------------------------------------------------
Quiet == mpc = "idle" /\ rpc = "read" /\ fd /\ socket = "up" /\ wire = <<>>

(* With both threads at rest and a connection, the receiver is tuned to     *)
(* hz_, and samples as that frequency needs it, whatever was lost and       *)
(* however set_freq() met a reconnection, as long as it did not begin       *)
(* between the reader's reading hz_ and its last command: set_freq() stores *)
(* hz_ before it looks for a connection, and the reader reads hz_ after it  *)
(* has one.                                                                 *)
TunedAsAsked ==
  (Quiet /\ ~mixed) => device = [direct |-> Direct(hz), hz |-> hz]

(* A lost connection is replaced, unless the object goes away.              *)
Reconnects == rpc = "lost" ~> (rpc = "read" \/ stop \/ killed)

(* The destructor gets the reader out of read(), connect() and sleep().     *)
DestructorEnds == mpc = "stopping" ~> mpc = "ended"
===============================================================================
