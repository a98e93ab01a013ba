----------------------------- MODULE RtlConnProofs -----------------------------
(***************************************************************************)
(* The tuning of the RTL-SDR, for all frequencies and any number of        *)
(* set_freq() calls and lost connections.  What counts is the command of   *)
(* each kind that reaches the receiver last.  As long as the destructor    *)
(* has not begun, the reader between reading hz_ and its last command      *)
(* configures for hz_, unless set_freq() came in between, and set_freq()   *)
(* tunes to hz_ if there is a connection; it follows step by step which    *)
(* of the last commands must be right.                                     *)
(***************************************************************************)
EXTENDS RtlConn, TLAPS

Modes    == {"off", "q_branch"}
Values   == Frequencies \cup {0}
Commands == ({"direct"} \X Modes) \cup ({"hz"} \X Values) \cup {<<"rest">>}

TypeOK ==
  /\ host \in Hosts /\ hz \in Frequencies /\ fd \in BOOLEAN /\ stop \in BOOLEAN
  /\ socket \in {"closed", "new", "up", "broken"}
  /\ wire \in Seq(Commands) /\ device \in [direct : Modes, hz : Values]
  /\ rpc \in {"socket", "connect", "greeting", "tuned", "direct", "rest", "hz", "read",
              "lost", "again", "ended"}
  /\ rtuned \in Values /\ mtuned \in Values
  /\ mpc \in {"start", "idle", "test_fd", "direct", "hz", "stopping", "clear", "join", "ended"}
  /\ mixed \in BOOLEAN

(* fd_ and its socket, while the destructor has not begun.                  *)
Descriptor ==
  /\ mpc \in {"stopping", "clear", "join"} => stop
  /\ stop => mpc \in {"stopping", "clear", "join", "ended"}
  /\ rpc = "read" => mpc # "start"
  /\ ~stop =>
       /\ fd <=> socket # "closed"
       /\ rpc \notin {"socket", "again", "ended"} => fd

(* The last command of a kind, on the wire or already obeyed, has value x.  *)
Will(k, x) ==
  \/ \E i \in DOMAIN wire :
       wire[i] = <<k, x>> /\ \A j \in DOMAIN wire : j > i => wire[j][1] # k
  \/ device[k] = x /\ \A j \in DOMAIN wire : wire[j][1] # k

(* Both threads send what hz_ asks for; "mixed" is where they do not.       *)
Aim ==
  /\ mpc \in {"direct", "hz"} => mtuned = hz
  /\ rpc \in Configuring /\ ~mixed => rtuned = hz

(* After the sampling mode, and after the frequency, has been sent.         *)
DirectDue ==
  /\ ~stop /\ ~mixed /\ socket = "up" /\ rpc \in {"rest", "hz", "read"}
  /\ ~(rpc = "read" /\ mpc \in {"test_fd", "direct"})
HzDue ==
  /\ ~stop /\ ~mixed /\ socket = "up" /\ rpc = "read"
  /\ mpc \notin {"test_fd", "direct", "hz"}

Tuned ==
  /\ DirectDue => Will("direct", Direct(hz))
  /\ HzDue => Will("hz", hz)

RtlInv == TypeOK /\ Descriptor /\ Aim /\ Tuned
-------------------------------------------------------------------------------
(* The steps of the program, action by action.                              *)
LEMMA RtlSteps ==
  [Next]_vars =>
    \/ OpenSocket \/ Connected \/ Refused \/ Misgreeted \/ NoConnection \/ Greeted \/ ReadHz
    \/ SendDirect \/ SendRest \/ SendHz \/ ReadFails \/ CloseLost \/ TryAgain
    \/ DeviceTakes \/ PeerGoes \/ SetHz \/ TestFd \/ RetuneDirect \/ RetuneHz \/ SetStop
    \/ CloseFd \/ ClearFd \/ Join \/ UNCHANGED vars
BY DEF Next, Reader, Network, SetFreq, Destructor, Rest

LEMMA RtlInit == Init => RtlInv
<1> SUFFICES ASSUME Init PROVE RtlInv
  OBVIOUS
<1> USE RtlAssumption DEF Init
<1>1. TypeOK
  <2>1. wire \in Seq(Commands)
    OBVIOUS
  <2>2. device \in [direct : Modes, hz : Values] /\ {rtuned, mtuned} \subseteq Values
    BY DEF Modes, Values
  <2> QED BY <2>1, <2>2 DEF TypeOK
<1>2. Descriptor /\ Aim /\ Tuned
  BY DEF Descriptor, Aim, Tuned, DirectDue, HzDue, Configuring
<1> QED BY <1>1, <1>2 DEF RtlInv

(* The commands of the program are commands.                                *)
LEMMA SentTyped ==
  ASSUME wire \in Seq(Commands), NEW c \in Commands, Send(c)
  PROVE  wire' \in Seq(Commands)
BY DEF Send

LEMMA CommandTypes ==
  /\ \A f : <<"direct", Direct(f)>> \in Commands
  /\ \A x \in Values : <<"hz", x>> \in Commands
  /\ <<"rest">> \in Commands
BY DEF Commands, Direct, Modes

LEMMA RtlTypes ==
  ASSUME RtlInv, [Next]_vars
  PROVE  TypeOK'
<1> USE RtlAssumption DEF TypeOK, ReaderRests, NetworkRests, OwnerRests, DestructorRests,
     shared, counts
<1>0. TypeOK /\ Descriptor /\ Aim
  BY DEF RtlInv
<1>1. CASE OpenSocket
  BY <1>0, <1>1 DEF OpenSocket
<1>2. CASE Connected
  BY <1>0, <1>2 DEF Connected
<1>3. CASE Refused
  <2>1. socket' \in {"closed", "new", "up", "broken"} /\ fd' \in BOOLEAN
    <3>1. (socket' = "closed" \/ socket' = socket) /\ fd' = FALSE
      BY <1>3 DEF Refused, GiveUp
    <3> QED BY <1>0, <3>1
  <2>2. wire' = <<>> /\ wire' \in Seq(Commands)
    BY <1>3 DEF Refused, GiveUp
  <2> QED BY <1>0, <1>3, <2>1, <2>2 DEF Refused, GiveUp
<1>4. CASE Misgreeted
  <2>1. socket' \in {"closed", "new", "up", "broken"} /\ fd' \in BOOLEAN
    <3>1. (socket' = "closed" \/ socket' = socket) /\ fd' = FALSE
      BY <1>4 DEF Misgreeted, GiveUp
    <3> QED BY <1>0, <3>1
  <2>2. wire' = <<>> /\ wire' \in Seq(Commands)
    BY <1>4 DEF Misgreeted, GiveUp
  <2> QED BY <1>0, <1>4, <2>1, <2>2 DEF Misgreeted, GiveUp
<1>5. CASE NoConnection
  <2>1. socket' \in {"closed", "new", "up", "broken"} /\ fd' \in BOOLEAN
    <3>1. (socket' = "closed" \/ socket' = socket) /\ fd' = FALSE
      BY <1>5 DEF NoConnection, GiveUp
    <3> QED BY <1>0, <3>1
  <2>2. wire' = <<>> /\ wire' \in Seq(Commands)
    BY <1>5 DEF NoConnection, GiveUp
  <2> QED BY <1>0, <1>5, <2>1, <2>2 DEF NoConnection, GiveUp
<1>6. CASE Greeted
  BY <1>0, <1>6 DEF Greeted
<1>7. CASE ReadHz
  BY <1>0, <1>7 DEF ReadHz, Values
<1>8. CASE SendDirect
  <2>1. wire' \in Seq(Commands)
    BY <1>0, <1>8, SentTyped, CommandTypes DEF SendDirect
  <2> QED BY <1>0, <1>8, <2>1 DEF SendDirect
<1>9. CASE SendRest
  <2>1. wire' \in Seq(Commands)
    BY <1>0, <1>9, SentTyped, CommandTypes DEF SendRest
  <2> QED BY <1>0, <1>9, <2>1 DEF SendRest
<1>10. CASE SendHz
  <2>1. wire' \in Seq(Commands)
    BY <1>0, <1>10, SentTyped, CommandTypes DEF SendHz
  <2> QED BY <1>0, <1>10, <2>1 DEF SendHz
<1>11. CASE ReadFails
  BY <1>0, <1>11 DEF ReadFails
<1>12. CASE CloseLost
  <2>1. socket' \in {"closed", "new", "up", "broken"} /\ fd' \in BOOLEAN
    <3>1. (socket' = "closed" \/ socket' = socket) /\ fd' = FALSE
      BY <1>12 DEF CloseLost
    <3> QED BY <1>0, <3>1
  <2>2. wire' = <<>> /\ wire' \in Seq(Commands)
    BY <1>12 DEF CloseLost
  <2> QED BY <1>0, <1>12, <2>1, <2>2 DEF CloseLost
<1>13. CASE TryAgain
  BY <1>0, <1>13 DEF TryAgain
<1>14. CASE DeviceTakes
  <2>1. Head(wire) \in Commands /\ Tail(wire) \in Seq(Commands)
    BY <1>0, <1>14 DEF DeviceTakes
  <2>2. /\ Head(wire)[1] = "direct" => Head(wire)[2] \in Modes
        /\ Head(wire)[1] = "hz" => Head(wire)[2] \in Values
    BY <2>1 DEF Commands
  <2> QED BY <1>0, <1>14, <2>1, <2>2 DEF DeviceTakes
<1>15. CASE PeerGoes
  BY <1>0, <1>15 DEF PeerGoes
<1>16. CASE SetHz
  BY <1>0, <1>16 DEF SetHz
<1>17. CASE TestFd
  <2>1. mpc' \in {"direct", "idle"} /\ mtuned' = hz /\ hz \in Values
    BY <1>0, <1>17 DEF TestFd, Values
  <2> QED BY <1>0, <1>17, <2>1 DEF TestFd
<1>18. CASE RetuneDirect
  <2>1. wire' \in Seq(Commands)
    BY <1>0, <1>18, SentTyped, CommandTypes DEF RetuneDirect
  <2> QED BY <1>0, <1>18, <2>1 DEF RetuneDirect
<1>19. CASE RetuneHz
  <2>1. wire' \in Seq(Commands)
    BY <1>0, <1>19, SentTyped, CommandTypes DEF RetuneHz
  <2> QED BY <1>0, <1>19, <2>1 DEF RetuneHz
<1>20. CASE SetStop
  BY <1>0, <1>20 DEF SetStop
<1>21. CASE CloseFd
  BY <1>0, <1>21 DEF CloseFd
<1>22. CASE ClearFd
  BY <1>0, <1>22 DEF ClearFd
<1>23. CASE Join
  BY <1>0, <1>23 DEF Join
<1>24. CASE UNCHANGED vars
  BY <1>0, <1>24 DEF vars
<1> QED BY RtlSteps, <1>1, <1>2, <1>3, <1>4, <1>5, <1>6, <1>7, <1>8, <1>9,
        <1>10, <1>11, <1>12, <1>13, <1>14, <1>15, <1>16, <1>17, <1>18, <1>19, <1>20,
        <1>21, <1>22, <1>23, <1>24

LEMMA RtlDescriptor ==
  ASSUME RtlInv, [Next]_vars
  PROVE  Descriptor'
<1> USE RtlAssumption DEF TypeOK, Descriptor, ReaderRests, NetworkRests, OwnerRests,
     DestructorRests, shared, counts
<1>0. TypeOK /\ Descriptor /\ Aim
  BY DEF RtlInv
<1>1. CASE OpenSocket
  BY <1>0, <1>1 DEF OpenSocket
<1>2. CASE Connected
  BY <1>0, <1>2 DEF Connected
<1>3. CASE Refused
  BY <1>0, <1>3 DEF Refused, GiveUp
<1>4. CASE Misgreeted
  BY <1>0, <1>4 DEF Misgreeted, GiveUp
<1>5. CASE NoConnection
  BY <1>0, <1>5 DEF NoConnection, GiveUp
<1>6. CASE Greeted
  BY <1>0, <1>6 DEF Greeted
<1>7. CASE ReadHz
  BY <1>0, <1>7 DEF ReadHz
<1>8. CASE SendDirect
  BY <1>0, <1>8 DEF SendDirect, Send
<1>9. CASE SendRest
  BY <1>0, <1>9 DEF SendRest, Send
<1>10. CASE SendHz
  BY <1>0, <1>10 DEF SendHz, Send
<1>11. CASE ReadFails
  BY <1>0, <1>11 DEF ReadFails
<1>12. CASE CloseLost
  BY <1>0, <1>12 DEF CloseLost
<1>13. CASE TryAgain
  BY <1>0, <1>13 DEF TryAgain
<1>14. CASE DeviceTakes
  BY <1>0, <1>14 DEF DeviceTakes
<1>15. CASE PeerGoes
  BY <1>0, <1>15 DEF PeerGoes
<1>16. CASE SetHz
  BY <1>0, <1>16 DEF SetHz
<1>17. CASE TestFd
  BY <1>0, <1>17 DEF TestFd
<1>18. CASE RetuneDirect
  BY <1>0, <1>18 DEF RetuneDirect, Send
<1>19. CASE RetuneHz
  BY <1>0, <1>19 DEF RetuneHz, Send
<1>20. CASE SetStop
  BY <1>0, <1>20 DEF SetStop
<1>21. CASE CloseFd
  BY <1>0, <1>21 DEF CloseFd
<1>22. CASE ClearFd
  BY <1>0, <1>22 DEF ClearFd
<1>23. CASE Join
  BY <1>0, <1>23 DEF Join
<1>24. CASE UNCHANGED vars
  BY <1>0, <1>24 DEF vars
<1> QED BY RtlSteps, <1>1, <1>2, <1>3, <1>4, <1>5, <1>6, <1>7, <1>8, <1>9,
        <1>10, <1>11, <1>12, <1>13, <1>14, <1>15, <1>16, <1>17, <1>18, <1>19, <1>20,
        <1>21, <1>22, <1>23, <1>24

LEMMA RtlAim ==
  ASSUME RtlInv, [Next]_vars
  PROVE  Aim'
<1> USE RtlAssumption DEF TypeOK, Descriptor, Aim, Configuring, ReaderRests, NetworkRests,
     OwnerRests, DestructorRests, shared, counts
<1>0. TypeOK /\ Descriptor /\ Aim
  BY DEF RtlInv
<1>1. CASE OpenSocket
  BY <1>0, <1>1 DEF OpenSocket
<1>2. CASE Connected
  BY <1>0, <1>2 DEF Connected
<1>3. CASE Refused
  BY <1>0, <1>3 DEF Refused, GiveUp
<1>4. CASE Misgreeted
  BY <1>0, <1>4 DEF Misgreeted, GiveUp
<1>5. CASE NoConnection
  BY <1>0, <1>5 DEF NoConnection, GiveUp
<1>6. CASE Greeted
  BY <1>0, <1>6 DEF Greeted
<1>7. CASE ReadHz
  BY <1>0, <1>7 DEF ReadHz
<1>8. CASE SendDirect
  BY <1>0, <1>8 DEF SendDirect, Send
<1>9. CASE SendRest
  BY <1>0, <1>9 DEF SendRest, Send
<1>10. CASE SendHz
  BY <1>0, <1>10 DEF SendHz, Send
<1>11. CASE ReadFails
  BY <1>0, <1>11 DEF ReadFails
<1>12. CASE CloseLost
  BY <1>0, <1>12 DEF CloseLost
<1>13. CASE TryAgain
  BY <1>0, <1>13 DEF TryAgain
<1>14. CASE DeviceTakes
  BY <1>0, <1>14 DEF DeviceTakes
<1>15. CASE PeerGoes
  BY <1>0, <1>15 DEF PeerGoes
<1>16. CASE SetHz
  BY <1>0, <1>16 DEF SetHz
<1>17. CASE TestFd
  BY <1>0, <1>17 DEF TestFd
<1>18. CASE RetuneDirect
  BY <1>0, <1>18 DEF RetuneDirect, Send
<1>19. CASE RetuneHz
  BY <1>0, <1>19 DEF RetuneHz, Send
<1>20. CASE SetStop
  BY <1>0, <1>20 DEF SetStop
<1>21. CASE CloseFd
  BY <1>0, <1>21 DEF CloseFd
<1>22. CASE ClearFd
  BY <1>0, <1>22 DEF ClearFd
<1>23. CASE Join
  BY <1>0, <1>23 DEF Join
<1>24. CASE UNCHANGED vars
  BY <1>0, <1>24 DEF vars
<1> QED BY RtlSteps, <1>1, <1>2, <1>3, <1>4, <1>5, <1>6, <1>7, <1>8, <1>9,
        <1>10, <1>11, <1>12, <1>13, <1>14, <1>15, <1>16, <1>17, <1>18, <1>19, <1>20,
        <1>21, <1>22, <1>23, <1>24
-------------------------------------------------------------------------------
(* What is sent comes last; a command of another kind changes nothing, nor  *)
(* does the receiver when it takes a command.                               *)
LEMMA WillSend ==
  ASSUME wire \in Seq(Commands), NEW c \in Commands, wire' = Append(wire, c),
         device' = device, NEW k, NEW x, c = <<k, x>> \/ (c[1] # k /\ Will(k, x))
  PROVE  Will(k, x)'
<1>1. PICK n \in Nat : n = Len(wire)
  OBVIOUS
<1>2. /\ DOMAIN wire = 1 .. n /\ DOMAIN wire' = 1 .. n + 1 /\ wire'[n + 1] = c
      /\ \A i \in 1 .. n : wire'[i] = wire[i]
  BY <1>1
<1>3. CASE c = <<k, x>>
  <2>1. n + 1 \in DOMAIN wire' /\ \A j \in DOMAIN wire' : ~(j > n + 1)
    BY <1>2
  <2> QED BY <1>2, <1>3, <2>1 DEF Will
<1>4. CASE c[1] # k /\ Will(k, x)
  <2>1. CASE device[k] = x /\ \A j \in DOMAIN wire : wire[j][1] # k
    <3>1. \A j \in DOMAIN wire' : j = n + 1 \/ (j \in DOMAIN wire /\ wire'[j] = wire[j])
      BY <1>2
    <3> QED BY <1>2, <1>4, <2>1, <3>1 DEF Will
  <2>2. CASE \E i \in DOMAIN wire :
               wire[i] = <<k, x>> /\ \A j \in DOMAIN wire : j > i => wire[j][1] # k
    <3>1. PICK i \in 1 .. n :
            wire[i] = <<k, x>> /\ \A j \in 1 .. n : j > i => wire[j][1] # k
      BY <1>2, <2>2
    <3>2. i \in DOMAIN wire' /\ wire'[i] = <<k, x>>
      BY <1>2, <3>1
    <3>3. ASSUME NEW j \in DOMAIN wire', j > i PROVE wire'[j][1] # k
      <4>1. j = n + 1 \/ j \in 1 .. n
        BY <1>2
      <4> QED BY <1>2, <1>4, <3>1, <3>3, <4>1
    <3> QED BY <3>2, <3>3 DEF Will
  <2> QED BY <1>4, <2>1, <2>2 DEF Will
<1> QED BY <1>3, <1>4

LEMMA WillTake ==
  ASSUME TypeOK, DeviceTakes, NEW k \in {"direct", "hz"}, NEW x, Will(k, x)
  PROVE  Will(k, x)'
<1>1. PICK n \in Nat : n + 1 = Len(wire)
  <2>1. wire \in Seq(Commands) /\ wire # <<>>
    BY DEF TypeOK, DeviceTakes
  <2>2. Len(wire) \in Nat /\ Len(wire) # 0
    BY <2>1
  <2>3. Len(wire) - 1 \in Nat /\ (Len(wire) - 1) + 1 = Len(wire)
    BY <2>2
  <2> QED BY <2>3
<1>2. /\ DOMAIN wire = 1 .. n + 1 /\ DOMAIN wire' = 1 .. n /\ Head(wire) = wire[1]
      /\ \A i \in 1 .. n : wire'[i] = wire[i + 1]
  BY <1>1 DEF TypeOK, DeviceTakes
<1>3. CASE device[k] = x /\ \A j \in DOMAIN wire : wire[j][1] # k
  <2>1. device'[k] = x
    BY <1>2, <1>3 DEF TypeOK, DeviceTakes
  <2>2. \A j \in 1 .. n : wire'[j][1] # k
    BY <1>2, <1>3
  <2> QED BY <1>2, <2>1, <2>2 DEF Will
<1>4. CASE \E i \in DOMAIN wire :
             wire[i] = <<k, x>> /\ \A j \in DOMAIN wire : j > i => wire[j][1] # k
  <2>1. PICK i \in 1 .. n + 1 :
          wire[i] = <<k, x>> /\ \A j \in 1 .. n + 1 : j > i => wire[j][1] # k
    BY <1>2, <1>4
  <2>2. CASE i = 1
    <3>1. device'[k] = x
      BY <1>2, <2>1, <2>2 DEF TypeOK, DeviceTakes
    <3>2. ASSUME NEW j \in 1 .. n PROVE wire'[j][1] # k
      BY <1>2, <2>1, <2>2
    <3> QED BY <1>2, <3>1, <3>2 DEF Will
  <2>3. CASE i # 1
    <3>1. PICK h \in 1 .. n : h + 1 = i
      BY <2>3
    <3>2. h \in DOMAIN wire' /\ wire'[h] = <<k, x>>
      BY <1>2, <2>1, <3>1
    <3>3. ASSUME NEW j \in DOMAIN wire', j > h PROVE wire'[j][1] # k
      BY <1>2, <2>1, <3>1, <3>3
    <3> QED BY <3>2, <3>3 DEF Will
  <2> QED BY <2>2, <2>3
<1> QED BY <1>3, <1>4 DEF Will

LEMMA RtlTuned ==
  ASSUME RtlInv, [Next]_vars
  PROVE  Tuned'
<1> USE DEF DirectDue, HzDue, Configuring, ReaderRests, NetworkRests, OwnerRests,
        DestructorRests, shared, counts
<1>0. TypeOK /\ Descriptor /\ Aim /\ Tuned
  BY DEF RtlInv
<1>a. ASSUME hz' = hz, NEW k, NEW x, Will(k, x), device' = device, wire' = wire
      PROVE  Will(k, x)'
  BY <1>a DEF Will
<1>1. CASE OpenSocket
  <2>1. ~DirectDue' /\ ~HzDue'
    BY <1>0, <1>1 DEF TypeOK, Descriptor, OpenSocket
  <2> QED BY <2>1 DEF Tuned
<1>2. CASE Connected
  <2>1. ~DirectDue' /\ ~HzDue'
    BY <1>0, <1>2 DEF TypeOK, Descriptor, Connected
  <2> QED BY <2>1 DEF Tuned
<1>3. CASE Refused
  <2>1. ~DirectDue' /\ ~HzDue'
    BY <1>0, <1>3 DEF TypeOK, Descriptor, Refused, GiveUp
  <2> QED BY <2>1 DEF Tuned
<1>4. CASE Misgreeted
  <2>1. ~DirectDue' /\ ~HzDue'
    BY <1>0, <1>4 DEF TypeOK, Descriptor, Misgreeted, GiveUp
  <2> QED BY <2>1 DEF Tuned
<1>5. CASE NoConnection
  <2>1. ~DirectDue' /\ ~HzDue'
    BY <1>0, <1>5 DEF TypeOK, Descriptor, NoConnection, GiveUp
  <2> QED BY <2>1 DEF Tuned
<1>6. CASE Greeted
  <2>1. ~DirectDue' /\ ~HzDue'
    BY <1>0, <1>6 DEF TypeOK, Descriptor, Greeted
  <2> QED BY <2>1 DEF Tuned
<1>7. CASE ReadHz
  <2>1. ~DirectDue' /\ ~HzDue'
    BY <1>0, <1>7 DEF TypeOK, Descriptor, ReadHz
  <2> QED BY <2>1 DEF Tuned
<1>8. CASE SendDirect
  <2>1. hz' = hz /\ device' = device /\ UNCHANGED <<socket, mixed, stop>>
    BY <1>8 DEF SendDirect
  <2>2. PICK x, y : x = Direct(hz) /\ x = Direct(hz') /\ y = hz /\ y = hz'
    BY <2>1
  <2>3. PICK c \in Commands : c = <<"direct", Direct(rtuned)>>
    BY <1>0, CommandTypes DEF TypeOK
  <2>4. ~stop /\ socket = "up" => wire' = Append(wire, c)
    BY <1>0, <1>8, <2>3 DEF SendDirect, Send, Descriptor
  <2>5. ~HzDue' /\ (DirectDue' => c = <<"direct", x>> /\ ~stop /\ socket = "up")
    BY <1>0, <1>8, <2>1, <2>2, <2>3 DEF SendDirect, Aim
  <2>6. DirectDue' => Will("direct", x)'
    BY <1>0, <2>1, <2>4, <2>5, WillSend DEF TypeOK
  <2> QED BY <2>2, <2>5, <2>6 DEF Tuned
<1>9. CASE SendRest
  <2>1. hz' = hz /\ device' = device /\ UNCHANGED <<socket, mixed, stop>>
    BY <1>9 DEF SendRest
  <2>2. PICK x, y : x = Direct(hz) /\ x = Direct(hz') /\ y = hz /\ y = hz'
    BY <2>1
  <2>3. PICK c \in Commands : c = <<"rest">>
    BY <1>0, CommandTypes DEF TypeOK
  <2>4. ~stop /\ socket = "up" => wire' = Append(wire, c)
    BY <1>0, <1>9, <2>3 DEF SendRest, Send, Descriptor
  <2>5. ~HzDue' /\ (DirectDue' => DirectDue /\ ~stop /\ socket = "up") /\ c[1] # "direct"
    BY <1>0, <1>9, <2>1, <2>2, <2>3 DEF SendRest
  <2>6. DirectDue' => Will("direct", x)'
    BY <1>0, <2>1, <2>2, <2>4, <2>5, WillSend DEF TypeOK, Tuned
  <2> QED BY <2>2, <2>5, <2>6 DEF Tuned
<1>10. CASE SendHz
  <2>1. hz' = hz /\ device' = device /\ UNCHANGED <<socket, mixed, stop>>
    BY <1>10 DEF SendHz
  <2>2. PICK x, y : x = Direct(hz) /\ x = Direct(hz') /\ y = hz /\ y = hz'
    BY <2>1
  <2>3. PICK c \in Commands : c = <<"hz", rtuned>>
    BY <1>0, CommandTypes DEF TypeOK
  <2>4. ~stop /\ socket = "up" => wire' = Append(wire, c)
    BY <1>0, <1>10, <2>3 DEF SendHz, Send, Descriptor
  <2>5. /\ DirectDue' => DirectDue /\ ~stop /\ socket = "up"
        /\ HzDue' => c = <<"hz", y>> /\ ~stop /\ socket = "up"
        /\ c[1] # "direct"
    BY <1>0, <1>10, <2>1, <2>2, <2>3 DEF SendHz, Aim
  <2>6. DirectDue' => Will("direct", x)'
    BY <1>0, <2>1, <2>2, <2>4, <2>5, WillSend DEF TypeOK, Tuned
  <2>7. HzDue' => Will("hz", y)'
    BY <1>0, <2>1, <2>4, <2>5, WillSend DEF TypeOK
  <2> QED BY <2>2, <2>6, <2>7 DEF Tuned
<1>11. CASE ReadFails
  <2>1. ~DirectDue' /\ ~HzDue'
    BY <1>0, <1>11 DEF TypeOK, Descriptor, ReadFails
  <2> QED BY <2>1 DEF Tuned
<1>12. CASE CloseLost
  <2>1. ~DirectDue' /\ ~HzDue'
    BY <1>0, <1>12 DEF TypeOK, Descriptor, CloseLost
  <2> QED BY <2>1 DEF Tuned
<1>13. CASE TryAgain
  <2>1. ~DirectDue' /\ ~HzDue'
    BY <1>0, <1>13 DEF TypeOK, Descriptor, TryAgain
  <2> QED BY <2>1 DEF Tuned
<1>14. CASE DeviceTakes
  <2>1. hz' = hz /\ (DirectDue' => DirectDue) /\ (HzDue' => HzDue)
    BY <1>14 DEF DeviceTakes
  <2>2. PICK x, y : x = Direct(hz) /\ x = Direct(hz') /\ y = hz
    BY <2>1
  <2>3. DirectDue' => Will("direct", x)'
    BY <1>0, <1>14, <2>1, <2>2, WillTake DEF Tuned
  <2>4. HzDue' => Will("hz", y)'
    BY <1>0, <1>14, <2>1, <2>2, WillTake DEF Tuned
  <2> QED BY <2>1, <2>2, <2>3, <2>4 DEF Tuned
<1>15. CASE PeerGoes
  <2>1. ~DirectDue' /\ ~HzDue'
    BY <1>0, <1>15 DEF TypeOK, Descriptor, PeerGoes
  <2> QED BY <2>1 DEF Tuned
<1>16. CASE SetHz
  <2>1. ~DirectDue' /\ ~HzDue'
    BY <1>0, <1>16 DEF TypeOK, Descriptor, SetHz
  <2> QED BY <2>1 DEF Tuned
<1>17. CASE TestFd
  <2>1. hz' = hz /\ device' = device /\ wire' = wire
    BY <1>17 DEF TestFd
  <2>2. (DirectDue' => DirectDue) /\ ~HzDue'
    BY <1>0, <1>17 DEF TypeOK, Descriptor, TestFd
  <2>3. PICK x : x = Direct(hz) /\ x = Direct(hz')
    BY <2>1
  <2> QED BY <1>0, <1>a, <2>1, <2>2, <2>3 DEF Tuned
<1>18. CASE RetuneDirect
  <2>1. hz' = hz /\ device' = device /\ UNCHANGED <<socket, mixed, stop>>
    BY <1>18 DEF RetuneDirect
  <2>2. PICK x, y : x = Direct(hz) /\ x = Direct(hz') /\ y = hz /\ y = hz'
    BY <2>1
  <2>3. PICK c \in Commands : c = <<"direct", Direct(mtuned)>>
    BY <1>0, CommandTypes DEF TypeOK
  <2>4. ~stop /\ socket = "up" => wire' = Append(wire, c)
    BY <1>0, <1>18, <2>3 DEF RetuneDirect, Send, Descriptor
  <2>5. ~HzDue' /\ (DirectDue' => c = <<"direct", x>> /\ ~stop /\ socket = "up")
    BY <1>0, <1>18, <2>1, <2>2, <2>3 DEF RetuneDirect, Aim
  <2>6. DirectDue' => Will("direct", x)'
    BY <1>0, <2>1, <2>4, <2>5, WillSend DEF TypeOK
  <2> QED BY <2>2, <2>5, <2>6 DEF Tuned
<1>19. CASE RetuneHz
  <2>1. hz' = hz /\ device' = device /\ UNCHANGED <<socket, mixed, stop>>
    BY <1>19 DEF RetuneHz
  <2>2. PICK x, y : x = Direct(hz) /\ x = Direct(hz') /\ y = hz /\ y = hz'
    BY <2>1
  <2>3. PICK c \in Commands : c = <<"hz", mtuned>>
    BY <1>0, CommandTypes DEF TypeOK
  <2>4. ~stop /\ socket = "up" => wire' = Append(wire, c)
    BY <1>0, <1>19, <2>3 DEF RetuneHz, Send, Descriptor
  <2>5. /\ DirectDue' => DirectDue /\ ~stop /\ socket = "up"
        /\ HzDue' => c = <<"hz", y>> /\ ~stop /\ socket = "up"
        /\ c[1] # "direct"
    BY <1>0, <1>19, <2>1, <2>2, <2>3 DEF RetuneHz, Aim
  <2>6. DirectDue' => Will("direct", x)'
    BY <1>0, <2>1, <2>2, <2>4, <2>5, WillSend DEF TypeOK, Tuned
  <2>7. HzDue' => Will("hz", y)'
    BY <1>0, <2>1, <2>4, <2>5, WillSend DEF TypeOK
  <2> QED BY <2>2, <2>6, <2>7 DEF Tuned
<1>20. CASE SetStop
  <2>1. ~DirectDue' /\ ~HzDue'
    BY <1>0, <1>20 DEF TypeOK, Descriptor, SetStop
  <2> QED BY <2>1 DEF Tuned
<1>21. CASE CloseFd
  <2>1. ~DirectDue' /\ ~HzDue'
    BY <1>0, <1>21 DEF TypeOK, Descriptor, CloseFd
  <2> QED BY <2>1 DEF Tuned
<1>22. CASE ClearFd
  <2>1. ~DirectDue' /\ ~HzDue'
    BY <1>0, <1>22 DEF TypeOK, Descriptor, ClearFd
  <2> QED BY <2>1 DEF Tuned
<1>23. CASE Join
  <2>1. ~DirectDue' /\ ~HzDue'
    BY <1>0, <1>23 DEF TypeOK, Descriptor, Join
  <2> QED BY <2>1 DEF Tuned
<1>24. CASE UNCHANGED vars
  BY <1>0, <1>24 DEF vars, Tuned, Will
<1> QED BY RtlSteps, <1>1, <1>2, <1>3, <1>4, <1>5, <1>6, <1>7, <1>8, <1>9,
        <1>10, <1>11, <1>12, <1>13, <1>14, <1>15, <1>16, <1>17, <1>18, <1>19, <1>20,
        <1>21, <1>22, <1>23, <1>24

(* The inductive invariant: whose turn it is to close or replace fd_, and   *)
(* which thread is going to send, or has sent, the command of each kind     *)
(* that counts (connect_and_configure(), set_freq(), the destructor).       *)
THEOREM RtlInvariant == Spec => []RtlInv
<1>1. RtlInv /\ [Next]_vars => RtlInv'
  BY RtlTypes, RtlDescriptor, RtlAim, RtlTuned DEF RtlInv
<1> QED BY RtlInit, <1>1, PTL DEF Spec

(* With both threads at rest and connected the receiver is tuned to hz_ and *)
(* samples as that frequency needs it, after any number of retunings and    *)
(* reconnections, if set_freq() did not begin between the reader's reading  *)
(* hz_ and its last command (RTLTCPSoundIn::set_freq() and                  *)
(* connect_and_configure() share hz_ and fd_ without a lock).               *)
THEOREM RtlTunedAsAsked == Spec => []TunedAsAsked
<1>1. RtlInv => TunedAsAsked
  <2> SUFFICES ASSUME RtlInv, Quiet, ~mixed
               PROVE  device = [direct |-> Direct(hz), hz |-> hz]
    BY DEF TunedAsAsked
  <2>1. ~stop /\ wire = <<>> /\ device \in [direct : Modes, hz : Values]
    BY DEF RtlInv, TypeOK, Descriptor, Quiet
  <2>2. Will("direct", Direct(hz)) /\ Will("hz", hz)
    BY <2>1 DEF RtlInv, Tuned, DirectDue, HzDue, Quiet
  <2>3. device.direct = Direct(hz) /\ device.hz = hz
    BY <2>1, <2>2 DEF Will
  <2> QED BY <2>1, <2>3
<1> QED BY <1>1, RtlInvariant, PTL
===============================================================================
