------------------------------- MODULE RadioItems ------------------------------
(***************************************************************************)
(* What the control connection of a CloudSDR or SDR-IP promises: a radio   *)
(* has items, and a call sets or reads one of them.  A call takes effect   *)
(* at one moment between its beginning and its end, and what it returns is *)
(* what the item was at that moment.                                       *)
(***************************************************************************)
CONSTANTS Callers, Items, Values, None

VARIABLES
  item,  (* the value of each item of the radio                              *)
  phase, (* of each caller: "idle", a call that is made, or its result       *)
  result (* of each caller: what its last call returned                      *)

vars == <<item, phase, result>>

Idle  == [at |-> "idle"]
Call  == [at : {"made"}, op : {"set"}, item : Items, val : Values]
           \cup [at : {"made"}, op : {"get"}, item : Items]
Done  == [at : {"done"}, item : Items, val : Values]

Init ==
  /\ item \in [Items -> Values]
  /\ phase = [c \in Callers |-> Idle] /\ result = [c \in Callers |-> None]

Make(c) ==
  /\ phase[c] = Idle
  /\ \E call \in Call : phase' = [phase EXCEPT ![c] = call]
  /\ UNCHANGED <<item, result>>

Perform(c) ==
  /\ phase[c] \in Call
  /\ item' = IF phase[c].op = "set" THEN [item EXCEPT ![phase[c].item] = phase[c].val] ELSE item
  /\ phase' = [phase EXCEPT ![c] =
       [at |-> "done", item |-> phase[c].item, val |-> item'[phase[c].item]]]
  /\ UNCHANGED result

Return(c) ==
  /\ phase[c] \in Done
  /\ phase' = [phase EXCEPT ![c] = Idle]
  /\ result' = [result EXCEPT ![c] = phase[c].val]
  /\ UNCHANGED item

Next == \E c \in Callers : Make(c) \/ Perform(c) \/ Return(c)

Spec == Init /\ [][Next]_vars
===============================================================================
