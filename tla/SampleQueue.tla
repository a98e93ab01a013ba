------------------------------ MODULE SampleQueue ------------------------------
(***************************************************************************)
(* What SoundIn::get() promises (the comment above CardSoundIn::get(),     *)
(* snd.cc:230-238): a bounded first-in first-out queue of samples.  A full *)
(* queue refuses new samples.  get(n, t0, latest) first passes over the    *)
(* oldest samples if the latest n are wanted, then takes samples from the  *)
(* front until it has n of them or the queue is empty.                     *)
(***************************************************************************)
EXTENDS Naturals, Sequences

CONSTANTS
  Capacity,  (* samples the queue holds                                    *)
  Requests   (* arguments of get(): a set of <<n, latest>>                 *)

VARIABLES
  queue,     (* the samples that wait, oldest first                        *)
  arrived,   (* number of samples that have arrived                        *)
  busy,      (* a get() is being served                                    *)
  req, v     (* its arguments, and what it has taken                       *)

vars == <<queue, arrived, busy, req, v>>

Init ==
  /\ queue = <<>> /\ arrived = 0 /\ busy = FALSE
  /\ req \in Requests /\ v = <<>>

Accept ==
  /\ Len(queue) < Capacity
  /\ arrived' = arrived + 1
  /\ queue' = Append(queue, arrived')
  /\ UNCHANGED <<busy, req, v>>

Refuse ==
  /\ Len(queue) = Capacity
  /\ arrived' > arrived
  /\ UNCHANGED <<queue, busy, req, v>>

Begin(r) ==
  /\ ~busy
  /\ req' = r /\ v' = <<>>
  /\ busy' \in (IF queue = <<>> THEN BOOLEAN ELSE {TRUE})
  /\ UNCHANGED <<queue, arrived>>

PassOver ==
  /\ busy /\ req[2] /\ v = <<>>
  /\ Len(queue) > req[1]
  /\ queue' = Tail(queue)
  /\ UNCHANGED <<arrived, busy, req, v>>

Take ==
  /\ busy /\ Len(v) < req[1] /\ queue # <<>>
  /\ v' = Append(v, Head(queue))
  /\ queue' = Tail(queue)
  /\ UNCHANGED <<arrived, busy, req>>

Finish ==
  /\ busy
  /\ Len(v) = req[1] \/ queue = <<>>
  /\ busy' = FALSE
  /\ UNCHANGED <<queue, arrived, req, v>>

Next ==
  \/ Accept \/ Refuse
  \/ \E r \in Requests : Begin(r)
  \/ PassOver \/ Take \/ Finish

Spec == Init /\ [][Next]_vars
===============================================================================
