------------------------------- MODULE NetStream -------------------------------
(***************************************************************************)
(* NetworkSoundIn (snd.cc): a server that takes audio from one TCP client  *)
(* at a time.  start() accepts the first client in the main thread, sizes  *)
(* the ring by its sample rate and starts reader_loop(), which reads PCM,  *)
(* and accepts the next client when one leaves.  read_header() walks the   *)
(* chunks of a WAV header and stores what it finds in rate_, channels_,    *)
(* bits_ and format_ at once, before it knows whether the header is any    *)
(* good.  The ring itself is SampleRing.                                   *)
(*                                                                         *)
(* A byte of the stream is its position in the client's PCM data, modulo   *)
(* the size of the client's frames.                                        *)
(***************************************************************************)
EXTENDS Naturals

CONSTANTS
  RawLayout,     (* 16-bit mono PCM at the rate given with -listen           *)
  Layouts,       (* what a "fmt " chunk may say: such records                *)
  AcceptErrors,  (* accept() may fail with an errno that is not EINTR        *)
  MaxRead        (* most bytes one read() returns                            *)

ASSUME NetAssumption ==
  /\ AcceptErrors \in BOOLEAN
  /\ Layouts \subseteq [rate : Nat, ch : Nat, bits : Nat, format : Nat]
  /\ RawLayout \in [rate : Nat \ {0}, ch : {1}, bits : {16}, format : {1}]
  /\ MaxRead \in Nat

VARIABLES
  raw,        (* raw_: a rate was given, so there is no header               *)
  pc,         (* accept_and_header() and reader_loop()                       *)
  booting,    (* TRUE while start() runs, in the main thread                 *)
  waiting,    (* a client waits in the backlog of listen_fd_                 *)
  layout,     (* rate_, channels_, bits_, format_                            *)
  gotFmt,     (* got_fmt                                                     *)
  saved,      (* saved_rate, saved_ch and saved_bits                         *)
  frameBytes, (* frame_bytes of reader_loop()                                *)
  acc,        (* bytes left over in acc                                      *)
  ringRate,   (* the rate of the ring and of decode_loop(), 0 before start() *)
  actual,     (* history: the layout of what the client sends                *)
  phase,      (* history: where in a frame of the client acc begins          *)
  kept,       (* history: "keeping original" was printed for this client     *)
  garbled     (* history: a sample of this client was not what it had sent   *)

stream  == <<acc, phase, kept, garbled>>
setup   == <<raw, booting, saved, frameBytes, ringRate>>
vars == <<pc, waiting, layout, gotFmt, actual, setup, stream>>

Frame(l) == l.ch * (l.bits \div 8)

Supported(l) ==
  /\ l.ch >= 1 /\ l.rate >= 1
  /\ \/ l.format = 1 /\ l.bits \in {8, 16, 24, 32}
     \/ l.format = 3 /\ l.bits = 32

(* How net_sample() takes a sample from the bytes of a frame.               *)
Sample(l) == <<l.bits, l.format = 3 /\ l.bits = 32>>
-------------------------------------------------------------------------------
Init ==
  /\ raw \in BOOLEAN /\ pc = "accept" /\ booting = TRUE /\ waiting = FALSE
  /\ layout = (IF raw THEN RawLayout ELSE [RawLayout EXCEPT !.rate = 0])
  /\ gotFmt = FALSE /\ saved = layout /\ frameBytes = 0 /\ acc = 0
  /\ ringRate = 0 /\ actual = layout /\ phase = 0 /\ kept = FALSE /\ garbled = FALSE

(* A client connects: the kernel queues it.                                 *)
Connect ==
  /\ ~waiting /\ waiting' = TRUE
  /\ UNCHANGED <<pc, layout, gotFmt, actual, setup, stream>>
-------------------------------------------------------------------------------
(* accept_and_header().                                                     *)

Accept ==
  /\ pc = "accept" /\ waiting
  /\ waiting' = FALSE
  /\ pc' = (IF raw THEN "accepted" ELSE "riff")
  /\ actual' = layout /\ gotFmt' = FALSE
  /\ UNCHANGED <<layout, setup, stream>>

(* start() gives up and exits; reader_loop() returns, and the thread ends.  *)
AcceptFails ==
  /\ AcceptErrors /\ pc = "accept"
  /\ pc' = (IF booting THEN "exited" ELSE "ended")
  /\ UNCHANGED <<waiting, layout, gotFmt, actual, setup, stream>>

ReadRiff ==
  /\ pc = "riff" /\ pc' = "chunk"
  /\ UNCHANGED <<waiting, layout, gotFmt, actual, setup, stream>>

ReadFmt(l) ==
  /\ pc = "chunk"
  /\ layout' = l /\ gotFmt' = TRUE /\ actual' = l
  /\ UNCHANGED <<pc, waiting, setup, stream>>

ReadData ==
  /\ pc = "chunk"
  /\ pc' = (IF gotFmt /\ Supported(layout) THEN "accepted" ELSE "accept")
  /\ UNCHANGED <<waiting, layout, gotFmt, actual, setup, stream>>

(* End of file, no RIFF/WAVE, or a "fmt " chunk shorter than 16 bytes: drop *)
(* the client and accept another.                                           *)
BadHeader ==
  /\ pc \in {"riff", "chunk"}
  /\ pc' = "accept"
  /\ UNCHANGED <<waiting, layout, gotFmt, actual, setup, stream>>
-------------------------------------------------------------------------------
(* start(): allocate the ring, start reader_loop().                         *)
StartReader ==
  /\ pc = "accepted" /\ booting
  /\ booting' = FALSE
  /\ ringRate' = layout.rate
  /\ frameBytes' = Frame(layout)
  /\ acc' = 0 /\ phase' = 0 /\ kept' = FALSE /\ garbled' = FALSE
  /\ pc' = "read"
  /\ UNCHANGED <<waiting, layout, gotFmt, actual, raw, saved>>

(* Where in a frame of the new client bytes that were left in acc begin.    *)
PhaseOfRest == ((Frame(actual) - 1) * acc) % Frame(actual)

SameFormat == \A f \in {"rate", "ch", "bits"} : layout[f] = saved[f]

(* Mutant: takes the new client's layout for the old ring.                  *)
ResumeInNewLayout ==
  /\ pc = "accepted" /\ ~booting
  /\ frameBytes' = Frame(layout)
  /\ kept' = FALSE /\ phase' = PhaseOfRest /\ garbled' = FALSE
  /\ pc' = "read"
  /\ UNCHANGED <<waiting, layout, gotFmt, actual, raw, booting, saved, ringRate, acc>>

(* reader_loop() goes on with a new client, in the layout of the first one. *)
Resume ==
  /\ pc = "accepted" /\ ~booting
  /\ layout' = [saved EXCEPT !.format = layout.format]
  /\ frameBytes' = IF SameFormat THEN frameBytes ELSE Frame(layout')
  /\ kept' = ~SameFormat
  /\ phase' = PhaseOfRest /\ garbled' = FALSE
  /\ pc' = "read"
  /\ UNCHANGED <<waiting, gotFmt, actual, raw, booting, saved, ringRate, acc>>

(* Mutant: leaves the bytes of a partial frame to the next client.          *)
ClosedKeepsBytes ==
  /\ pc = "read"
  /\ saved' = layout
  /\ pc' = "accept"
  /\ UNCHANGED <<waiting, layout, gotFmt, actual, raw, booting, frameBytes, ringRate, stream>>

(* read() returns 0 or an error.                                            *)
Closed ==
  /\ pc = "read"
  /\ acc' = 0
  /\ saved' = layout
  /\ pc' = "accept"
  /\ UNCHANGED <<waiting, layout, gotFmt, actual, raw, booting, frameBytes, ringRate,
                 phase, kept, garbled>>

(* A sample is the one the client sent if frames are cut where the client   *)
(* begins them and are decoded as it encoded them.                          *)
Right == phase = 0 /\ frameBytes = Frame(actual) /\ Sample(layout) = Sample(actual)

(* read() returns k bytes: store the samples of the whole frames, keep the  *)
(* bytes of a partial one.                                                  *)
Read(k) ==
  LET nframes == (acc + k) \div frameBytes IN
  /\ pc = "read"
  /\ acc' = (acc + k) - nframes * frameBytes
  /\ phase' = (phase + nframes * frameBytes) % Frame(actual)
  /\ garbled' = (garbled \/ (nframes > 0 /\ ~Right))
  /\ UNCHANGED <<pc, waiting, layout, gotFmt, actual, setup, kept>>
-------------------------------------------------------------------------------
Header ==
  \/ ReadRiff \/ ReadData \/ BadHeader
  \/ \E l \in Layouts : ReadFmt(l)

Next ==
  \/ Connect \/ Accept \/ AcceptFails \/ Header
  \/ StartReader \/ Resume \/ Closed
  \/ \E k \in 1 .. MaxRead : Read(k)

Spec == Init /\ [][Next]_vars
-------------------------------------------------------------------------------
(* However the network cuts the stream, and whoever was connected before,   *)
(* the samples of a client are those it sent, unless ft8mon said that it    *)
(* keeps the original format.                                               *)
RightUnlessKept == garbled => kept

(* While samples are stored, rate_ is the rate that the ring and            *)
(* decode_loop() were set up with.                                          *)
StoredAtRingRate == pc = "read" => layout.rate = ringRate
===============================================================================
