----------------------------- MODULE MCDecodeCycle -----------------------------
(* DecodeCycle for TLC.  Signal s1 lies in the overlap of the two bands and *)
(* on the border of two buckets, too near the end of t2's samples to be     *)
(* taken out of them; s2 carries the same message on another frequency (an  *)
(* image); s3 is a message of its own.  Either decode_loop() runs for two   *)
(* cycles with one pass, or one file is decoded in two passes, or two files *)
(* in one each.                                                             *)
EXTENDS DecodeCycle, TLC
CONSTANTS t1, t2, s1, s2, s3, m1, m2, b1, b2, b3
MCText  == s1 :> m1 @@ s2 :> m1 @@ s3 :> m2
MCHeard == s1 :> {t1, t2} @@ s2 :> {t2} @@ s3 :> {t1}
MCFound == s1 :> {b1, b2} @@ s2 :> {b3} @@ s3 :> {b2}
MCWhole == s1 :> {t1} @@ s2 :> {t2} @@ s3 :> {t1}
MCCommands == {[mode |-> "live", passes |-> 1, cycles |-> 2],
               [mode |-> "file", passes |-> 2, cycles |-> 1],
               [mode |-> "file", passes |-> 1, cycles |-> 2]}
===============================================================================
