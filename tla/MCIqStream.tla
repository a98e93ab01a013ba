------------------------------- MODULE MCIqStream ------------------------------
(* IqStream for TLC: the HPSDR halves the rate, the SDR-IP takes two thirds *)
(* (as 32000 to 12000 is three eighths), the CloudSDR leaves it alone.      *)
EXTENDS IqStream
MCRate   == [k \in Kinds |-> IF k = "sdrip" THEN 2 ELSE 1]
MCIqRate == [k \in Kinds |-> CASE k = "sdrip" -> 3 [] k = "hpsdr" -> 2 [] OTHER -> 1]
===============================================================================
