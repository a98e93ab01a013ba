-------------------------------- MODULE MCRtlConn -------------------------------
(* RtlConn for TLC: one frequency on each side of 24 MHz and a second HF    *)
(* one.                                                                     *)
EXTENDS RtlConn
MCHosts == {"ft8mon", "python"}
MCHf    == {7, 14}
MCVhf   == {50}
===============================================================================
