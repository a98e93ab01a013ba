------------------------------ MODULE MCSdrControl -----------------------------
(* SdrControl for TLC.                                                      *)
EXTENDS SdrControl
CONSTANTS p, q
MCOthers == {p, q}
===============================================================================
