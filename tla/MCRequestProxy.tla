--------------------------- MODULE MCRequestProxy ---------------------------
(* An openHAB with a second socket to reconnect on, and another one that    *)
(* answers requests it was never sent.                                      *)
EXTENDS RequestProxy

CONSTANTS a, b, a1, a2, b1

MCUuidOf == [s \in Socket |-> IF s = b1 THEN b ELSE a]
=============================================================================
