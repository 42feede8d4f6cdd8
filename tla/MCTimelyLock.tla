---------------------------- MODULE MCTimelyLock ----------------------------
(* Two connections of one openHAB on two nodes, and another openHAB's      *)
(* connection on the first of them.                                        *)
EXTENDS TimelyConnectionLock, TLC

CONSTANTS h1, h2, n1, n2, c1, c2, c3

MCNodeOf == (c1 :> n1) @@ (c2 :> n2) @@ (c3 :> n1)
MCOpenhabOf == (c1 :> h1) @@ (c2 :> h1) @@ (c3 :> h2)
MCHeartbeat == [c \in {c1, c2, c3} |-> "ping"]

ASSUME MCTimely == Timely
=============================================================================
