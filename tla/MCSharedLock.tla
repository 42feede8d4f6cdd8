---------------------------- MODULE MCSharedLock ----------------------------
(* Two openHABs of which one reaches two nodes; the first node's Redis      *)
(* client serves connections of both.                                       *)
EXTENDS ConnectionLock, TLC

CONSTANTS h1, h2, n1, n2, c1, c2, c3

MCNodeOf == (c1 :> n1) @@ (c2 :> n2) @@ (c3 :> n1)
MCOpenhabOf == (c1 :> h1) @@ (c2 :> h1) @@ (c3 :> h2)
MCPing == [c \in {c1, c2, c3} |-> "ping"]
MCPong == [c \in {c1, c2, c3} |-> "pong"]
MCMixed == (c1 :> "pong") @@ (c2 :> "pong") @@ (c3 :> "ping")
=============================================================================
