--------------------------- MODULE MCUntimelyLock ---------------------------
(* One openHAB and two nodes; Redis may answer after the lease is over.     *)
(* Each node has one connection, so its Redis client is never shared: the   *)
(* first client sends heartbeats, the second only answers the server's.     *)
EXTENDS ConnectionLock, TLC

CONSTANTS h1, n1, n2, c1, c2

MCNodeOf == (c1 :> n1) @@ (c2 :> n2)
MCOpenhabOf == [c \in {c1, c2} |-> h1]
MCHeartbeat == (c1 :> "ping") @@ (c2 :> "pong")
=============================================================================
