-------------------------- MODULE SingleConnection --------------------------
(***************************************************************************)
(* What the connection lock promises the rest of the cloud: the sockets    *)
(* that serve openHABs, at most one for each openHAB.  A socket starts to  *)
(* serve alone; any number of sockets may stop at once (a node that shuts  *)
(* down or crashes).                                                       *)
(***************************************************************************)
CONSTANTS Openhab, Conn, OpenhabOf

VARIABLE serving

SInit == serving = {}

\* The 'connection' handler of a socket whose handshake got the lock.
Attach(c) ==
    /\ \A d \in serving : OpenhabOf[d] # OpenhabOf[c]
    /\ serving' = serving \cup {c}

\* The 'disconnect' handlers of the sockets in S.
Detach(S) == S # {} /\ serving' = serving \ S

SNext == \/ \E c \in Conn : Attach(c)
         \/ \E S \in SUBSET serving : Detach(S)

SSpec == SInit /\ [][SNext]_serving
=============================================================================
