------------------------ MODULE TimelyConnectionLock ------------------------
(***************************************************************************)
(* The connection lock where its lease is long enough: every client sends  *)
(* heartbeats the server renews on (Engine.IO 3), and a lease outlasts a   *)
(* silent client by the waits of a renewal and of a release.  With the     *)
(* configured 70 s and Engine.IO's 45 s that is a wait below 5 s.          *)
(***************************************************************************)
EXTENDS ConnectionLock

\* What the deployment must see to.
Timely ==
    /\ LockTime > PingDeadline + 5 * Delay
    /\ \A c \in Conn : Heartbeat[c] = "ping"

\* How much of its lease c may have used up, in each phase of its life.
Spent(c) ==
    CASE sock[c] = "granted" -> age[c]
      [] sock[c] = "connected" /\ renew[c] = "idle" -> Delay + quiet[c]
      [] sock[c] = "connected" /\ renew[c] # "idle" -> Delay + PingDeadline + age[c]
      [] sock[c] = "watch" -> 2 * Delay + PingDeadline + age[c]
      [] sock[c] = "get" -> 3 * Delay + PingDeadline + age[c]
      [] OTHER -> 4 * Delay + PingDeadline + age[c]

Holding == {"granted", "connected", "watch", "get", "del"}

\* A connection owns its lock from the SET until its release deletes it, and
\* the lease never runs out on it.  With the phases the code goes through
\* this is inductive.
LeaseHeld ==
    \A c \in Conn : sock[c] \in Holding =>
        /\ lock[OpenhabOf[c]] = c
        /\ ttl[OpenhabOf[c]] + Spent(c) >= LockTime

\* Only a connection that is releasing its own lock has its key watched, and
\* no other write disturbs it.
WatchesOwnKey ==
    /\ \A n \in Node : ~dirty[n]
    /\ \A n \in Node : \A o \in watched[n] :
          \E c \in Conn : /\ NodeOf[c] = n /\ OpenhabOf[c] = o
                          /\ sock[c] \in {"get", "del"}

\* A renewal is in flight only for a socket that was connected.
RenewPhase ==
    \A c \in Conn :
        /\ renew[c] # "lost"
        /\ renew[c] = "sent" => sock[c] \in {"connected", "watch"}

\* The inductive invariant.
LeaseInv == TypeOK /\ KeyHasLease /\ LeaseHeld /\ WatchesOwnKey /\ RenewPhase

\* The sockets that serve an openHAB.
serving == {c \in Conn : sock[c] = "connected"}

Single == INSTANCE SingleConnection WITH serving <- serving

\* The lock implements "at most one serving socket for each openHAB": every
\* step of the code is an attach to a free openHAB, a detach, or no change.
ImplementsSingleConnection == Single!SSpec
=============================================================================
