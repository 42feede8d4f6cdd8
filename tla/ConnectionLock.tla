--------------------------- MODULE ConnectionLock ---------------------------
(***************************************************************************)
(* The Redis lock that admits an openHAB's Socket.IO connection, as        *)
(* ConnectionManager (socket/connection-manager.ts) takes, renews and      *)
(* releases it and as SocketServer (socket/socket-server.ts) calls it.     *)
(*                                                                         *)
(* Several cloud nodes share one Redis.  Every node talks to it over ONE   *)
(* client connection (lib/redis.ts), so commands of one node keep their    *)
(* order and a WATCH belongs to the node, not to the socket that asked     *)
(* for it.  Each await of the code is a point where other steps happen:    *)
(* an operation is one action for each command Redis executes and one for  *)
(* each reply the code acts on.                                            *)
(*                                                                         *)
(* Time is counted in ticks.  Delay bounds how long a command or its reply *)
(* may take, PingDeadline how long a silent client stays connected.        *)
(*                                                                         *)
(* Operators named Bug... are not part of the model: each is a definition  *)
(* with one mistake, to show that a property would notice it.              *)
(***************************************************************************)
EXTENDS Naturals

CONSTANTS
    Openhab,       \* openHABs, by Mongo id: the lock key is connection:<id>
    Node,          \* cloud server processes
    Conn,          \* connection ids (randomUUID), used again once forgotten
    NoConn,        \* the lock key does not exist
    NodeOf,        \* the node a connection reaches
    OpenhabOf,     \* the openHAB a connection authenticates as
    Heartbeat,     \* "ping": Engine.IO 3 client, "pong": Engine.IO 4 client
    LockTime,      \* connectionLockTimeSeconds
    PingDeadline,  \* Engine.IO pingInterval + pingTimeout
    Delay          \* longest wait for Redis or for the event loop

ASSUME ConnAssumption ==
    /\ NoConn \notin Conn
    /\ NodeOf \in [Conn -> Node]
    /\ OpenhabOf \in [Conn -> Openhab]
    /\ Heartbeat \in [Conn -> {"ping", "pong"}]

ASSUME TimeAssumption ==
    /\ LockTime \in Nat \ {0}
    /\ PingDeadline \in Nat \ {0}
    /\ Delay \in Nat \ {0}

VARIABLES
    lock,      \* Redis: the connectionId stored under each openHAB's key
    ttl,       \* Redis: ticks until the key expires, 0 when it never does
    watched,   \* Redis: the keys each node's client is watching
    dirty,     \* Redis: a watched key of the node's client was modified
    sock,      \* where each connection is in its life
    open,      \* the client of a handshake in progress is still there
    renew,     \* the renewal of each connection that is in flight
    age,       \* ticks a connection has waited for its command
    quiet,     \* ticks since a connected client was last heard
    draining   \* SocketServer.isShuttingDown

vars == <<lock, ttl, watched, dirty, sock, open, renew, age, quiet, draining>>

Releasing == {"watch", "get", "del", "unwatch"}
Phase == {"none", "acquiring", "granted", "refused", "connected"} \cup Releasing

TypeOK ==
    /\ lock \in [Openhab -> Conn \cup {NoConn}]
    /\ ttl \in [Openhab -> 0..LockTime]
    /\ watched \in [Node -> SUBSET Openhab]
    /\ dirty \in [Node -> BOOLEAN]
    /\ sock \in [Conn -> Phase]
    /\ open \in [Conn -> BOOLEAN]
    /\ renew \in [Conn -> {"idle", "sent", "lost"}]
    /\ age \in [Conn -> 0..Delay]
    /\ quiet \in [Conn -> 0..PingDeadline]
    /\ draining \in [Node -> BOOLEAN]

Init ==
    /\ lock = [o \in Openhab |-> NoConn]
    /\ ttl = [o \in Openhab |-> 0]
    /\ watched = [n \in Node |-> {}]
    /\ dirty = [n \in Node |-> FALSE]
    /\ sock = [c \in Conn |-> "none"]
    /\ open = [c \in Conn |-> FALSE]
    /\ renew = [c \in Conn |-> "idle"]
    /\ age = [c \in Conn |-> 0]
    /\ quiet = [c \in Conn |-> 0]
    /\ draining = [n \in Node |-> FALSE]

-----------------------------------------------------------------------------
(* The Redis server: what a write, an EXEC and an UNWATCH do to watches.   *)

On(n) == {c \in Conn : NodeOf[c] = n}

\* A write to o's key dirties every client that watches it.
Touch(o) == [n \in Node |-> dirty[n] \/ o \in watched[n]]

\* EXEC forgets the watches of n's own client before it runs the commands,
\* which dirty the other clients that watch the key they write.
ExecTouch(n, o) == [m \in Node |-> m # n /\ Touch(o)[m]]

Forget(n) == /\ watched' = [watched EXCEPT ![n] = {}]
             /\ dirty' = [dirty EXCEPT ![n] = FALSE]

-----------------------------------------------------------------------------
(* Handshake: the middleware chain and acquireLock.                        *)

\* The shutdown check passes; blocked check and authentication follow.
Begin(c) ==
    /\ sock[c] = "none" /\ renew[c] = "idle" /\ \A o \in Openhab : lock[o] # c
    /\ ~draining[NodeOf[c]]
    /\ sock' = [sock EXCEPT ![c] = "acquiring"]
    /\ open' = [open EXCEPT ![c] = TRUE]
    /\ UNCHANGED <<lock, ttl, watched, dirty, renew, age, quiet, draining>>

\* Blocked, not authorized, or an error before the lock is asked for.
Refuse(c) ==
    /\ sock[c] = "acquiring"
    /\ sock' = [sock EXCEPT ![c] = "none"]
    /\ open' = [open EXCEPT ![c] = FALSE]
    /\ UNCHANGED <<lock, ttl, watched, dirty, renew, age, quiet, draining>>

BugSetWithoutNX(o) == TRUE

BugSetWithoutEX(o, c) ==
    /\ lock' = [lock EXCEPT ![o] = c]
    /\ dirty' = Touch(o)
    /\ UNCHANGED ttl

\* The options of SET connection:<o> .. NX EX: when it writes, and what.
Free(o) == lock[o] = NoConn

Store(o, c) ==
    /\ lock' = [lock EXCEPT ![o] = c]
    /\ ttl' = [ttl EXCEPT ![o] = LockTime]
    /\ dirty' = Touch(o)

\* Redis executes the SET.
AcquireExec(c) ==
    LET o == OpenhabOf[c] IN
    /\ sock[c] = "acquiring"
    /\ \/ /\ Free(o)
          /\ Store(o, c)
          /\ sock' = [sock EXCEPT ![c] = "granted"]
       \/ /\ ~Free(o)
          /\ sock' = [sock EXCEPT ![c] = "refused"]
          /\ UNCHANGED <<lock, ttl, dirty>>
    /\ UNCHANGED <<watched, open, renew, age, quiet, draining>>

BugConnectsRefused(c) ==
    /\ sock[c] \in {"granted", "refused"}
    /\ sock' = [sock EXCEPT ![c] = IF open[c] THEN "connected" ELSE "none"]
    /\ open' = [open EXCEPT ![c] = FALSE]
    /\ age' = [age EXCEPT ![c] = 0]
    /\ UNCHANGED <<lock, ttl, watched, dirty, renew, quiet, draining>>

\* next(): 'connection' handlers run unless the client has gone meanwhile;
\* then Socket.IO drops the socket and nobody releases the lock.
AcquireReply(c) ==
    /\ sock[c] \in {"granted", "refused"}
    /\ sock' = [sock EXCEPT ![c] = IF sock[c] = "granted" /\ open[c]
                                   THEN "connected" ELSE "none"]
    /\ open' = [open EXCEPT ![c] = FALSE]
    /\ age' = [age EXCEPT ![c] = 0]
    /\ UNCHANGED <<lock, ttl, watched, dirty, renew, quiet, draining>>

-----------------------------------------------------------------------------
(* Heartbeat: handlePing and renewLock.                                    *)

\* A 'ping' packet calls renewLock; a 'pong' does not.
\* Bound: a connection has at most one renewal in flight.
Ping(c) ==
    /\ sock[c] = "connected" /\ renew[c] = "idle"
    /\ Heartbeat[c] = "ping"
    /\ renew' = [renew EXCEPT ![c] = "sent"]
    /\ age' = [age EXCEPT ![c] = 0]
    /\ quiet' = [quiet EXCEPT ![c] = 0]
    /\ UNCHANGED <<lock, ttl, watched, dirty, sock, open, draining>>

Pong(c) ==
    /\ sock[c] = "connected" /\ Heartbeat[c] = "pong"
    /\ quiet' = [quiet EXCEPT ![c] = 0]
    /\ UNCHANGED <<lock, ttl, watched, dirty, sock, open, renew, age, draining>>

BugNeverExtends(o) == ttl

\* EXPIRE restarts the lease of whoever holds the key, before the owner is read.
Extend(o) == [ttl EXCEPT ![o] = IF lock[o] = NoConn THEN 0 ELSE LockTime]

\* Redis executes MULTI, EXPIRE, GET, EXEC.  A dirty watch of the node's
\* client aborts it.  A renewal that succeeds has no further effect.
RenewExec(c) ==
    LET o == OpenhabOf[c]
        n == NodeOf[c]
    IN  /\ renew[c] = "sent"
        /\ \/ /\ dirty[n]
              /\ renew' = [renew EXCEPT ![c] = "lost"]
              /\ dirty' = [dirty EXCEPT ![n] = FALSE]
              /\ UNCHANGED ttl
           \/ /\ ~dirty[n]
              /\ renew' = [renew EXCEPT ![c] = IF lock[o] = c THEN "idle" ELSE "lost"]
              /\ ttl' = Extend(o)
              /\ dirty' = IF lock[o] = NoConn THEN dirty ELSE ExecTouch(n, o)
        /\ watched' = [watched EXCEPT ![n] = {}]
        /\ age' = [age EXCEPT ![c] = 0]
        /\ UNCHANGED <<lock, sock, open, quiet, draining>>

BugStaysConnected(c) ==
    /\ renew[c] = "lost"
    /\ renew' = [renew EXCEPT ![c] = "idle"]
    /\ UNCHANGED <<lock, ttl, watched, dirty, sock, open, age, quiet, draining>>

\* renewLock returned false: handlePing disconnects the socket.
RenewReply(c) ==
    /\ renew[c] = "lost"
    /\ renew' = [renew EXCEPT ![c] = "idle"]
    /\ \/ /\ sock[c] = "connected"
          /\ sock' = [sock EXCEPT ![c] = "watch"]
          /\ age' = [age EXCEPT ![c] = 0]
          /\ quiet' = [quiet EXCEPT ![c] = 0]
       \/ /\ sock[c] # "connected"
          /\ UNCHANGED <<sock, age, quiet>>
    /\ UNCHANGED <<lock, ttl, watched, dirty, open, draining>>

-----------------------------------------------------------------------------
(* Disconnection: handleDisconnect and releaseLock.                        *)

\* The sockets in S disconnect: each handleDisconnect calls releaseLock.
Disconnect(S) ==
    /\ sock' = [c \in Conn |-> IF c \in S THEN "watch" ELSE sock[c]]
    /\ age' = [c \in Conn |-> IF c \in S THEN 0 ELSE age[c]]
    /\ quiet' = [c \in Conn |-> IF c \in S THEN 0 ELSE quiet[c]]

\* The client closes its connection, or the network does.
ClientClose(c) ==
    /\ sock[c] = "connected"
    /\ Disconnect({c})
    /\ UNCHANGED <<lock, ttl, watched, dirty, open, renew, draining>>

\* The client leaves while the middlewares are still running.
ClientAbort(c) ==
    /\ sock[c] \in {"acquiring", "granted", "refused"} /\ open[c]
    /\ open' = [open EXCEPT ![c] = FALSE]
    /\ UNCHANGED <<lock, ttl, watched, dirty, sock, renew, age, quiet, draining>>

\* Engine.IO closes a connection it has not heard from.
PingTimeout(c) ==
    /\ sock[c] = "connected" /\ quiet[c] = PingDeadline
    /\ Disconnect({c})
    /\ UNCHANGED <<lock, ttl, watched, dirty, open, renew, draining>>

\* Redis executes WATCH, after the renewal that was sent before it.
ReleaseWatch(c) ==
    LET n == NodeOf[c] IN
    /\ sock[c] = "watch" /\ renew[c] # "sent"
    /\ watched' = [watched EXCEPT ![n] = @ \cup {OpenhabOf[c]}]
    /\ sock' = [sock EXCEPT ![c] = "get"]
    /\ age' = [age EXCEPT ![c] = 0]
    /\ UNCHANGED <<lock, ttl, dirty, open, renew, quiet, draining>>

\* GET; the lock is deleted only when the value read is this connection's.
ReleaseGet(c) ==
    /\ sock[c] = "get"
    /\ sock' = [sock EXCEPT ![c] = IF lock[OpenhabOf[c]] = c THEN "del" ELSE "unwatch"]
    /\ age' = [age EXCEPT ![c] = 0]
    /\ UNCHANGED <<lock, ttl, watched, dirty, open, renew, quiet, draining>>

\* MULTI, DEL, EXEC on the node's client, and then updateLastOnline.  When that
\* fails, or the client library turns an aborted EXEC into an error, the catch
\* unwatches.
ReleaseExec(c) ==
    LET o == OpenhabOf[c]
        n == NodeOf[c]
    IN  /\ sock[c] = "del"
        /\ \/ /\ ~dirty[n]
              /\ lock' = [lock EXCEPT ![o] = NoConn]
              /\ ttl' = [ttl EXCEPT ![o] = 0]
              /\ dirty' = IF lock[o] = NoConn THEN dirty ELSE ExecTouch(n, o)
           \/ /\ dirty[n]
              /\ dirty' = [dirty EXCEPT ![n] = FALSE]
              /\ UNCHANGED <<lock, ttl>>
        /\ \E p \in {"none", "unwatch"} : sock' = [sock EXCEPT ![c] = p]
        /\ watched' = [watched EXCEPT ![n] = {}]
        /\ age' = [age EXCEPT ![c] = 0]
        /\ UNCHANGED <<open, renew, quiet, draining>>

ReleaseUnwatch(c) ==
    /\ sock[c] = "unwatch"
    /\ sock' = [sock EXCEPT ![c] = "none"]
    /\ age' = [age EXCEPT ![c] = 0]
    /\ Forget(NodeOf[c])
    /\ UNCHANGED <<lock, ttl, open, renew, quiet, draining>>

-----------------------------------------------------------------------------
(* The environment: time, the Redis connection, and the node's process.    *)

Waiting(c) == sock[c] \in {"granted", "refused"} \cup Releasing \/ renew[c] # "idle"

\* One tick: leases run out, and a key that expires dirties its watchers.
Tick ==
    /\ \A c \in Conn : /\ Waiting(c) => age[c] < Delay
                       /\ sock[c] = "connected" => quiet[c] < PingDeadline
    /\ ttl' = [o \in Openhab |-> IF ttl[o] > 0 THEN ttl[o] - 1 ELSE 0]
    /\ lock' = [o \in Openhab |-> IF ttl[o] = 1 THEN NoConn ELSE lock[o]]
    /\ dirty' = [n \in Node |-> dirty[n] \/ \E o \in watched[n] : ttl[o] = 1]
    /\ age' = [c \in Conn |-> IF Waiting(c) THEN age[c] + 1 ELSE 0]
    /\ quiet' = [c \in Conn |-> IF sock[c] = "connected" THEN quiet[c] + 1 ELSE 0]
    /\ UNCHANGED <<watched, sock, open, renew, draining>>

\* Node n loses its Redis connection: every reply it waits for is an error.
\* acquireLock refuses (the SET may have been executed), renewLock returns
\* false, releaseLock goes to its catch and unwatches.
RedisDrop(n) ==
    LET failed == {c \in On(n) : sock[c] = "connected" /\ renew[c] # "idle"}
    IN  /\ sock' = [c \in Conn |->
              IF c \notin On(n) THEN sock[c]
              ELSE CASE c \in failed -> "watch"
                     [] sock[c] \in {"granted", "refused", "unwatch"} -> "none"
                     [] sock[c] \in {"watch", "get", "del"} -> "unwatch"
                     [] OTHER -> sock[c]]
        /\ open' = [c \in Conn |-> open[c] /\ (c \in On(n) => sock[c] = "acquiring")]
        /\ renew' = [c \in Conn |-> IF c \in On(n) THEN "idle" ELSE renew[c]]
        /\ age' = [c \in Conn |-> IF c \in On(n) THEN 0 ELSE age[c]]
        /\ quiet' = [c \in Conn |-> IF c \in failed THEN 0 ELSE quiet[c]]
        /\ Forget(n)
        /\ UNCHANGED <<lock, ttl, draining>>

\* shutdown(): no new handshakes, and every connected socket is disconnected.
Drain(n) ==
    /\ ~draining[n]
    /\ draining' = [draining EXCEPT ![n] = TRUE]
    /\ Disconnect({c \in On(n) : sock[c] = "connected"})
    /\ UNCHANGED <<lock, ttl, watched, dirty, open, renew>>

\* The process ends, in a crash or at the end of a shutdown, and starts again.
Restart(n) ==
    /\ sock' = [c \in Conn |-> IF c \in On(n) THEN "none" ELSE sock[c]]
    /\ open' = [c \in Conn |-> open[c] /\ c \notin On(n)]
    /\ renew' = [c \in Conn |-> IF c \in On(n) THEN "idle" ELSE renew[c]]
    /\ age' = [c \in Conn |-> IF c \in On(n) THEN 0 ELSE age[c]]
    /\ quiet' = [c \in Conn |-> IF c \in On(n) THEN 0 ELSE quiet[c]]
    /\ draining' = [draining EXCEPT ![n] = FALSE]
    /\ Forget(n)
    /\ UNCHANGED <<lock, ttl>>

-----------------------------------------------------------------------------
\* What the server and Redis do with a connection, once asked.
Serve(c) ==
    \/ Refuse(c) \/ AcquireExec(c) \/ AcquireReply(c)
    \/ RenewExec(c) \/ RenewReply(c) \/ PingTimeout(c)
    \/ ReleaseWatch(c) \/ ReleaseGet(c) \/ ReleaseExec(c) \/ ReleaseUnwatch(c)

\* What the openHAB does.
Client(c) == Begin(c) \/ Ping(c) \/ Pong(c) \/ ClientClose(c) \/ ClientAbort(c)

Next ==
    \/ \E c \in Conn : Serve(c) \/ Client(c)
    \/ Tick
    \/ \E n \in Node : RedisDrop(n) \/ Drain(n) \/ Restart(n)

Spec == Init /\ [][Next]_vars

\* Time passes, and every command and reply is served; clients owe nothing.
Fairness == WF_vars(Tick) /\ \A c \in Conn : WF_vars(Serve(c))

FairSpec == Spec /\ Fairness

-----------------------------------------------------------------------------
(* Properties.                                                             *)

\* A key exists exactly as long as its lease: no step leaves a lock that never
\* expires, or a lease without a lock.
KeyHasLease == \A o \in Openhab : lock[o] = NoConn <=> ttl[o] = 0

\* An openHAB is connected through at most one socket of one node
\* (connection-manager.ts: "ensuring one connection per openHAB").
OneConnection ==
    \A c, d \in Conn :
        /\ sock[c] = "connected" /\ sock[d] = "connected"
        /\ OpenhabOf[c] = OpenhabOf[d]
        => c = d

\* Releasing a lock never deletes the lock of another connection
\* (releaseLock: "Uses Redis WATCH to ensure we only delete our own lock").
DeletesOwnLock ==
    [][\A c \in Conn : sock[c] = "del" /\ sock'[c] # "del" =>
          \A o \in Openhab : lock'[o] # lock[o] => lock[o] = c]_vars

\* Serving a renewal never lengthens the lease of another connection
\* (renewLock: "Verifies we still own the lock before renewing").
RenewsOwnLock ==
    [][\A c \in Conn : renew[c] = "sent" /\ renew'[c] # "sent" =>
          \A o \in Openhab : ttl'[o] > ttl[o] => lock[o] = c]_vars

\* A socket is disconnected because its client left or fell silent, or because its node
\* shuts down, ends, or loses Redis: not because of what renewals and releases of
\* other sockets do to the watches of the client they share.
DisconnectedForCause ==
    [][\A c \in Conn : sock[c] = "connected" /\ sock'[c] # "connected" =>
          \/ ClientClose(c) \/ PingTimeout(c)
          \/ Drain(NodeOf[c]) \/ Restart(NodeOf[c]) \/ RedisDrop(NodeOf[c])]_vars

\* A connection that stays connected after it lost its lock is found out by
\* its next heartbeat, or by its silence, and disconnected; only clients whose
\* heartbeats the server renews on are found out.
SplitBrainHeals ==
    \A c \in Conn :
        sock[c] = "connected" /\ Heartbeat[c] = "ping" /\ lock[OpenhabOf[c]] # c
            ~> sock[c] # "connected"

\* A lock whose connection is gone without releasing it (a handshake whose
\* client left, a lost reply, a crash) is freed, so the openHAB gets in again.
LeakedLockExpires ==
    \A c \in Conn :
        sock[c] = "none" /\ lock[OpenhabOf[c]] = c ~> lock[OpenhabOf[c]] # c
=============================================================================
