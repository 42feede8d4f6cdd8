-------------------------- MODULE ConnectionCache --------------------------
(***************************************************************************)
(* How a cloud node learns which node an openHAB is connected to: from the *)
(* connection lock's value in Redis, through the node's connectionCache    *)
(* (routes/middleware.ts), which SocketServer invalidates when an openHAB  *)
(* connects to this node or disconnects from it.                           *)
(*                                                                         *)
(* One openHAB: cache, key and lock are separate for each.  Of the lock    *)
(* only the key is kept, and its lease may run out at any time (module     *)
(* ConnectionLock says when it does).  Time is counted in ticks.           *)
(*                                                                         *)
(* A node's lookups and its lock operations share one Redis client         *)
(* (app.ts), so their replies come in the order Redis executed them.       *)
(*                                                                         *)
(* Operators named Bug... are not part of the model: each is a definition  *)
(* with one mistake, to show that a property would notice it.              *)
(***************************************************************************)
EXTENDS Naturals

CONSTANTS
    Node,       \* cloud server processes
    Conn,       \* connections of the openHAB
    NoConn,     \* the key does not exist
    NodeOf,     \* the node a connection reaches
    Offline,    \* ConnectionInfo null
    Absent,     \* no cache entry that is still valid
    Lookup,     \* requests that look the openHAB up at the same time
    CacheTime,  \* CONNECTION_CACHE_TTL_MS
    Delay       \* longest wait for Redis's reply to a GET

ASSUME CacheAssumption ==
    /\ NoConn \notin Conn /\ Conn \cap Lookup = {}
    /\ NodeOf \in [Conn -> Node]
    /\ Offline \notin Node /\ Absent \notin Node \cup {Offline}
    /\ CacheTime \in Nat \ {0}
    /\ Delay \in Nat \ {0}

VARIABLES
    key,    \* Redis: the connection in connection:<id>
    since,  \* ticks since the key last changed, counted up to Settled
    sock,   \* where each connection is in its life
    cache,  \* each node's cached connectionInfo
    age,    \* ticks since the entry was set
    step,   \* where each lookup is
    at,     \* the node it runs on
    info,   \* what it has found
    wait,   \* ticks since Redis executed its GET
    ahead   \* the lookups whose reply comes before that of a lookup's GET,
            \* a connection's SET, or its release

stored == <<key, since>>
entry == <<cache, age>>
lookup == <<step, at, info, wait>>
vars == <<stored, sock, entry, lookup, ahead>>

Info == Node \cup {Offline}

Settled == CacheTime + Delay

TypeOK ==
    /\ key \in Conn \cup {NoConn}
    /\ since \in 0..Settled
    /\ sock \in [Conn -> {"none", "granted", "joined", "leaving", "released"}]
    /\ cache \in [Node -> Info \cup {Absent}]
    /\ age \in [Node -> 0..CacheTime]
    /\ step \in [Lookup -> {"idle", "asked", "got", "routed"}]
    /\ at \in [Lookup -> Node]
    /\ info \in [Lookup -> Info]
    /\ wait \in [Lookup -> 0..Delay]
    /\ ahead \in [Lookup \cup Conn -> SUBSET Lookup]

Init ==
    /\ key = NoConn /\ since = Settled
    /\ sock = [c \in Conn |-> "none"]
    /\ cache = [n \in Node |-> Absent]
    /\ age = [n \in Node |-> 0]
    /\ step = [l \in Lookup |-> "idle"]
    /\ at \in [Lookup -> Node]
    /\ info = [l \in Lookup |-> Offline]
    /\ wait = [l \in Lookup |-> 0]
    /\ ahead = [x \in Lookup \cup Conn |-> {}]

-----------------------------------------------------------------------------
(* The openHAB's connections, as they write the key and the caches.        *)

\* The serverAddress that the key's value names.
Address == IF key = NoConn THEN Offline ELSE NodeOf[key]

Write(c) == key' = c /\ since' = 0

\* The lookups on node n whose reply is on its way.
Pending(n) == {l \in Lookup : step[l] = "got" /\ at[l] = n}

\* x's command is executed on node n's client; its reply comes after theirs.
Behind(x, n) == ahead' = [ahead EXCEPT ![x] = Pending(n)]

\* The reply of every lookup in S has come.
Replied(S) == ahead' = [x \in Lookup \cup Conn |-> ahead[x] \ S]

BugKeepsEntry(n) == UNCHANGED entry

invalidateConnectionCache(n) ==
    /\ cache' = [cache EXCEPT ![n] = Absent]
    /\ age' = [age EXCEPT ![n] = 0]

\* acquireLock's SET NX.
Grant(c) ==
    /\ sock[c] = "none" /\ key = NoConn
    /\ Write(c) /\ Behind(c, NodeOf[c])
    /\ sock' = [sock EXCEPT ![c] = "granted"]
    /\ UNCHANGED <<entry, lookup>>

\* The reply is lost, or the client has left when the handshake is done; the
\* key stays.
Abort(c) ==
    /\ sock[c] = "granted"
    /\ sock' = [sock EXCEPT ![c] = "none"]
    /\ UNCHANGED <<stored, entry, lookup, ahead>>

\* 'connection', after SET's reply.
Join(c) ==
    /\ sock[c] = "granted" /\ ahead[c] = {}
    /\ sock' = [sock EXCEPT ![c] = "joined"]
    /\ invalidateConnectionCache(NodeOf[c])
    /\ UNCHANGED <<stored, lookup, ahead>>

\* 'disconnect': handleDisconnect waits for releaseLock.
Leave(c) ==
    /\ sock[c] = "joined"
    /\ sock' = [sock EXCEPT ![c] = "leaving"]
    /\ UNCHANGED <<stored, entry, lookup, ahead>>

\* Redis executes the release, which deletes the connection's own key.
Release(c) ==
    /\ sock[c] = "leaving"
    /\ sock' = [sock EXCEPT ![c] = "released"]
    /\ IF key = c THEN Write(NoConn) ELSE UNCHANGED stored
    /\ Behind(c, NodeOf[c])
    /\ UNCHANGED <<entry, lookup>>

\* releaseLock has returned, or failed without deleting the key.
Left(c) ==
    /\ sock[c] = "leaving" \/ (sock[c] = "released" /\ ahead[c] = {})
    /\ sock' = [sock EXCEPT ![c] = "none"]
    /\ invalidateConnectionCache(NodeOf[c])
    /\ UNCHANGED <<stored, lookup, ahead>>

\* The lease runs out.
Expire ==
    /\ key # NoConn
    /\ Write(NoConn)
    /\ UNCHANGED <<sock, entry, lookup, ahead>>

-----------------------------------------------------------------------------
(* Lookups: lookupConnectionInfo, getConnectionInfoCached, and             *)
(* refreshConnectionInfo.                                                  *)

BugHitRenews(l, n) ==
    /\ step[l] = "idle" /\ cache[n] # Absent
    /\ step' = [step EXCEPT ![l] = "routed"]
    /\ at' = [at EXCEPT ![l] = n]
    /\ info' = [info EXCEPT ![l] = cache[n]]
    /\ age' = [age EXCEPT ![n] = 0]
    /\ UNCHANGED <<stored, sock, cache, wait, ahead>>

\* A valid entry is used as it is.
Hit(l, n) ==
    /\ step[l] = "idle" /\ cache[n] # Absent
    /\ step' = [step EXCEPT ![l] = "routed"]
    /\ at' = [at EXCEPT ![l] = n]
    /\ info' = [info EXCEPT ![l] = cache[n]]
    /\ UNCHANGED <<stored, sock, entry, wait, ahead>>

\* Otherwise GET is sent.
Miss(l, n) ==
    /\ step[l] = "idle" /\ cache[n] = Absent
    /\ step' = [step EXCEPT ![l] = "asked"]
    /\ at' = [at EXCEPT ![l] = n]
    /\ UNCHANGED <<stored, sock, entry, info, wait, ahead>>

\* Redis executes the GET.
Read(l) ==
    /\ step[l] = "asked"
    /\ step' = [step EXCEPT ![l] = "got"]
    /\ info' = [info EXCEPT ![l] = Address]
    /\ wait' = [wait EXCEPT ![l] = 0]
    /\ Behind(l, at[l])
    /\ UNCHANGED <<stored, sock, entry, at>>

\* The reply arrives: what it says is cached, whatever happened since.
Fill(l) ==
    /\ step[l] = "got" /\ ahead[l] = {}
    /\ step' = [step EXCEPT ![l] = "routed"]
    /\ cache' = [cache EXCEPT ![at[l]] = info[l]]
    /\ age' = [age EXCEPT ![at[l]] = 0]
    /\ wait' = [wait EXCEPT ![l] = 0]
    /\ Replied({l})
    /\ UNCHANGED <<stored, sock, at, info>>

\* "Don't cache errors - let the next request try again."
ReadError(l) ==
    /\ step[l] \in {"asked", "got"}
    /\ step' = [step EXCEPT ![l] = "routed"]
    /\ info' = [info EXCEPT ![l] = Offline]
    /\ wait' = [wait EXCEPT ![l] = 0]
    /\ Replied({l})
    /\ UNCHANGED <<stored, sock, entry, at>>

\* The request is answered, here or on the node it was forwarded to.
Done(l) ==
    /\ step[l] = "routed"
    /\ step' = [step EXCEPT ![l] = "idle"]
    /\ UNCHANGED <<stored, sock, entry, at, info, wait, ahead>>

\* ensureServer could not forward it: the entry goes and Redis is asked again.
Retry(l) ==
    /\ step[l] = "routed" /\ info[l] \in Node \ {at[l]}
    /\ step' = [step EXCEPT ![l] = "asked"]
    /\ invalidateConnectionCache(at[l])
    /\ UNCHANGED <<stored, sock, at, info, wait, ahead>>

-----------------------------------------------------------------------------
BugNeverExpires(n) == FALSE

\* The entry's last tick: from expiresAt on it is not used.
Expires(n) == cache[n] # Absent /\ age[n] + 1 = CacheTime

Tick ==
    /\ \A l \in Lookup : step[l] = "got" => wait[l] < Delay
    /\ since' = IF since < Settled THEN since + 1 ELSE since
    /\ wait' = [l \in Lookup |-> IF step[l] = "got" THEN wait[l] + 1 ELSE 0]
    /\ cache' = [n \in Node |-> IF Expires(n) THEN Absent ELSE cache[n]]
    /\ age' = [n \in Node |->
          IF cache[n] = Absent \/ Expires(n) \/ age[n] = CacheTime
          THEN 0 ELSE age[n] + 1]
    /\ UNCHANGED <<key, sock, step, at, info, ahead>>

\* The process ends and starts again, with nothing in its memory.
Restart(n) ==
    /\ sock' = [c \in Conn |-> IF NodeOf[c] = n THEN "none" ELSE sock[c]]
    /\ invalidateConnectionCache(n)
    /\ step' = [l \in Lookup |-> IF at[l] = n THEN "idle" ELSE step[l]]
    /\ wait' = [l \in Lookup |-> IF at[l] = n THEN 0 ELSE wait[l]]
    /\ Replied(Pending(n))
    /\ UNCHANGED <<stored, at, info>>

Connection(c) ==
    Grant(c) \/ Abort(c) \/ Join(c) \/ Leave(c) \/ Release(c) \/ Left(c)

Answer(l) == Read(l) \/ Fill(l) \/ ReadError(l) \/ Done(l) \/ Retry(l)

Next ==
    \/ \E c \in Conn : Connection(c)
    \/ \E l \in Lookup : Answer(l)
    \/ \E l \in Lookup, n \in Node : Hit(l, n) \/ Miss(l, n)
    \/ \E n \in Node : Restart(n)
    \/ Expire \/ Tick

Spec == Init /\ [][Next]_vars

-----------------------------------------------------------------------------
(* Properties.                                                             *)

\* Once the key has stood still for a cache lifetime and a reply's wait, every
\* node that has an entry has the right one.
CachesSettle ==
    since = Settled => \A n \in Node : cache[n] \in {Absent, Address}

\* What is out of date is so since the key changed, not longer than the entry
\* is old and its GET was on its way; and a reply on its way, since its GET.
\* This is inductive.
StaleIsYoung ==
    /\ \A n \in Node :
          cache[n] # Absent =>
              /\ age[n] < CacheTime
              /\ cache[n] # Address => since <= age[n] + Delay
    /\ \A l \in Lookup :
          step[l] = "got" /\ info[l] # Address => since <= wait[l]

\* A node to which the openHAB is connected does not say it is elsewhere, or
\* offline (socket-server.ts: "Invalidate connection cache so middleware sees
\* updated status"): no lookup that read the key before fills the cache after.
SeesOwnConnection ==
    \A c \in Conn :
        sock[c] = "joined" /\ key = c => cache[NodeOf[c]] \in {Absent, NodeOf[c]}

\* A lookup that read the key before a connection's SET is answered before the
\* connection is.  With the order of replies this is inductive.
AnsweredFirst ==
    \A c \in Conn :
        /\ sock[c] = "joined" => ahead[c] = {}
        /\ sock[c] \in {"granted", "joined"} /\ key = c =>
              \A l \in Pending(NodeOf[c]) : info[l] = NodeOf[c] \/ l \in ahead[c]

\* The inductive invariant.
CacheInv == TypeOK /\ StaleIsYoung /\ AnsweredFirst /\ SeesOwnConnection

\* Where each lookup is, and what it has found, as seen by who asked.
phase == [l \in Lookup |->
    CASE step[l] = "idle" -> "idle"
      [] step[l] = "routed" -> "found"
      [] OTHER -> "looking"]
known == [l \in Lookup |-> IF step[l] = "routed" THEN info[l] ELSE Offline]

Contract == INSTANCE Whereabouts WITH
    place <- Address, settled <- since = Settled, state <- phase, found <- known

\* The caches, their races and their age are hidden behind a lookup that is right
\* once the key has settled: all that the forwarding of requests relies on.
ImplementsWhereabouts == Contract!WSpec
=============================================================================
