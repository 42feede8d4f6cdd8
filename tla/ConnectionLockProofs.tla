------------------------ MODULE ConnectionLockProofs ------------------------
(***************************************************************************)
(* What holds of the connection lock whatever the delays: its types and    *)
(* its leases.  And what holds while its lease is long enough (Timely): a  *)
(* connection owns its lock from the SET to the end of its release, so an  *)
(* openHAB has at most one, a release deletes no other connection's lock   *)
(* although a node's sockets share one Redis client, only a lost Redis     *)
(* connection makes a heartbeat fail, and the lock implements              *)
(* SingleConnection.                                                       *)
(***************************************************************************)
EXTENDS TimelyConnectionLock, TLAPS

-----------------------------------------------------------------------------
(* Type correctness.                                                       *)

\* The helpers on the Redis state keep its types.
LEMMA TouchType ==
    ASSUME TypeOK, NEW o \in Openhab, NEW n \in Node
    PROVE  /\ Touch(o) \in [Node -> BOOLEAN]
           /\ ExecTouch(n, o) \in [Node -> BOOLEAN]
           /\ Extend(o) \in [Openhab -> 0..LockTime]
BY TimeAssumption DEF TypeOK, Touch, ExecTouch, Extend

LEMMA DisconnectType ==
    ASSUME TypeOK, NEW S \in SUBSET Conn, Disconnect(S)
    PROVE  /\ sock' \in [Conn -> Phase]
           /\ age' \in [Conn -> 0..Delay]
           /\ quiet' \in [Conn -> 0..PingDeadline]
BY TimeAssumption DEF TypeOK, Disconnect, Phase, Releasing

\* The parameters of an action are in their sets, and ticks count from 0.
LEMMA Parameters ==
    ASSUME NEW c \in Conn
    PROVE  /\ NodeOf[c] \in Node
           /\ OpenhabOf[c] \in Openhab
           /\ 0 \in 0..Delay /\ 0 \in 0..PingDeadline
           /\ 0 \in 0..LockTime /\ LockTime \in 0..LockTime
BY ConnAssumption, TimeAssumption

LEMMA ServeType ==
    ASSUME TypeOK, NEW c \in Conn, Serve(c)
    PROVE  TypeOK'
<1> USE Parameters DEF Phase, Releasing
<1>1. CASE Refuse(c)
  BY <1>1 DEF TypeOK, Refuse
<1>2. CASE AcquireExec(c)
  <2> DEFINE o == OpenhabOf[c]
  <2>1. o \in Openhab /\ NodeOf[c] \in Node
    OBVIOUS
  <2>2. Touch(o) \in [Node -> BOOLEAN]
    BY <2>1, TouchType
  <2>3. CASE Store(o, c) /\ sock' = [sock EXCEPT ![c] = "granted"]
    BY <1>2, <2>1, <2>2, <2>3 DEF TypeOK, AcquireExec, Store
  <2>4. CASE UNCHANGED <<lock, ttl, dirty>> /\ sock' = [sock EXCEPT ![c] = "refused"]
    BY <1>2, <2>4 DEF TypeOK, AcquireExec
  <2>5. QED
    BY <1>2, <2>3, <2>4 DEF AcquireExec
<1>3. CASE AcquireReply(c)
  BY <1>3 DEF TypeOK, AcquireReply
<1>4. CASE RenewExec(c)
  <2>1. /\ ExecTouch(NodeOf[c], OpenhabOf[c]) \in [Node -> BOOLEAN]
        /\ Extend(OpenhabOf[c]) \in [Openhab -> 0..LockTime]
    BY TouchType
  <2>2. /\ dirty' \in [Node -> BOOLEAN]
        /\ ttl' \in [Openhab -> 0..LockTime]
    BY <1>4, <2>1 DEF TypeOK, RenewExec
  <2>3. QED
    BY <1>4, <2>2 DEF TypeOK, RenewExec
<1>5. CASE RenewReply(c)
  BY <1>5 DEF TypeOK, RenewReply
<1>6. CASE PingTimeout(c)
  BY <1>6, DisconnectType DEF TypeOK, PingTimeout
<1>7. CASE ReleaseWatch(c)
  BY <1>7 DEF TypeOK, ReleaseWatch
<1>8. CASE ReleaseGet(c)
  BY <1>8 DEF TypeOK, ReleaseGet
<1>9. CASE ReleaseExec(c)
  <2>1. ExecTouch(NodeOf[c], OpenhabOf[c]) \in [Node -> BOOLEAN]
    BY TouchType
  <2>2. dirty' \in [Node -> BOOLEAN]
    BY <1>9, <2>1 DEF TypeOK, ReleaseExec
  <2>3. sock' \in [Conn -> Phase]
    BY <1>9 DEF TypeOK, ReleaseExec
  <2>4. /\ lock' \in [Openhab -> Conn \cup {NoConn}]
        /\ ttl' \in [Openhab -> 0..LockTime]
    BY <1>9 DEF TypeOK, ReleaseExec
  <2>5. QED
    BY <1>9, <2>2, <2>3, <2>4 DEF TypeOK, ReleaseExec
<1>10. CASE ReleaseUnwatch(c)
  BY <1>10 DEF TypeOK, ReleaseUnwatch, Forget
<1>11. QED
  BY <1>1, <1>2, <1>3, <1>4, <1>5, <1>6, <1>7, <1>8, <1>9, <1>10 DEF Serve

LEMMA ClientType ==
    ASSUME TypeOK, NEW c \in Conn, Client(c)
    PROVE  TypeOK'
<1> USE Parameters DEF Phase, Releasing
<1>1. CASE Begin(c)
  BY <1>1 DEF TypeOK, Begin
<1>2. CASE Ping(c)
  BY <1>2 DEF TypeOK, Ping
<1>3. CASE Pong(c)
  BY <1>3 DEF TypeOK, Pong
<1>4. CASE ClientClose(c)
  BY <1>4, DisconnectType DEF TypeOK, ClientClose
<1>5. CASE ClientAbort(c)
  BY <1>5 DEF TypeOK, ClientAbort
<1>6. QED
  BY <1>1, <1>2, <1>3, <1>4, <1>5 DEF Client

LEMMA TickType ==
    ASSUME TypeOK, Tick
    PROVE  TypeOK'
<1>1. /\ ttl' \in [Openhab -> 0..LockTime]
      /\ lock' \in [Openhab -> Conn \cup {NoConn}]
      /\ dirty' \in [Node -> BOOLEAN]
  BY TimeAssumption DEF TypeOK, Tick
<1>2. age' \in [Conn -> 0..Delay]
  <2> SUFFICES ASSUME NEW c \in Conn
               PROVE  (IF Waiting(c) THEN age[c] + 1 ELSE 0) \in 0..Delay
    BY DEF Tick
  <2>1. age[c] \in 0..Delay /\ (Waiting(c) => age[c] < Delay)
    BY DEF TypeOK, Tick
  <2>2. QED
    BY <2>1, TimeAssumption
<1>3. quiet' \in [Conn -> 0..PingDeadline]
  <2> SUFFICES ASSUME NEW c \in Conn
               PROVE  (IF sock[c] = "connected" THEN quiet[c] + 1 ELSE 0) \in 0..PingDeadline
    BY DEF Tick
  <2>1. quiet[c] \in 0..PingDeadline /\ (sock[c] = "connected" => quiet[c] < PingDeadline)
    BY DEF TypeOK, Tick
  <2>2. QED
    BY <2>1, TimeAssumption
<1>4. QED
  BY <1>1, <1>2, <1>3 DEF TypeOK, Tick

LEMMA NodeType ==
    ASSUME TypeOK, NEW n \in Node, RedisDrop(n) \/ Drain(n) \/ Restart(n)
    PROVE  TypeOK'
<1> USE TimeAssumption DEF Phase, Releasing
<1>1. CASE RedisDrop(n)
  <2>1. sock' \in [Conn -> Phase]
    BY <1>1 DEF TypeOK, RedisDrop, On
  <2>2. /\ open' \in [Conn -> BOOLEAN]
        /\ renew' \in [Conn -> {"idle", "sent", "lost"}]
        /\ age' \in [Conn -> 0..Delay]
        /\ quiet' \in [Conn -> 0..PingDeadline]
    BY <1>1 DEF TypeOK, RedisDrop
  <2>3. QED
    BY <1>1, <2>1, <2>2 DEF TypeOK, RedisDrop, Forget
<1>2. CASE Drain(n)
  <2>1. {c \in On(n) : sock[c] = "connected"} \in SUBSET Conn
    BY DEF On
  <2>2. QED
    BY <1>2, <2>1, DisconnectType DEF TypeOK, Drain
<1>3. CASE Restart(n)
  BY <1>3 DEF TypeOK, Restart, Forget
<1>4. QED
  BY <1>1, <1>2, <1>3

LEMMA TypeStep ==
    ASSUME TypeOK, [Next]_vars
    PROVE  TypeOK'
<1>1. CASE Next
  BY <1>1, ServeType, ClientType, TickType, NodeType DEF Next
<1>2. CASE UNCHANGED vars
  BY <1>2 DEF TypeOK, vars
<1>3. QED
  BY <1>1, <1>2

\* Every reachable state is well typed; in particular no lease exceeds
\* connectionLockTimeSeconds, whatever renewals are executed.
THEOREM TypeCorrect == Spec => []TypeOK
<1>1. Init => TypeOK
  BY TimeAssumption DEF Init, TypeOK, Phase
<1>2. TypeOK /\ [Next]_vars => TypeOK'
  BY TypeStep
<1>3. QED
  BY <1>1, <1>2, PTL DEF Spec

-----------------------------------------------------------------------------
(* Leases.                                                                 *)

\* Only the SET, a renewal, a release and the passing of time write locks.
LEMMA LockWrites ==
    ASSUME Next
    PROVE  \/ UNCHANGED <<lock, ttl>>
           \/ Tick
           \/ \E c \in Conn : AcquireExec(c) \/ RenewExec(c) \/ ReleaseExec(c)
<1>1. CASE \E c \in Conn : Serve(c)
  BY <1>1 DEF Serve, Refuse, AcquireReply, RenewReply, PingTimeout,
              ReleaseWatch, ReleaseGet, ReleaseUnwatch
<1>2. CASE \E c \in Conn : Client(c)
  BY <1>2 DEF Client, Begin, Ping, Pong, ClientClose, ClientAbort
<1>3. CASE \E n \in Node : RedisDrop(n) \/ Drain(n) \/ Restart(n)
  BY <1>3 DEF RedisDrop, Drain, Restart
<1>4. QED
  BY <1>1, <1>2, <1>3 DEF Next

LEMMA KeyHasLeaseStep ==
    ASSUME TypeOK, KeyHasLease, [Next]_vars
    PROVE  KeyHasLease'
<1> USE ConnAssumption, TimeAssumption
<1>1. CASE UNCHANGED <<lock, ttl>>
  BY <1>1 DEF KeyHasLease
<1>2. CASE Tick
  BY <1>2 DEF Tick, TypeOK, KeyHasLease
<1>3. ASSUME NEW c \in Conn, AcquireExec(c)
      PROVE  KeyHasLease'
  BY <1>3, Parameters DEF AcquireExec, Store, TypeOK, KeyHasLease
<1>4. ASSUME NEW c \in Conn, RenewExec(c)
      PROVE  KeyHasLease'
  BY <1>4, Parameters DEF RenewExec, Extend, TypeOK, KeyHasLease
<1>5. ASSUME NEW c \in Conn, ReleaseExec(c)
      PROVE  KeyHasLease'
  BY <1>5, Parameters DEF ReleaseExec, TypeOK, KeyHasLease
<1>6. QED
  BY <1>1, <1>2, <1>3, <1>4, <1>5, LockWrites DEF vars

\* Every lock has a lease that is running: acquireLock stores the key with its
\* expiry in one command, so no crash, lost reply or abandoned handshake leaves
\* a lock that keeps an openHAB out for ever.
THEOREM EveryLockExpires == Spec => []KeyHasLease
<1>1. Init => KeyHasLease
  <2> SUFFICES ASSUME Init, NEW o \in Openhab
               PROVE  lock[o] = NoConn /\ ttl[o] = 0
    BY DEF KeyHasLease
  <2>1. QED
    BY DEF Init
<1>2. TypeOK /\ KeyHasLease /\ [Next]_vars => KeyHasLease'
  BY KeyHasLeaseStep
<1>3. QED
  BY <1>1, <1>2, TypeCorrect, PTL DEF Spec

-----------------------------------------------------------------------------
(* While the lease is long enough.                                         *)

\* The numbers a step compares: all natural, and the lease outlasts them.
LEMMA Numbers ==
    ASSUME Timely, TypeOK, NEW c \in Conn
    PROVE  /\ age[c] \in Nat /\ age[c] <= Delay
           /\ quiet[c] \in Nat /\ quiet[c] <= PingDeadline
           /\ ttl[OpenhabOf[c]] \in Nat /\ ttl[OpenhabOf[c]] <= LockTime
           /\ LockTime \in Nat /\ PingDeadline \in Nat /\ Delay \in Nat
           /\ Delay > 0 /\ PingDeadline > 0
           /\ LockTime > PingDeadline + 5 * Delay
<1>1. /\ age[c] \in 0..Delay
      /\ quiet[c] \in 0..PingDeadline
      /\ ttl[OpenhabOf[c]] \in 0..LockTime
  BY Parameters DEF TypeOK
<1>2. QED
  BY <1>1, TimeAssumption DEF Timely

\* What each phase may have spent of its lease.
LEMMA SpentIn ==
    ASSUME NEW c \in Conn
    PROVE  /\ sock[c] = "granted" => Spent(c) = age[c]
           /\ sock[c] = "connected" /\ renew[c] = "idle" => Spent(c) = Delay + quiet[c]
           /\ sock[c] = "connected" /\ renew[c] # "idle" =>
                 Spent(c) = Delay + PingDeadline + age[c]
           /\ sock[c] = "watch" => Spent(c) = 2 * Delay + PingDeadline + age[c]
           /\ sock[c] = "get" => Spent(c) = 3 * Delay + PingDeadline + age[c]
           /\ sock[c] = "del" => Spent(c) = 4 * Delay + PingDeadline + age[c]
BY DEF Spent

\* While a connection holds its lock the lease has time left.
LEMMA LeaseLeft ==
    ASSUME Timely, LeaseInv, NEW c \in Conn, sock[c] \in Holding
    PROVE  /\ lock[OpenhabOf[c]] = c
           /\ ttl[OpenhabOf[c]] > 0
           /\ age[c] < Delay => ttl[OpenhabOf[c]] > 1
<1>1. TypeOK /\ lock[OpenhabOf[c]] = c /\ ttl[OpenhabOf[c]] + Spent(c) >= LockTime
  BY DEF LeaseInv, LeaseHeld
<1>2. Spent(c) \in Nat /\ Spent(c) <= PingDeadline + 4 * Delay + age[c]
  BY <1>1, Numbers, SpentIn DEF Holding
<1>3. QED
  BY <1>1, <1>2, Numbers

LEMMA SpentInNext ==
    ASSUME NEW c \in Conn
    PROVE  /\ sock'[c] = "granted" => Spent(c)' = age'[c]
           /\ sock'[c] = "connected" /\ renew'[c] = "idle" => Spent(c)' = Delay + quiet'[c]
           /\ sock'[c] = "connected" /\ renew'[c] # "idle" =>
                 Spent(c)' = Delay + PingDeadline + age'[c]
           /\ sock'[c] = "watch" => Spent(c)' = 2 * Delay + PingDeadline + age'[c]
           /\ sock'[c] = "get" => Spent(c)' = 3 * Delay + PingDeadline + age'[c]
           /\ sock'[c] = "del" => Spent(c)' = 4 * Delay + PingDeadline + age'[c]
BY DEF Spent

\* What a step leaves alone of a connection.
Same(c) == /\ sock'[c] = sock[c] /\ renew'[c] = renew[c]
           /\ age'[c] = age[c] /\ quiet'[c] = quiet[c]

\* A step of one connection leaves the others where they are.
LEMMA OthersStay ==
    ASSUME TypeOK, NEW d \in Conn, Serve(d) \/ Client(d), NEW c \in Conn, c # d
    PROVE  Same(c)
<1> USE DEF TypeOK, Same, Disconnect, Forget
<1>1. CASE Client(d)
  BY <1>1 DEF Client, Begin, Ping, Pong, ClientClose, ClientAbort
<1>2. CASE Refuse(d) \/ AcquireExec(d) \/ AcquireReply(d)
  BY <1>2 DEF Refuse, AcquireExec, Store, AcquireReply
<1>3. CASE RenewExec(d) \/ RenewReply(d) \/ PingTimeout(d)
  BY <1>3 DEF RenewExec, RenewReply, PingTimeout
<1>4. CASE ReleaseWatch(d) \/ ReleaseGet(d) \/ ReleaseUnwatch(d)
  BY <1>4 DEF ReleaseWatch, ReleaseGet, ReleaseUnwatch
<1>5. CASE ReleaseExec(d)
  BY <1>5 DEF ReleaseExec
<1>6. QED
  BY <1>1, <1>2, <1>3, <1>4, <1>5 DEF Serve

LEMMA SameSpent ==
    ASSUME NEW c \in Conn, Same(c)
    PROVE  Spent(c)' = Spent(c)
BY DEF Same, Spent

\* A connection that keeps its phase keeps its lock while the lock and its
\* lease are not taken away.
LEMMA SameHolds ==
    ASSUME Timely, LeaseInv, TypeOK', NEW c \in Conn, Same(c), sock'[c] \in Holding,
           lock'[OpenhabOf[c]] = lock[OpenhabOf[c]],
           ttl'[OpenhabOf[c]] >= ttl[OpenhabOf[c]]
    PROVE  lock'[OpenhabOf[c]] = c /\ ttl'[OpenhabOf[c]] + Spent(c)' >= LockTime
<1> DEFINE o == OpenhabOf[c]
<1>1. sock[c] \in Holding /\ lock[o] = c /\ ttl[o] + Spent(c) >= LockTime
  BY DEF Same, LeaseInv, LeaseHeld
<1>2. Spent(c)' = Spent(c)
  BY SameSpent
<1>3. ttl[o] \in Nat /\ ttl'[o] \in Nat /\ LockTime \in Nat
  BY Parameters, TimeAssumption DEF TypeOK, LeaseInv
<1>4. Spent(c) \in Nat
  BY <1>1, Numbers, SpentIn DEF Holding, LeaseInv
<1>5. QED
  BY <1>1, <1>2, <1>3, <1>4

-----------------------------------------------------------------------------
(* LeaseHeld is preserved, action by action.                               *)

Holds(c) == sock[c] \in Holding =>
    lock[OpenhabOf[c]] = c /\ ttl[OpenhabOf[c]] + Spent(c) >= LockTime

\* A disconnecting socket still owns its lock, with time for the release.
LEMMA DisconnectHolds ==
    ASSUME Timely, LeaseInv, TypeOK', UNCHANGED <<lock, ttl>>,
           NEW c \in Conn, sock[c] = "connected", sock'[c] = "watch", age'[c] = 0
    PROVE  Holds(c)'
<1> DEFINE o == OpenhabOf[c]
<1>1. lock[o] = c /\ ttl[o] + Spent(c) >= LockTime
  BY DEF LeaseInv, LeaseHeld, Holding
<1>2. Spent(c) \in Nat /\ Spent(c) <= 2 * Delay + PingDeadline
  BY Numbers, SpentIn DEF LeaseInv
<1>3. Spent(c)' = 2 * Delay + PingDeadline
  BY SpentInNext, Numbers DEF LeaseInv
<1>4. QED
  BY <1>1, <1>2, <1>3, Numbers DEF Holds, LeaseInv

LEMMA ServeHolds ==
    ASSUME Timely, LeaseInv, TypeOK', NEW c \in Conn, Serve(c)
    PROVE  Holds(c)'
<1> DEFINE o == OpenhabOf[c]
<1> USE Parameters
<1>0. TypeOK
  BY DEF LeaseInv
<1>1. CASE Refuse(c)
  BY <1>0, <1>1 DEF Refuse, TypeOK, Holds, Holding
<1>2. CASE AcquireExec(c)
  <2>1. CASE sock'[c] = "granted"
    <3>1. lock'[o] = c /\ ttl'[o] = LockTime
      BY <1>0, <1>2, <2>1 DEF AcquireExec, Store, TypeOK
    <3>2. Spent(c)' = age[c]
      BY <1>2, <2>1, SpentInNext DEF AcquireExec
    <3>3. QED
      BY <1>0, <3>1, <3>2, Numbers DEF Holds
  <2>2. CASE sock'[c] = "refused"
    BY <2>2 DEF Holds, Holding
  <2>3. QED
    BY <1>0, <1>2, <2>1, <2>2 DEF AcquireExec, TypeOK
<1>3. CASE AcquireReply(c)
  <2>1. CASE sock[c] = "granted" /\ open[c]
    <3>1. sock'[c] = "connected" /\ UNCHANGED <<lock, ttl, renew, quiet>>
      BY <1>0, <1>3, <2>1 DEF AcquireReply, TypeOK
    <3>2. renew[c] = "idle"
      BY <1>0, <2>1 DEF LeaseInv, RenewPhase, TypeOK
    <3>3. lock[o] = c /\ ttl[o] + age[c] >= LockTime
      BY <2>1, SpentIn DEF LeaseInv, LeaseHeld, Holding
    <3>4. Spent(c)' = Delay + quiet[c]
      BY <3>1, <3>2, SpentInNext
    <3>5. QED
      BY <1>0, <3>1, <3>3, <3>4, Numbers DEF Holds
  <2>2. CASE ~(sock[c] = "granted" /\ open[c])
    BY <1>0, <1>3, <2>2 DEF AcquireReply, TypeOK, Holds, Holding
  <2>3. QED
    BY <2>1, <2>2
<1>4. CASE RenewExec(c)
  <2>1. renew[c] = "sent" /\ sock[c] \in {"connected", "watch"} /\ ~dirty[NodeOf[c]]
    BY <1>4 DEF RenewExec, LeaseInv, RenewPhase, WatchesOwnKey
  <2>2. lock[o] = c
    BY <2>1 DEF LeaseInv, LeaseHeld, Holding
  <2>3. /\ lock'[o] = c /\ ttl'[o] = LockTime /\ sock'[c] = sock[c] /\ age'[c] = 0
        /\ renew'[c] = "idle" /\ quiet' = quiet
    BY <1>0, <1>4, <2>1, <2>2, ConnAssumption DEF RenewExec, Extend, TypeOK
  <2>4. Spent(c)' \in Nat
    BY <1>0, <2>1, <2>3, SpentInNext, Numbers
  <2>5. QED
    BY <1>0, <2>3, <2>4, Numbers DEF Holds
<1>5. CASE RenewReply(c)
  BY <1>5 DEF RenewReply, LeaseInv, RenewPhase
<1>6. CASE PingTimeout(c)
  BY <1>0, <1>6, DisconnectHolds DEF PingTimeout, Disconnect
<1>7. CASE ReleaseWatch(c)
  <2>1. lock[o] = c /\ ttl[o] + (2 * Delay + PingDeadline + age[c]) >= LockTime
    BY <1>7, SpentIn DEF ReleaseWatch, LeaseInv, LeaseHeld, Holding
  <2>2. sock'[c] = "get" /\ age'[c] = 0 /\ UNCHANGED <<lock, ttl>>
    BY <1>0, <1>7 DEF ReleaseWatch, TypeOK
  <2>3. Spent(c)' = 3 * Delay + PingDeadline
    BY <1>0, <2>2, SpentInNext, Numbers
  <2>4. QED
    BY <1>0, <2>1, <2>2, <2>3, Numbers DEF Holds
<1>8. CASE ReleaseGet(c)
  <2>1. lock[o] = c /\ ttl[o] + (3 * Delay + PingDeadline + age[c]) >= LockTime
    BY <1>8, SpentIn DEF ReleaseGet, LeaseInv, LeaseHeld, Holding
  <2>2. sock'[c] = "del" /\ age'[c] = 0 /\ UNCHANGED <<lock, ttl>>
    BY <1>0, <1>8, <2>1 DEF ReleaseGet, TypeOK
  <2>3. Spent(c)' = 4 * Delay + PingDeadline
    BY <1>0, <2>2, SpentInNext, Numbers
  <2>4. QED
    BY <1>0, <2>1, <2>2, <2>3, Numbers DEF Holds
<1>9. CASE ReleaseExec(c)
  BY <1>0, <1>9 DEF ReleaseExec, TypeOK, Holds, Holding
<1>10. CASE ReleaseUnwatch(c)
  BY <1>0, <1>10 DEF ReleaseUnwatch, TypeOK, Holds, Holding
<1>11. QED
  BY <1>1, <1>2, <1>3, <1>4, <1>5, <1>6, <1>7, <1>8, <1>9, <1>10 DEF Serve

LEMMA ClientHolds ==
    ASSUME Timely, LeaseInv, TypeOK', NEW c \in Conn, Client(c)
    PROVE  Holds(c)'
<1> DEFINE o == OpenhabOf[c]
<1> USE Parameters
<1>0. TypeOK
  BY DEF LeaseInv
<1>1. CASE Begin(c)
  BY <1>0, <1>1 DEF Begin, TypeOK, Holds, Holding
<1>2. CASE Ping(c)
  <2>1. lock[o] = c /\ ttl[o] + (Delay + quiet[c]) >= LockTime
    BY <1>2, SpentIn DEF Ping, LeaseInv, LeaseHeld, Holding
  <2>2. /\ sock'[c] = "connected" /\ renew'[c] = "sent" /\ age'[c] = 0
        /\ UNCHANGED <<lock, ttl>>
    BY <1>0, <1>2 DEF Ping, TypeOK
  <2>3. Spent(c)' = Delay + PingDeadline
    BY <1>0, <2>2, SpentInNext, Numbers
  <2>4. QED
    BY <1>0, <2>1, <2>2, <2>3, Numbers DEF Holds
<1>3. CASE Pong(c)
  BY <1>3 DEF Timely, Pong
<1>4. CASE ClientClose(c)
  BY <1>0, <1>4, DisconnectHolds DEF ClientClose, Disconnect
<1>5. CASE ClientAbort(c)
  <2>1. Same(c) /\ UNCHANGED <<lock, ttl>>
    BY <1>5 DEF ClientAbort, Same
  <2>2. ttl'[o] >= ttl[o]
    BY <1>0, <2>1, Numbers
  <2>3. QED
    BY <2>1, <2>2, SameHolds DEF Holds
<1>6. QED
  BY <1>1, <1>2, <1>3, <1>4, <1>5 DEF Client

\* A step of d takes no lock from another connection.
LEMMA OthersHold ==
    ASSUME Timely, LeaseInv, TypeOK', NEW d \in Conn, Serve(d) \/ Client(d),
           NEW c \in Conn, c # d
    PROVE  Holds(c)'
<1> DEFINE o == OpenhabOf[c]
<1> USE Parameters
<1>0. TypeOK /\ Same(c)
  BY OthersStay DEF LeaseInv
<1> SUFFICES ASSUME sock'[c] \in Holding
             PROVE  lock'[o] = lock[o] /\ ttl'[o] >= ttl[o]
  BY <1>0, SameHolds DEF Holds
<1>2. lock[o] = c /\ sock[c] \in Holding /\ c # NoConn
  BY <1>0, ConnAssumption DEF Same, LeaseInv, LeaseHeld
<1>3. ttl[o] \in Nat /\ ttl[o] <= LockTime /\ LockTime \in Nat
  BY <1>0, Numbers
<1>4. CASE UNCHANGED <<lock, ttl>>
  BY <1>3, <1>4
<1>5. CASE AcquireExec(d)
  BY <1>0, <1>2, <1>3, <1>5 DEF AcquireExec, Free, Store, TypeOK
<1>6. CASE RenewExec(d)
  <2>1. ttl'[o] \in {ttl[o], LockTime} /\ lock' = lock
    BY <1>0, <1>2, <1>6 DEF RenewExec, Extend, TypeOK
  <2>2. QED
    BY <1>3, <2>1
<1>7. CASE ReleaseExec(d)
  <2>1. lock[OpenhabOf[d]] = d
    BY <1>7 DEF ReleaseExec, LeaseInv, LeaseHeld, Holding
  <2>2. OpenhabOf[d] # o
    BY <1>2, <2>1
  <2>3. QED
    BY <1>0, <1>3, <1>7, <2>2 DEF ReleaseExec, TypeOK
<1>8. QED
  BY <1>4, <1>5, <1>6, <1>7 DEF Serve, Client, Refuse, AcquireReply, RenewReply,
     PingTimeout, ReleaseWatch, ReleaseGet, ReleaseUnwatch, Begin, Ping, Pong,
     ClientClose, ClientAbort

LEMMA TickHolds ==
    ASSUME Timely, LeaseInv, TypeOK', Tick, NEW c \in Conn
    PROVE  Holds(c)'
<1> DEFINE o == OpenhabOf[c]
<1> USE Parameters
<1>0. TypeOK
  BY DEF LeaseInv
<1> SUFFICES ASSUME sock[c] \in Holding
             PROVE  lock'[o] = c /\ ttl'[o] + Spent(c)' >= LockTime
  BY DEF Tick, Holds
<1>1. lock[o] = c /\ ttl[o] > 0 /\ ttl[o] + Spent(c) >= LockTime
  BY LeaseLeft DEF LeaseInv, LeaseHeld
<1>2. CASE Waiting(c)
  <2>1. age[c] < Delay /\ age'[c] = age[c] + 1
    BY <1>2 DEF Tick
  <2>2. ttl[o] > 1
    BY <2>1, LeaseLeft
  <2>3. lock'[o] = c /\ ttl'[o] = ttl[o] - 1
    BY <1>0, <1>1, <2>2 DEF Tick, TypeOK
  <2>4. sock'[c] = sock[c] /\ renew'[c] = renew[c]
    BY DEF Tick
  <2>5. ~(sock[c] = "connected" /\ renew[c] = "idle")
    BY <1>2 DEF Waiting, Releasing
  <2>6. Spent(c) \in Nat /\ Spent(c)' = Spent(c) + 1
    BY <1>0, <2>1, <2>4, <2>5, SpentIn, SpentInNext, Numbers DEF Holding
  <2>7. QED
    BY <1>0, <1>1, <2>3, <2>6, Numbers
<1>3. CASE ~Waiting(c)
  <2>1. sock[c] = "connected" /\ renew[c] = "idle"
    BY <1>3 DEF Waiting, Releasing, Holding
  <2>2. quiet'[c] = quiet[c] + 1
    BY <2>1 DEF Tick
  <2>3. Spent(c) = Delay + quiet[c] /\ Spent(c)' = Delay + quiet[c] + 1
    BY <1>0, <2>1, <2>2, SpentIn, SpentInNext, Numbers DEF Tick
  <2>4. ttl[o] > 1
    BY <1>0, <1>1, <2>3, Numbers
  <2>5. lock'[o] = c /\ ttl'[o] = ttl[o] - 1
    BY <1>0, <1>1, <2>4 DEF Tick, TypeOK
  <2>6. QED
    BY <1>0, <1>1, <2>3, <2>5, Numbers
<1>4. QED
  BY <1>2, <1>3

LEMMA NodeHolds ==
    ASSUME Timely, LeaseInv, TypeOK', NEW n \in Node,
           RedisDrop(n) \/ Drain(n) \/ Restart(n), NEW c \in Conn
    PROVE  Holds(c)'
<1> DEFINE o == OpenhabOf[c]
<1>0. TypeOK /\ UNCHANGED <<lock, ttl>>
  BY DEF LeaseInv, RedisDrop, Drain, Restart
<1>1. ttl'[o] >= ttl[o]
  BY <1>0, Numbers
<1>2. CASE Same(c)
  BY <1>0, <1>1, <1>2, SameHolds DEF Holds
<1>3. CASE sock'[c] \notin Holding
  BY <1>3 DEF Holds
<1>4. CASE sock[c] = "connected" /\ sock'[c] = "watch" /\ age'[c] = 0
  BY <1>0, <1>4, DisconnectHolds
<1>5. CASE sock[c] = "connected" /\ renew[c] = "idle"
           /\ sock'[c] = "connected" /\ renew'[c] = "idle" /\ quiet'[c] = quiet[c]
  <2>1. lock[o] = c /\ ttl[o] + Spent(c) >= LockTime /\ Spent(c)' = Spent(c)
    BY <1>5, SpentIn, SpentInNext DEF LeaseInv, LeaseHeld, Holding
  <2>2. QED
    BY <1>0, <2>1 DEF Holds
<1>6. CASE RedisDrop(n)
  <2>1. CASE c \notin On(n)
    BY <1>0, <1>2, <1>6, <2>1 DEF RedisDrop, Same, TypeOK
  <2>2. CASE c \in On(n) /\ sock[c] = "connected" /\ renew[c] = "idle"
    BY <1>0, <1>5, <1>6, <2>2 DEF RedisDrop, TypeOK
  <2>3. CASE c \in On(n) /\ sock[c] = "connected" /\ renew[c] # "idle"
    BY <1>0, <1>4, <1>6, <2>3 DEF RedisDrop, TypeOK
  <2>4. CASE c \in On(n) /\ sock[c] # "connected"
    BY <1>0, <1>3, <1>6, <2>4 DEF RedisDrop, TypeOK, Phase, Releasing, Holding
  <2>5. QED
    BY <2>1, <2>2, <2>3, <2>4
<1>7. CASE Drain(n)
  BY <1>0, <1>2, <1>4, <1>7 DEF Drain, Disconnect, Same, TypeOK
<1>8. CASE Restart(n)
  BY <1>0, <1>2, <1>3, <1>8 DEF Restart, Same, TypeOK, Holding
<1>9. QED
  BY <1>6, <1>7, <1>8

LEMMA LeaseHeldStep ==
    ASSUME Timely, LeaseInv, TypeOK', [Next]_vars
    PROVE  LeaseHeld'
<1> SUFFICES ASSUME NEW c \in Conn
             PROVE  Holds(c)'
  BY DEF LeaseHeld, Holds
<1>1. CASE UNCHANGED vars
  <2>1. Holds(c) /\ Same(c) /\ UNCHANGED <<sock, lock, ttl>>
    BY <1>1 DEF vars, Same, LeaseInv, LeaseHeld, Holds
  <2>2. QED
    BY <2>1, SameSpent DEF Holds
<1>2. CASE Next
  BY <1>2, ServeHolds, ClientHolds, OthersHold, TickHolds, NodeHolds DEF Next
<1>3. QED
  BY <1>1, <1>2

-----------------------------------------------------------------------------
(* The other conjuncts.                                                    *)

LEMMA RenewPhaseStep ==
    ASSUME Timely, LeaseInv, [Next]_vars
    PROVE  RenewPhase'
<1> SUFFICES ASSUME NEW c \in Conn
             PROVE  /\ renew'[c] # "lost"
                    /\ renew'[c] = "sent" => sock'[c] \in {"connected", "watch"}
  BY DEF RenewPhase
<1>0. /\ TypeOK
      /\ renew[c] # "lost"
      /\ renew[c] = "sent" => sock[c] \in {"connected", "watch"}
  BY DEF LeaseInv, RenewPhase
<1>1. CASE UNCHANGED <<sock, renew>>
  BY <1>0, <1>1
<1>2. ASSUME NEW d \in Conn, Serve(d) \/ Client(d)
      PROVE  /\ renew'[c] # "lost"
             /\ renew'[c] = "sent" => sock'[c] \in {"connected", "watch"}
  <2>1. CASE c # d
    BY <1>0, <1>2, <2>1, OthersStay DEF Same
  <2>2. CASE c = d /\ RenewExec(c)
    <3>1. renew[c] = "sent" /\ ~dirty[NodeOf[c]]
      BY <2>2, Parameters DEF RenewExec, LeaseInv, WatchesOwnKey
    <3>2. lock[OpenhabOf[c]] = c
      BY <1>0, <3>1 DEF LeaseInv, LeaseHeld, Holding
    <3>3. renew'[c] = "idle"
      BY <1>0, <2>2, <3>1, <3>2 DEF RenewExec, TypeOK
    <3>4. QED
      BY <3>3
  <2>3. CASE c = d /\ Serve(c) /\ ~RenewExec(c)
    BY <1>0, <2>3 DEF Serve, Refuse, AcquireExec, AcquireReply, RenewReply,
       PingTimeout, Disconnect, ReleaseWatch, ReleaseGet, ReleaseExec,
       ReleaseUnwatch, TypeOK
  <2>4. CASE c = d /\ Client(c)
    BY <1>0, <2>4 DEF Client, Begin, Ping, Pong, ClientClose, ClientAbort,
       Disconnect, TypeOK
  <2>5. QED
    BY <1>2, <2>1, <2>2, <2>3, <2>4
<1>3. ASSUME NEW n \in Node, RedisDrop(n) \/ Drain(n) \/ Restart(n)
      PROVE  /\ renew'[c] # "lost"
             /\ renew'[c] = "sent" => sock'[c] \in {"connected", "watch"}
  <2>1. CASE RedisDrop(n)
    BY <1>0, <2>1 DEF RedisDrop, TypeOK
  <2>2. CASE Drain(n)
    BY <1>0, <2>2 DEF Drain, Disconnect, TypeOK
  <2>3. CASE Restart(n)
    BY <1>0, <2>3 DEF Restart, TypeOK
  <2>4. QED
    BY <1>3, <2>1, <2>2, <2>3
<1>4. QED
  BY <1>1, <1>2, <1>3 DEF Next, Tick, vars

\* The connection whose release watches o's key still owns it.
LEMMA WatcherOwns ==
    ASSUME Timely, LeaseInv, NEW n \in Node, NEW o \in watched[n]
    PROVE  \E c \in Conn : /\ NodeOf[c] = n /\ OpenhabOf[c] = o
                           /\ sock[c] \in {"get", "del"} /\ lock[o] = c
BY DEF LeaseInv, WatchesOwnKey, LeaseHeld, Holding

\* No write of another connection meets a watch.
LEMMA NeverDirty ==
    ASSUME Timely, LeaseInv, [Next]_vars, NEW n \in Node
    PROVE  ~dirty'[n]
<1> USE Parameters, ConnAssumption
<1>0. TypeOK /\ ~dirty[n]
  BY DEF LeaseInv, WatchesOwnKey
<1>1. CASE UNCHANGED dirty
  BY <1>0, <1>1
<1>2. CASE Tick
  <2>1. ASSUME NEW o \in watched[n], ttl[o] = 1
        PROVE  FALSE
    <3>1. PICK c \in Conn : OpenhabOf[c] = o /\ sock[c] \in {"get", "del"}
      BY WatcherOwns
    <3>2. age[c] < Delay
      BY <1>2, <3>1 DEF Tick, Waiting, Releasing
    <3>3. QED
      BY <2>1, <3>1, <3>2, LeaseLeft DEF Holding
  <2>2. QED
    BY <1>0, <1>2, <2>1 DEF Tick
<1>3. ASSUME NEW d \in Conn, AcquireExec(d)
      PROVE  ~dirty'[n]
  <2>1. Free(OpenhabOf[d]) => OpenhabOf[d] \notin watched[n]
    BY WatcherOwns DEF Free
  <2>2. QED
    BY <1>0, <1>3, <2>1 DEF AcquireExec, Store, Touch
<1>4. ASSUME NEW d \in Conn, RenewExec(d)
      PROVE  ~dirty'[n]
  <2>1. ~dirty[NodeOf[d]] /\ lock[OpenhabOf[d]] = d
    BY <1>4 DEF RenewExec, LeaseInv, RenewPhase, WatchesOwnKey, LeaseHeld, Holding
  <2>2. OpenhabOf[d] \notin watched[n]
    <3>1. sock[d] \notin {"get", "del"}
      BY <1>4 DEF RenewExec, LeaseInv, RenewPhase
    <3>2. QED
      BY <2>1, <3>1, WatcherOwns
  <2>3. QED
    BY <1>0, <1>4, <2>1, <2>2 DEF RenewExec, ExecTouch, Touch
<1>5. ASSUME NEW d \in Conn, ReleaseExec(d)
      PROVE  ~dirty'[n]
  <2>1. ~dirty[NodeOf[d]] /\ lock[OpenhabOf[d]] = d
    BY <1>5 DEF ReleaseExec, LeaseInv, WatchesOwnKey, LeaseHeld, Holding
  <2>2. n # NodeOf[d] => OpenhabOf[d] \notin watched[n]
    BY <2>1, WatcherOwns
  <2>3. QED
    BY <1>0, <1>5, <2>1, <2>2 DEF ReleaseExec, ExecTouch, Touch
<1>6. ASSUME NEW m \in Node, Forget(m)
      PROVE  ~dirty'[n]
  BY <1>0, <1>6 DEF Forget, TypeOK
<1>7. CASE \E d \in Conn : Serve(d)
  BY <1>1, <1>3, <1>4, <1>5, <1>6, <1>7 DEF Serve, Refuse, AcquireReply,
     RenewReply, PingTimeout, ReleaseWatch, ReleaseGet, ReleaseUnwatch
<1>8. CASE \E d \in Conn : Client(d)
  BY <1>1, <1>8 DEF Client, Begin, Ping, Pong, ClientClose, ClientAbort
<1>9. CASE \E m \in Node : RedisDrop(m) \/ Drain(m) \/ Restart(m)
  BY <1>1, <1>6, <1>9 DEF RedisDrop, Drain, Restart
<1>10. QED
  BY <1>1, <1>2, <1>7, <1>8, <1>9 DEF Next, vars

\* A watched key belongs to a release in progress: to leave "get" and "del"
\* is to run an EXEC, or to lose the client, and with it the watch.
LEMMA WatchedByRelease ==
    ASSUME Timely, LeaseInv, [Next]_vars, NEW n \in Node, NEW o \in watched'[n]
    PROVE  \E c \in Conn : /\ NodeOf[c] = n /\ OpenhabOf[c] = o
                           /\ sock'[c] \in {"get", "del"}
<1> USE Parameters, ConnAssumption
<1>0. TypeOK /\ \A m \in Node : ~dirty[m]
  BY DEF LeaseInv, WatchesOwnKey
<1>1. ASSUME o \in watched[n],
             \A c \in Conn : NodeOf[c] = n /\ sock[c] \in {"get", "del"}
                                => sock'[c] \in {"get", "del"}
      PROVE  \E c \in Conn : /\ NodeOf[c] = n /\ OpenhabOf[c] = o
                             /\ sock'[c] \in {"get", "del"}
  BY <1>1, WatcherOwns
<1>2. CASE UNCHANGED vars
  BY <1>1, <1>2 DEF vars
<1>3. CASE Tick
  BY <1>1, <1>3 DEF Tick
<1>4. ASSUME NEW d \in Conn, Serve(d)
      PROVE  \E c \in Conn : /\ NodeOf[c] = n /\ OpenhabOf[c] = o
                             /\ sock'[c] \in {"get", "del"}
  <2>1. CASE Refuse(d) \/ AcquireExec(d) \/ AcquireReply(d)
    BY <1>0, <1>1, <2>1 DEF Refuse, AcquireExec, Store, AcquireReply, TypeOK
  <2>2. CASE RenewExec(d)
    <3>1. NodeOf[d] # n /\ o \in watched[n]
      BY <1>0, <2>2 DEF RenewExec, TypeOK
    <3>2. QED
      BY <1>1, <2>2, <3>1 DEF RenewExec
  <2>3. CASE RenewReply(d) \/ PingTimeout(d)
    BY <1>0, <1>1, <2>3 DEF RenewReply, PingTimeout, Disconnect, TypeOK
  <2>4. CASE ReleaseWatch(d)
    <3>1. CASE o \in watched[n]
      BY <1>0, <1>1, <2>4, <3>1 DEF ReleaseWatch, TypeOK
    <3>2. CASE o \notin watched[n]
      <4>1. NodeOf[d] = n /\ OpenhabOf[d] = o /\ sock'[d] = "get"
        BY <1>0, <2>4, <3>2 DEF ReleaseWatch, TypeOK
      <4>2. QED
        BY <4>1
    <3>3. QED
      BY <3>1, <3>2
  <2>5. CASE ReleaseGet(d)
    <3>1. lock[OpenhabOf[d]] = d
      BY <2>5 DEF ReleaseGet, LeaseInv, LeaseHeld, Holding
    <3>2. watched' = watched /\ sock' = [sock EXCEPT ![d] = "del"]
      BY <2>5, <3>1 DEF ReleaseGet
    <3>3. QED
      BY <1>0, <1>1, <3>2 DEF TypeOK
  <2>6. CASE ReleaseExec(d)
    <3>1. NodeOf[d] # n /\ o \in watched[n]
      BY <1>0, <2>6 DEF ReleaseExec, TypeOK
    <3>2. \A c \in Conn : NodeOf[c] = n => sock'[c] = sock[c]
      BY <1>0, <2>6, <3>1 DEF ReleaseExec, TypeOK
    <3>3. QED
      BY <1>1, <3>1, <3>2
  <2>7. CASE ReleaseUnwatch(d)
    <3>1. NodeOf[d] # n /\ o \in watched[n]
      BY <1>0, <2>7 DEF ReleaseUnwatch, Forget, TypeOK
    <3>2. \A c \in Conn : NodeOf[c] = n => sock'[c] = sock[c]
      BY <1>0, <2>7, <3>1 DEF ReleaseUnwatch, TypeOK
    <3>3. QED
      BY <1>1, <3>1, <3>2
  <2>8. QED
    BY <1>4, <2>1, <2>2, <2>3, <2>4, <2>5, <2>6, <2>7 DEF Serve
<1>5. ASSUME NEW d \in Conn, Client(d)
      PROVE  \E c \in Conn : /\ NodeOf[c] = n /\ OpenhabOf[c] = o
                             /\ sock'[c] \in {"get", "del"}
  BY <1>0, <1>1, <1>5 DEF Client, Begin, Ping, Pong, ClientClose, ClientAbort,
     Disconnect, TypeOK
<1>6. ASSUME NEW m \in Node, RedisDrop(m) \/ Restart(m)
      PROVE  \E c \in Conn : /\ NodeOf[c] = n /\ OpenhabOf[c] = o
                             /\ sock'[c] \in {"get", "del"}
  <2>1. m # n /\ o \in watched[n]
    BY <1>0, <1>6 DEF RedisDrop, Restart, Forget, TypeOK
  <2>2. \A c \in Conn : NodeOf[c] = n => sock'[c] = sock[c]
    BY <1>0, <1>6, <2>1 DEF RedisDrop, Restart, On, TypeOK
  <2>3. QED
    BY <1>1, <2>1, <2>2
<1>7. ASSUME NEW m \in Node, Drain(m)
      PROVE  \E c \in Conn : /\ NodeOf[c] = n /\ OpenhabOf[c] = o
                             /\ sock'[c] \in {"get", "del"}
  BY <1>0, <1>1, <1>7 DEF Drain, Disconnect, TypeOK
<1>8. QED
  BY <1>2, <1>3, <1>4, <1>5, <1>6, <1>7 DEF Next

-----------------------------------------------------------------------------
(* The theorems.                                                           *)

\* While the lease is long enough, a socket past its handshake owns its openHAB's lock,
\* with the rest of the lease its phase still needs, and no watch is disturbed.
THEOREM LeaseCorrect ==
    ASSUME Timely
    PROVE  Spec => []LeaseInv
<1>1. Init => LeaseInv
  <2> SUFFICES ASSUME Init
               PROVE  LeaseInv
    OBVIOUS
  <2>1. TypeOK
    BY TimeAssumption DEF Init, TypeOK, Phase
  <2>2. KeyHasLease
    <3> SUFFICES ASSUME NEW o \in Openhab
                 PROVE  lock[o] = NoConn /\ ttl[o] = 0
      BY DEF KeyHasLease
    <3>1. QED
      BY DEF Init
  <2>3. LeaseHeld /\ WatchesOwnKey /\ RenewPhase
    BY DEF Init, LeaseHeld, Holding, WatchesOwnKey, RenewPhase
  <2>4. QED
    BY <2>1, <2>2, <2>3 DEF LeaseInv
<1>2. LeaseInv /\ [Next]_vars => LeaseInv'
  <2> SUFFICES ASSUME LeaseInv, [Next]_vars
               PROVE  LeaseInv'
    OBVIOUS
  <2>1. TypeOK' /\ KeyHasLease'
    BY TypeStep, KeyHasLeaseStep DEF LeaseInv
  <2>2. LeaseHeld' /\ RenewPhase'
    BY <2>1, LeaseHeldStep, RenewPhaseStep
  <2>3. WatchesOwnKey'
    <3>1. \A n \in Node : ~dirty'[n]
      BY NeverDirty
    <3>2. \A n \in Node : \A o \in watched'[n] :
             \E c \in Conn : /\ NodeOf[c] = n /\ OpenhabOf[c] = o
                             /\ sock'[c] \in {"get", "del"}
      BY WatchedByRelease
    <3>3. QED
      BY <3>1, <3>2 DEF WatchesOwnKey
  <2>4. QED
    BY <2>1, <2>2, <2>3 DEF LeaseInv
<1>3. QED
  BY <1>1, <1>2, PTL DEF Spec

LEMMA LeaseExcludes == LeaseInv => OneConnection
BY DEF LeaseInv, LeaseHeld, Holding, OneConnection

\* Then an openHAB is never connected twice, on one node or on two
\* (DEVELOPMENT.md: "each openHAB UUID connects to exactly one cloud node").
THEOREM AtMostOneConnection ==
    ASSUME Timely
    PROVE  Spec => []OneConnection
<1>1. Spec => []LeaseInv
  BY LeaseCorrect
<1>2. QED
  BY <1>1, LeaseExcludes, PTL

\* The step that ends a release with a deletion is its own EXEC.
LEMMA DeletionStep ==
    ASSUME LeaseInv, [Next]_vars,
           NEW c \in Conn, sock[c] = "del", sock'[c] # "del",
           NEW o \in Openhab, lock'[o] # lock[o]
    PROVE  lock[o] = c
<1>0. TypeOK /\ lock[OpenhabOf[c]] = c
  BY DEF LeaseInv, LeaseHeld, Holding
<1>1. ~UNCHANGED <<lock, ttl>>
  OBVIOUS
<1>2. ~Tick /\ ~UNCHANGED vars
  BY <1>1 DEF Tick, vars
<1>3. PICK d \in Conn : AcquireExec(d) \/ RenewExec(d) \/ ReleaseExec(d)
  BY <1>1, <1>2, LockWrites
<1>4. ~AcquireExec(d) /\ ~RenewExec(d)
  BY <1>0 DEF AcquireExec, RenewExec, TypeOK
<1>5. d = c
  BY <1>0, <1>3, <1>4 DEF ReleaseExec, TypeOK
<1>6. o = OpenhabOf[c]
  BY <1>0, <1>3, <1>4, <1>5, Parameters DEF ReleaseExec, TypeOK
<1>7. QED
  BY <1>0, <1>6

\* Then releaseLock does what its comment says, whichever sockets share its
\* Redis client and whatever they do to its watch: it deletes only its own lock,
\* because the lease outlasts the release and not because of the watch.
THEOREM ReleasesOnlyOwnLock ==
    ASSUME Timely
    PROVE  Spec => DeletesOwnLock
<1>1. LeaseInv /\ [Next]_vars =>
        [\A c \in Conn : sock[c] = "del" /\ sock'[c] # "del" =>
            \A o \in Openhab : lock'[o] # lock[o] => lock[o] = c]_vars
  BY DeletionStep
<1>2. Spec => []LeaseInv
  BY LeaseCorrect
<1>3. QED
  BY <1>1, <1>2, PTL DEF Spec, DeletesOwnLock

\* The steps that end a connected socket, when no renewal is answered "lost".
LEMMA DisconnectionStep ==
    ASSUME Timely, LeaseInv, [Next]_vars,
           NEW c \in Conn, sock[c] = "connected", sock'[c] # "connected"
    PROVE  \/ ClientClose(c) \/ PingTimeout(c)
           \/ Drain(NodeOf[c]) \/ Restart(NodeOf[c]) \/ RedisDrop(NodeOf[c])
<1> USE Parameters
<1>0. TypeOK /\ renew[c] # "lost"
  BY DEF LeaseInv, RenewPhase
<1>1. ~UNCHANGED sock
  OBVIOUS
<1>2. ~UNCHANGED vars /\ ~Tick
  BY <1>1 DEF vars, Tick
<1>3. ASSUME NEW d \in Conn, Serve(d)
      PROVE  PingTimeout(c)
  <2>1. d = c
    BY <1>0, <1>3, OthersStay DEF Same
  <2>2. QED
    BY <1>0, <1>1, <1>3, <2>1 DEF Serve, Refuse, AcquireExec, AcquireReply,
       RenewExec, RenewReply, ReleaseWatch, ReleaseGet, ReleaseExec, ReleaseUnwatch
<1>4. ASSUME NEW d \in Conn, Client(d)
      PROVE  ClientClose(c)
  BY <1>0, <1>1, <1>4 DEF Client, Begin, Ping, Pong, ClientClose, ClientAbort,
     Disconnect, TypeOK
<1>5. ASSUME NEW n \in Node, RedisDrop(n) \/ Drain(n) \/ Restart(n)
      PROVE  n = NodeOf[c]
  BY <1>0, <1>5 DEF RedisDrop, Drain, Restart, Disconnect, On, TypeOK
<1>6. QED
  BY <1>2, <1>3, <1>4, <1>5 DEF Next

\* Then a connected socket ends only when its client leaves or falls silent, or its
\* node shuts down, ends or loses Redis (renewLock answers "lost" to an owner
\* too when Redis fails): no release of another socket on the node makes one end.
THEOREM EndsOnlyForCause ==
    ASSUME Timely
    PROVE  Spec => DisconnectedForCause
<1>1. LeaseInv /\ [Next]_vars =>
        [\A c \in Conn : sock[c] = "connected" /\ sock'[c] # "connected" =>
            \/ ClientClose(c) \/ PingTimeout(c)
            \/ Drain(NodeOf[c]) \/ Restart(NodeOf[c]) \/ RedisDrop(NodeOf[c])]_vars
  BY DisconnectionStep
<1>2. Spec => []LeaseInv
  BY LeaseCorrect
<1>3. QED
  BY <1>1, <1>2, PTL DEF Spec, DisconnectedForCause

\* A renewal ends in its own EXEC, or in a failure that writes nothing.
LEMMA RenewalStep ==
    ASSUME Timely, LeaseInv, [Next]_vars,
           NEW c \in Conn, renew[c] = "sent", renew'[c] # "sent",
           NEW o \in Openhab, ttl'[o] > ttl[o]
    PROVE  lock[o] = c
<1> USE Parameters
<1>0. TypeOK /\ lock[OpenhabOf[c]] = c
  BY DEF LeaseInv, LeaseHeld, RenewPhase, Holding
<1>1. ttl \in [Openhab -> Nat]
  BY <1>0 DEF TypeOK
<1>2. ~UNCHANGED ttl /\ ~UNCHANGED renew
  BY <1>1
<1>3. ~Tick /\ ~UNCHANGED vars
  BY <1>2 DEF Tick, vars
<1>4. ~\E d \in Conn : Client(d)
  BY <1>2 DEF Client, Begin, Ping, Pong, ClientClose, ClientAbort
<1>5. ~\E n \in Node : RedisDrop(n) \/ Drain(n) \/ Restart(n)
  BY <1>2 DEF RedisDrop, Drain, Restart
<1>6. PICK d \in Conn : Serve(d)
  BY <1>3, <1>4, <1>5 DEF Next
<1>7. RenewExec(d)
  BY <1>2, <1>6 DEF Serve, Refuse, AcquireExec, AcquireReply, RenewReply,
     PingTimeout, ReleaseWatch, ReleaseGet, ReleaseExec, ReleaseUnwatch
<1>8. d = c
  BY <1>0, <1>7 DEF RenewExec, TypeOK
<1>9. ttl' = Extend(OpenhabOf[c])
  BY <1>2, <1>7, <1>8 DEF RenewExec
<1>10. o = OpenhabOf[c]
  BY <1>1, <1>9 DEF Extend
<1>11. QED
  BY <1>0, <1>10

\* Then no renewal lengthens another connection's lease: although EXPIRE comes
\* before the owner is compared, the owner is always the one that asks.
THEOREM RenewsOnlyOwnLock ==
    ASSUME Timely
    PROVE  Spec => RenewsOwnLock
<1>1. LeaseInv /\ [Next]_vars =>
        [\A c \in Conn : renew[c] = "sent" /\ renew'[c] # "sent" =>
            \A o \in Openhab : ttl'[o] > ttl[o] => lock[o] = c]_vars
  BY RenewalStep
<1>2. Spec => []LeaseInv
  BY LeaseCorrect
<1>3. QED
  BY <1>1, <1>2, PTL DEF Spec, RenewsOwnLock

\* A step adds at most one serving socket, whose openHAB had none.
LEMMA StepAttachesOrDetaches ==
    ASSUME Timely, LeaseInv, [Next]_vars
    PROVE  \/ serving' \subseteq serving
           \/ \E c \in Conn : /\ \A d \in serving : OpenhabOf[d] # OpenhabOf[c]
                              /\ serving' = serving \cup {c}
<1> USE Parameters
<1>0. TypeOK
  BY DEF LeaseInv
<1>1. CASE \E c \in Conn : AcquireReply(c)
  <2> PICK c \in Conn : AcquireReply(c)
    BY <1>1
  <2>1. CASE sock[c] = "granted" /\ open[c]
    <3>1. lock[OpenhabOf[c]] = c
      BY <2>1 DEF LeaseInv, LeaseHeld, Holding
    <3>2. \A d \in serving : OpenhabOf[d] # OpenhabOf[c]
      BY <2>1, <3>1 DEF serving, LeaseInv, LeaseHeld, Holding
    <3>3. sock' = [sock EXCEPT ![c] = "connected"]
      BY <2>1 DEF AcquireReply
    <3>4. serving' = serving \cup {c}
      BY <1>0, <3>3 DEF serving, TypeOK
    <3>5. QED
      BY <3>2, <3>4
  <2>2. CASE ~(sock[c] = "granted" /\ open[c])
    BY <1>0, <2>2 DEF AcquireReply, serving, TypeOK
  <2>3. QED
    BY <2>1, <2>2
<1>2. ASSUME \A c \in Conn : sock'[c] = "connected" => sock[c] = "connected"
      PROVE  serving' \subseteq serving
  BY <1>2 DEF serving
<1>3. CASE UNCHANGED vars \/ Tick
  BY <1>2, <1>3 DEF vars, Tick
<1>4. ASSUME NEW d \in Conn, Serve(d), ~AcquireReply(d)
      PROVE  serving' \subseteq serving
  <2> SUFFICES ASSUME NEW c \in Conn, sock'[c] = "connected"
               PROVE  sock[c] = "connected"
    BY <1>2
  <2>1. CASE c # d
    BY <1>0, <1>4, <2>1, OthersStay DEF Same
  <2>2. CASE c = d
    BY <1>0, <1>4, <2>2 DEF Serve, Refuse, AcquireExec, RenewExec, RenewReply,
       PingTimeout, Disconnect, ReleaseWatch, ReleaseGet, ReleaseExec,
       ReleaseUnwatch, TypeOK
  <2>3. QED
    BY <2>1, <2>2
<1>5. ASSUME NEW d \in Conn, Client(d)
      PROVE  serving' \subseteq serving
  BY <1>0, <1>2, <1>5 DEF Client, Begin, Ping, Pong, ClientClose, ClientAbort,
     Disconnect, TypeOK
<1>6. ASSUME NEW n \in Node, RedisDrop(n) \/ Drain(n) \/ Restart(n)
      PROVE  serving' \subseteq serving
  <2>1. CASE RedisDrop(n)
    <3> SUFFICES ASSUME NEW c \in Conn, sock'[c] = "connected"
                 PROVE  sock[c] = "connected"
      BY <1>2
    <3>1. QED
      BY <1>0, <2>1 DEF RedisDrop, TypeOK
  <2>2. CASE Drain(n)
    BY <1>2, <2>2 DEF Drain, Disconnect
  <2>3. CASE Restart(n)
    BY <1>2, <2>3 DEF Restart
  <2>4. QED
    BY <1>6, <2>1, <2>2, <2>3
<1>7. QED
  BY <1>1, <1>3, <1>4, <1>5, <1>6 DEF Next

\* Then the lock implements the specification of a single serving socket: the steps
\* of Redis, the nodes and the clients attach a socket to a free openHAB, detach
\* sockets, or change nothing the abstract specification sees.
THEOREM LockImplementsSingleConnection ==
    ASSUME Timely
    PROVE  Spec => ImplementsSingleConnection
<1>1. Init => Single!SInit
  BY DEF Init, Single!SInit, serving
<1>2. LeaseInv /\ [Next]_vars => [Single!SNext]_serving
  <2> SUFFICES ASSUME LeaseInv, [Next]_vars, serving' # serving
               PROVE  Single!SNext
    OBVIOUS
  <2>1. CASE serving' \subseteq serving
    <3> DEFINE S == serving \ serving'
    <3>1. S \in SUBSET serving /\ S # {} /\ serving' = serving \ S
      BY <2>1
    <3>2. QED
      BY <3>1 DEF Single!SNext, Single!Detach
  <2>2. CASE \E c \in Conn : /\ \A d \in serving : OpenhabOf[d] # OpenhabOf[c]
                             /\ serving' = serving \cup {c}
    BY <2>2 DEF Single!SNext, Single!Attach
  <2>3. QED
    BY <2>1, <2>2, StepAttachesOrDetaches
<1>3. Spec => []LeaseInv
  BY LeaseCorrect
<1>4. QED
  BY <1>1, <1>2, <1>3, PTL DEF Spec, ImplementsSingleConnection, Single!SSpec
=============================================================================
