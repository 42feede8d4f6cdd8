----------------------- MODULE ConnectionCacheProofs -----------------------
(***************************************************************************)
(* How far a cached connection can be wrong, for any nodes, connections,   *)
(* lookups, cache time and delay.                                          *)
(***************************************************************************)
EXTENDS ConnectionCache, TLAPS

LEMMA AddressType == TypeOK => Address \in Info
BY CacheAssumption DEF TypeOK, Address, Info

LEMMA CacheInit == Init => CacheInv
<1> SUFFICES ASSUME Init PROVE CacheInv
  OBVIOUS
<1>1. TypeOK
  BY CacheAssumption DEF Init, TypeOK, Info, Settled
<1>2. StaleIsYoung /\ AnsweredFirst /\ SeesOwnConnection
  BY DEF Init, StaleIsYoung, AnsweredFirst, SeesOwnConnection
<1>3. QED
  BY <1>1, <1>2 DEF CacheInv

LEMMA CacheStutter == CacheInv /\ UNCHANGED vars => CacheInv'
BY DEF CacheInv, vars, stored, entry, lookup, TypeOK, StaleIsYoung,
       AnsweredFirst, SeesOwnConnection, Address, Pending

-----------------------------------------------------------------------------
(* The openHAB's connections.                                              *)

\* When the key is written nothing is stale for longer than that.
LEMMA ConnectionStep ==
    ASSUME CacheInv, NEW c \in Conn, Connection(c)
    PROVE  CacheInv'
<1> USE DEF CacheInv, stored, entry, lookup
<1>0. TypeOK /\ 0 \in 0..Settled /\ 0 \in 0..CacheTime
  BY CacheAssumption DEF Settled
<1>1. TypeOK'
  <2>1. /\ key' \in Conn \cup {NoConn} /\ since' \in 0..Settled
        /\ sock' \in [Conn -> {"none", "granted", "joined", "leaving", "released"}]
    BY <1>0 DEF Connection, Grant, Abort, Join, Leave, Release, Left, Write, TypeOK
  <2>2. /\ cache' \in [Node -> Info \cup {Absent}]
        /\ age' \in [Node -> 0..CacheTime]
    BY <1>0 DEF Connection, Grant, Abort, Join, Leave, Release, Left,
       invalidateConnectionCache, TypeOK
  <2>3. ahead' \in [Lookup \cup Conn -> SUBSET Lookup]
    BY <1>0 DEF Connection, Grant, Abort, Join, Leave, Release, Left, Behind,
       Pending, TypeOK
  <2>4. UNCHANGED lookup
    BY DEF Connection, Grant, Abort, Join, Leave, Release, Left
  <2>5. QED
    BY <1>0, <2>1, <2>2, <2>3, <2>4 DEF TypeOK
<1>2. StaleIsYoung'
  <2>1. /\ UNCHANGED lookup
        /\ \A n \in Node : cache'[n] # Absent =>
                              cache'[n] = cache[n] /\ age'[n] = age[n]
    BY <1>0 DEF Connection, Grant, Abort, Join, Leave, Release, Left,
       invalidateConnectionCache, TypeOK
  <2>2. since' = 0 \/ UNCHANGED stored
    BY DEF Connection, Grant, Abort, Join, Leave, Release, Left, Write
  <2>3. CASE since' = 0
    BY <1>0, <2>1, <2>3, CacheAssumption DEF StaleIsYoung, TypeOK
  <2>4. CASE UNCHANGED stored
    BY <2>1, <2>4 DEF StaleIsYoung, Address
  <2>5. QED
    BY <2>2, <2>3, <2>4
<1>3. AnsweredFirst'
  <2>1. CASE Grant(c)
    <3>1. /\ \A d \in Conn : d # c => sock'[d] = sock[d] /\ ahead'[d] = ahead[d]
          /\ sock'[c] = "granted" /\ ahead'[c] = Pending(NodeOf[c])
          /\ key' = c /\ UNCHANGED lookup
      BY <1>0, <2>1 DEF Grant, Write, Behind, TypeOK
    <3>2. QED
      BY <3>1 DEF AnsweredFirst, Pending
  <2>2. CASE Release(c)
    <3>1. /\ \A d \in Conn : d # c => sock'[d] = sock[d] /\ ahead'[d] = ahead[d]
          /\ sock'[c] = "released" /\ key' \in {key, NoConn} /\ UNCHANGED lookup
      BY <1>0, <2>2 DEF Release, Write, Behind, TypeOK
    <3>2. QED
      BY <3>1, CacheAssumption DEF AnsweredFirst, Pending
  <2>3. CASE Join(c)
    BY <1>0, <2>3 DEF Join, AnsweredFirst, Pending, TypeOK
  <2>4. CASE Abort(c) \/ Leave(c) \/ Left(c)
    BY <1>0, <2>4 DEF Abort, Leave, Left, AnsweredFirst, Pending, TypeOK
  <2>5. QED
    BY <2>1, <2>2, <2>3, <2>4 DEF Connection
<1>4. SeesOwnConnection'
  <2>1. CASE Join(c)
    BY <1>0, <2>1, CacheAssumption
       DEF Join, invalidateConnectionCache, SeesOwnConnection, TypeOK
  <2>2. CASE Left(c)
    BY <1>0, <2>2, CacheAssumption
       DEF Left, invalidateConnectionCache, SeesOwnConnection, TypeOK
  <2>3. CASE Grant(c) \/ Release(c)
    BY <1>0, <2>3, CacheAssumption
       DEF Grant, Release, Write, SeesOwnConnection, TypeOK
  <2>4. CASE Abort(c) \/ Leave(c)
    BY <1>0, <2>4 DEF Abort, Leave, SeesOwnConnection, TypeOK
  <2>5. QED
    BY <2>1, <2>2, <2>3, <2>4 DEF Connection
<1>5. QED
  BY <1>1, <1>2, <1>3, <1>4

LEMMA ExpireStep == CacheInv /\ Expire => CacheInv'
<1> SUFFICES ASSUME CacheInv, Expire PROVE CacheInv'
  OBVIOUS
<1> USE DEF CacheInv, Expire, Write, stored, entry, lookup
<1>1. TypeOK'
  BY CacheAssumption DEF TypeOK, Settled
<1>2. StaleIsYoung'
  BY CacheAssumption DEF StaleIsYoung, TypeOK
<1>3. AnsweredFirst' /\ SeesOwnConnection'
  BY CacheAssumption DEF AnsweredFirst, SeesOwnConnection, Pending
<1>4. QED
  BY <1>1, <1>2, <1>3

-----------------------------------------------------------------------------
(* Lookups.                                                                *)

LEMMA LookupStep ==
    ASSUME CacheInv, NEW l \in Lookup, NEW n \in Node, Hit(l, n) \/ Miss(l, n)
    PROVE  CacheInv'
<1> USE DEF CacheInv, Hit, Miss, stored, entry, lookup
<1>1. TypeOK'
  BY DEF TypeOK
<1>2. /\ \A k \in Lookup : step'[k] = "got" => /\ step[k] = "got" /\ at'[k] = at[k]
                                               /\ info'[k] = info[k]
      /\ UNCHANGED <<stored, sock, entry, wait, ahead>>
  BY DEF TypeOK
<1>3. StaleIsYoung'
  BY <1>2 DEF StaleIsYoung, Address
<1>4. AnsweredFirst' /\ SeesOwnConnection'
  BY <1>2 DEF AnsweredFirst, SeesOwnConnection, Pending
<1>5. QED
  BY <1>1, <1>3, <1>4

LEMMA ReadStep ==
    ASSUME CacheInv, NEW l \in Lookup, Read(l)
    PROVE  CacheInv'
<1> USE DEF CacheInv, Read, stored, entry, lookup
<1>0. TypeOK /\ Address \in Info /\ 0 \in 0..Delay
  BY AddressType, CacheAssumption
<1>1. TypeOK'
  BY <1>0 DEF TypeOK, Behind, Pending
<1>2. /\ UNCHANGED <<stored, sock, entry, at>> /\ info'[l] = Address
      /\ \A k \in Lookup : k # l => /\ step'[k] = step[k] /\ info'[k] = info[k]
                                    /\ wait'[k] = wait[k]
      /\ \A c \in Conn : c # l => ahead'[c] = ahead[c]
  BY <1>0 DEF TypeOK, Behind
<1>3. StaleIsYoung'
  BY <1>2 DEF StaleIsYoung, Address
<1>4. AnsweredFirst'
  BY <1>2, CacheAssumption DEF AnsweredFirst, Pending, Address
<1>5. SeesOwnConnection'
  BY <1>2 DEF SeesOwnConnection
<1>6. QED
  BY <1>1, <1>3, <1>4, <1>5

\* The reply is the right one or on its way no longer than the key is changed;
\* and where the openHAB is connected, only right ones are left.
LEMMA FillStep ==
    ASSUME CacheInv, NEW l \in Lookup, Fill(l)
    PROVE  CacheInv'
<1> USE DEF CacheInv, Fill, stored, entry, lookup
<1>0. TypeOK /\ 0 \in 0..Delay /\ 0 \in 0..CacheTime
  BY CacheAssumption
<1>1. TypeOK'
  BY <1>0 DEF TypeOK, Replied
<1>2. /\ UNCHANGED <<stored, sock, at, info>> /\ at[l] \in Node
      /\ cache'[at[l]] = info[l] /\ age'[at[l]] = 0
      /\ \A n \in Node : n # at[l] => cache'[n] = cache[n] /\ age'[n] = age[n]
      /\ \A k \in Lookup : step'[k] = "got" => /\ k # l /\ step[k] = "got"
                                               /\ wait'[k] = wait[k]
      /\ \A c \in Conn : ahead'[c] = ahead[c] \ {l}
  BY <1>0 DEF TypeOK, Replied
<1>3. StaleIsYoung'
  <2>1. info[l] # Address => since <= Delay
    BY <1>0, CacheAssumption DEF StaleIsYoung, TypeOK, Settled
  <2>2. Address' = Address /\ since' = since
    BY <1>2 DEF Address
  <2>3. ASSUME NEW n \in Node, cache'[n] # Absent
        PROVE  /\ age'[n] < CacheTime
               /\ cache'[n] # Address' => since' <= age'[n] + Delay
    <3>1. CASE n = at[l]
      BY <1>2, <2>1, <2>2, <3>1, CacheAssumption
    <3>2. CASE n # at[l]
      BY <1>2, <2>2, <2>3, <3>2 DEF StaleIsYoung
    <3>3. QED
      BY <3>1, <3>2
  <2>4. QED
    BY <1>2, <2>2, <2>3 DEF StaleIsYoung
<1>4. AnsweredFirst'
  BY <1>2 DEF AnsweredFirst, Pending
<1>5. SeesOwnConnection'
  BY <1>2 DEF SeesOwnConnection, AnsweredFirst, Pending
<1>6. QED
  BY <1>1, <1>3, <1>4, <1>5

LEMMA OtherStep ==
    ASSUME CacheInv, NEW l \in Lookup, ReadError(l) \/ Done(l) \/ Retry(l)
    PROVE  CacheInv'
<1> USE DEF CacheInv, ReadError, Done, Retry, stored, entry, lookup
<1>0. TypeOK /\ 0 \in 0..Delay /\ 0 \in 0..CacheTime
  BY CacheAssumption
<1>1. TypeOK'
  BY <1>0 DEF TypeOK, Replied, invalidateConnectionCache, Info
<1>2. /\ UNCHANGED <<stored, sock, at>>
      /\ \A n \in Node : \/ cache'[n] = Absent
                         \/ cache'[n] = cache[n] /\ age'[n] = age[n]
      /\ \A k \in Lookup : step'[k] = "got" => /\ k # l /\ step[k] = "got"
                                               /\ info'[k] = info[k]
                                               /\ wait'[k] = wait[k]
      /\ \A c \in Conn : ahead'[c] \in {ahead[c], ahead[c] \ {l}}
  BY <1>0 DEF TypeOK, Replied, invalidateConnectionCache
<1>3. StaleIsYoung'
  BY <1>2 DEF StaleIsYoung, Address
<1>4. AnsweredFirst'
  BY <1>2 DEF AnsweredFirst, Pending
<1>5. SeesOwnConnection'
  BY <1>2, CacheAssumption DEF SeesOwnConnection
<1>6. QED
  BY <1>1, <1>3, <1>4, <1>5

-----------------------------------------------------------------------------
(* Time and restarts.                                                      *)

\* Whatever is stale grows older together with the key.
LEMMA TickStep == CacheInv /\ Tick => CacheInv'
<1> SUFFICES ASSUME CacheInv, Tick PROVE CacheInv'
  OBVIOUS
<1> USE DEF CacheInv, Tick
<1>0. TypeOK /\ CacheTime \in Nat \ {0} /\ Delay \in Nat \ {0} /\ Settled \in Nat
  BY CacheAssumption DEF Settled
<1>1. TypeOK'
  <2>1. since' \in 0..Settled
    BY <1>0 DEF TypeOK
  <2>2. wait' \in [Lookup -> 0..Delay]
    BY <1>0 DEF TypeOK
  <2>3. cache' \in [Node -> Info \cup {Absent}] /\ age' \in [Node -> 0..CacheTime]
    BY <1>0 DEF TypeOK, Expires
  <2>4. QED
    BY <1>0, <2>1, <2>2, <2>3 DEF TypeOK
<1>2. Address' = Address
  BY DEF Address
<1>3. since' <= since + 1
  BY <1>0 DEF TypeOK
<1>4. StaleIsYoung'
  <2>1. ASSUME NEW n \in Node, cache'[n] # Absent
        PROVE  /\ age'[n] < CacheTime
               /\ cache'[n] # Address' => since' <= age'[n] + Delay
    <3>1. cache'[n] = cache[n] /\ cache[n] # Absent /\ age[n] < CacheTime
          /\ age'[n] = age[n] + 1 /\ age[n] + 1 # CacheTime
      BY <1>0, <2>1 DEF TypeOK, Expires, StaleIsYoung
    <3>2. since \in Nat /\ since' \in Nat /\ age[n] \in Nat
      BY <1>0, <1>1 DEF TypeOK
    <3>3. cache[n] # Address => since <= age[n] + Delay
      BY <3>1 DEF StaleIsYoung
    <3>4. QED
      BY <1>0, <1>2, <1>3, <3>1, <3>2, <3>3
  <2>2. ASSUME NEW l \in Lookup, step'[l] = "got", info'[l] # Address'
        PROVE  since' <= wait'[l]
    BY <1>0, <1>2, <1>3, <2>2 DEF TypeOK, StaleIsYoung
  <2>3. QED
    BY <2>1, <2>2 DEF StaleIsYoung
<1>5. AnsweredFirst'
  BY DEF AnsweredFirst, Pending
<1>6. SeesOwnConnection'
  BY <1>0, CacheAssumption DEF SeesOwnConnection, TypeOK
<1>7. QED
  BY <1>1, <1>4, <1>5, <1>6

LEMMA RestartStep ==
    ASSUME CacheInv, NEW n \in Node, Restart(n)
    PROVE  CacheInv'
<1> USE DEF CacheInv, Restart, stored, entry, lookup, invalidateConnectionCache
<1>0. TypeOK /\ 0 \in 0..Delay /\ 0 \in 0..CacheTime
  BY CacheAssumption
<1>1. TypeOK'
  BY <1>0 DEF TypeOK, Replied, Pending
<1>2. /\ UNCHANGED <<stored, at, info>>
      /\ \A m \in Node : \/ cache'[m] = Absent
                         \/ cache'[m] = cache[m] /\ age'[m] = age[m]
      /\ \A k \in Lookup : step'[k] = "got" => /\ at[k] # n /\ step[k] = "got"
                                               /\ wait'[k] = wait[k]
      /\ \A c \in Conn : /\ sock'[c] \in {"none", sock[c]}
                         /\ ahead'[c] = ahead[c] \ Pending(n)
  BY <1>0 DEF TypeOK, Replied
<1>3. StaleIsYoung'
  BY <1>2 DEF StaleIsYoung, Address
<1>4. AnsweredFirst'
  BY <1>2 DEF AnsweredFirst, Pending
<1>5. SeesOwnConnection'
  BY <1>2, CacheAssumption DEF SeesOwnConnection
<1>6. QED
  BY <1>1, <1>3, <1>4, <1>5

-----------------------------------------------------------------------------
\* Type correctness, the age of what is stale, and the order of replies.
THEOREM CacheCorrect == Spec => []CacheInv
<1>1. CacheInv /\ [Next]_vars => CacheInv'
  <2> SUFFICES ASSUME CacheInv, [Next]_vars PROVE CacheInv'
    OBVIOUS
  <2>1. ASSUME NEW l \in Lookup, Answer(l)
        PROVE  CacheInv'
    BY <2>1, ReadStep, FillStep, OtherStep DEF Answer
  <2>2. ASSUME NEW l \in Lookup, NEW n \in Node, Hit(l, n) \/ Miss(l, n)
        PROVE  CacheInv'
    BY <2>2, LookupStep
  <2>3. QED
    BY <2>1, <2>2, ConnectionStep, ExpireStep, TickStep, RestartStep,
       CacheStutter DEF Next
<1>2. QED
  BY CacheInit, <1>1, PTL DEF Spec

\* Nobody routes by what was true longer ago than a cache lifetime and a reply's
\* wait.
THEOREM CacheStalenessBound == Spec => []CachesSettle
<1>1. CacheInv => CachesSettle
  <2> SUFFICES ASSUME CacheInv, since = Settled, NEW n \in Node,
                      cache[n] # Absent, cache[n] # Address
               PROVE  FALSE
    BY DEF CachesSettle
  <2>1. age[n] < CacheTime /\ since <= age[n] + Delay
    BY DEF CacheInv, StaleIsYoung
  <2>2. age[n] \in Nat /\ CacheTime \in Nat /\ Delay \in Nat
    BY CacheAssumption DEF CacheInv, TypeOK
  <2>3. QED
    BY <2>1, <2>2 DEF Settled
<1>2. QED
  BY <1>1, CacheCorrect, PTL

\* Where the openHAB is connected, its connection is seen at once.
THEOREM ConnectionSeenAtOnce == Spec => []SeesOwnConnection
<1>1. CacheInv => SeesOwnConnection
  BY DEF CacheInv
<1>2. QED
  BY <1>1, CacheCorrect, PTL

-----------------------------------------------------------------------------
(* The caches implement Whereabouts.                                       *)

LEMMA SettledPositive == Settled \in Nat \ {0} /\ Delay < Settled
BY CacheAssumption DEF Settled

\* While the key has stood still, caches and replies have its place.
LEMMA SettledRight ==
    ASSUME CacheInv, since = Settled
    PROVE  /\ \A n \in Node : cache[n] # Absent => cache[n] = Address
           /\ \A l \in Lookup : step[l] = "got" => info[l] = Address
<1>1. ASSUME NEW n \in Node, cache[n] # Absent PROVE cache[n] = Address
  <2>1. age[n] < CacheTime /\ (cache[n] # Address => since <= age[n] + Delay)
    BY <1>1 DEF CacheInv, StaleIsYoung
  <2>2. age[n] \in 0..CacheTime
    BY DEF CacheInv, TypeOK
  <2>3. QED
    BY <2>1, <2>2, CacheAssumption DEF Settled
<1>2. ASSUME NEW l \in Lookup, step[l] = "got" PROVE info[l] = Address
  <2>1. (info[l] # Address => since <= wait[l]) /\ wait[l] \in 0..Delay
    BY <1>2 DEF CacheInv, StaleIsYoung, TypeOK
  <2>2. QED
    BY <2>1, SettledPositive, CacheAssumption
<1>3. QED
  BY <1>1, <1>2

\* One lookup goes on.
LEMMA OneLookup ==
    ASSUME TypeOK, NEW l \in Lookup, NEW s \in {"idle", "asked", "got", "routed"},
           NEW p, step' = [step EXCEPT ![l] = s],
           info' = info \/ info' = [info EXCEPT ![l] = p]
    PROVE  /\ phase' = [phase EXCEPT ![l] = IF s = "idle" THEN "idle"
                                            ELSE IF s = "routed" THEN "found" ELSE "looking"]
           /\ known' = [known EXCEPT ![l] = IF s = "routed" THEN info'[l] ELSE Offline]
<1>1. /\ \A j \in Lookup : j # l => step'[j] = step[j] /\ info'[j] = info[j]
      /\ step'[l] = s
  BY DEF TypeOK
<1>2. QED
  BY <1>1 DEF phase, known

LEMMA NoLookup ==
    ASSUME UNCHANGED <<step, info>>
    PROVE  UNCHANGED <<phase, known>>
BY DEF phase, known

\* The key is written: the place may move.
LEMMA WriteMoves ==
    ASSUME TypeOK', since' = 0, UNCHANGED <<step, info>>
    PROVE  Contract!Move
<1>1. Address' \in Info
  BY CacheAssumption DEF TypeOK, Address, Info
<1>2. QED
  BY <1>1, NoLookup, SettledPositive DEF Contract!Move, Contract!Place, Info

LEMMA ConnectionImplements ==
    ASSUME CacheInv, CacheInv', NEW c \in Conn, Connection(c)
    PROVE  Contract!Move \/ UNCHANGED Contract!whereabouts
<1>1. UNCHANGED <<step, info>> /\ (since' = 0 \/ UNCHANGED stored)
  BY DEF Connection, Grant, Abort, Join, Leave, Release, Left, Write, lookup, stored
<1>2. CASE since' = 0
  BY <1>1, <1>2, WriteMoves DEF CacheInv
<1>3. CASE UNCHANGED stored
  BY <1>1, <1>3, NoLookup DEF stored, Address, Contract!whereabouts, Contract!place_vars
<1>4. QED
  BY <1>1, <1>2, <1>3

LEMMA LookupImplements ==
    ASSUME CacheInv, NEW l \in Lookup,
           Answer(l) \/ \E n \in Node : Hit(l, n) \/ Miss(l, n)
    PROVE  \/ Contract!Ask(l) \/ Contract!Find(l) \/ Contract!FindError(l)
           \/ Contract!AskAgain(l) \/ Contract!Forget({l})
           \/ UNCHANGED Contract!whereabouts
<1>0. TypeOK /\ phase[l] = (IF step[l] = "idle" THEN "idle"
                            ELSE IF step[l] = "routed" THEN "found" ELSE "looking")
  BY DEF CacheInv, phase
<1>1. UNCHANGED <<Address, since>>
  BY DEF Answer, Read, Fill, ReadError, Done, Retry, Hit, Miss, stored, Address
<1>2. ASSUME NEW n \in Node, Hit(l, n) PROVE Contract!Find(l)
  <2>1. cache[n] \in IF since = Settled THEN {Address} ELSE Info
    BY <1>0, <1>2, SettledRight DEF Hit, TypeOK
  <2>2. /\ phase' = [phase EXCEPT ![l] = "found"]
        /\ known' = [known EXCEPT ![l] = cache[n]]
    <3>1. info'[l] = cache[n]
      BY <1>0, <1>2 DEF Hit, TypeOK
    <3>2. QED
      BY <1>0, <1>2, <3>1, OneLookup DEF Hit
  <2>3. QED
    BY <1>0, <1>1, <1>2, <2>1, <2>2
       DEF Hit, Contract!Find, Contract!Place, Info, Contract!place_vars
<1>3. ASSUME NEW n \in Node, Miss(l, n) PROVE Contract!Ask(l)
  <2>1. phase' = [phase EXCEPT ![l] = "looking"] /\ known' = [known EXCEPT ![l] = Offline]
    BY <1>0, <1>3, OneLookup DEF Miss
  <2>2. known' = known
    BY <1>3, <2>1 DEF Miss, known
  <2>3. QED
    BY <1>0, <1>1, <1>3, <2>1, <2>2 DEF Miss, Contract!Ask, Contract!place_vars
<1>4. ASSUME Read(l) PROVE UNCHANGED Contract!whereabouts
  <2>1. phase' = [phase EXCEPT ![l] = "looking"] /\ known' = [known EXCEPT ![l] = Offline]
    BY <1>0, <1>4, OneLookup DEF Read
  <2>2. phase' = phase /\ known' = known
    BY <1>0, <1>4, <2>1 DEF Read, known, phase
  <2>3. QED
    BY <1>1, <2>2 DEF Contract!whereabouts, Contract!place_vars
<1>5. ASSUME Fill(l) PROVE Contract!Find(l)
  <2>1. info[l] \in IF since = Settled THEN {Address} ELSE Info
    BY <1>0, <1>5, SettledRight DEF Fill, TypeOK
  <2>2. phase' = [phase EXCEPT ![l] = "found"] /\ known' = [known EXCEPT ![l] = info[l]]
    BY <1>0, <1>5, OneLookup DEF Fill
  <2>3. QED
    BY <1>0, <1>1, <1>5, <2>1, <2>2
       DEF Fill, Contract!Find, Contract!Place, Info, Contract!place_vars
<1>6. ASSUME ReadError(l) PROVE Contract!FindError(l)
  <2>1. phase' = [phase EXCEPT ![l] = "found"] /\ known' = [known EXCEPT ![l] = Offline]
    <3>1. info'[l] = Offline
      BY <1>0, <1>6 DEF ReadError, TypeOK
    <3>2. QED
      BY <1>0, <1>6, <3>1, OneLookup DEF ReadError
  <2>2. QED
    BY <1>0, <1>1, <1>6, <2>1 DEF ReadError, Contract!FindError, Contract!place_vars
<1>7. ASSUME Done(l) PROVE Contract!Forget({l})
  <2>1. phase' = [phase EXCEPT ![l] = "idle"] /\ known' = [known EXCEPT ![l] = Offline]
    BY <1>0, <1>7, OneLookup DEF Done
  <2>2. /\ phase' = [j \in Lookup |-> IF j \in {l} THEN "idle" ELSE phase[j]]
        /\ known' = [j \in Lookup |-> IF j \in {l} THEN Offline ELSE known[j]]
    BY <2>1 DEF phase, known
  <2>3. QED
    BY <1>1, <2>2 DEF Contract!Forget, Contract!place_vars
<1>8. ASSUME Retry(l) PROVE Contract!AskAgain(l)
  <2>1. phase' = [phase EXCEPT ![l] = "looking"] /\ known' = [known EXCEPT ![l] = Offline]
    BY <1>0, <1>8, OneLookup DEF Retry
  <2>2. QED
    BY <1>0, <1>1, <1>8, <2>1 DEF Retry, Contract!AskAgain, Contract!place_vars
<1>9. QED
  BY <1>2, <1>3, <1>4, <1>5, <1>6, <1>7, <1>8 DEF Answer

\* A tick settles the place, or is not seen.
LEMMA TickImplements ==
    ASSUME CacheInv, Tick
    PROVE  Contract!Settle \/ UNCHANGED Contract!whereabouts
<1>1. UNCHANGED <<phase, known, Address>>
  BY NoLookup DEF Tick, Address
<1>2. since' = IF since < Settled THEN since + 1 ELSE since
  BY DEF Tick
<1>3. since \in 0..Settled
  BY DEF CacheInv, TypeOK
<1>4. CASE since # Settled /\ since' = Settled
  BY <1>1, <1>4 DEF Contract!Settle
<1>5. CASE (since = Settled) <=> (since' = Settled)
  BY <1>1, <1>5 DEF Contract!whereabouts, Contract!place_vars
<1>6. QED
  BY <1>2, <1>3, <1>4, <1>5, SettledPositive

\* The lookups of a process end with it.
LEMMA RestartImplements ==
    ASSUME CacheInv, NEW n \in Node, Restart(n)
    PROVE  \E S \in SUBSET Lookup : Contract!Forget(S)
<1> DEFINE S == {l \in Lookup : at[l] = n}
<1>1. UNCHANGED <<Address, since>>
  BY DEF Restart, stored, Address
<1>2. \A l \in Lookup : step'[l] = (IF l \in S THEN "idle" ELSE step[l]) /\ info'[l] = info[l]
  BY DEF Restart
<1>3. /\ phase' = [l \in Lookup |-> IF l \in S THEN "idle" ELSE phase[l]]
      /\ known' = [l \in Lookup |-> IF l \in S THEN Offline ELSE known[l]]
  BY <1>2 DEF phase, known
<1>4. Contract!Forget(S)
  BY <1>1, <1>3 DEF Contract!Forget, Contract!place_vars
<1>5. QED
  BY <1>4

\* What the caches do, with all their races, is what the forwarding of requests relies
\* on: a lookup finds the openHAB's place once that has settled, on every node, or
\* nothing when Redis fails.
THEOREM CacheImplementsWhereabouts == Spec => ImplementsWhereabouts
<1>1. Init => Contract!WInit
  BY DEF Init, Contract!WInit, Address, phase, known
<1>2. CacheInv /\ CacheInv' /\ [Next]_vars => [Contract!WNext]_(Contract!whereabouts)
  <2> SUFFICES ASSUME CacheInv, CacheInv', [Next]_vars
               PROVE  Contract!WNext \/ UNCHANGED Contract!whereabouts
    OBVIOUS
  <2>1. CASE UNCHANGED vars
    BY <2>1 DEF vars, stored, lookup, phase, known, Address, Contract!whereabouts,
       Contract!place_vars
  <2>2. ASSUME NEW c \in Conn, Connection(c)
        PROVE  Contract!WNext \/ UNCHANGED Contract!whereabouts
    BY <2>2, ConnectionImplements DEF Contract!WNext
  <2>3. ASSUME Expire PROVE Contract!WNext \/ UNCHANGED Contract!whereabouts
    <3>1. since' = 0 /\ UNCHANGED <<step, info>>
      BY <2>3 DEF Expire, Write, lookup
    <3>2. QED
      BY <3>1, WriteMoves DEF Contract!WNext, CacheInv
  <2>4. ASSUME NEW l \in Lookup, Answer(l) \/ \E n \in Node : Hit(l, n) \/ Miss(l, n)
        PROVE  Contract!WNext \/ UNCHANGED Contract!whereabouts
    <3>1. {l} \in SUBSET Lookup
      OBVIOUS
    <3>2. QED
      BY <2>4, <3>1, LookupImplements DEF Contract!WNext
  <2>5. ASSUME NEW n \in Node, Restart(n)
        PROVE  Contract!WNext \/ UNCHANGED Contract!whereabouts
    BY <2>5, RestartImplements DEF Contract!WNext
  <2>6. ASSUME Tick PROVE Contract!WNext \/ UNCHANGED Contract!whereabouts
    BY <2>6, TickImplements DEF Contract!WNext
  <2>7. QED
    BY <2>1, <2>2, <2>3, <2>4, <2>5, <2>6 DEF Next
<1>3. QED
  BY <1>1, <1>2, CacheCorrect, PTL DEF Spec, ImplementsWhereabouts, Contract!WSpec
=============================================================================
