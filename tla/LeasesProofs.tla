----------------------------- MODULE LeasesProofs -----------------------------
(***************************************************************************)
(* That the events of an openHAB's connections balance, for any sockets,   *)
(* strangers and block.  And what the job lock gives a job of any length,  *)
(* shorter or longer than the lock, for any number of runs.                *)
(***************************************************************************)
EXTENDS Leases, FiniteSetTheorems, TLAPS

-----------------------------------------------------------------------------
(* Presence.                                                               *)

\* The inductive invariant: those who are connected are finitely many.
PresenceInv == EventsBalance /\ IsFiniteSet(Attached)

\* What a step of socket s leaves alone.
Stay(s) == \A t \in All : t # s => step'[t] = step[t]

LEMMA GotoIs ==
    ASSUME TypeOK, NEW s \in All, NEW to, Goto(s, to)
    PROVE  step'[s] = to /\ Stay(s)
BY DEF TypeOK, Goto, Stay

LEMMA RefusedIs ==
    ASSUME TypeOK, NEW s \in All, Refused(s)
    PROVE  step'[s] \in {"gone", "away"} /\ Stay(s)
BY GotoIs DEF Refused

\* Who is not connected before and after changes no account.
LEMMA Elsewhere ==
    ASSUME NEW s \in All, Stay(s),
           step[s] \in {"connected", "release"} <=> step'[s] \in {"connected", "release"}
    PROVE  Attached' = Attached
BY DEF Stay, Attached

LEMMA Balanced ==
    ASSUME PresenceInv, TypeOK', Attached' = Attached, UNCHANGED <<saving, balance, lost>>
    PROVE  PresenceInv'
BY DEF PresenceInv, EventsBalance

LEMMA PresenceInit == Init => PresenceInv
<1> SUFFICES ASSUME Init PROVE PresenceInv
  OBVIOUS
<1>1. TypeOK
  <2>1. saving \in [Event -> 0..Saves]
    <3>1. saving = [kind \in Event |-> 0]
      BY DEF Init, Event
    <3>2. QED
      BY <3>1, PresenceAssumption
  <2>2. blocked \in 0..Block /\ balance \in Int
    BY PresenceAssumption DEF Init
  <2>3. step \in [All -> {"away"}] /\ lock = None /\ lost \in BOOLEAN
    BY DEF Init
  <2>4. QED
    BY <2>1, <2>2, <2>3 DEF TypeOK
<1>2. Attached = {}
  BY DEF Init, Attached
<1>3. IsFiniteSet({}) /\ Cardinality({}) = 0
  BY FS_EmptySet
<1>4. balance + saving.online - saving.offline = 0
  BY DEF Init
<1>5. QED
  BY <1>1, <1>2, <1>3, <1>4 DEF PresenceInv, EventsBalance

-----------------------------------------------------------------------------
(* The handshake: a socket that is refused leaves no event.                *)

LEMMA HandshakeStep ==
    ASSUME PresenceInv, NEW s \in All,
           \/ Handshake(s) \/ IsBlocked(s) \/ NotBlocked(s) \/ Authenticated(s)
           \/ NotAuthenticated(s) \/ BlockUuid(s) \/ NotAcquired(s) \/ Leave(s)
           \/ Disconnect(s)
    PROVE  PresenceInv'
<1> USE DEF PresenceInv, EventsBalance
<1>1. UNCHANGED <<saving, balance, lost>>
  BY DEF Handshake, IsBlocked, NotBlocked, Authenticated, NotAuthenticated, BlockUuid,
         NotAcquired, Leave, Disconnect
<1>2. blocked' \in 0..Block
  BY PresenceAssumption DEF TypeOK, Handshake, IsBlocked, NotBlocked, Authenticated,
         NotAuthenticated, BlockUuid, NotAcquired, Leave, Disconnect
<1>3. lock' \in All \cup {None}
  BY DEF TypeOK, Handshake, IsBlocked, NotBlocked, Authenticated, NotAuthenticated,
         BlockUuid, NotAcquired, Leave, Disconnect
<1>4. PICK to \in {"away", "check", "auth", "block", "lock", "release", "gone"} :
        /\ Goto(s, to)
        /\ to = "release" <=> step[s] = "connected"
        /\ step[s] # "release"
  BY DEF Handshake, IsBlocked, NotBlocked, Authenticated, NotAuthenticated, BlockUuid,
         NotAcquired, Leave, Disconnect, Refused
<1>5. TypeOK'
  BY <1>1, <1>2, <1>3, <1>4 DEF TypeOK, Goto
<1>6. step'[s] = to /\ Stay(s)
  BY <1>4, GotoIs
<1>7. Attached' = Attached
  BY <1>4, <1>6, Elsewhere
<1>8. QED
  BY <1>1, <1>5, <1>7, Balanced

\* One more is connected, and one more event is going to be saved.
LEMMA ConnectStep ==
    ASSUME PresenceInv, NEW s \in All, Connect(s)
    PROVE  PresenceInv'
<1> USE DEF PresenceInv, EventsBalance
<1>1. TypeOK'
  BY PresenceAssumption DEF TypeOK, Connect, Goto, Saving, Event
<1>2. step'[s] = "connected" /\ step[s] = "lock" /\ Stay(s)
  BY GotoIs DEF Connect
<1>3. s \notin Attached /\ Attached' = Attached \cup {s}
  BY <1>2 DEF Attached, Stay
<1>4. IsFiniteSet(Attached') /\ Cardinality(Attached') = Cardinality(Attached) + 1
  BY <1>3, FS_AddElement
<1>5. /\ saving'["online"] = saving["online"] + 1 /\ saving'["offline"] = saving["offline"]
      /\ balance' = balance /\ lost' = lost
  BY DEF Connect, Saving, TypeOK, Event
<1>6. balance \in Int /\ saving["online"] \in Int /\ saving["offline"] \in Int
  BY PresenceAssumption DEF TypeOK, Event
<1>7. Cardinality(Attached) \in Int
  BY FS_CardinalityType
<1>8. ~lost' => balance' + saving'["online"] - saving'["offline"] = Cardinality(Attached')
  BY <1>4, <1>5, <1>6, <1>7
<1>9. QED
  BY <1>1, <1>4, <1>8

\* One less.
LEMMA ReleasedStep ==
    ASSUME PresenceInv, NEW s \in All, Released(s)
    PROVE  PresenceInv'
<1> USE DEF PresenceInv, EventsBalance
<1>1. TypeOK'
  BY PresenceAssumption DEF TypeOK, Released, Goto, Saving, Event
<1>2. step'[s] = "away" /\ step[s] = "release" /\ Stay(s)
  BY GotoIs DEF Released
<1>3. s \in Attached /\ Attached' = Attached \ {s}
  BY <1>2 DEF Attached, Stay
<1>4. IsFiniteSet(Attached') /\ Cardinality(Attached') = Cardinality(Attached) - 1
  BY <1>3, FS_RemoveElement
<1>5. /\ saving'["offline"] = saving["offline"] + 1 /\ saving'["online"] = saving["online"]
      /\ balance' = balance /\ lost' = lost
  BY DEF Released, Saving, TypeOK, Event
<1>6. balance \in Int /\ saving["online"] \in Int /\ saving["offline"] \in Int
  BY PresenceAssumption DEF TypeOK, Event
<1>7. Cardinality(Attached) \in Int
  BY FS_CardinalityType
<1>8. ~lost' => balance' + saving'["online"] - saving'["offline"] = Cardinality(Attached')
  BY <1>4, <1>5, <1>6, <1>7
<1>9. QED
  BY <1>1, <1>4, <1>8

\* The one who is not recorded any more is lost.
LEMMA CrashStep ==
    ASSUME PresenceInv, NEW s \in All, Crash(s)
    PROVE  PresenceInv'
<1> USE DEF PresenceInv, EventsBalance
<1>1. TypeOK' /\ lost'
  BY DEF TypeOK, Crash, Goto
<1>2. step'[s] = "away" /\ Stay(s)
  BY GotoIs DEF Crash
<1>3. Attached' \subseteq Attached
  BY <1>2 DEF Attached, Stay
<1>4. IsFiniteSet(Attached')
  BY <1>3, FS_Subset
<1>5. QED
  BY <1>1, <1>4

-----------------------------------------------------------------------------
(* Redis and MongoDB.                                                      *)

LEMMA SaveEventStep ==
    ASSUME PresenceInv, NEW kind \in Event, Save(kind) \/ SaveFails(kind)
    PROVE  PresenceInv'
<1> USE DEF PresenceInv, EventsBalance
<1>1. /\ Attached' = Attached /\ kind \in {"online", "offline"} /\ balance \in Int
      /\ saving["online"] \in Nat /\ saving["offline"] \in Nat /\ Saves \in Nat
  BY PresenceAssumption DEF Save, SaveFails, Attached, Event, TypeOK
<1>2. Worth(kind) \in Int
  BY DEF Worth
<1>3. saving' \in [Event -> 0..Saves]
  BY <1>1 DEF TypeOK, Save, SaveFails
<1>4. balance' \in {0, balance, balance + Worth(kind)}
  BY DEF Save, SaveFails
<1>5. balance' \in Int
  BY <1>1, <1>2, <1>4
<1>6. lost' = lost \/ lost' = TRUE
  BY DEF Save, SaveFails
<1>7. lost' \in BOOLEAN
  <2>1. lost \in BOOLEAN
    BY DEF TypeOK
  <2>2. QED
    BY <1>6, <2>1
<1>8. TypeOK'
  BY <1>3, <1>5, <1>7 DEF TypeOK, Save, SaveFails
<1>9. ASSUME ~lost'
      PROVE  balance' + saving'["online"] - saving'["offline"] = Cardinality(Attached')
  <2>1. /\ Save(kind) /\ ~lost /\ balance' = balance + Worth(kind)
        /\ saving' = [saving EXCEPT ![kind] = saving[kind] - 1]
    BY <1>9 DEF Save, SaveFails
  <2>2. balance + saving["online"] - saving["offline"] = Cardinality(Attached)
    BY <2>1
  <2>3. CASE kind = "online"
    <3>1. /\ saving'["online"] = saving["online"] - 1 /\ saving'["offline"] = saving["offline"]
          /\ balance' = balance + 1
      BY <2>1, <2>3 DEF Worth, TypeOK, Event
    <3>2. QED
      BY <1>1, <2>2, <3>1
  <2>4. CASE kind = "offline"
    <3>1. /\ saving'["offline"] = saving["offline"] - 1 /\ saving'["online"] = saving["online"]
          /\ balance' = balance - 1
      BY <1>1, <2>1, <2>4 DEF Worth, TypeOK, Event
    <3>2. QED
      BY <1>1, <2>2, <3>1
  <2>5. QED
    BY <1>1, <2>3, <2>4
<1>10. QED
  BY <1>1, <1>8, <1>9

LEMMA RedisStep ==
    ASSUME PresenceInv, LockExpires \/ Tick \/ UNCHANGED vars
    PROVE  PresenceInv'
<1>1. TypeOK'
  BY PresenceAssumption DEF PresenceInv, EventsBalance, TypeOK, LockExpires, Tick, vars
<1>2. Attached' = Attached /\ UNCHANGED <<saving, balance, lost>>
  BY DEF Attached, LockExpires, Tick, vars
<1>3. QED
  BY <1>1, <1>2, Balanced

\* As long as no event is lost, those in MongoDB and those on their way tell how many
\* sockets are connected - for any sockets and strangers, however often they come.
THEOREM EventsAlwaysBalance == Spec => []EventsBalance
<1>1. PresenceInv /\ [Next]_vars => PresenceInv'
  <2>1. ASSUME PresenceInv, Next PROVE PresenceInv'
    BY <2>1, HandshakeStep, ConnectStep, ReleasedStep, CrashStep, SaveEventStep, RedisStep DEF Next
  <2>2. QED
    BY <2>1, RedisStep
<1>2. PresenceInv => EventsBalance
  BY DEF PresenceInv
<1>3. QED
  BY PresenceInit, <1>1, <1>2, PTL DEF Spec

-----------------------------------------------------------------------------
(* The job lock.                                                           *)

LEMMA JobInit == J!Init => J!JobInv
<1> SUFFICES ASSUME J!Init PROVE J!JobInv
  OBVIOUS
<1> USE JobAssumption DEF J!Init
<1>1. J!TypeOK
  <2>1. /\ now \in 0..MaxTime /\ lease \in 0..LockTime /\ saved \in 0..MaxTime
        /\ job \in [Run -> {"idle", "collecting", "saving"}]
        /\ spent \in [Run -> 0..JobTime] /\ stamp \in [Run -> 0..MaxTime]
    OBVIOUS
  <2>2. QED
    BY <2>1 DEF J!TypeOK
<1>2. J!RunsApart /\ J!LeaseCovers /\ J!StampsOrdered
  BY DEF J!RunsApart, J!LeaseCovers, J!StampsOrdered
<1>3. QED
  BY <1>1, <1>2 DEF J!JobInv

LEMMA JobTypes ==
    ASSUME J!TypeOK, [J!Next]_(J!vars)
    PROVE  J!TypeOK'
<1> USE JobAssumption DEF J!TypeOK
<1>1. CASE UNCHANGED J!vars
  BY <1>1 DEF J!vars
<1>2. CASE J!Tick
  BY <1>2 DEF J!Tick
<1>3. ASSUME NEW r \in Run, J!Start(r) \/ J!Collect(r) \/ J!Save(r) \/ J!Fail(r)
      PROVE  J!TypeOK'
  <2>1. late' \in BOOLEAN
    <3>1. CASE J!Save(r)
      <4>1. late' = (spent[r] >= LockTime)
        BY <3>1 DEF J!Save, J!Outlived
      <4>2. (spent[r] >= LockTime) \in BOOLEAN
        OBVIOUS
      <4>3. QED
        BY <4>1, <4>2, Zenon
    <3>2. CASE late' = late
      BY <3>2
    <3>3. QED
      BY <1>3, <3>1, <3>2 DEF J!Start, J!Collect, J!Fail
  <2>2. QED
    BY <1>3, <2>1 DEF J!Start, J!Collect, J!Save, J!Fail
<1>4. QED
  BY <1>1, <1>2, <1>3 DEF J!Next

\* Whoever takes the lock finds it run out, and every run in progress with it.
LEMMA StartStep ==
    ASSUME J!JobInv, NEW r \in Run, J!Start(r)
    PROVE  J!RunsApart' /\ J!LeaseCovers' /\ J!StampsOrdered'
<1> USE JobAssumption DEF J!JobInv, J!TypeOK
<1>1. \A s \in Run : job[s] # "idle" => spent[s] >= LockTime
  BY DEF J!Start, J!Free, J!LeaseCovers
<1>2. /\ job'[r] = "collecting" /\ spent'[r] = 0 /\ job[r] = "idle" /\ lease' = LockTime
      /\ \A s \in Run : s # r => job'[s] = job[s] /\ spent'[s] = spent[s]
      /\ UNCHANGED <<now, stamp, saved, late>>
  BY DEF J!Start
<1>3. J!RunsApart'
  BY <1>1, <1>2 DEF J!RunsApart
<1>4. J!LeaseCovers'
  BY <1>2 DEF J!LeaseCovers
<1>5. J!StampsOrdered'
  BY <1>2 DEF J!StampsOrdered, J!Outlived
<1>6. QED
  BY <1>3, <1>4, <1>5

LEMMA CollectStep ==
    ASSUME J!JobInv, NEW r \in Run, J!Collect(r)
    PROVE  J!RunsApart' /\ J!LeaseCovers' /\ J!StampsOrdered'
<1> USE DEF J!JobInv, J!TypeOK
<1>1. /\ job[r] # "idle" /\ stamp'[r] = now
      /\ \A s \in Run : /\ job'[s] # "idle" <=> job[s] # "idle"
                        /\ s # r => job'[s] = job[s] /\ stamp'[s] = stamp[s]
      /\ UNCHANGED <<now, lease, spent, saved, late>>
  BY DEF J!Collect
<1>2. J!RunsApart' /\ J!LeaseCovers'
  BY <1>1 DEF J!RunsApart, J!LeaseCovers
<1>3. J!StampsOrdered'
  BY <1>1 DEF J!StampsOrdered, J!Outlived
<1>4. QED
  BY <1>2, <1>3

\* Of two runs that are both about to save, one has outlived its lock.
LEMMA SaveStep ==
    ASSUME J!JobInv, NEW r \in Run, J!Save(r)
    PROVE  J!RunsApart' /\ J!LeaseCovers' /\ J!StampsOrdered'
<1> USE JobAssumption DEF J!JobInv, J!TypeOK
<1>1. /\ job[r] = "saving" /\ job'[r] = "idle" /\ saved' = stamp[r]
      /\ spent[r] >= LockTime => late'
      /\ \A s \in Run : s # r => job'[s] = job[s] /\ spent'[s] = spent[s]
      /\ UNCHANGED <<now, lease, stamp>>
  BY DEF J!Save, J!Outlived
<1>2. J!RunsApart' /\ J!LeaseCovers'
  BY <1>1 DEF J!RunsApart, J!LeaseCovers
<1>3. ASSUME NEW s \in Run, job'[s] = "saving", ~(spent'[s] >= LockTime)
      PROVE  late'
  <2>1. s # r /\ job[s] = "saving" /\ ~(spent[s] >= LockTime)
    BY <1>1, <1>3
  <2>2. spent[r] >= spent[s] + LockTime
    BY <1>1, <2>1 DEF J!RunsApart
  <2>3. QED
    BY <1>1, <2>2
<1>4. J!StampsOrdered'
  BY <1>1, <1>3 DEF J!StampsOrdered, J!Outlived
<1>5. QED
  BY <1>2, <1>4

LEMMA FailStep ==
    ASSUME J!JobInv, NEW r \in Run, J!Fail(r)
    PROVE  J!RunsApart' /\ J!LeaseCovers' /\ J!StampsOrdered'
<1> USE DEF J!JobInv, J!TypeOK
<1>1. /\ job'[r] = "idle"
      /\ \A s \in Run : s # r => job'[s] = job[s] /\ spent'[s] = spent[s]
      /\ UNCHANGED <<now, lease, stamp, saved, late>>
  BY DEF J!Fail
<1>2. QED
  BY <1>1 DEF J!RunsApart, J!LeaseCovers, J!StampsOrdered, J!Outlived

LEMMA TickStep ==
    ASSUME J!JobInv, J!Tick
    PROVE  J!RunsApart' /\ J!LeaseCovers' /\ J!StampsOrdered'
<1> USE JobAssumption DEF J!JobInv, J!TypeOK
<1>1. /\ \A s \in Run : job[s] # "idle" => spent'[s] = spent[s] + 1
      /\ lease' + 1 >= lease /\ now' = now + 1
      /\ UNCHANGED <<job, stamp, saved, late>>
  BY DEF J!Tick
<1>2. J!RunsApart'
  BY <1>1 DEF J!RunsApart
<1>3. J!LeaseCovers'
  BY <1>1 DEF J!LeaseCovers, J!Tick
<1>4. J!StampsOrdered'
  BY <1>1 DEF J!StampsOrdered, J!Outlived
<1>5. QED
  BY <1>2, <1>3, <1>4

LEMMA JobStep ==
    ASSUME J!JobInv, [J!Next]_(J!vars)
    PROVE  J!JobInv'
<1>1. J!TypeOK'
  BY JobTypes DEF J!JobInv
<1>2. J!RunsApart' /\ J!LeaseCovers' /\ J!StampsOrdered'
  <2>1. CASE UNCHANGED J!vars
    BY <2>1 DEF J!vars, J!JobInv, J!RunsApart, J!LeaseCovers, J!StampsOrdered, J!Outlived
  <2>2. CASE J!Next
    BY <2>2, StartStep, CollectStep, SaveStep, FailStep, TickStep DEF J!Next
  <2>3. QED
    BY <2>1, <2>2
<1>3. QED
  BY <1>1, <1>2 DEF J!JobInv

\* Older statistics over newer ones: one of the two runs was late.
LEMMA OlderIsLate ==
    ASSUME J!JobInv, [J!Next]_(J!vars), saved' < saved
    PROVE  late \/ late'
<1> USE DEF J!JobInv, J!TypeOK
<1>1. PICK r \in Run : J!Save(r)
  BY DEF J!Next, J!Tick, J!Start, J!Collect, J!Fail, J!vars
<1>2. job[r] = "saving" /\ saved' = stamp[r] /\ late' = J!Outlived(r)
  BY <1>1 DEF J!Save
<1>3. ~(saved <= stamp[r])
  BY <1>2
<1>4. QED
  BY <1>2, <1>3 DEF J!StampsOrdered

\* Whatever a job takes, and however many nodes start it: the lease covers a run
\* until the run outlives it.
THEOREM JobCorrect == J!Spec => []JobInv
<1>1. J!JobInv /\ [J!Next]_(J!vars) => J!JobInv'
  BY JobStep
<1>2. QED
  BY JobInit, <1>1, PTL DEF J!Spec, JobInv

\* Runs that overlap took the lock at least lockTimeoutSeconds apart: that is what
\* the lock gives a job of any length.
THEOREM OverlapIsLate == J!Spec => []RunsApart
<1>1. J!JobInv /\ [J!Next]_(J!vars) => J!JobInv'
  BY JobStep
<1>2. J!JobInv => RunsApart
  BY DEF J!JobInv, RunsApart
<1>3. QED
  BY JobInit, <1>1, <1>2, PTL DEF J!Spec

\* Saved statistics go back only where a run that outlived its lock has saved.
THEOREM StatsMoveForward == J!Spec => StatsForward
<1>1. J!JobInv /\ [J!Next]_(J!vars) =>
        J!JobInv' /\ [saved' < saved => late \/ late']_(J!vars)
  BY JobStep, OlderIsLate
<1>2. QED
  BY JobInit, <1>1, PTL DEF J!Spec, StatsForward, J!StatsForward
=============================================================================
