------------------------------ MODULE Presence ------------------------------
(***************************************************************************)
(* The way of an openHAB's sockets in and out (socket/socket-server.ts):   *)
(* the block after a failed authentication and the authentication itself   *)
(* (socket/connection-manager.ts), and the 'online' and 'offline' events   *)
(* that each connection leaves in MongoDB.                                 *)
(*                                                                         *)
(* The connection lock is here what TimelyConnectionLock is shown to make  *)
(* of it: one socket holds it at a time, and nobody's expires while it is  *)
(* connected.  Each command is an action; Redis and MongoDB may fail in    *)
(* any of them, and a client may leave at any time.                        *)
(*                                                                         *)
(* Operators named Bug... are not part of the model: each is a definition  *)
(* with one mistake, to show that a property would notice it.              *)
(***************************************************************************)
EXTENDS Integers, FiniteSets

CONSTANTS
    Socket,    \* sockets of the openHAB
    Stranger,  \* sockets with its uuid and a wrong secret; bound: each tries once
    Block,     \* how long a uuid is blocked, in ticks
    Saves,     \* bound: events of each kind that are being saved
    None

ASSUME PresenceAssumption ==
    /\ Block \in Nat \ {0} /\ Saves \in Nat \ {0}
    /\ Socket \cap Stranger = {} /\ None \notin Socket \cup Stranger

All == Socket \cup Stranger

VARIABLES
    blocked,  \* ticks until the block of the uuid expires
    lock,     \* the socket whose lock is in Redis
    step,     \* what happens next with each socket
    saving,   \* how many events of each kind are being saved
    balance,  \* online events minus offline events in MongoDB
    lost      \* an event got lost, or a node died

vars == <<blocked, lock, step, saving, balance, lost>>

Init ==
    /\ blocked = 0 /\ lock = None
    /\ step = [s \in All |-> "away"]
    /\ saving = [online |-> 0, offline |-> 0]
    /\ balance = 0 /\ lost = FALSE

-----------------------------------------------------------------------------
(* The handshake: the middlewares, in their order.                         *)

Goto(s, to) == step' = [step EXCEPT ![s] = to]

\* The client gets an error, and may try again.
Refused(s) == Goto(s, IF s \in Stranger THEN "gone" ELSE "away")

\* A node that is shutting down refuses at once: that changes nothing.
Handshake(s) ==
    /\ step[s] = "away"
    /\ Goto(s, "check")
    /\ UNCHANGED <<blocked, lock, saving, balance, lost>>

BugIsBlocked(s) ==
    /\ step[s] = "check" /\ blocked > 0
    /\ blocked' = Block
    /\ Refused(s)
    /\ UNCHANGED <<lock, saving, balance, lost>>

IsBlocked(s) ==
    /\ step[s] = "check" /\ blocked > 0
    /\ Refused(s)
    /\ UNCHANGED <<blocked, lock, saving, balance, lost>>

\* There is no key, or Redis cannot say.
NotBlocked(s) ==
    /\ step[s] = "check"
    /\ Goto(s, "auth")
    /\ UNCHANGED <<blocked, lock, saving, balance, lost>>

\* The openHAB is found, and the secret is right.
Authenticated(s) ==
    /\ step[s] = "auth" /\ s \in Socket
    /\ Goto(s, "lock")
    /\ UNCHANGED <<blocked, lock, saving, balance, lost>>

\* It is not; or MongoDB fails, which is no different.
NotAuthenticated(s) ==
    /\ step[s] = "auth"
    /\ Goto(s, "block")
    /\ UNCHANGED <<blocked, lock, saving, balance, lost>>

\* SET NX EX: a block is not made longer.  It may also fail.
BlockUuid(s) ==
    /\ step[s] = "block"
    /\ blocked' \in {blocked, IF blocked = 0 THEN Block ELSE blocked}
    /\ Refused(s)
    /\ UNCHANGED <<lock, saving, balance, lost>>

\* An event is going to be saved.
Saving(kind) ==
    /\ saving[kind] < Saves
    /\ saving' = [saving EXCEPT ![kind] = @ + 1]

Connect(s) ==
    /\ step[s] = "lock" /\ lock = None
    /\ lock' = s
    /\ Goto(s, "connected")
    /\ Saving("online")
    /\ UNCHANGED <<blocked, balance, lost>>

\* Another socket has the lock, or Redis fails.
NotAcquired(s) ==
    /\ step[s] = "lock"
    /\ Refused(s)
    /\ UNCHANGED <<blocked, lock, saving, balance, lost>>

\* The client leaves, or the reply is lost; the lock may have been taken.
Leave(s) ==
    /\ step[s] \in {"check", "auth", "lock"}
    /\ lock' \in {lock} \cup IF step[s] = "lock" /\ lock = None THEN {s} ELSE {}
    /\ Refused(s)
    /\ UNCHANGED <<blocked, saving, balance, lost>>

-----------------------------------------------------------------------------
(* The end of a connection.                                                *)

Disconnect(s) ==
    /\ step[s] = "connected"
    /\ Goto(s, "release")
    /\ UNCHANGED <<blocked, lock, saving, balance, lost>>

BugReleased(s) ==
    /\ step[s] = "release"
    /\ \/ lock = s /\ lock' = None /\ Saving("offline")
       \/ UNCHANGED <<lock, saving>>
    /\ Goto(s, "away")
    /\ UNCHANGED <<blocked, balance, lost>>

\* Whether the lock was still there, could be deleted or not: the event follows.
Released(s) ==
    /\ step[s] = "release"
    /\ lock' \in {lock} \cup IF lock = s THEN {None} ELSE {}
    /\ Saving("offline")
    /\ Goto(s, "away")
    /\ UNCHANGED <<blocked, balance, lost>>

\* The node dies: nobody releases the lock or saves the event.
Crash(s) ==
    /\ step[s] \in {"connected", "release"}
    /\ Goto(s, "away")
    /\ lost' = TRUE /\ balance' = 0
    /\ UNCHANGED <<blocked, lock, saving>>

-----------------------------------------------------------------------------
(* Redis and MongoDB.                                                      *)

Worth(kind) == IF kind = "online" THEN 1 ELSE -1

Save(kind) ==
    /\ saving[kind] > 0
    /\ saving' = [saving EXCEPT ![kind] = @ - 1]
    /\ balance' = IF lost THEN 0 ELSE balance + Worth(kind)
    /\ UNCHANGED <<blocked, lock, step, lost>>

SaveFails(kind) ==
    /\ saving[kind] > 0
    /\ saving' = [saving EXCEPT ![kind] = @ - 1]
    /\ lost' = TRUE /\ balance' = 0
    /\ UNCHANGED <<blocked, lock, step>>

\* A lock is not renewed when its socket is not connected.
LockExpires ==
    /\ lock # None /\ step[lock] # "connected"
    /\ lock' = None
    /\ UNCHANGED <<blocked, step, saving, balance, lost>>

Tick ==
    /\ blocked > 0
    /\ blocked' = blocked - 1
    /\ UNCHANGED <<lock, step, saving, balance, lost>>

Event == {"online", "offline"}

Next ==
    \/ \E s \in All :
        \/ Handshake(s) \/ IsBlocked(s) \/ NotBlocked(s)
        \/ Authenticated(s) \/ NotAuthenticated(s) \/ BlockUuid(s)
        \/ Connect(s) \/ NotAcquired(s) \/ Leave(s)
        \/ Disconnect(s) \/ Released(s) \/ Crash(s)
    \/ \E kind \in Event : Save(kind) \/ SaveFails(kind)
    \/ LockExpires \/ Tick

\* The openHAB keeps trying, every command is answered, and time passes.  Of what is
\* tried again and again, not everything fails, and the client does not always leave.
Fairness ==
    /\ \A s \in Socket :
        /\ WF_vars(Handshake(s)) /\ WF_vars(IsBlocked(s) \/ NotBlocked(s))
        /\ SF_vars(blocked = 0 /\ NotBlocked(s))
        /\ SF_vars(Authenticated(s)) /\ SF_vars(Connect(s))
        /\ WF_vars(Released(s))
    /\ \A s \in All : WF_vars(BlockUuid(s))
    /\ \A kind \in Event : WF_vars(Save(kind) \/ SaveFails(kind))
    /\ WF_vars(LockExpires) /\ WF_vars(Tick)

Spec == Init /\ [][Next]_vars /\ Fairness

-----------------------------------------------------------------------------
(* Properties.                                                             *)

TypeOK ==
    /\ blocked \in 0..Block
    /\ lock \in All \cup {None}
    /\ step \in [All -> {"away", "check", "auth", "block", "lock", "connected", "release", "gone"}]
    /\ saving \in [Event -> 0..Saves]
    /\ balance \in Int /\ lost \in BOOLEAN

\* The sockets that have connected and whose end is not recorded yet.
Attached == {s \in All : step[s] \in {"connected", "release"}}

\* As long as no event is lost and no node dies, the events balance: each connection
\* leaves one 'online' and one 'offline', a refused handshake none - whatever became of
\* the lock, and in whichever order the events are saved.
EventsBalance ==
    /\ TypeOK
    /\ ~lost => balance + saving.online - saving.offline = Cardinality(Attached)

\* An openHAB that keeps trying gets in again and again: a block ends, however often it
\* tries meanwhile and however many failures of MongoDB have blocked it.
GetsIn == []<>(\E s \in Socket : step[s] = "connected")
====
