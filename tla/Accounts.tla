------------------------------ MODULE Accounts ------------------------------
(***************************************************************************)
(* Users, accounts, their openHABs and the records these own, in MongoDB   *)
(* (services/user.service.ts, services/openhab.service.ts,                 *)
(* controllers/users.controller.ts, over the repositories of               *)
(* factories/service.factory.ts and models/user.model.ts).                 *)
(*                                                                         *)
(* No operation is a transaction: each awaits one command after the other, *)
(* and each command is an action.  Any command may fail, and the process   *)
(* may die before it (Fail).  A document's id is the request that created  *)
(* it, so that no id is used twice.  The unique indexes on users' names    *)
(* and openHABs' uuids are MongoDB's.                                      *)
(*                                                                         *)
(* Operators named Bug... are not part of the model: each is a definition  *)
(* with one mistake, to show that a property would notice it.              *)
(***************************************************************************)
EXTENDS Naturals, FiniteSets

CONSTANTS
    Request,  \* requests, each handled once; bound: there are no others
    Name,     \* names of users, as the schemas normalise them
    Uuid,     \* uuids of openHABs
    Kind,     \* the kinds of records that are written
    None

OpenhabRecord == {"item", "event", "webhook"}
UserRecord == {"device", "notification", "token"}

Role == {"master", "user"}
UserDoc == [id : Request, account : Request, name : Name, role : Role]
OpenhabDoc == [id : Request, account : Request, uuid : Uuid]
RecordDoc == [id : Request, kind : OpenhabRecord \cup UserRecord, owner : Request]

\* Where each operation goes when setOpenhab has let it pass.
After == [addUser |-> "name", deleteUser |-> "find", update |-> "uuid",
          deleteAccount |-> "user", deleteItems |-> "user"]
Job == DOMAIN After \cup {"register"} \cup Kind

\* Nothing in this version writes items; older versions did.
ASSUME AccountsAssumption ==
    /\ None \notin Request \cup Name \cup Uuid \cup Job \cup UserDoc
    /\ Kind \subseteq (OpenhabRecord \cup UserRecord) \ {"item"}

Ended == {"none", "ok", "error"}
Step == Ended \cup OpenhabRecord \cup UserRecord \cup
        {"setOpenhab", "name", "uuid", "find", "user", "account", "openhab", "save",
         "saveAccount", "saveUser", "saveOpenhab", "openhabs", "users", "accounts"}

VARIABLES
    accounts, users, openhabs, records,  \* the collections
    sockets, \* the ids of openHABs that may have a socket: all there have been
    step,    \* what each request does next
    doing,   \* which operation it is
    me,      \* req.user, as the session's user was found when it arrived
    arg,     \* what it was sent, and has found
    before,  \* the requests that were over when it arrived
    alone    \* no request has arrived while another was handled

stored == <<accounts, users, openhabs, records>>
vars == <<stored, sockets, step, doing, me, arg, before, alone>>

NoArg == [name |-> None, uuid |-> None, role |-> "master", target |-> None]

TypeOK ==
    /\ accounts \subseteq Request /\ users \subseteq UserDoc
    /\ openhabs \subseteq OpenhabDoc /\ records \subseteq RecordDoc
    /\ sockets \subseteq Request
    /\ step \in [Request -> Step]
    /\ doing \in [Request -> Job \cup {None}]
    /\ me \in [Request -> UserDoc \cup {None}]
    /\ arg \in [Request -> [name : Name \cup {None}, uuid : Uuid \cup {None},
                            role : Role, target : Request \cup {None}]]
    /\ before \in [Request -> SUBSET Request]
    /\ alone \in BOOLEAN

Init ==
    /\ accounts = {} /\ users = {} /\ openhabs = {} /\ records = {}
    /\ sockets = {}
    /\ step = [r \in Request |-> "none"]
    /\ doing = [r \in Request |-> None]
    /\ me = [r \in Request |-> None]
    /\ arg = [r \in Request |-> NoArg]
    /\ before = [r \in Request |-> {}]
    /\ alone = TRUE

InProgress == {r \in Request : step[r] \notin Ended}

-----------------------------------------------------------------------------
(* Requests arrive.                                                        *)

\* A request for job d begins at step s, on behalf of u, with a.
Arrive(r, d, s, u, a) ==
    /\ step[r] = "none"
    /\ step' = [step EXCEPT ![r] = s]
    /\ doing' = [doing EXCEPT ![r] = d]
    /\ me' = [me EXCEPT ![r] = u]
    /\ arg' = [arg EXCEPT ![r] = a]
    /\ before' = [before EXCEPT ![r] = {q \in Request : step[q] \in {"ok", "error"}}]
    /\ alone' = (alone /\ InProgress = {})
    /\ UNCHANGED stored

\* POST /register; registration is enabled and the terms are agreed to.
Register(r, n, i) ==
    Arrive(r, "register", "name", None, [NoArg EXCEPT !.name = n, !.uuid = i])

\* Any request for a page of user u's goes through ensureAuthenticated, setOpenhab
\* and ensureMaster.
Enter(r, d, u, a) ==
    /\ u.role = "master"
    /\ Arrive(r, d, "setOpenhab", u, a)

\* POST /users/add.
AddUser(r, u, n, role) == Enter(r, "addUser", u, [NoArg EXCEPT !.name = n, !.role = role])

BugDeleteUser(r, u, id) == Enter(r, "deleteUser", u, [NoArg EXCEPT !.target = id])

\* GET /users/delete/:id, of anybody's id but the own one.
DeleteUser(r, u, id) ==
    /\ id # u.id
    /\ Enter(r, "deleteUser", u, [NoArg EXCEPT !.target = id])

\* POST /account.
Update(r, u, i) == Enter(r, "update", u, [NoArg EXCEPT !.uuid = i])

\* POST /accountdelete and POST /itemsdelete.
DeleteAccount(r, u) == Enter(r, "deleteAccount", u, NoArg)
DeleteItems(r, u) == Enter(r, "deleteItems", u, NoArg)

\* Somebody is going to save a record: the socket of an openHAB, which was found when it
\* connected and may be long deleted (webhooks, events), or somebody who has just found
\* the user it is of (devices, notifications, tokens).
Write(r, k, owner) == Arrive(r, k, "save", None, [NoArg EXCEPT !.target = owner])

-----------------------------------------------------------------------------
(* Steps of a request in progress.                                         *)

Goto(r, s) ==
    /\ step' = [step EXCEPT ![r] = s]
    /\ UNCHANGED <<doing, me, before, alone>>

\* The request is over; of a deletion it is remembered whose it was.
Answer(r, s) ==
    /\ step' = [step EXCEPT ![r] = s]
    /\ IF step[r] = "accounts" /\ s = "ok"
       THEN UNCHANGED <<doing, me, arg, before>>
       ELSE /\ doing' = [doing EXCEPT ![r] = None]
            /\ me' = [me EXCEPT ![r] = None]
            /\ arg' = [arg EXCEPT ![r] = NoArg]
            /\ before' = [before EXCEPT ![r] = {}]
    /\ UNCHANGED alone

\* A command fails, the request is refused for its password, or the process dies.
Fail(r) ==
    /\ step[r] \notin Ended
    /\ Answer(r, "error")
    /\ UNCHANGED stored

BugSetOpenhab(r) ==
    /\ step[r] = "setOpenhab"
    /\ Goto(r, After[doing[r]])
    /\ UNCHANGED <<stored, arg>>

\* Only somebody with an openHAB gets through.
SetOpenhab(r) ==
    /\ step[r] = "setOpenhab"
    /\ \/ \E h \in openhabs :
            /\ h.account = me[r].account
            /\ Goto(r, After[doing[r]])
            /\ arg' = IF doing[r] = "update"
                      THEN [arg EXCEPT ![r].target = h.id] ELSE arg
       \/ /\ \A h \in openhabs : h.account # me[r].account
          /\ Answer(r, "error")
    /\ UNCHANGED stored

\* Is the name free?
FindName(r) ==
    /\ step[r] = "name"
    /\ IF \E u \in users : u.name = arg[r].name
       THEN Answer(r, "error")
       ELSE /\ Goto(r, IF doing[r] = "register" THEN "uuid" ELSE "saveUser")
            /\ UNCHANGED arg
    /\ UNCHANGED stored

\* Is the uuid free, or the openHAB's own?
FindUuid(r) ==
    /\ step[r] = "uuid"
    /\ IF \E h \in openhabs : h.uuid = arg[r].uuid /\ h.id # arg[r].target
       THEN Answer(r, "error")
       ELSE /\ Goto(r, IF doing[r] = "register" THEN "saveAccount" ELSE "save")
            /\ UNCHANGED arg
    /\ UNCHANGED stored

SaveAccount(r) ==
    /\ step[r] = "saveAccount"
    /\ accounts' = accounts \cup {r}
    /\ Goto(r, "saveUser")
    /\ UNCHANGED <<users, openhabs, records, arg>>

\* The account a new user gets.
AccountOf(r) == IF doing[r] = "register" THEN r ELSE me[r].account

SaveUser(r) ==
    /\ step[r] = "saveUser"
    /\ IF \E u \in users : u.name = arg[r].name
       THEN Answer(r, "error") /\ UNCHANGED users
       ELSE /\ users' = users \cup {[id |-> r, account |-> AccountOf(r),
                                     name |-> arg[r].name, role |-> arg[r].role]}
            /\ IF doing[r] = "register" THEN Goto(r, "saveOpenhab") /\ UNCHANGED arg
                                        ELSE Answer(r, "ok")
    /\ UNCHANGED <<accounts, openhabs, records>>

SaveOpenhab(r) ==
    /\ step[r] = "saveOpenhab"
    /\ IF \E h \in openhabs : h.uuid = arg[r].uuid
       THEN Answer(r, "error") /\ UNCHANGED openhabs
       ELSE /\ openhabs' = openhabs \cup {[id |-> r, account |-> r, uuid |-> arg[r].uuid]}
            /\ Answer(r, "ok")
    /\ UNCHANGED <<accounts, users, records>>

\* findByIdAndUpdate, which says nothing when the openHAB is gone.
SaveUuid(r) ==
    /\ step[r] = "save" /\ doing[r] = "update"
    /\ IF \E h \in openhabs : h.uuid = arg[r].uuid /\ h.id # arg[r].target
       THEN Answer(r, "error") /\ UNCHANGED openhabs
       ELSE /\ openhabs' = {IF h.id = arg[r].target
                            THEN [h EXCEPT !.uuid = arg[r].uuid] ELSE h : h \in openhabs}
            /\ Answer(r, "ok")
    /\ UNCHANGED <<accounts, users, records>>

SaveRecord(r) ==
    /\ step[r] = "save" /\ doing[r] \in Kind
    /\ records' = records \cup {[id |-> r, kind |-> doing[r], owner |-> arg[r].target]}
    /\ Answer(r, "ok")
    /\ UNCHANGED <<accounts, users, openhabs>>

BugFindsAnyUser(r) ==
    /\ step[r] = "find"
    /\ IF \E u \in users : u.id = arg[r].target
       THEN Goto(r, "users") /\ UNCHANGED arg
       ELSE Answer(r, "error")
    /\ UNCHANGED stored

\* The user to delete must be of the same account.
FindUser(r) ==
    /\ step[r] = "find"
    /\ IF \E u \in users : u.id = arg[r].target /\ u.account = me[r].account
       THEN Goto(r, "users") /\ UNCHANGED arg
       ELSE Answer(r, "error")
    /\ UNCHANGED stored

\* Nothing but the user's own document: the records stay.
DropUser(r) ==
    /\ step[r] = "users" /\ doing[r] = "deleteUser"
    /\ users' = {u \in users : u.id # arg[r].target}
    /\ Answer(r, "ok")
    /\ UNCHANGED <<accounts, openhabs, records>>

-----------------------------------------------------------------------------
(* deleteAccount and deleteItemsAndEvents.                                 *)

\* The user, and the account, are looked up again.
FindSelf(r) ==
    /\ step[r] = "user"
    /\ IF \E u \in users : u.id = me[r].id
       THEN /\ Goto(r, IF doing[r] = "deleteAccount" THEN "account" ELSE "openhab")
            /\ UNCHANGED arg
       ELSE Answer(r, "error")
    /\ UNCHANGED stored

FindAccount(r) ==
    /\ step[r] = "account"
    /\ IF me[r].account \in accounts
       THEN Goto(r, "openhab") /\ UNCHANGED arg
       ELSE Answer(r, "error")
    /\ UNCHANGED stored

\* A deletion of the account goes on without an openHAB.
FindOpenhab(r) ==
    /\ step[r] = "openhab"
    /\ \/ \E h \in openhabs :
            /\ h.account = me[r].account
            /\ arg' = [arg EXCEPT ![r].target = h.id]
            /\ Goto(r, IF doing[r] = "deleteAccount" THEN "item" ELSE "event")
       \/ /\ \A h \in openhabs : h.account # me[r].account
          /\ IF doing[r] = "deleteAccount" THEN Goto(r, "device") /\ UNCHANGED arg
                                           ELSE Answer(r, "error")
    /\ UNCHANGED stored

BugForgetsWebhooks(d, k) ==
    IF d = "deleteItems" THEN [event |-> "item", item |-> "ok"][k]
    ELSE [item |-> "event", event |-> "device",
          device |-> "notification", notification |-> "token", token |-> "openhabs"][k]

\* What follows the deletion of one kind of records.
Following(d, k) ==
    IF d = "deleteItems" THEN [event |-> "item", item |-> "ok"][k]
    ELSE [item |-> "event", event |-> "webhook", webhook |-> "device",
          device |-> "notification", notification |-> "token", token |-> "openhabs"][k]

\* The openHAB's records, then the acting user's own.
DropRecords(r) ==
    /\ step[r] \in OpenhabRecord \cup UserRecord
    /\ LET owner == IF step[r] \in OpenhabRecord THEN arg[r].target ELSE me[r].id
           s == Following(doing[r], step[r])
       IN  /\ records' = {x \in records : ~(x.kind = step[r] /\ x.owner = owner)}
           /\ IF s = "ok" THEN Answer(r, "ok") ELSE Goto(r, s) /\ UNCHANGED arg
    /\ UNCHANGED <<accounts, users, openhabs>>

\* Not when no openHAB had been found.
DropOpenhabs(r) ==
    /\ step[r] = "openhabs"
    /\ openhabs' = IF arg[r].target = None THEN openhabs
                   ELSE {h \in openhabs : h.account # me[r].account}
    /\ Goto(r, "users")
    /\ UNCHANGED <<accounts, users, records, arg>>

BugDropsOneUser(r) ==
    /\ step[r] = "users" /\ doing[r] = "deleteAccount"
    /\ users' = {u \in users : u.id # me[r].id}
    /\ Goto(r, "accounts")
    /\ UNCHANGED <<accounts, openhabs, records, arg>>

DropUsers(r) ==
    /\ step[r] = "users" /\ doing[r] = "deleteAccount"
    /\ users' = {u \in users : u.account # me[r].account}
    /\ Goto(r, "accounts")
    /\ UNCHANGED <<accounts, openhabs, records, arg>>

DropAccount(r) ==
    /\ step[r] = "accounts"
    /\ accounts' = accounts \ {me[r].account}
    /\ Answer(r, "ok")
    /\ UNCHANGED <<users, openhabs, records>>

-----------------------------------------------------------------------------
Arrives(r) ==
    \/ \E n \in Name, i \in Uuid : Register(r, n, i)
    \/ \E u \in users :
        \/ \E n \in Name, role \in Role : AddUser(r, u, n, role)
        \/ \E id \in Request : DeleteUser(r, u, id)
        \/ \E i \in Uuid : Update(r, u, i)
        \/ DeleteAccount(r, u) \/ DeleteItems(r, u)
        \/ \E k \in Kind \cap UserRecord : Write(r, k, u.id)
    \/ \E i \in sockets, k \in Kind \cap OpenhabRecord : Write(r, k, i)

Handle(r) ==
    \/ SetOpenhab(r) \/ FindName(r) \/ FindUuid(r)
    \/ SaveAccount(r) \/ SaveUser(r) \/ SaveOpenhab(r)
    \/ SaveUuid(r) \/ SaveRecord(r)
    \/ FindUser(r) \/ DropUser(r)
    \/ FindSelf(r) \/ FindAccount(r) \/ FindOpenhab(r)
    \/ DropRecords(r) \/ DropOpenhabs(r) \/ DropUsers(r) \/ DropAccount(r)

\* An openHAB that is there may connect, and deleting it does not disconnect it.
Connect == sockets' = sockets \cup {h.id : h \in openhabs'}

Next == \E r \in Request : (Arrives(r) \/ Handle(r) \/ Fail(r)) /\ Connect

Spec == Init /\ [][Next]_vars

-----------------------------------------------------------------------------
(* Properties.                                                             *)

\* A record of this user, or of this openHAB.
Owned(x, user, openhab) ==
    x.owner = IF x.kind \in OpenhabRecord THEN openhab ELSE user

Deleted(r) == step[r] = "ok" /\ doing[r] = "deleteAccount"

\* user.service.ts:375 "Delete in order to maintain referential integrity": as long
\* as requests do not overlap, no openHAB and no user is without an account - whichever
\* command failed or was never reached, in a registration or in a deletion.
ChildrenFirst ==
    /\ TypeOK
    /\ alone =>
          /\ \A h \in openhabs : h.account \in accounts
          /\ \A u \in users : u.account \in accounts

\* And when an openHAB goes, none of its records is left without it.  (One that its
\* socket writes later on is.)
RecordsFirst ==
    [][alone' => \A h \in openhabs : h.id \notin {g.id : g \in openhabs'} =>
                    \A x \in records' : x.kind \in OpenhabRecord => x.owner # h.id]_vars

\* As long as requests do not overlap, every openHAB has a master who can manage it.
\* (Two masters who delete each other at the same time leave none.)
HasMaster ==
    alone => \A h \in openhabs :
                \E u \in users : u.account = h.account /\ u.role = "master"

\* A registration that is reported successful is complete, whatever runs meanwhile.
RegisteredWhole ==
    [][\A r \in Request :
          doing[r] = "register" /\ step[r] # "ok" /\ step'[r] = "ok" =>
             /\ r \in accounts'
             /\ \E u \in users' : u.id = r /\ u.account = r
             /\ \E h \in openhabs' : h.account = r]_vars

\* Users, openHABs, accounts and their records disappear only through somebody of
\* the same account.
NoForeignDeletion ==
    [][\A a \in Request :
          \/ /\ a \in accounts => a \in accounts'
             /\ \A u \in users : u.account = a => u \in users'
             /\ \A h \in openhabs : h.account = a => \E g \in openhabs' : g.id = h.id
             /\ \A x \in records, u \in users, h \in openhabs :
                   u.account = a /\ h.account = a /\ Owned(x, u.id, h.id) => x \in records'
          \/ \E r \in Request :
                me[r] # None /\ me[r].account = a /\ step'[r] # step[r]]_vars

\* An account whose deletion was reported is gone with its openHAB, for good: the
\* openHAB cannot connect again.  Of its users, and of the records of the openHAB and
\* of who deleted it, all is gone that was there when the deletion arrived: what was
\* still being written then, or the openHAB's socket has written since, may be left.
DeletedForGood ==
    \A r \in Request : Deleted(r) =>
        /\ me[r].account \notin accounts
        /\ \A h \in openhabs : h.account # me[r].account
        /\ \A u \in users : u.account = me[r].account => u.id \notin before[r]
        /\ \A x \in records : Owned(x, me[r].id, arg[r].target) => x.id \notin before[r]
====
