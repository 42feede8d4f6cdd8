-------------------------- MODULE AccountsProofs ---------------------------
(***************************************************************************)
(* What registrations and deletions leave behind, for any number of        *)
(* requests, names and uuids, and whichever commands fail.                 *)
(***************************************************************************)
EXTENDS Accounts, TLAPS

StoredType ==
    /\ accounts \subseteq Request /\ users \subseteq UserDoc
    /\ openhabs \subseteq OpenhabDoc /\ records \subseteq RecordDoc

Arg == [name : Name \cup {None}, uuid : Uuid \cup {None},
        role : Role, target : Request \cup {None}]

RequestType ==
    /\ step \in [Request -> Step] /\ doing \in [Request -> Job \cup {None}]
    /\ me \in [Request -> UserDoc \cup {None}] /\ arg \in [Request -> Arg]
    /\ before \in [Request -> SUBSET Request] /\ alone \in BOOLEAN

\* The types of everything but the sockets.
Typed == StoredType /\ RequestType

\* A request that creates no account and no user any more.
Past(q) == step[q] \in {"saveOpenhab", "ok", "error"}
Over(q) == step[q] \in {"ok", "error"}

\* The steps that each operation goes through.
StepsOf(d) ==
    CASE d = "register" -> {"name", "uuid", "saveAccount", "saveUser", "saveOpenhab"}
      [] d = "addUser" -> {"setOpenhab", "name", "saveUser"}
      [] d = "deleteUser" -> {"setOpenhab", "find", "users"}
      [] d = "update" -> {"setOpenhab", "uuid", "save"}
      [] d = "deleteItems" -> {"setOpenhab", "user", "openhab", "event", "item"}
      [] d = "deleteAccount" -> OpenhabRecord \cup UserRecord \cup
            {"setOpenhab", "user", "account", "openhab", "openhabs", "users", "accounts"}
      [] OTHER -> {"save"}

\* The kinds of records that a deletion at step s has dealt with.
Gone(s) ==
    CASE s = "event" -> {"item"}
      [] s = "webhook" -> {"item", "event"}
      [] s = "device" -> OpenhabRecord
      [] s = "notification" -> OpenhabRecord \cup {"device"}
      [] s = "token" -> OpenhabRecord \cup {"device", "notification"}
      [] s \in {"openhabs", "users", "accounts", "ok"} -> OpenhabRecord \cup UserRecord
      [] OTHER -> {}

\* No id is used twice; whoever has an account is known to be past its creation.
UsersWell ==
    /\ \A u \in users : Past(u.id) /\ Past(u.account)
    /\ \A u, v \in users : u.id = v.id => u = v

\* An openHAB is created by the registration that created its account.
OpenhabsWell == \A h \in openhabs : h.id = h.account /\ step[h.id] = "ok"

\* What a request is about.
AsksWell(r) ==
    /\ step[r] \notin Ended => doing[r] \in Job /\ step[r] \in StepsOf(doing[r])
    /\ step[r] = "ok" => doing[r] \in {"deleteAccount", None}
    /\ IF doing[r] \in DOMAIN After THEN me[r] # None /\ me[r].role = "master"
                                    ELSE me[r] = None
    /\ doing[r] \in {"register", "addUser"} => arg[r].name \in Name
    /\ doing[r] = "register" => arg[r].role = "master"
    /\ doing[r] \in {"register", "update"} => arg[r].uuid \in Uuid
    /\ doing[r] \in Kind => arg[r].target # None
    /\ doing[r] = "deleteUser" => arg[r].target \in Request \ {me[r].id}
    /\ \A q \in before[r] : Over(q)

\* On whose behalf: setOpenhab lets nobody pass whose openHAB is not registered yet.
MeWell(r) ==
    me[r] # None =>
        /\ Past(me[r].id) /\ Past(me[r].account)
        /\ \A u \in users : u.id = me[r].id => u = me[r]
        /\ doing[r] \in DOMAIN After /\ step[r] # "setOpenhab" => step[me[r].account] = "ok"

\* A registration in progress is not disturbed by anybody.
Registers(r) ==
    doing[r] = "register" =>
        /\ step[r] \in {"saveUser", "saveOpenhab"} => r \in accounts
        /\ step[r] = "saveOpenhab" =>
              \E u \in users : u.id = r /\ u.account = r /\ u.role = "master"

\* The user to be deleted is of the same account.
DeletesUser(r) ==
    doing[r] = "deleteUser" /\ step[r] = "users" =>
        /\ Past(arg[r].target)
        /\ \A u \in users : u.id = arg[r].target => u.account = me[r].account

\* What a deletion has found, and what it has left behind it so far.
Deletes(r) ==
    doing[r] \in {"deleteAccount", "deleteItems"} =>
        LET left == {h \in openhabs : h.account = me[r].account}
        IN  /\ arg[r].target \in {None, me[r].account}
            /\ step[r] \in {"setOpenhab", "user", "account", "openhab"} => arg[r].target = None
            /\ step[r] \in OpenhabRecord => arg[r].target # None
            /\ step[r] \in UserRecord \cup {"openhabs"} /\ arg[r].target = None => left = {}
            /\ step[r] \in {"users", "accounts", "ok"} => left = {}
            /\ step[r] \in {"accounts", "ok"} =>
                  \A u \in users : u.account = me[r].account => u.id \notin before[r]
            /\ step[r] = "ok" => me[r].account \notin accounts
            /\ doing[r] = "deleteAccount" =>
                  \A x \in records : x.kind \in Gone(step[r]) /\ Owned(x, me[r].id, arg[r].target)
                                        => x.id \notin before[r]

Sound(r) == AsksWell(r) /\ MeWell(r) /\ Registers(r) /\ DeletesUser(r) /\ Deletes(r)

\* Alone, a request finds what it found before as it was, and no record has been added
\* to those of an openHAB that is being deleted.
Undisturbed(r) ==
    /\ doing[r] \in {"addUser", "deleteUser"} => me[r] \in users
    /\ doing[r] = "deleteAccount" =>
          /\ step[r] = "accounts" => \A u \in users : u.account # me[r].account
          /\ arg[r].target # None =>
                \A x \in records : x.kind \in Gone(step[r]) \cap OpenhabRecord =>
                                       x.owner # me[r].account

\* As long as requests do not overlap.
AloneWell ==
    alone =>
        /\ \A q, r \in InProgress : q = r
        /\ \A r \in InProgress : Undisturbed(r)
        /\ \A h \in openhabs : h.account \in accounts
        /\ \A u \in users : u.account \in accounts
        /\ HasMaster

\* The inductive invariant.
AccountsInv ==
    /\ Typed /\ sockets \subseteq Request /\ UsersWell /\ OpenhabsWell
    /\ \A r \in Request : Sound(r)
    /\ AloneWell

-----------------------------------------------------------------------------
(* What the steps and the operations are.                                  *)

LEMMA Operations ==
    /\ DOMAIN After = {"addUser", "deleteUser", "update", "deleteAccount", "deleteItems"}
    /\ After["addUser"] = "name" /\ After["deleteUser"] = "find" /\ After["update"] = "uuid"
    /\ After["deleteAccount"] = "user" /\ After["deleteItems"] = "user"
    /\ Kind \subseteq (OpenhabRecord \cup UserRecord) \ {"item"}
    /\ None \notin Job /\ None \notin Request /\ None \notin UserDoc /\ None \notin Name
    /\ Job = DOMAIN After \cup {"register"} \cup Kind
BY AccountsAssumption DEF After, Job

LEMMA StepTells ==
    ASSUME NEW r \in Request, AsksWell(r)
    PROVE  /\ step[r] = "setOpenhab" => doing[r] \in DOMAIN After
           /\ step[r] = "name" => doing[r] \in {"register", "addUser"}
           /\ step[r] = "uuid" => doing[r] \in {"register", "update"}
           /\ step[r] \in {"saveAccount", "saveOpenhab"} => doing[r] = "register"
           /\ step[r] = "saveUser" => doing[r] \in {"register", "addUser"}
           /\ step[r] = "save" => doing[r] \in Kind \cup {"update"}
           /\ step[r] = "find" => doing[r] = "deleteUser"
           /\ step[r] = "users" => doing[r] \in {"deleteUser", "deleteAccount"}
           /\ step[r] \in {"user", "openhab", "event", "item"} =>
                 doing[r] \in {"deleteItems", "deleteAccount"}
           /\ step[r] \in UserRecord \cup {"webhook", "account", "openhabs", "accounts"} =>
                 doing[r] = "deleteAccount"
BY Operations DEF AsksWell, StepsOf, Ended, OpenhabRecord, UserRecord

-----------------------------------------------------------------------------
(* What a step of one request leaves to the others.                        *)

\* Only r's own part of the requests changes, and it ends once.
Only(r) ==
    /\ \A q \in Request \ {r} :
          /\ step'[q] = step[q] /\ doing'[q] = doing[q] /\ me'[q] = me[q]
          /\ arg'[q] = arg[q] /\ before'[q] = before[q]
    /\ Past(r) => Past(r)'
    /\ Over(r) => step'[r] = step[r]

\* What is new is of requests that were not over; what goes is of accounts that were
\* registered.
Kept(r) ==
    /\ \A a \in accounts' : a \in accounts \/ (a = r /\ step[r] = "saveAccount")
    /\ \A u \in users' : u \in users \/ (u.id = r /\ step[r] = "saveUser")
    /\ \A h \in openhabs' : \/ \E g \in openhabs : g.id = h.id /\ g.account = h.account
                            \/ h.account = r /\ step[r] = "saveOpenhab"
    /\ \A x \in records' : x \in records \/ (x.id = r /\ step[r] = "save")
    /\ \A a \in accounts : a \in accounts' \/ step[a] = "ok"
    /\ \A u \in users : u \in users' \/ step[u.account] = "ok"

SafeInv ==
    /\ Typed /\ UsersWell /\ OpenhabsWell
    /\ \A r \in Request : Sound(r)

LEMMA OtherIsSound ==
    ASSUME SafeInv, NEW r \in Request, Only(r), Kept(r), NEW q \in Request \ {r}
    PROVE  Sound(q)'
<1>0. Sound(q) /\ me[q] \in UserDoc \cup {None}
  BY DEF SafeInv, Typed, StoredType, RequestType
<1>1. /\ step'[q] = step[q] /\ doing'[q] = doing[q] /\ me'[q] = me[q]
      /\ arg'[q] = arg[q] /\ before'[q] = before[q]
  BY DEF Only
<1>2. \A p \in Request : (Past(p) => Past(p)') /\ (Over(p) => step'[p] = step[p])
  BY DEF Only, Past
<1>3. AsksWell(q)'
  <2>1. \A p \in before[q] : Over(p)'
    BY <1>0, <1>2 DEF Sound, AsksWell, Over, SafeInv, Typed, StoredType, RequestType
  <2>2. QED
    BY <1>0, <1>1, <2>1 DEF Sound, AsksWell
<1>4. MeWell(q)'
  <2> SUFFICES ASSUME me[q] # None PROVE MeWell(q)'
    BY <1>1 DEF MeWell
  <2>0. me[q].id \in Request /\ me[q].account \in Request
    BY <1>0 DEF UserDoc
  <2>1. Past(me[q].id)' /\ Past(me[q].account)'
    <3>1. Past(me[q].id) /\ Past(me[q].account)
      BY <1>0 DEF Sound, MeWell
    <3>2. me'[q] = me[q]
      BY <1>1
    <3>3. ASSUME NEW p \in Request, Past(p) PROVE step'[p] \in {"saveOpenhab", "ok", "error"}
      BY <1>2, <3>3 DEF Past
    <3>4. QED
      BY <2>0, <3>1, <3>2, <3>3 DEF Past
  <2>2. \A u \in users' : u.id = me[q].id => u = me[q]
    BY <1>0, <2>0 DEF Sound, MeWell, Kept, Past
  <2>3. step[me[q].account] = "ok" => step'[me[q].account] = "ok"
    BY <1>2, <2>0 DEF Over
  <2>4. QED
    BY <1>0, <1>1, <2>1, <2>2, <2>3 DEF Sound, MeWell
<1>5. Registers(q)'
  <2>1. step[q] \in {"saveUser", "saveOpenhab"} /\ q \in accounts => q \in accounts'
    BY DEF Kept
  <2>2. \A u \in users : u.account = q /\ step[q] = "saveOpenhab" => u \in users'
    BY DEF Kept
  <2>3. QED
    BY <1>0, <1>1, <2>1, <2>2 DEF Sound, Registers
<1>6. DeletesUser(q)'
  <2> SUFFICES ASSUME doing[q] = "deleteUser", step[q] = "users" PROVE DeletesUser(q)'
    BY <1>1 DEF DeletesUser
  <2> DEFINE t == arg[q].target
  <2>1. Past(t) /\ t \in Request
    BY <1>0 DEF Sound, DeletesUser, AsksWell, SafeInv, Typed, StoredType, RequestType
  <2>2. \A u \in users' : Past(u.id) => u \in users
    BY DEF Kept, Past
  <2>3. step'[t] \in {"saveOpenhab", "ok", "error"}
    BY <1>2, <2>1 DEF Past
  <2>4. \A u \in users' : u.id = t => u.account = me[q].account
    BY <1>0, <2>1, <2>2 DEF Sound, DeletesUser
  <2> HIDE DEF t
  <2>5. arg'[q].target = t /\ me'[q] = me[q]
    BY <1>1 DEF t
  <2>6. QED
    BY <2>3, <2>4, <2>5 DEF DeletesUser, Past
<1>7. Deletes(q)'
  <2> SUFFICES ASSUME doing[q] \in {"deleteAccount", "deleteItems"} PROVE Deletes(q)'
    BY <1>1 DEF Deletes
  <2> DEFINE a == me[q].account
             t == arg[q].target
  <2>0. /\ Deletes(q) /\ me[q] \in UserDoc /\ a \in Request /\ Past(a)
        /\ step[q] # "setOpenhab" => step[a] = "ok"
    BY <1>0, Operations DEF Sound, AsksWell, MeWell, UserDoc
  <2>1. ASSUME step[q] # "setOpenhab", \A h \in openhabs : h.account # a
        PROVE  \A h \in openhabs' : h.account # a
    BY <2>0, <2>1 DEF Kept
  <2>2. \A u \in users' : u.id \in before[q] => u \in users
    BY <1>0 DEF Kept, Sound, AsksWell, Over
  <2>3. a \in accounts' => a \in accounts
    BY <2>0 DEF Kept, Past
  <2>4. \A x \in records' : x.id \in before[q] => x \in records
    BY <1>0 DEF Kept, Sound, AsksWell, Over
  <2>5. step[q] \in UserRecord \cup {"openhabs"} /\ t = None =>
           \A h \in openhabs' : h.account # a
    BY <2>0, <2>1 DEF Deletes, UserRecord
  <2>6. step[q] \in {"users", "accounts", "ok"} => \A h \in openhabs' : h.account # a
    BY <2>0, <2>1 DEF Deletes
  <2>7. \A u \in users' : step[q] \in {"accounts", "ok"} /\ u.account = a => u.id \notin before[q]
    BY <2>0, <2>2 DEF Deletes
  <2>8. doing[q] = "deleteAccount" =>
           \A x \in records' : x.kind \in Gone(step[q]) /\ Owned(x, me[q].id, t) =>
                                  x.id \notin before[q]
    BY <2>0, <2>4 DEF Deletes
  <2>9. /\ t \in {None, a} /\ (step[q] \in OpenhabRecord => t # None)
        /\ step[q] \in {"setOpenhab", "user", "account", "openhab"} => t = None
        /\ step[q] = "ok" => a \notin accounts'
    BY <2>0, <2>3 DEF Deletes
  <2>10. me'[q].account = a /\ me'[q].id = me[q].id /\ arg'[q].target = t
    BY <1>1
  <2> HIDE DEF a, t
  <2>11. QED
    BY <1>1, <2>5, <2>6, <2>7, <2>8, <2>9, <2>10 DEF Deletes, Gone, Owned
<1>8. QED
  BY <1>3, <1>4, <1>5, <1>6, <1>7 DEF Sound

\* What is stored stays well when nothing new comes in.
LEMMA UsersStay ==
    ASSUME SafeInv, NEW r \in Request, Only(r), users' \subseteq users
    PROVE  UsersWell'
<1>1. \A p \in Request : Past(p) => step'[p] \in {"saveOpenhab", "ok", "error"}
  BY DEF Only, Past
<1>2. \A u \in users' : u \in users /\ u.id \in Request /\ u.account \in Request
  BY DEF SafeInv, Typed, StoredType, RequestType, UserDoc
<1>3. \A u \in users' : /\ step'[u.id] \in {"saveOpenhab", "ok", "error"}
                        /\ step'[u.account] \in {"saveOpenhab", "ok", "error"}
  BY <1>1, <1>2 DEF SafeInv, UsersWell
<1>4. QED
  BY <1>2, <1>3 DEF SafeInv, UsersWell, Past

LEMMA OpenhabsStay ==
    ASSUME SafeInv, NEW r \in Request, Only(r),
           \A h \in openhabs' : \E g \in openhabs : g.id = h.id /\ g.account = h.account
    PROVE  OpenhabsWell'
<1>1. ASSUME NEW h \in openhabs' PROVE h.id = h.account /\ step'[h.id] = "ok"
  <2>1. PICK g \in openhabs : g.id = h.id /\ g.account = h.account
    OBVIOUS
  <2>2. g.id \in Request /\ g.id = g.account /\ step[g.id] = "ok"
    BY DEF SafeInv, Typed, StoredType, RequestType, OpenhabDoc, OpenhabsWell
  <2>3. step'[g.id] = "ok"
    BY <2>2 DEF Only, Over
  <2>4. QED
    BY <2>1, <2>2, <2>3
<1>2. QED
  BY <1>1 DEF OpenhabsWell

\* So a step has to be looked at for its own request only.
LEMMA OwnStep ==
    ASSUME SafeInv, NEW r \in Request, Only(r), Kept(r), RequestType', StoredType',
           users' \subseteq users \/ UsersWell', step[r] # "saveOpenhab" \/ OpenhabsWell',
           Sound(r)'
    PROVE  SafeInv'
<1>1. UsersWell'
  BY UsersStay
<1>2. OpenhabsWell'
  <2>1. CASE step[r] # "saveOpenhab"
    BY <2>1, OpenhabsStay DEF Kept
  <2>2. QED
    BY <2>1
<1>3. ASSUME NEW q \in Request PROVE Sound(q)'
  <2>1. CASE q = r
    BY <2>1
  <2>2. CASE q # r
    BY <2>2, OtherIsSound
  <2>3. QED
    BY <2>1, <2>2
<1>4. Typed'
  BY DEF Typed, StoredType, RequestType, Arg
<1>5. QED
  BY <1>1, <1>2, <1>3, <1>4 DEF SafeInv

\* A step that only looks something up.
LEMMA LookStep ==
    ASSUME SafeInv, NEW r \in Request, Only(r), UNCHANGED stored, RequestType', Sound(r)'
    PROVE  SafeInv'
<1>1. Kept(r)
  BY DEF stored, Kept
<1>2. StoredType'
  BY DEF stored, StoredType, SafeInv, Typed, RequestType
<1>3. QED
  BY <1>1, <1>2, OwnStep, OpenhabsStay DEF stored

-----------------------------------------------------------------------------
(* How a request goes on, and how it ends.                                 *)

LEMMA GoesOn ==
    ASSUME RequestType, NEW r \in Request, NEW s \in Step, Goto(r, s), step[r] \notin Ended,
           step[r] # "saveOpenhab",
           NEW a \in Arg, arg' = [arg EXCEPT ![r] = a]
    PROVE  /\ RequestType' /\ Only(r)
           /\ step'[r] = s /\ doing'[r] = doing[r] /\ me'[r] = me[r] /\ before'[r] = before[r]
           /\ arg'[r] = a
<1>1. RequestType'
  BY DEF Goto, RequestType
<1>2. \A q \in Request \ {r} : step'[q] = step[q] /\ arg'[q] = arg[q]
  BY DEF Goto, RequestType
<1>3. step'[r] = s /\ arg'[r] = a
  BY DEF Goto, RequestType
<1>4. QED
  BY <1>1, <1>2, <1>3 DEF Goto, Only, Past, Over, Ended

LEMMA SameArg ==
    ASSUME RequestType, NEW r \in Request, UNCHANGED arg
    PROVE  arg' = [arg EXCEPT ![r] = arg[r]] /\ arg[r] \in Arg
BY DEF RequestType

LEMMA Ends ==
    ASSUME RequestType, NEW r \in Request, NEW s \in {"ok", "error"}, Answer(r, s),
           step[r] \notin Ended
    PROVE  /\ RequestType' /\ Only(r) /\ step'[r] = s
           /\ IF step[r] = "accounts" /\ s = "ok"
              THEN UNCHANGED <<doing, me, arg, before>>
              ELSE doing'[r] = None /\ me'[r] = None /\ arg'[r] = NoArg /\ before'[r] = {}
<1>1. NoArg \in Arg /\ s \in Step
  BY DEF NoArg, Arg, Role, Step, Ended
<1>2. RequestType'
  <2>1. step' \in [Request -> Step]
    BY <1>1 DEF Answer, RequestType
  <2>2. CASE step[r] = "accounts" /\ s = "ok"
    BY <2>1, <2>2 DEF Answer, RequestType
  <2>3. CASE ~(step[r] = "accounts" /\ s = "ok")
    BY <1>1, <2>1, <2>3 DEF Answer, RequestType
  <2>4. QED
    BY <2>2, <2>3
<1>3. step'[r] = s /\ \A q \in Request \ {r} : step'[q] = step[q]
  BY DEF Answer, RequestType
<1>4. CASE step[r] = "accounts" /\ s = "ok"
  BY <1>2, <1>3, <1>4 DEF Answer, Only, Past, Over, Ended
<1>5. CASE ~(step[r] = "accounts" /\ s = "ok")
  <2>1. /\ doing'[r] = None /\ me'[r] = None /\ arg'[r] = NoArg /\ before'[r] = {}
        /\ \A q \in Request \ {r} : /\ doing'[q] = doing[q] /\ me'[q] = me[q]
                                    /\ arg'[q] = arg[q] /\ before'[q] = before[q]
    BY <1>5 DEF Answer, RequestType
  <2>2. QED
    BY <1>2, <1>3, <1>5, <2>1 DEF Only, Past, Over, Ended
<1>6. QED
  BY <1>4, <1>5

\* What is over, but for a deletion, needs nothing.
LEMMA EndedIsSound ==
    ASSUME NEW r \in Request, step'[r] \in {"ok", "error"}, doing'[r] = None, me'[r] = None,
           before'[r] = {}
    PROVE  Sound(r)'
<1>1. None \notin {"register", "addUser", "deleteUser", "update", "deleteAccount",
                   "deleteItems"} \cup Kind \cup DOMAIN After
  BY Operations
<1>2. AsksWell(r)'
  BY <1>1 DEF AsksWell, Ended
<1>3. MeWell(r)' /\ Registers(r)' /\ DeletesUser(r)' /\ Deletes(r)'
  BY <1>1 DEF MeWell, Registers, DeletesUser, Deletes
<1>4. QED
  BY <1>2, <1>3 DEF Sound

LEMMA ErrorStep ==
    ASSUME SafeInv, NEW r \in Request, step[r] \notin Ended, Answer(r, "error"),
           UNCHANGED stored
    PROVE  SafeInv'
<1>1. RequestType
  BY DEF SafeInv, Typed
<1>2. /\ RequestType' /\ Only(r) /\ step'[r] = "error"
      /\ doing'[r] = None /\ me'[r] = None /\ before'[r] = {}
  BY <1>1, Ends
<1>3. QED
  BY <1>2, EndedIsSound, LookStep

-----------------------------------------------------------------------------
(* Requests arrive.                                                        *)

LEMMA Arrival ==
    ASSUME RequestType, NEW r \in Request, NEW d \in Job, NEW s \in Step \ Ended,
           NEW u \in UserDoc \cup {None}, NEW a \in Arg, Arrive(r, d, s, u, a)
    PROVE  /\ RequestType' /\ Only(r) /\ step[r] = "none" /\ UNCHANGED stored
           /\ step'[r] = s /\ doing'[r] = d /\ me'[r] = u /\ arg'[r] = a
           /\ \A q \in before'[r] : Over(q)'
<1>1. RequestType'
  BY DEF Arrive, RequestType
<1>2. /\ step'[r] = s /\ doing'[r] = d /\ me'[r] = u /\ arg'[r] = a
      /\ before'[r] = {q \in Request : step[q] \in {"ok", "error"}}
  BY DEF Arrive, RequestType
<1>3. \A q \in Request \ {r} :
          /\ step'[q] = step[q] /\ doing'[q] = doing[q] /\ me'[q] = me[q]
          /\ arg'[q] = arg[q] /\ before'[q] = before[q]
  BY DEF Arrive, RequestType
<1>4. step[r] = "none" /\ UNCHANGED stored
  BY DEF Arrive
<1>5. \A q \in before'[r] : step'[q] \in {"ok", "error"}
  BY <1>2, <1>3, <1>4
<1>6. QED
  BY <1>1, <1>2, <1>3, <1>4, <1>5 DEF Only, Past, Over

LEMMA NoArgType ==
    /\ NoArg \in Arg
    /\ \A n \in Name, i \in Uuid : [NoArg EXCEPT !.name = n, !.uuid = i] \in Arg
    /\ \A n \in Name, o \in Role : [NoArg EXCEPT !.name = n, !.role = o] \in Arg
    /\ \A i \in Uuid : [NoArg EXCEPT !.uuid = i] \in Arg
    /\ \A t \in Request : [NoArg EXCEPT !.target = t] \in Arg
BY DEF NoArg, Arg, Role

LEMMA RegisterStep ==
    ASSUME SafeInv, NEW r \in Request, NEW n \in Name, NEW i \in Uuid, Register(r, n, i)
    PROVE  SafeInv'
<1> DEFINE a == [NoArg EXCEPT !.name = n, !.uuid = i]
<1>1. /\ RequestType /\ "register" \in Job /\ "name" \in Step \ Ended /\ None \in UserDoc \cup {None}
      /\ a \in Arg /\ Arrive(r, "register", "name", None, a)
  BY NoArgType DEF SafeInv, Typed, Job, Step, Ended, Register
<1>2. a.name = n /\ a.uuid = i /\ a.role = "master"
  BY DEF NoArg
<1> HIDE DEF a
<1>3. /\ RequestType' /\ Only(r) /\ step[r] = "none" /\ UNCHANGED stored
      /\ step'[r] = "name" /\ doing'[r] = "register" /\ me'[r] = None /\ arg'[r] = a
      /\ \A q \in before'[r] : Over(q)'
  BY <1>1, Arrival
<1>4. AsksWell(r)'
  BY <1>2, <1>3, Operations DEF AsksWell, StepsOf, Ended, OpenhabRecord, UserRecord
<1>5. MeWell(r)' /\ Registers(r)' /\ DeletesUser(r)' /\ Deletes(r)'
  BY <1>3 DEF MeWell, Registers, DeletesUser, Deletes
<1>6. QED
  BY <1>3, <1>4, <1>5, LookStep DEF Sound

LEMMA WriteStep ==
    ASSUME SafeInv, NEW r \in Request, NEW k \in Kind, NEW owner \in Request, Write(r, k, owner)
    PROVE  SafeInv'
<1> DEFINE a == [NoArg EXCEPT !.target = owner]
<1>1. /\ RequestType /\ k \in Job /\ "save" \in Step \ Ended /\ None \in UserDoc \cup {None}
      /\ a \in Arg /\ Arrive(r, k, "save", None, a)
  BY NoArgType, Operations DEF SafeInv, Typed, Step, Ended, Write
<1>2. a.target = owner
  BY DEF NoArg
<1> HIDE DEF a
<1>3. /\ RequestType' /\ Only(r) /\ step[r] = "none" /\ UNCHANGED stored
      /\ step'[r] = "save" /\ doing'[r] = k /\ me'[r] = None /\ arg'[r] = a
      /\ \A q \in before'[r] : Over(q)'
  BY <1>1, Arrival
<1>4. k \notin {"register", "addUser", "deleteUser", "update", "deleteAccount", "deleteItems"}
  BY Operations DEF OpenhabRecord, UserRecord
<1>5. AsksWell(r)'
  BY <1>1, <1>2, <1>3, <1>4, Operations DEF AsksWell, StepsOf, Ended
<1>6. MeWell(r)' /\ Registers(r)' /\ DeletesUser(r)' /\ Deletes(r)'
  BY <1>3, <1>4 DEF MeWell, Registers, DeletesUser, Deletes
<1>7. QED
  BY <1>3, <1>5, <1>6, LookStep DEF Sound

\* The session's user is the one that is stored.
LEMMA EnterStep ==
    ASSUME SafeInv, NEW r \in Request, NEW d \in DOMAIN After, NEW u \in users, NEW a \in Arg,
           Enter(r, d, u, a),
           d = "addUser" => a.name \in Name,
           d = "update" => a.uuid \in Uuid,
           d = "deleteUser" => a.target \in Request \ {u.id},
           d \in {"deleteAccount", "deleteItems"} => a.target = None
    PROVE  SafeInv'
<1>1. /\ RequestType /\ d \in Job /\ "setOpenhab" \in Step \ Ended /\ u \in UserDoc
      /\ Arrive(r, d, "setOpenhab", u, a) /\ u.role = "master" /\ u # None
  BY Operations DEF SafeInv, Typed, StoredType, RequestType, Step, Ended, Enter, OpenhabRecord,
     UserRecord
<1>2. /\ RequestType' /\ Only(r) /\ step[r] = "none" /\ UNCHANGED stored
      /\ step'[r] = "setOpenhab" /\ doing'[r] = d /\ me'[r] = u /\ arg'[r] = a
      /\ \A q \in before'[r] : Over(q)'
  BY <1>1, Arrival
<1>3. d \notin Kind /\ d # "register"
  BY Operations DEF OpenhabRecord, UserRecord
<1>4. AsksWell(r)'
  BY <1>1, <1>2, <1>3, Operations DEF AsksWell, StepsOf, Ended
<1>5. MeWell(r)'
  <2>1. u.id \in Request /\ u.account \in Request /\ Past(u.id) /\ Past(u.account)
    BY <1>1 DEF SafeInv, UsersWell, UserDoc
  <2>2. /\ step'[u.id] \in {"saveOpenhab", "ok", "error"}
        /\ step'[u.account] \in {"saveOpenhab", "ok", "error"}
    BY <1>2, <2>1 DEF Only, Past
  <2>3. \A v \in users' : v.id = u.id => v = u
    BY <1>2 DEF SafeInv, UsersWell, stored
  <2>4. QED
    BY <1>2, <2>2, <2>3 DEF MeWell, Past
<1>6. Registers(r)' /\ DeletesUser(r)'
  BY <1>2, <1>3 DEF Registers, DeletesUser
<1>7. Deletes(r)'
  BY <1>2 DEF Deletes, Gone, OpenhabRecord, UserRecord
<1>8. QED
  BY <1>2, <1>4, <1>5, <1>6, <1>7, LookStep DEF Sound

LEMMA ArrivesStep ==
    ASSUME SafeInv, sockets \subseteq Request, NEW r \in Request, Arrives(r)
    PROVE  SafeInv'
<1>0. \A u \in users : u.id \in Request
  BY DEF SafeInv, Typed, StoredType, UserDoc
<1>1. ASSUME NEW u \in users, NEW n \in Name, NEW role \in Role, AddUser(r, u, n, role)
      PROVE  SafeInv'
  <2> DEFINE a == [NoArg EXCEPT !.name = n, !.role = role]
  <2>1. a \in Arg /\ a.name = n /\ Enter(r, "addUser", u, a) /\ "addUser" \in DOMAIN After
    BY <1>1, NoArgType, Operations DEF NoArg, AddUser
  <2> HIDE DEF a
  <2>2. QED
    BY <2>1, EnterStep
<1>2. ASSUME NEW u \in users, NEW id \in Request, DeleteUser(r, u, id)
      PROVE  SafeInv'
  <2> DEFINE a == [NoArg EXCEPT !.target = id]
  <2>1. /\ a \in Arg /\ a.target = id /\ id # u.id
        /\ Enter(r, "deleteUser", u, a) /\ "deleteUser" \in DOMAIN After
    BY <1>2, NoArgType, Operations DEF NoArg, DeleteUser
  <2> HIDE DEF a
  <2>2. QED
    BY <2>1, EnterStep
<1>3. ASSUME NEW u \in users, NEW i \in Uuid, Update(r, u, i)
      PROVE  SafeInv'
  <2> DEFINE a == [NoArg EXCEPT !.uuid = i]
  <2>1. a \in Arg /\ a.uuid = i /\ Enter(r, "update", u, a) /\ "update" \in DOMAIN After
    BY <1>3, NoArgType, Operations DEF NoArg, Update
  <2> HIDE DEF a
  <2>2. QED
    BY <2>1, EnterStep
<1>4. ASSUME NEW u \in users, DeleteAccount(r, u) \/ DeleteItems(r, u)
      PROVE  SafeInv'
  <2>1. NoArg \in Arg /\ NoArg.target = None /\ {"deleteAccount", "deleteItems"} \subseteq DOMAIN After
    BY NoArgType, Operations DEF NoArg
  <2>2. CASE DeleteAccount(r, u)
    BY <2>1, <2>2, EnterStep DEF DeleteAccount
  <2>3. CASE DeleteItems(r, u)
    BY <2>1, <2>3, EnterStep DEF DeleteItems
  <2>4. QED
    BY <1>4, <2>2, <2>3
<1>5. QED
  BY <1>0, <1>1, <1>2, <1>3, <1>4, RegisterStep, WriteStep DEF Arrives

-----------------------------------------------------------------------------
(* Requests go on.                                                         *)

LEMMA MeStays ==
    ASSUME SafeInv, NEW r \in Request, Only(r),
           \A u \in users' : u \in users \/ (u.id = r /\ step[r] = "saveUser"),
           me'[r] = me[r], doing'[r] = doing[r],
           doing[r] \in DOMAIN After /\ step'[r] # "setOpenhab" =>
              step[r] # "setOpenhab" \/ step[me[r].account] = "ok"
    PROVE  MeWell(r)'
<1> SUFFICES ASSUME me[r] # None PROVE MeWell(r)'
  BY DEF MeWell
<1>1. /\ MeWell(r) /\ me[r].id \in Request /\ me[r].account \in Request
  BY DEF SafeInv, Sound, Typed, StoredType, RequestType, UserDoc
<1>2. /\ step'[me[r].id] \in {"saveOpenhab", "ok", "error"}
      /\ step'[me[r].account] \in {"saveOpenhab", "ok", "error"}
  BY <1>1 DEF Only, Past, MeWell
<1>3. \A u \in users' : u.id = me[r].id => u = me[r]
  BY <1>1 DEF MeWell, Past
<1>4. step[me[r].account] = "ok" => step'[me[r].account] = "ok"
  BY <1>1 DEF Only, Over
<1>5. doing[r] \in DOMAIN After /\ step'[r] # "setOpenhab" => step'[me[r].account] = "ok"
  BY <1>1, <1>4 DEF MeWell
<1>6. QED
  BY <1>2, <1>3, <1>5 DEF MeWell, Past

\* Nothing of what it was sent is lost on the way.
LEMMA AsksOn ==
    ASSUME SafeInv, NEW r \in Request, Only(r), step[r] \notin Ended,
           me'[r] = me[r], doing'[r] = doing[r], before'[r] = before[r],
           step'[r] \notin Ended, step'[r] \in StepsOf(doing[r]),
           arg'[r].name = arg[r].name, arg'[r].uuid = arg[r].uuid, arg'[r].role = arg[r].role,
           arg'[r].target = arg[r].target \/ doing[r] \in {"update", "deleteAccount", "deleteItems"}
    PROVE  AsksWell(r)'
<1>1. AsksWell(r) /\ before[r] \subseteq Request
  BY DEF SafeInv, Sound, Typed, StoredType, RequestType
<1>2. \A q \in before[r] : step'[q] \in {"ok", "error"}
  BY <1>1 DEF AsksWell, Only, Over
<1>3. doing[r] \in {"update", "deleteAccount", "deleteItems"} => doing[r] \notin Kind
  BY Operations DEF OpenhabRecord, UserRecord
<1>4. QED
  BY <1>1, <1>2, <1>3 DEF AsksWell, Over, Ended

\* A step of a request that looks something up and goes on.
LEMMA LookOn ==
    ASSUME SafeInv, NEW r \in Request, NEW s \in Step \ Ended, Goto(r, s),
           step[r] \notin Ended \cup {"saveOpenhab"}, UNCHANGED <<stored, arg>>,
           s \in StepsOf(doing[r]),
           step[r] = "setOpenhab" /\ s # "setOpenhab" => step[me[r].account] = "ok",
           (Registers(r) /\ DeletesUser(r) /\ Deletes(r))'
    PROVE  SafeInv'
<1>1. RequestType
  BY DEF SafeInv, Typed
<1>2. /\ RequestType' /\ Only(r)
      /\ step'[r] = s /\ doing'[r] = doing[r] /\ me'[r] = me[r] /\ before'[r] = before[r]
      /\ arg'[r] = arg[r]
  BY <1>1, SameArg, GoesOn
<1>3. AsksWell(r)'
  BY <1>2, AsksOn
<1>4. MeWell(r)'
  BY <1>2, MeStays DEF stored
<1>5. QED
  BY <1>2, <1>3, <1>4, LookStep DEF Sound

LEMMA Here == ASSUME SafeInv, NEW r \in Request
              PROVE  /\ RequestType /\ AsksWell(r) /\ MeWell(r) /\ Registers(r)
                     /\ DeletesUser(r) /\ Deletes(r)
BY DEF SafeInv, Typed, Sound

\* Where a request goes on at s with its argument as it was.
LEMMA AtNext ==
    ASSUME SafeInv, NEW r \in Request, NEW s \in Step, Goto(r, s), UNCHANGED arg
    PROVE  /\ step'[r] = s /\ doing'[r] = doing[r] /\ me'[r] = me[r]
           /\ before'[r] = before[r] /\ arg'[r] = arg[r]
BY DEF Goto, RequestType, SafeInv, Typed

LEMMA SetOpenhabStep ==
    ASSUME SafeInv, NEW r \in Request, SetOpenhab(r)
    PROVE  SafeInv'
<1>1. step[r] = "setOpenhab" /\ doing[r] \in DOMAIN After /\ UNCHANGED stored
  BY Here, StepTells DEF SetOpenhab
<1>2. step[r] \notin Ended \cup {"saveOpenhab"}
  BY <1>1 DEF Ended
<1>3. ASSUME NEW h \in openhabs, h.account = me[r].account, Goto(r, After[doing[r]]),
             arg' = IF doing[r] = "update" THEN [arg EXCEPT ![r].target = h.id] ELSE arg
      PROVE  SafeInv'
  <2> DEFINE s == After[doing[r]]
  <2>1. s \in Step \ Ended /\ s \in StepsOf(doing[r]) /\ s \in {"name", "find", "uuid", "user"}
    BY <1>1, Operations DEF Step, Ended, StepsOf
  <2>2. step[me[r].account] = "ok"
    BY <1>3 DEF SafeInv, OpenhabsWell
  <2>3. CASE doing[r] # "update"
    <3>1. UNCHANGED arg
      BY <1>3, <2>3
    <3>2. step'[r] = s /\ doing'[r] = doing[r] /\ me'[r] = me[r] /\ before'[r] = before[r]
          /\ arg'[r] = arg[r]
      BY <1>3, <2>1, <3>1, AtNext
    <3>3. Registers(r)' /\ DeletesUser(r)'
      BY <1>1, <2>1, <3>2, Operations DEF Registers, DeletesUser, OpenhabRecord, UserRecord
    <3>4. Deletes(r)'
      <4>1. doing[r] \in {"deleteAccount", "deleteItems"} => s = "user" /\ arg[r].target = None
        BY <1>1, Here, Operations DEF Deletes
      <4>2. Gone("user") = {}
        BY DEF Gone
      <4> HIDE DEF s
      <4>3. QED
        BY <3>2, <4>1, <4>2 DEF Deletes, OpenhabRecord, UserRecord
    <3>5. QED
      BY <1>1, <1>2, <1>3, <2>1, <2>2, <3>1, <3>3, <3>4, LookOn
  <2>4. CASE doing[r] = "update"
    <3> DEFINE a == [arg[r] EXCEPT !.target = h.id]
    <3>1. /\ RequestType /\ a \in Arg /\ arg' = [arg EXCEPT ![r] = a]
          /\ a.name = arg[r].name /\ a.uuid = arg[r].uuid /\ a.role = arg[r].role
      BY <1>3, <2>4, Here DEF RequestType, Arg, SafeInv, Typed, StoredType, OpenhabDoc
    <3> HIDE DEF a
    <3>2. /\ RequestType' /\ Only(r)
          /\ step'[r] = s /\ doing'[r] = doing[r] /\ me'[r] = me[r] /\ before'[r] = before[r]
          /\ arg'[r] = a
      BY <1>2, <1>3, <2>1, <3>1, GoesOn
    <3>3. AsksWell(r)'
      BY <1>2, <2>1, <2>4, <3>1, <3>2, AsksOn
    <3>4. MeWell(r)'
      BY <1>1, <2>2, <3>2, MeStays DEF stored
    <3>5. Registers(r)' /\ DeletesUser(r)' /\ Deletes(r)'
      BY <2>4, <3>2 DEF Registers, DeletesUser, Deletes
    <3>6. QED
      BY <1>1, <3>2, <3>3, <3>4, <3>5, LookStep DEF Sound
  <2>5. QED
    BY <2>3, <2>4
<1>4. QED
  BY <1>1, <1>2, <1>3, ErrorStep DEF SetOpenhab

LEMMA FindNameStep ==
    ASSUME SafeInv, NEW r \in Request, FindName(r)
    PROVE  SafeInv'
<1>1. /\ step[r] = "name" /\ doing[r] \in {"register", "addUser"} /\ UNCHANGED stored
      /\ step[r] \notin Ended \cup {"saveOpenhab"}
  BY Here, StepTells DEF FindName, Ended
<1> DEFINE s == IF doing[r] = "register" THEN "uuid" ELSE "saveUser"
<1>2. ASSUME Goto(r, s), UNCHANGED arg PROVE SafeInv'
  <2>1. s \in Step \ Ended /\ s \in StepsOf(doing[r]) /\ s \in {"uuid", "saveUser"}
    BY <1>1 DEF Step, Ended, StepsOf
  <2>2. doing[r] = "register" => s = "uuid"
    OBVIOUS
  <2> HIDE DEF s
  <2>3. Registers(r)' /\ DeletesUser(r)' /\ Deletes(r)'
    BY <1>1, <1>2, <2>1, <2>2, AtNext DEF Registers, DeletesUser, Deletes
  <2>4. QED
    BY <1>1, <1>2, <2>1, <2>3, LookOn
<1>3. QED
  BY <1>1, <1>2, ErrorStep DEF FindName

LEMMA FindUuidStep ==
    ASSUME SafeInv, NEW r \in Request, FindUuid(r)
    PROVE  SafeInv'
<1>1. /\ step[r] = "uuid" /\ doing[r] \in {"register", "update"} /\ UNCHANGED stored
      /\ step[r] \notin Ended \cup {"saveOpenhab"}
  BY Here, StepTells DEF FindUuid, Ended
<1> DEFINE s == IF doing[r] = "register" THEN "saveAccount" ELSE "save"
<1>2. ASSUME Goto(r, s), UNCHANGED arg PROVE SafeInv'
  <2>1. s \in Step \ Ended /\ s \in StepsOf(doing[r]) /\ s \in {"saveAccount", "save"}
    BY <1>1 DEF Step, Ended, StepsOf
  <2> HIDE DEF s
  <2>2. Registers(r)' /\ DeletesUser(r)' /\ Deletes(r)'
    BY <1>1, <1>2, <2>1, AtNext DEF Registers, DeletesUser, Deletes
  <2>3. QED
    BY <1>1, <1>2, <2>1, <2>2, LookOn
<1>3. QED
  BY <1>1, <1>2, ErrorStep DEF FindUuid

\* A user who is found keeps the account.
LEMMA FindUserStep ==
    ASSUME SafeInv, NEW r \in Request, FindUser(r)
    PROVE  SafeInv'
<1>1. /\ step[r] = "find" /\ doing[r] = "deleteUser" /\ UNCHANGED stored
      /\ step[r] \notin Ended \cup {"saveOpenhab"}
  BY Here, StepTells DEF FindUser, Ended
<1>2. ASSUME NEW u \in users, u.id = arg[r].target, u.account = me[r].account,
             Goto(r, "users"), UNCHANGED arg
      PROVE  SafeInv'
  <2>1. "users" \in Step \ Ended /\ "users" \in StepsOf(doing[r])
    BY <1>1 DEF Step, Ended, StepsOf
  <2>2. /\ step'[r] = "users" /\ doing'[r] = doing[r] /\ me'[r] = me[r] /\ arg'[r] = arg[r]
        /\ Only(r)
    BY <1>1, <1>2, <2>1, Here, AtNext, SameArg, GoesOn
  <2>3. u.id \in Request /\ Past(u.id)
    BY DEF SafeInv, Typed, StoredType, RequestType, UserDoc, UsersWell
  <2>4. step'[u.id] \in {"saveOpenhab", "ok", "error"}
    BY <2>2, <2>3 DEF Only, Past
  <2>5. \A v \in users' : v.id = arg[r].target => v.account = me[r].account
    BY <1>1, <1>2 DEF SafeInv, UsersWell, stored
  <2>6. Registers(r)' /\ DeletesUser(r)' /\ Deletes(r)'
    BY <1>1, <1>2, <2>2, <2>4, <2>5 DEF Registers, DeletesUser, Deletes, Past
  <2>7. QED
    BY <1>1, <1>2, <2>1, <2>6, LookOn
<1>3. QED
  BY <1>1, <1>2, ErrorStep DEF FindUser

\* A deletion looks its user, and its account, up again.
LEMMA FindSelfStep ==
    ASSUME SafeInv, NEW r \in Request, FindSelf(r) \/ FindAccount(r)
    PROVE  SafeInv'
<1>1. /\ step[r] \in {"user", "account"} /\ doing[r] \in {"deleteItems", "deleteAccount"}
      /\ UNCHANGED stored
      /\ step[r] \notin Ended \cup {"saveOpenhab"}
  BY Here, StepTells DEF FindSelf, FindAccount, Ended
<1>2. ASSUME NEW s \in {"account", "openhab"}, Goto(r, s), UNCHANGED arg,
             s = "account" => doing[r] = "deleteAccount"
      PROVE  SafeInv'
  <2>1. s \in Step \ Ended /\ s \in StepsOf(doing[r])
    BY <1>1, <1>2 DEF Step, Ended, StepsOf
  <2>2. step'[r] = s /\ doing'[r] = doing[r] /\ me'[r] = me[r] /\ arg'[r] = arg[r]
    BY <1>2, <2>1, AtNext
  <2>3. Registers(r)' /\ DeletesUser(r)'
    BY <1>1, <2>2 DEF Registers, DeletesUser
  <2>4. arg[r].target = None
    BY <1>1, Here DEF Deletes
  <2>5. Deletes(r)'
    BY <2>2, <2>4 DEF Deletes, Gone, OpenhabRecord, UserRecord
  <2>6. QED
    BY <1>1, <1>2, <2>1, <2>3, <2>5, LookOn
<1>3. CASE FindSelf(r)
  BY <1>1, <1>2, <1>3, ErrorStep DEF FindSelf
<1>4. CASE FindAccount(r)
  <2>1. doing[r] = "deleteAccount"
    BY <1>4, Here, StepTells DEF FindAccount
  <2>2. QED
    BY <1>1, <1>2, <1>4, <2>1, ErrorStep DEF FindAccount
<1>5. QED
  BY <1>3, <1>4

\* The openHAB that is found is the account's, and there is no other later.
LEMMA FindOpenhabStep ==
    ASSUME SafeInv, NEW r \in Request, FindOpenhab(r)
    PROVE  SafeInv'
<1>1. /\ step[r] = "openhab" /\ doing[r] \in {"deleteItems", "deleteAccount"}
      /\ UNCHANGED stored /\ doing[r] \in DOMAIN After
      /\ step[r] \notin Ended \cup {"saveOpenhab"}
  BY Here, StepTells, Operations DEF FindOpenhab, Ended
<1>2. ASSUME NEW h \in openhabs, h.account = me[r].account,
             arg' = [arg EXCEPT ![r].target = h.id],
             Goto(r, IF doing[r] = "deleteAccount" THEN "item" ELSE "event")
      PROVE  SafeInv'
  <2> DEFINE s == IF doing[r] = "deleteAccount" THEN "item" ELSE "event"
             a == [arg[r] EXCEPT !.target = h.id]
  <2>1. s \in Step \ Ended /\ s \in StepsOf(doing[r]) /\ s \in {"item", "event"}
    BY <1>1 DEF Step, Ended, StepsOf, OpenhabRecord
  <2>2. /\ RequestType /\ a \in Arg /\ arg' = [arg EXCEPT ![r] = a]
        /\ a.name = arg[r].name /\ a.uuid = arg[r].uuid /\ a.role = arg[r].role
        /\ a.target = h.id
    BY <1>2, Here DEF RequestType, Arg, SafeInv, Typed, StoredType, OpenhabDoc
  <2>3. h.id = me[r].account /\ h.id # None
    BY <1>2, Operations DEF SafeInv, OpenhabsWell, Typed, StoredType, RequestType, OpenhabDoc
  <2>4. doing[r] = "deleteAccount" => s = "item"
    OBVIOUS
  <2>5. Goto(r, s)
    BY <1>2
  <2> HIDE DEF a, s
  <2>6. /\ RequestType' /\ Only(r)
        /\ step'[r] = s /\ doing'[r] = doing[r] /\ me'[r] = me[r] /\ before'[r] = before[r]
        /\ arg'[r] = a
    BY <1>1, <2>1, <2>2, <2>5, GoesOn
  <2>7. AsksWell(r)'
    BY <1>1, <2>1, <2>2, <2>6, AsksOn
  <2>8. MeWell(r)'
    BY <1>1, <2>6, MeStays DEF stored
  <2>9. Registers(r)' /\ DeletesUser(r)'
    BY <1>1, <2>6 DEF Registers, DeletesUser
  <2>10. Deletes(r)'
    BY <2>1, <2>2, <2>3, <2>4, <2>6 DEF Deletes, Gone, OpenhabRecord, UserRecord
  <2>11. QED
    BY <1>1, <2>6, <2>7, <2>8, <2>9, <2>10, LookStep DEF Sound
<1>3. ASSUME \A h \in openhabs : h.account # me[r].account, doing[r] = "deleteAccount",
             Goto(r, "device"), UNCHANGED arg
      PROVE  SafeInv'
  <2>1. "device" \in Step \ Ended /\ "device" \in StepsOf(doing[r])
    BY <1>3 DEF Step, Ended, StepsOf, UserRecord
  <2>2. step'[r] = "device" /\ doing'[r] = doing[r] /\ me'[r] = me[r] /\ arg'[r] = arg[r]
    BY <1>3, <2>1, AtNext
  <2>3. Registers(r)' /\ DeletesUser(r)'
    BY <1>3, <2>2 DEF Registers, DeletesUser
  <2>4. arg[r].target = None /\ \A x \in records : x.owner # None
    BY <1>1, Here, Operations DEF Deletes, SafeInv, Typed, StoredType, RequestType, RecordDoc
  <2>5. \A x \in records : ~(x.kind \in Gone("device") /\ Owned(x, me[r].id, None))
    BY <2>4 DEF Gone, Owned
  <2>6. Deletes(r)'
    BY <1>1, <1>3, <2>2, <2>4, <2>5 DEF Deletes, OpenhabRecord, stored
  <2>7. QED
    BY <1>1, <1>3, <2>1, <2>3, <2>6, LookOn
<1>4. QED
  BY <1>1, <1>2, <1>3, ErrorStep DEF FindOpenhab

-----------------------------------------------------------------------------
(* Requests write.                                                         *)

LEMMA SaveAccountStep ==
    ASSUME SafeInv, NEW r \in Request, SaveAccount(r)
    PROVE  SafeInv'
<1>1. step[r] = "saveAccount" /\ doing[r] = "register" /\ UNCHANGED <<users, openhabs, records, arg>>
  BY Here, StepTells DEF SaveAccount
<1>2. /\ "saveUser" \in Step \ Ended /\ "saveUser" \in StepsOf(doing[r])
      /\ step[r] \notin Ended \cup {"saveOpenhab"} /\ doing[r] \notin DOMAIN After
  BY <1>1, Operations DEF Step, Ended, StepsOf
<1>3. /\ RequestType' /\ Only(r)
      /\ step'[r] = "saveUser" /\ doing'[r] = doing[r] /\ me'[r] = me[r]
      /\ before'[r] = before[r] /\ arg'[r] = arg[r]
  BY <1>1, <1>2, Here, SameArg, GoesOn DEF SaveAccount
<1>4. Kept(r) /\ StoredType' /\ r \in accounts'
  BY <1>1 DEF SaveAccount, Kept, StoredType, SafeInv, Typed, RequestType
<1>5. AsksWell(r)' /\ MeWell(r)'
  BY <1>1, <1>2, <1>3, AsksOn, MeStays
<1>6. Registers(r)' /\ DeletesUser(r)' /\ Deletes(r)'
  BY <1>1, <1>3, <1>4 DEF Registers, DeletesUser, Deletes
<1>7. QED
  BY <1>1, <1>3, <1>4, <1>5, <1>6, OwnStep DEF Sound

\* The new user's id is new.
LEMMA SaveUserStep ==
    ASSUME SafeInv, NEW r \in Request, SaveUser(r)
    PROVE  SafeInv'
<1>1. /\ step[r] = "saveUser" /\ doing[r] \in {"register", "addUser"}
      /\ UNCHANGED <<accounts, openhabs, records>>
      /\ step[r] \notin Ended \cup {"saveOpenhab"}
  BY Here, StepTells DEF SaveUser, Ended
<1>2. CASE \E u \in users : u.name = arg[r].name
  BY <1>1, <1>2, ErrorStep DEF SaveUser, stored
<1>3. CASE \A u \in users : u.name # arg[r].name
  <2> DEFINE new == [id |-> r, account |-> AccountOf(r), name |-> arg[r].name, role |-> arg[r].role]
  <2>1. users' = users \cup {new}
    BY <1>3 DEF SaveUser
  <2>2. /\ AccountOf(r) \in Request /\ (Past(AccountOf(r)) \/ AccountOf(r) = r)
        /\ doing[r] = "register" => AccountOf(r) = r
        /\ doing[r] = "addUser" => AccountOf(r) \in Request
    BY <1>1, Here, Operations DEF AccountOf, AsksWell, MeWell, SafeInv, Typed, StoredType,
       RequestType, UserDoc
  <2>3. new \in UserDoc /\ new.id = r /\ new.account = AccountOf(r)
    BY <1>1, <2>2, Here DEF UserDoc, AsksWell, RequestType, Arg
  <2>4. new.role = arg[r].role
    OBVIOUS
  <2> HIDE DEF new
  <2>5. StoredType' /\ Kept(r)
    BY <1>1, <2>1, <2>3 DEF StoredType, SafeInv, Typed, RequestType, Kept
  <2>6. ASSUME RequestType', Only(r), step'[r] \in {"saveOpenhab", "ok"}, Sound(r)'
        PROVE  SafeInv'
    <3>1. \A u \in users : u.id # r
      BY <1>1 DEF SafeInv, UsersWell, Past
    <3>2. \A u \in users : /\ step'[u.id] \in {"saveOpenhab", "ok", "error"}
                           /\ step'[u.account] \in {"saveOpenhab", "ok", "error"}
      BY <2>6 DEF Only, Past, SafeInv, UsersWell, Typed, StoredType, RequestType, UserDoc
    <3>3. step'[new.account] \in {"saveOpenhab", "ok", "error"}
      BY <2>2, <2>3, <2>6 DEF Only, Past
    <3>4. \A u \in users' : /\ step'[u.id] \in {"saveOpenhab", "ok", "error"}
                            /\ step'[u.account] \in {"saveOpenhab", "ok", "error"}
      BY <2>1, <2>3, <2>6, <3>2, <3>3
    <3>5. \A u, v \in users' : u.id = v.id => u = v
      BY <2>1, <2>3, <3>1 DEF SafeInv, UsersWell
    <3>6. UsersWell'
      BY <3>4, <3>5 DEF UsersWell, Past
    <3>7. QED
      BY <1>1, <2>5, <2>6, <3>6, OwnStep
  <2>7. CASE doing[r] = "register"
    <3>1. /\ Goto(r, "saveOpenhab") /\ UNCHANGED arg /\ doing[r] \notin DOMAIN After
          /\ "saveOpenhab" \in Step \ Ended /\ "saveOpenhab" \in StepsOf(doing[r])
      BY <1>3, <2>7, Operations DEF SaveUser, Step, Ended, StepsOf
    <3>2. /\ RequestType' /\ Only(r)
          /\ step'[r] = "saveOpenhab" /\ doing'[r] = doing[r] /\ me'[r] = me[r]
          /\ before'[r] = before[r] /\ arg'[r] = arg[r]
      BY <1>1, <3>1, Here, SameArg, GoesOn
    <3>3. AsksWell(r)' /\ MeWell(r)'
      BY <1>1, <2>1, <2>3, <3>1, <3>2, AsksOn, MeStays
    <3>4. Registers(r)'
      BY <1>1, <2>1, <2>2, <2>3, <2>4, <2>7, <3>2, Here DEF Registers, AsksWell
    <3>5. DeletesUser(r)' /\ Deletes(r)'
      BY <2>7, <3>2 DEF DeletesUser, Deletes
    <3>6. QED
      BY <2>6, <3>2, <3>3, <3>4, <3>5 DEF Sound
  <2>8. CASE doing[r] = "addUser"
    <3>1. Answer(r, "ok")
      BY <1>3, <2>8 DEF SaveUser
    <3>2. /\ RequestType' /\ Only(r) /\ step'[r] = "ok"
          /\ doing'[r] = None /\ me'[r] = None /\ before'[r] = {}
      BY <1>1, <3>1, Here, Ends
    <3>3. QED
      BY <2>6, <3>2, EndedIsSound
  <2>9. QED
    BY <1>1, <2>7, <2>8
<1>4. QED
  BY <1>2, <1>3

LEMMA SaveOpenhabStep ==
    ASSUME SafeInv, NEW r \in Request, SaveOpenhab(r)
    PROVE  SafeInv'
<1>1. /\ step[r] = "saveOpenhab" /\ doing[r] = "register" /\ step[r] \notin Ended
      /\ UNCHANGED <<accounts, users, records>>
  BY Here, StepTells DEF SaveOpenhab, Ended
<1>2. CASE \E h \in openhabs : h.uuid = arg[r].uuid
  BY <1>1, <1>2, ErrorStep DEF SaveOpenhab, stored
<1>3. CASE \A h \in openhabs : h.uuid # arg[r].uuid
  <2> DEFINE new == [id |-> r, account |-> r, uuid |-> arg[r].uuid]
  <2>1. openhabs' = openhabs \cup {new} /\ Answer(r, "ok")
    BY <1>3 DEF SaveOpenhab
  <2>2. new \in OpenhabDoc /\ new.id = r /\ new.account = r
    BY <1>1, Here DEF OpenhabDoc, AsksWell
  <2> HIDE DEF new
  <2>3. /\ RequestType' /\ Only(r) /\ step'[r] = "ok"
        /\ doing'[r] = None /\ me'[r] = None /\ before'[r] = {}
    BY <1>1, <2>1, Here, Ends
  <2>4. StoredType' /\ Kept(r)
    BY <1>1, <2>1, <2>2 DEF StoredType, SafeInv, Typed, RequestType, Kept
  <2>5. OpenhabsWell'
    <3>1. \A h \in openhabs : h.id = h.account /\ step'[h.id] = "ok"
      BY <2>3 DEF SafeInv, OpenhabsWell, Typed, StoredType, RequestType, OpenhabDoc, Only, Over
    <3>2. QED
      BY <2>1, <2>2, <2>3, <3>1 DEF OpenhabsWell
  <2>6. QED
    BY <1>1, <2>3, <2>4, <2>5, EndedIsSound, OwnStep
<1>4. QED
  BY <1>2, <1>3

\* Ids and accounts of openHABs stay.
LEMMA SaveUuidStep ==
    ASSUME SafeInv, NEW r \in Request, SaveUuid(r)
    PROVE  SafeInv'
<1>1. /\ step[r] = "save" /\ doing[r] = "update" /\ step[r] \notin Ended
      /\ UNCHANGED <<accounts, users, records>> /\ arg[r].uuid \in Uuid
  BY Here DEF SaveUuid, Ended, AsksWell
<1>2. ASSUME openhabs' = {IF h.id = arg[r].target
                          THEN [h EXCEPT !.uuid = arg[r].uuid] ELSE h : h \in openhabs},
             Answer(r, "ok")
      PROVE  SafeInv'
  <2>1. \A h \in openhabs' : h \in OpenhabDoc /\ \E g \in openhabs : g.id = h.id /\ g.account = h.account
    BY <1>1, <1>2 DEF SafeInv, Typed, StoredType, RequestType, OpenhabDoc
  <2>2. StoredType' /\ Kept(r)
    BY <1>1, <2>1 DEF StoredType, SafeInv, Typed, RequestType, Kept
  <2>3. /\ RequestType' /\ Only(r) /\ step'[r] = "ok"
        /\ doing'[r] = None /\ me'[r] = None /\ before'[r] = {}
    BY <1>1, <1>2, Here, Ends
  <2>4. QED
    BY <1>1, <2>2, <2>3, EndedIsSound, OwnStep
<1>3. QED
  BY <1>1, <1>2, ErrorStep DEF SaveUuid, stored

LEMMA SaveRecordStep ==
    ASSUME SafeInv, NEW r \in Request, SaveRecord(r)
    PROVE  SafeInv'
<1>1. /\ step[r] = "save" /\ doing[r] \in Kind /\ step[r] \notin Ended
      /\ UNCHANGED <<accounts, users, openhabs>> /\ Answer(r, "ok")
  BY DEF SaveRecord, Ended
<1> DEFINE new == [id |-> r, kind |-> doing[r], owner |-> arg[r].target]
<1>2. records' = records \cup {new}
  BY DEF SaveRecord
<1>3. new \in RecordDoc /\ new.id = r
  BY <1>1, Here, Operations DEF RecordDoc, AsksWell, RequestType, Arg
<1> HIDE DEF new
<1>4. StoredType' /\ Kept(r)
  BY <1>1, <1>2, <1>3 DEF StoredType, SafeInv, Typed, RequestType, Kept
<1>5. /\ RequestType' /\ Only(r) /\ step'[r] = "ok"
      /\ doing'[r] = None /\ me'[r] = None /\ before'[r] = {}
  BY <1>1, Here, Ends
<1>6. QED
  BY <1>1, <1>4, <1>5, EndedIsSound, OwnStep

-----------------------------------------------------------------------------
(* Requests delete: only what is their account's, whose registration is    *)
(* over.                                                                   *)

LEMMA DropUserStep ==
    ASSUME SafeInv, NEW r \in Request, DropUser(r)
    PROVE  SafeInv'
<1>1. /\ step[r] = "users" /\ doing[r] = "deleteUser" /\ step[r] \notin Ended
      /\ UNCHANGED <<accounts, openhabs, records>> /\ Answer(r, "ok")
      /\ users' = {u \in users : u.id # arg[r].target}
  BY DEF DropUser, Ended
<1>2. step[me[r].account] = "ok"
  BY <1>1, Here, Operations DEF MeWell, AsksWell
<1>3. \A u \in users : u \in users' \/ step[u.account] = "ok"
  BY <1>1, <1>2, Here DEF DeletesUser
<1>4. StoredType' /\ Kept(r)
  BY <1>1, <1>3 DEF StoredType, SafeInv, Typed, RequestType, Kept
<1>5. /\ RequestType' /\ Only(r) /\ step'[r] = "ok"
      /\ doing'[r] = None /\ me'[r] = None /\ before'[r] = {}
  BY <1>1, Here, Ends
<1>6. QED
  BY <1>1, <1>4, <1>5, EndedIsSound, OwnStep

\* Where a deletion stands, and whose it is.
LEMMA Deleting ==
    ASSUME SafeInv, NEW r \in Request, doing[r] \in {"deleteItems", "deleteAccount"},
           step[r] # "setOpenhab"
    PROVE  /\ me[r] \in UserDoc /\ me[r].account \in Request /\ step[me[r].account] = "ok"
           /\ doing[r] \in DOMAIN After
BY Here, Operations DEF MeWell, AsksWell, RequestType, UserDoc

LEMMA FollowingKinds ==
    /\ Following("deleteItems", "event") = "item" /\ Following("deleteItems", "item") = "ok"
    /\ \A k \in OpenhabRecord \cup UserRecord :
          LET s == Following("deleteAccount", k)
          IN  /\ s \in StepsOf("deleteAccount") /\ s \in Step \ Ended
              /\ s \in OpenhabRecord \cup UserRecord \cup {"openhabs"}
              /\ Gone(s) = Gone(k) \cup {k}
              /\ s \in OpenhabRecord => k \in OpenhabRecord
BY DEF Following, OpenhabRecord, UserRecord, StepsOf, Step, Ended, Gone

LEMMA DropRecordsStep ==
    ASSUME SafeInv, NEW r \in Request, DropRecords(r)
    PROVE  SafeInv'
<1> DEFINE k == step[r]
           s == Following(doing[r], k)
           owner == IF k \in OpenhabRecord THEN arg[r].target ELSE me[r].id
<1>1. /\ k \in OpenhabRecord \cup UserRecord /\ doing[r] \in {"deleteItems", "deleteAccount"}
      /\ doing[r] = "deleteItems" => k \in {"event", "item"}
      /\ UNCHANGED <<accounts, users, openhabs>>
  BY Here, StepTells DEF DropRecords, OpenhabRecord, UserRecord, AsksWell, StepsOf, Ended
<1>2. /\ records' = {x \in records : ~(x.kind = k /\ x.owner = owner)}
      /\ IF s = "ok" THEN Answer(r, "ok") ELSE Goto(r, s) /\ UNCHANGED arg
  BY DEF DropRecords
<1>3. /\ step[r] \notin Ended \cup {"saveOpenhab", "accounts", "setOpenhab"}
  BY <1>1 DEF Ended, OpenhabRecord, UserRecord
<1>4. StoredType' /\ Kept(r)
  BY <1>1, <1>2 DEF StoredType, SafeInv, Typed, RequestType, Kept
<1>5. CASE s = "ok"
  <2>1. /\ RequestType' /\ Only(r) /\ step'[r] = "ok"
        /\ doing'[r] = None /\ me'[r] = None /\ before'[r] = {}
    BY <1>2, <1>3, <1>5, Here, Ends
  <2>2. QED
    BY <1>1, <1>3, <1>4, <2>1, EndedIsSound, OwnStep
<1>6. CASE s # "ok"
  <2>1. /\ s \in Step \ Ended /\ s \in StepsOf(doing[r])
        /\ doing[r] = "deleteItems" => k = "event" /\ s = "item"
    BY <1>1, <1>6, FollowingKinds DEF Step, Ended, StepsOf, OpenhabRecord
  <2>2. doing[r] = "deleteAccount" =>
              /\ s \in OpenhabRecord \cup UserRecord \cup {"openhabs"}
              /\ Gone(s) = Gone(k) \cup {k}
              /\ s \in OpenhabRecord => k \in OpenhabRecord
    BY <1>1, FollowingKinds
  <2>3. /\ RequestType' /\ Only(r)
        /\ step'[r] = s /\ doing'[r] = doing[r] /\ me'[r] = me[r] /\ before'[r] = before[r]
        /\ arg'[r] = arg[r]
    BY <1>2, <1>3, <1>6, <2>1, Here, SameArg, GoesOn
  <2>4. Deletes(r) /\ s # "setOpenhab"
    BY <1>1, <2>1, <2>2, Here DEF OpenhabRecord, UserRecord
  <2>5. AsksWell(r)' /\ MeWell(r)' /\ Registers(r)' /\ DeletesUser(r)'
    BY <1>1, <1>3, <2>1, <2>3, AsksOn, MeStays DEF Registers, DeletesUser
  <2>6. doing[r] = "deleteAccount" =>
           \A x \in records' : x.kind \in Gone(s) /\ Owned(x, me[r].id, arg[r].target) =>
                                  x.id \notin before[r]
    <3>1. ASSUME doing[r] = "deleteAccount", NEW x \in records', x.kind \in Gone(s),
                 Owned(x, me[r].id, arg[r].target)
          PROVE  x.id \notin before[r]
      <4>1. x \in records /\ ~(x.kind = k /\ x.owner = owner)
        BY <1>2, <3>1
      <4>2. CASE x.kind = k
        BY <3>1, <4>1, <4>2 DEF Owned
      <4>3. CASE x.kind \in Gone(k)
        BY <2>4, <3>1, <4>1, <4>3 DEF Deletes
      <4>4. QED
        BY <2>2, <3>1, <4>2, <4>3
    <3>2. QED
      BY <3>1
  <2>7. /\ s \in OpenhabRecord => arg[r].target # None
        /\ s \notin {"setOpenhab", "user", "account", "openhab", "users", "accounts", "ok"}
        /\ s \in UserRecord \cup {"openhabs"} /\ arg[r].target = None =>
              \A h \in openhabs' : h.account # me[r].account
    BY <1>1, <2>1, <2>2, <2>4 DEF Deletes, OpenhabRecord, UserRecord
  <2>8. arg[r].target \in {None, me[r].account}
    BY <1>1, <2>4 DEF Deletes
  <2> HIDE DEF s, owner
  <2>9. Deletes(r)'
    BY <1>1, <2>3, <2>6, <2>7, <2>8 DEF Deletes, Gone, Owned
  <2>10. QED
    BY <1>1, <1>3, <1>4, <2>3, <2>5, <2>9, OwnStep DEF Sound
<1>7. QED
  BY <1>5, <1>6

LEMMA DropOpenhabsStep ==
    ASSUME SafeInv, NEW r \in Request, DropOpenhabs(r)
    PROVE  SafeInv'
<1>1. /\ step[r] = "openhabs" /\ doing[r] = "deleteAccount" /\ Goto(r, "users")
      /\ step[r] \notin Ended \cup {"saveOpenhab"}
      /\ UNCHANGED <<accounts, users, records, arg>>
      /\ "users" \in Step \ Ended /\ "users" \in StepsOf(doing[r])
  BY Here, StepTells DEF DropOpenhabs, Ended, Step, StepsOf
<1>2. /\ RequestType' /\ Only(r)
      /\ step'[r] = "users" /\ doing'[r] = doing[r] /\ me'[r] = me[r] /\ before'[r] = before[r]
      /\ arg'[r] = arg[r]
  BY <1>1, Here, SameArg, GoesOn
<1>3. openhabs' \subseteq openhabs /\ \A h \in openhabs' : h.account # me[r].account
  BY <1>1, Here DEF DropOpenhabs, Deletes
<1>4. StoredType' /\ Kept(r)
  BY <1>1, <1>3 DEF StoredType, SafeInv, Typed, RequestType, Kept
<1>5. AsksWell(r)' /\ MeWell(r)' /\ Registers(r)' /\ DeletesUser(r)'
  BY <1>1, <1>2, AsksOn, MeStays DEF Registers, DeletesUser
<1>6. Gone("users") = Gone("openhabs")
  BY DEF Gone
<1>7. Deletes(r)'
  BY <1>1, <1>2, <1>3, <1>6, Here DEF Deletes, Owned, OpenhabRecord, UserRecord
<1>8. QED
  BY <1>1, <1>2, <1>4, <1>5, <1>7, OwnStep DEF Sound

LEMMA DropUsersStep ==
    ASSUME SafeInv, NEW r \in Request, DropUsers(r)
    PROVE  SafeInv'
<1>1. /\ step[r] = "users" /\ doing[r] = "deleteAccount" /\ Goto(r, "accounts")
      /\ step[r] \notin Ended \cup {"saveOpenhab"}
      /\ UNCHANGED <<accounts, openhabs, records, arg>>
      /\ users' = {u \in users : u.account # me[r].account}
      /\ "accounts" \in Step \ Ended /\ "accounts" \in StepsOf(doing[r])
  BY DEF DropUsers, Ended, Step, StepsOf
<1>2. /\ RequestType' /\ Only(r)
      /\ step'[r] = "accounts" /\ doing'[r] = doing[r] /\ me'[r] = me[r] /\ before'[r] = before[r]
      /\ arg'[r] = arg[r]
  BY <1>1, Here, SameArg, GoesOn
<1>3. StoredType' /\ Kept(r)
  BY <1>1, Deleting DEF StoredType, SafeInv, Typed, RequestType, Kept
<1>4. AsksWell(r)' /\ MeWell(r)' /\ Registers(r)' /\ DeletesUser(r)'
  BY <1>1, <1>2, AsksOn, MeStays DEF Registers, DeletesUser
<1>5. Gone("users") = Gone("accounts")
  BY DEF Gone
<1>6. Deletes(r)'
  BY <1>1, <1>2, <1>5, Here DEF Deletes, Owned, OpenhabRecord, UserRecord
<1>7. QED
  BY <1>1, <1>2, <1>3, <1>4, <1>6, OwnStep DEF Sound

LEMMA DropAccountStep ==
    ASSUME SafeInv, NEW r \in Request, DropAccount(r)
    PROVE  SafeInv'
<1>1. /\ step[r] = "accounts" /\ doing[r] = "deleteAccount" /\ Answer(r, "ok")
      /\ step[r] \notin Ended /\ UNCHANGED <<users, openhabs, records>>
      /\ accounts' = accounts \ {me[r].account}
  BY Here, StepTells DEF DropAccount, Ended
<1>2. /\ RequestType' /\ Only(r) /\ step'[r] = "ok" /\ UNCHANGED <<doing, me, arg, before>>
  BY <1>1, Here, Ends
<1>3. StoredType' /\ Kept(r)
  BY <1>1, Deleting DEF StoredType, SafeInv, Typed, RequestType, Kept
<1>4. AsksWell(r)'
  <2>1. \A q \in before[r] : step'[q] \in {"ok", "error"}
    BY <1>2, Here DEF AsksWell, Only, Over, RequestType
  <2>2. QED
    BY <1>1, <1>2, <2>1, Here DEF AsksWell, Over, Ended
<1>5. MeWell(r)' /\ Registers(r)' /\ DeletesUser(r)'
  BY <1>1, <1>2, MeStays DEF Registers, DeletesUser
<1>6. Gone("ok") = Gone("accounts")
  BY DEF Gone
<1>7. Deletes(r)'
  BY <1>1, <1>2, <1>6, Here DEF Deletes, Owned, OpenhabRecord, UserRecord
<1>8. QED
  BY <1>1, <1>2, <1>3, <1>4, <1>5, <1>7, OwnStep DEF Sound

-----------------------------------------------------------------------------
LEMMA SafeInit == Init => SafeInv
<1> SUFFICES ASSUME Init PROVE SafeInv
  OBVIOUS
<1>1. Typed
  BY NoArgType DEF Init, Typed, StoredType, RequestType, Step, Ended, Arg
<1>2. ASSUME NEW r \in Request PROVE Sound(r)
  BY Operations DEF Init, Sound, AsksWell, MeWell, Registers, DeletesUser, Deletes, Ended
<1>3. QED
  BY <1>1, <1>2 DEF SafeInv, UsersWell, OpenhabsWell, Init

LEMMA SafeStep == SafeInv /\ sockets \subseteq Request /\ [Next]_vars => SafeInv'
<1>1. ASSUME SafeInv, NEW r \in Request, Handle(r) PROVE SafeInv'
  BY <1>1, SetOpenhabStep, FindNameStep, FindUuidStep, SaveAccountStep, SaveUserStep,
     SaveOpenhabStep, SaveUuidStep, SaveRecordStep, FindUserStep, DropUserStep, FindSelfStep,
     FindOpenhabStep, DropRecordsStep, DropOpenhabsStep, DropUsersStep, DropAccountStep
     DEF Handle
<1>2. ASSUME SafeInv, NEW r \in Request, Fail(r) PROVE SafeInv'
  BY <1>2, ErrorStep DEF Fail
<1>3. ASSUME SafeInv, UNCHANGED <<stored, step, doing, me, arg, before, alone>> PROVE SafeInv'
  BY <1>3 DEF SafeInv, stored, Typed, StoredType, RequestType, UsersWell, OpenhabsWell, Sound,
     AsksWell, MeWell,
     Registers, DeletesUser, Deletes, Past, Over, Owned
<1>4. QED
  BY <1>1, <1>2, <1>3, ArrivesStep DEF Next, vars

LEMMA SocketsStep ==
    SafeInv /\ sockets \subseteq Request /\ [Next]_vars => sockets' \subseteq Request
BY SafeStep DEF SafeInv, Typed, StoredType, OpenhabDoc, Next, Connect, vars

-----------------------------------------------------------------------------
(* Requests that do not overlap.                                           *)

\* What is stored is whole.
Whole ==
    /\ \A h \in openhabs : h.account \in accounts
    /\ \A u \in users : u.account \in accounts
    /\ \A h \in openhabs : \E u \in users : u.account = h.account /\ u.role = "master"

LEMMA AloneParts ==
    AloneWell <=> alone => /\ \A q, r \in InProgress : q = r
                           /\ \A r \in InProgress : Undisturbed(r)
                           /\ Whole
BY DEF AloneWell, Whole, HasMaster

LEMMA Moves ==
    ASSUME SafeInv, NEW r \in Request, Handle(r) \/ Fail(r)
    PROVE  /\ step[r] \notin Ended /\ alone' = alone
           /\ \A q \in Request \ {r} : step'[q] = step[q]
           /\ step'[r] \notin Ended => doing'[r] = doing[r] /\ me'[r] = me[r]
<1>1. step[r] \notin Ended
  BY DEF Handle, Fail, SetOpenhab, FindName, FindUuid, SaveAccount, SaveUser, SaveOpenhab, SaveUuid,
     SaveRecord, FindUser, DropUser, FindSelf, FindAccount, FindOpenhab, DropRecords, DropOpenhabs,
     DropUsers, DropAccount, Ended, OpenhabRecord, UserRecord
<1>2. (\E s : Goto(r, s)) \/ (\E s \in {"ok", "error"} : Answer(r, s))
  BY DEF Handle, Fail, SetOpenhab, FindName, FindUuid, SaveAccount, SaveUser, SaveOpenhab, SaveUuid,
     SaveRecord, FindUser, DropUser, FindSelf, FindAccount, FindOpenhab, DropRecords, DropOpenhabs,
     DropUsers, DropAccount
<1>3. QED
  BY <1>1, <1>2, Here DEF Goto, Answer, RequestType, Ended

LEMMA AloneMove ==
    ASSUME SafeInv, AloneWell, NEW r \in Request, Handle(r) \/ Fail(r),
           alone => Whole',
           alone /\ step'[r] \notin Ended => Undisturbed(r)'
    PROVE  AloneWell'
<1> SUFFICES ASSUME alone' PROVE AloneWell'
  BY DEF AloneWell
<1>1. alone /\ r \in InProgress /\ \A q \in InProgress : q = r
  BY Moves, AloneParts DEF InProgress
<1>2. \A q \in Request : step'[q] \notin Ended => q = r
  BY <1>1, Moves DEF InProgress
<1>3. \A q \in InProgress' : q = r /\ step'[q] \notin Ended
  BY <1>2 DEF InProgress
<1>4. \A q \in InProgress' : Undisturbed(q)'
  BY <1>1, <1>3
<1>5. \A p, q \in InProgress' : p = q
  BY <1>3
<1>6. QED
  BY <1>1, <1>4, <1>5 DEF AloneWell, Whole, HasMaster

\* Looking something up leaves it as it is.
LEMMA AloneLook ==
    ASSUME SafeInv, AloneWell, NEW r \in Request, Handle(r) \/ Fail(r), UNCHANGED stored,
           alone /\ doing[r] = "deleteAccount" => Gone(step'[r]) = {} /\ step'[r] # "accounts"
    PROVE  AloneWell'
<1>1. Whole => Whole'
  BY DEF Whole, stored
<1>2. ASSUME alone, step'[r] \notin Ended PROVE Undisturbed(r)'
  <2>1. /\ doing'[r] = doing[r] /\ me'[r] = me[r] /\ r \in InProgress /\ Undisturbed(r)
    BY <1>2, Moves, AloneParts DEF InProgress
  <2>2. QED
    BY <1>2, <2>1 DEF Undisturbed, stored
<1>3. QED
  BY <1>1, <1>2, AloneMove, AloneParts

LEMMA AloneLookStep ==
    ASSUME SafeInv, AloneWell, NEW r \in Request,
           \/ SetOpenhab(r) \/ FindName(r) \/ FindUuid(r) \/ FindUser(r)
           \/ FindSelf(r) \/ FindAccount(r)
    PROVE  AloneWell'
<1>1. /\ UNCHANGED stored /\ Handle(r)
      /\ step[r] \in {"setOpenhab", "name", "uuid", "find", "user", "account"}
  BY DEF SetOpenhab, FindName, FindUuid, FindUser, FindSelf, FindAccount, Handle
<1>2. \/ \E s : Goto(r, s) /\ (doing[r] = "deleteAccount" => s \in {"user", "account", "openhab"})
      \/ Answer(r, "error")
  BY Here, StepTells, Operations
     DEF SetOpenhab, FindName, FindUuid, FindUser, FindSelf, FindAccount
<1>3. doing[r] = "deleteAccount" => step'[r] \in {"user", "account", "openhab", "error"}
  BY <1>2, Here DEF Goto, Answer, RequestType
<1>4. Gone("user") = {} /\ Gone("account") = {} /\ Gone("openhab") = {} /\ Gone("error") = {}
  BY DEF Gone
<1>5. QED
  BY <1>1, <1>3, <1>4, AloneLook

LEMMA AloneErrorStep ==
    ASSUME SafeInv, AloneWell, NEW r \in Request, Handle(r) \/ Fail(r), Answer(r, "error"),
           UNCHANGED stored
    PROVE  AloneWell'
<1>1. Whole => Whole'
  BY DEF Whole, stored
<1>2. step'[r] \in Ended
  BY Here DEF Answer, RequestType, Ended
<1>3. QED
  BY <1>1, <1>2, Moves, AloneMove, AloneParts DEF InProgress

LEMMA AloneFindOpenhabStep ==
    ASSUME SafeInv, AloneWell, NEW r \in Request, FindOpenhab(r)
    PROVE  AloneWell'
<1>1. UNCHANGED stored /\ Handle(r)
  BY DEF FindOpenhab, Handle
<1>2. CASE Answer(r, "error")
  BY <1>1, <1>2, AloneErrorStep
<1>3. ASSUME NEW s \in {"item", "event", "device"}, Goto(r, s),
             doing[r] = "deleteAccount" => s # "event"
      PROVE  AloneWell'
  <2>1. step'[r] = s
    BY <1>3, Here DEF Goto, RequestType
  <2>2. CASE s # "device"
    BY <1>1, <1>3, <2>1, <2>2, AloneLook DEF Gone
  <2>3. CASE s = "device"
    <3>1. arg'[r].target = None
      BY <1>3, <2>1, <2>3, Here, Deleting, Operations DEF FindOpenhab, Goto, Answer, RequestType,
         Deletes
    <3>2. ASSUME alone PROVE Whole' /\ Undisturbed(r)'
      <4>1. /\ Undisturbed(r) /\ Whole /\ Whole'
            /\ doing'[r] = doing[r] /\ me'[r] = me[r]
        BY <1>1, <1>3, <2>1, <3>2, Moves, AloneParts DEF InProgress, Ended, Whole, stored
      <4>2. QED
        BY <1>1, <2>1, <2>3, <3>1, <4>1 DEF Undisturbed, stored
    <3>3. QED
      BY <1>1, <3>2, AloneMove
  <2>4. QED
    BY <2>2, <2>3
<1>4. QED
  BY <1>2, <1>3, Here, StepTells DEF FindOpenhab

\* What a request finds while it is the only one.
LEMMA AloneHere ==
    ASSUME SafeInv, AloneWell, NEW r \in Request, Handle(r), alone
    PROVE  Whole /\ Undisturbed(r)
BY Moves, AloneParts DEF InProgress

LEMMA AloneSaveAccountStep ==
    ASSUME SafeInv, AloneWell, NEW r \in Request, SaveAccount(r)
    PROVE  AloneWell'
<1>1. /\ Handle(r) /\ doing[r] = "register" /\ accounts' = accounts \cup {r}
      /\ UNCHANGED <<users, openhabs, records>>
  BY Here, StepTells DEF SaveAccount, Handle
<1>2. alone => Whole'
  BY <1>1, AloneHere DEF Whole
<1>3. step'[r] \notin Ended => Undisturbed(r)'
  BY <1>1, Moves, Operations DEF Undisturbed, OpenhabRecord, UserRecord
<1>4. QED
  BY <1>1, <1>2, <1>3, AloneMove

LEMMA AloneSaveUserStep ==
    ASSUME SafeInv, AloneWell, NEW r \in Request, SaveUser(r)
    PROVE  AloneWell'
<1>1. /\ Handle(r) /\ doing[r] \in {"register", "addUser"} /\ step[r] = "saveUser"
      /\ UNCHANGED <<accounts, openhabs, records>>
  BY Here, StepTells DEF SaveUser, Handle
<1>2. CASE \E u \in users : u.name = arg[r].name
  BY <1>1, <1>2, AloneErrorStep DEF SaveUser, stored
<1>3. CASE \A u \in users : u.name # arg[r].name
  <2> DEFINE new == [id |-> r, account |-> AccountOf(r), name |-> arg[r].name, role |-> arg[r].role]
  <2>1. users' = users \cup {new} /\ new.account = AccountOf(r)
    BY <1>3 DEF SaveUser
  <2> HIDE DEF new
  <2>2. alone => AccountOf(r) \in accounts
    BY <1>1, AloneHere, Here DEF AccountOf, Registers, Undisturbed, Whole
  <2>3. alone => Whole'
    BY <1>1, <2>1, <2>2, AloneHere DEF Whole
  <2>4. CASE doing[r] = "register"
    <3>1. step'[r] \notin Ended => Undisturbed(r)'
      BY <1>1, <2>4, Moves DEF Undisturbed, OpenhabRecord
    <3>2. QED
      BY <1>1, <2>3, <3>1, AloneMove
  <2>5. CASE doing[r] = "addUser"
    <3>1. step'[r] = "ok"
      BY <1>3, <2>5, Here DEF SaveUser, Answer, RequestType
    <3>2. QED
      BY <1>1, <2>3, <3>1, AloneMove DEF Ended
  <2>6. QED
    BY <1>1, <2>4, <2>5
<1>4. QED
  BY <1>2, <1>3

LEMMA AloneSaveOpenhabStep ==
    ASSUME SafeInv, AloneWell, NEW r \in Request, SaveOpenhab(r)
    PROVE  AloneWell'
<1>1. /\ Handle(r) /\ doing[r] = "register" /\ step[r] = "saveOpenhab"
      /\ UNCHANGED <<accounts, users, records>>
  BY Here, StepTells DEF SaveOpenhab, Handle
<1>2. CASE \E h \in openhabs : h.uuid = arg[r].uuid
  BY <1>1, <1>2, AloneErrorStep DEF SaveOpenhab, stored
<1>3. CASE \A h \in openhabs : h.uuid # arg[r].uuid
  <2> DEFINE new == [id |-> r, account |-> r, uuid |-> arg[r].uuid]
  <2>1. openhabs' = openhabs \cup {new} /\ new.account = r /\ step'[r] = "ok"
    BY <1>3, Here DEF SaveOpenhab, Answer, RequestType
  <2> HIDE DEF new
  <2>2. \E u \in users : u.account = r /\ u.role = "master"
    BY <1>1, Here DEF Registers
  <2>3. alone => Whole'
    BY <1>1, <2>1, <2>2, AloneHere DEF Whole
  <2>4. QED
    BY <1>1, <2>1, <2>3, AloneMove DEF Ended
<1>4. QED
  BY <1>2, <1>3

LEMMA AloneSaveUuidStep ==
    ASSUME SafeInv, AloneWell, NEW r \in Request, SaveUuid(r)
    PROVE  AloneWell'
<1>1. Handle(r) /\ UNCHANGED <<accounts, users, records>>
  BY DEF SaveUuid, Handle
<1>2. ASSUME openhabs' = {IF h.id = arg[r].target
                          THEN [h EXCEPT !.uuid = arg[r].uuid] ELSE h : h \in openhabs},
             Answer(r, "ok")
      PROVE  AloneWell'
  <2> DEFINE new(h) == IF h.id = arg[r].target THEN [h EXCEPT !.uuid = arg[r].uuid] ELSE h
  <2>1. \A h \in openhabs : new(h).id = h.id /\ new(h).account = h.account
    BY DEF SafeInv, Typed, StoredType, RequestType, OpenhabDoc
  <2>2. openhabs' = {new(h) : h \in openhabs}
    BY <1>2
  <2> HIDE DEF new
  <2>3. alone => Whole'
    BY <1>1, <2>1, <2>2, AloneHere DEF Whole
  <2>4. step'[r] = "ok"
    BY <1>2, Here DEF Answer, RequestType
  <2>5. QED
    BY <1>1, <2>3, <2>4, AloneMove DEF Ended
<1>3. QED
  BY <1>1, <1>2, AloneErrorStep DEF SaveUuid, stored

LEMMA AloneSaveRecordStep ==
    ASSUME SafeInv, AloneWell, NEW r \in Request, SaveRecord(r)
    PROVE  AloneWell'
<1>1. Handle(r) /\ UNCHANGED <<accounts, users, openhabs>>
  BY DEF SaveRecord, Handle
<1>2. alone => Whole'
  BY <1>1, AloneHere DEF Whole
<1>3. step'[r] = "ok"
  BY Here DEF SaveRecord, Answer, RequestType
<1>4. QED
  BY <1>1, <1>2, <1>3, AloneMove DEF Ended

\* Who deletes a user remains, and is a master.
LEMMA AloneDropUserStep ==
    ASSUME SafeInv, AloneWell, NEW r \in Request, DropUser(r)
    PROVE  AloneWell'
<1>1. /\ Handle(r) /\ UNCHANGED <<accounts, openhabs, records>>
      /\ step[r] = "users" /\ doing[r] = "deleteUser"
      /\ users' = {u \in users : u.id # arg[r].target}
  BY DEF DropUser, Handle
<1>2. /\ \A u \in users : u.id = arg[r].target => u.account = me[r].account
      /\ me[r].role = "master" /\ me[r].id # arg[r].target
  BY <1>1, Here, Operations DEF DeletesUser, AsksWell
<1>3. alone => me[r] \in users'
  BY <1>1, <1>2, AloneHere DEF Undisturbed
<1>4. alone => Whole'
  <2>1. ASSUME alone, NEW h \in openhabs
        PROVE  \E u \in users' : u.account = h.account /\ u.role = "master"
    <3>1. PICK u \in users : u.account = h.account /\ u.role = "master"
      BY <1>1, <2>1, AloneHere DEF Whole
    <3>2. CASE u.id = arg[r].target
      BY <1>2, <1>3, <2>1, <3>1, <3>2
    <3>3. CASE u.id # arg[r].target
      BY <1>1, <3>1, <3>3
    <3>4. QED
      BY <3>2, <3>3
  <2>2. QED
    BY <1>1, <2>1, AloneHere DEF Whole
<1>5. step'[r] = "ok"
  BY Here DEF DropUser, Answer, RequestType
<1>6. QED
  BY <1>1, <1>4, <1>5, AloneMove DEF Ended

LEMMA AloneDropRecordsStep ==
    ASSUME SafeInv, AloneWell, NEW r \in Request, DropRecords(r)
    PROVE  AloneWell'
<1> DEFINE k == step[r]
           s == Following(doing[r], k)
           owner == IF k \in OpenhabRecord THEN arg[r].target ELSE me[r].id
<1>1. /\ Handle(r) /\ UNCHANGED <<accounts, users, openhabs>>
      /\ k \in OpenhabRecord \cup UserRecord /\ doing[r] \in {"deleteItems", "deleteAccount"}
      /\ records' = {x \in records : ~(x.kind = k /\ x.owner = owner)}
      /\ IF s = "ok" THEN Answer(r, "ok") ELSE Goto(r, s) /\ UNCHANGED arg
  BY Here, StepTells DEF DropRecords, Handle, OpenhabRecord, UserRecord
<1>2. alone => Whole'
  BY <1>1, AloneHere DEF Whole
<1>3. step'[r] = s
  BY <1>1, Here DEF Answer, Goto, RequestType
<1>4. ASSUME alone, step'[r] \notin Ended PROVE Undisturbed(r)'
  <2>1. doing'[r] = doing[r] /\ me'[r] = me[r] /\ arg'[r] = arg[r]
    BY <1>1, <1>3, <1>4, Moves DEF Ended
  <2>2. CASE doing[r] = "deleteItems"
    BY <2>1, <2>2 DEF Undisturbed, OpenhabRecord
  <2>3. CASE doing[r] = "deleteAccount"
    <3>1. Gone(s) = Gone(k) \cup {k} /\ s # "accounts"
      BY <1>1, <2>3, FollowingKinds DEF OpenhabRecord, UserRecord
    <3>2. ASSUME NEW x \in records', x.kind \in Gone(s) \cap OpenhabRecord
          PROVE  arg[r].target = None \/ x.owner # me[r].account
      <4>1. CASE x.kind = k
        <5>1. k \in OpenhabRecord /\ arg[r].target = me[r].account /\ owner = arg[r].target
          BY <2>3, <3>2, <4>1, Here DEF Deletes
        <5>2. QED
          BY <1>1, <4>1, <5>1
      <4>2. CASE x.kind \in Gone(k)
        BY <1>1, <1>4, <2>3, <3>2, <4>2, AloneHere DEF Undisturbed
      <4>3. QED
        BY <3>1, <3>2, <4>1, <4>2
    <3> HIDE DEF s
    <3>3. QED
      BY <1>3, <2>1, <2>3, <3>1, <3>2 DEF Undisturbed, OpenhabRecord
  <2>4. QED
    BY <1>1, <2>2, <2>3
<1>5. QED
  BY <1>1, <1>2, <1>4, AloneMove

\* Nothing is left of what the openHAB that goes had.
LEMMA RecordsGone ==
    ASSUME SafeInv, AloneWell, NEW r \in Request, DropOpenhabs(r), alone, arg[r].target # None
    PROVE  \A x \in records : x.kind \in OpenhabRecord => x.owner # me[r].account
<1>1. Handle(r) /\ step[r] = "openhabs" /\ doing[r] = "deleteAccount"
  BY Here, StepTells DEF DropOpenhabs, Handle
<1>2. OpenhabRecord \subseteq Gone("openhabs")
  BY DEF Gone
<1>3. QED
  BY <1>1, <1>2, AloneHere DEF Undisturbed

LEMMA AloneDropOpenhabsStep ==
    ASSUME SafeInv, AloneWell, NEW r \in Request, DropOpenhabs(r)
    PROVE  AloneWell'
<1>1. /\ Handle(r) /\ UNCHANGED <<accounts, users, records>>
      /\ step[r] = "openhabs" /\ doing[r] = "deleteAccount"
      /\ openhabs' = IF arg[r].target = None THEN openhabs
                     ELSE {h \in openhabs : h.account # me[r].account}
  BY Here, StepTells DEF DropOpenhabs, Handle
<1>2. step'[r] = "users" /\ doing'[r] = doing[r] /\ me'[r] = me[r] /\ arg'[r] = arg[r]
  BY Here DEF DropOpenhabs, Goto, RequestType
<1>3. alone => Whole'
  BY <1>1, AloneHere DEF Whole
<1>4. alone => Undisturbed(r)'
  BY <1>1, <1>2, RecordsGone DEF Undisturbed
<1>5. QED
  BY <1>1, <1>3, <1>4, AloneMove

LEMMA AloneDropUsersStep ==
    ASSUME SafeInv, AloneWell, NEW r \in Request, DropUsers(r)
    PROVE  AloneWell'
<1>1. /\ Handle(r) /\ UNCHANGED <<accounts, openhabs, records>>
      /\ step[r] = "users" /\ doing[r] = "deleteAccount"
      /\ users' = {u \in users : u.account # me[r].account}
  BY DEF DropUsers, Handle
<1>2. step'[r] = "accounts" /\ doing'[r] = doing[r] /\ me'[r] = me[r] /\ arg'[r] = arg[r]
  BY Here DEF DropUsers, Goto, RequestType
<1>3. Gone("accounts") = Gone("users")
  BY DEF Gone
<1>4. \A h \in openhabs : h.account # me[r].account
  BY <1>1, Here DEF Deletes
<1>5. alone => Whole'
  BY <1>1, <1>4, AloneHere DEF Whole
<1>6. alone => Undisturbed(r)'
  BY <1>1, <1>2, <1>3, AloneHere DEF Undisturbed, OpenhabRecord
<1>7. QED
  BY <1>1, <1>5, <1>6, AloneMove

LEMMA AloneDropAccountStep ==
    ASSUME SafeInv, AloneWell, NEW r \in Request, DropAccount(r)
    PROVE  AloneWell'
<1>1. /\ Handle(r) /\ UNCHANGED <<users, openhabs, records>>
      /\ step[r] = "accounts" /\ doing[r] = "deleteAccount"
      /\ accounts' = accounts \ {me[r].account}
  BY Here, StepTells DEF DropAccount, Handle
<1>2. \A h \in openhabs : h.account # me[r].account
  BY <1>1, Here DEF Deletes
<1>3. alone => \A u \in users : u.account # me[r].account
  BY <1>1, AloneHere DEF Undisturbed
<1>4. alone => Whole'
  BY <1>1, <1>2, <1>3, AloneHere DEF Whole
<1>5. step'[r] = "ok"
  BY Here DEF DropAccount, Answer, RequestType
<1>6. QED
  BY <1>1, <1>4, <1>5, AloneMove DEF Ended

\* Whoever arrives while nothing is in progress finds what it is about.
LEMMA AloneArrivesStep ==
    ASSUME SafeInv, AloneWell, NEW r \in Request, Arrives(r)
    PROVE  AloneWell'
<1>1. PICK d, s, u, a : /\ Arrive(r, d, s, u, a)
                        /\ d \in {"addUser", "deleteUser"} => u \in users
                        /\ d = "deleteAccount" => s = "setOpenhab"
  BY Operations DEF Arrives, Register, AddUser, DeleteUser, Update, DeleteAccount, DeleteItems,
     Enter, Write, NoArg, OpenhabRecord, UserRecord
<1>2. /\ UNCHANGED stored /\ step'[r] = s /\ doing'[r] = d /\ me'[r] = u /\ arg'[r] = a
      /\ \A q \in Request \ {r} : step'[q] = step[q]
      /\ alone' = (alone /\ InProgress = {})
  BY <1>1, Here DEF Arrive, RequestType
<1> SUFFICES ASSUME alone' PROVE AloneWell'
  BY DEF AloneWell
<1>3. alone /\ InProgress = {} /\ Whole
  BY <1>2, AloneParts
<1>4. \A q \in InProgress' : q = r
  BY <1>2, <1>3 DEF InProgress
<1>5. Undisturbed(r)'
  BY <1>1, <1>2 DEF Undisturbed, Gone, stored
<1>6. Whole'
  BY <1>2, <1>3 DEF Whole, stored
<1>7. QED
  BY <1>4, <1>5, <1>6 DEF AloneWell, Whole, HasMaster

LEMMA AloneInit == Init => AloneWell
BY DEF Init, AloneWell, HasMaster, InProgress, Ended

LEMMA AloneStep == SafeInv /\ AloneWell /\ [Next]_vars => AloneWell'
<1>1. ASSUME SafeInv, AloneWell, NEW r \in Request, Handle(r) PROVE AloneWell'
  BY <1>1, AloneLookStep, AloneFindOpenhabStep, AloneSaveAccountStep, AloneSaveUserStep,
     AloneSaveOpenhabStep, AloneSaveUuidStep, AloneSaveRecordStep, AloneDropUserStep,
     AloneDropRecordsStep, AloneDropOpenhabsStep, AloneDropUsersStep, AloneDropAccountStep
     DEF Handle
<1>2. ASSUME SafeInv, AloneWell, NEW r \in Request, Fail(r) PROVE AloneWell'
  BY <1>2, AloneErrorStep DEF Fail
<1>3. ASSUME AloneWell, UNCHANGED <<stored, step, doing, me, arg, before, alone>>
      PROVE  AloneWell'
  BY <1>3 DEF AloneWell, HasMaster, InProgress, Undisturbed, stored
<1>4. QED
  BY <1>1, <1>2, <1>3, AloneArrivesStep DEF Next, vars

\* Whatever fails or overlaps, ids are used once, an openHAB and its account come from
\* one registration, a request acts for who has sent it, and a deletion leaves nothing
\* behind its step that was there when it began.
THEOREM AccountsCorrect == Spec => []AccountsInv
<1>1. Init => AccountsInv
  BY SafeInit, AloneInit DEF AccountsInv, SafeInv, Init
<1>2. AccountsInv /\ [Next]_vars => AccountsInv'
  BY SafeStep, SocketsStep, AloneStep DEF AccountsInv, SafeInv
<1>3. QED
  BY <1>1, <1>2, PTL DEF Spec

\* As long as requests do not overlap, no openHAB and no user is without an account,
\* whichever command of a registration or of a deletion fails (user.service.ts:375).
THEOREM ParentsStay == Spec => []ChildrenFirst
<1>1. AccountsInv => ChildrenFirst
  BY DEF AccountsInv, AloneWell, ChildrenFirst, TypeOK, Typed, StoredType, RequestType, Arg
<1>2. QED
  BY <1>1, AccountsCorrect, PTL

\* As long as requests do not overlap, deleting users leaves every openHAB a master.
THEOREM MasterStays == Spec => []HasMaster
<1>1. AccountsInv => HasMaster
  BY DEF AccountsInv, AloneWell, HasMaster
<1>2. QED
  BY <1>1, AccountsCorrect, PTL

\* A deletion of an account that was reported successful has removed the account, its
\* openHAB, and all of its users and records that were there when the deletion arrived -
\* although other requests of the account may have run, and the openHAB's socket may
\* have written, all the time.
THEOREM DeletionIsFinal == Spec => []DeletedForGood
<1>1. AccountsInv => DeletedForGood
  <2> SUFFICES ASSUME AccountsInv, NEW r \in Request, Deleted(r)
               PROVE  /\ me[r].account \notin accounts
                      /\ \A h \in openhabs : h.account # me[r].account
                      /\ \A u \in users : u.account = me[r].account => u.id \notin before[r]
                      /\ \A x \in records :
                            Owned(x, me[r].id, arg[r].target) => x.id \notin before[r]
    BY DEF DeletedForGood
  <2>1. Deletes(r) /\ step[r] = "ok" /\ doing[r] = "deleteAccount"
    BY DEF AccountsInv, Sound, Deleted
  <2>2. \A x \in records : x.kind \in Gone("ok")
    BY DEF AccountsInv, Typed, StoredType, RequestType, RecordDoc, Gone
  <2>3. QED
    BY <2>1, <2>2 DEF Deletes
<1>2. QED
  BY <1>1, AccountsCorrect, PTL

-----------------------------------------------------------------------------
(* What a step may never do.                                               *)

\* A registration succeeds only when it stores the openHAB.
LEMMA SucceedsAtTheEnd ==
    ASSUME SafeInv, NEW r \in Request, Handle(r) \/ Fail(r), doing[r] = "register",
           step'[r] = "ok"
    PROVE  SaveOpenhab(r)
<1>1. \A s \in Step : Goto(r, s) => step'[r] = s
  BY Here DEF Goto, RequestType
<1>2. Answer(r, "error") => step'[r] = "error"
  BY Here DEF Answer, RequestType
<1>3. ~Goto(r, "uuid") /\ ~Goto(r, "saveAccount") /\ ~Goto(r, "saveUser") /\ ~Goto(r, "saveOpenhab")
  BY <1>1 DEF Step
<1>4. step[r] \in {"name", "uuid", "saveAccount", "saveUser", "saveOpenhab"}
  BY Here, Moves DEF AsksWell, StepsOf
<1>5. /\ ~Fail(r) /\ ~FindName(r) /\ ~FindUuid(r) /\ ~SaveAccount(r) /\ ~SaveUser(r)
  BY <1>2, <1>3 DEF Fail, FindName, FindUuid, SaveAccount, SaveUser
<1>6. QED
  BY <1>4, <1>5 DEF Handle, SetOpenhab, SaveUuid, SaveRecord, FindUser, DropUser, FindSelf,
     FindAccount, FindOpenhab, DropRecords, DropOpenhabs, DropUsers, DropAccount,
     OpenhabRecord, UserRecord

\* Only the deletion of its account removes an openHAB.
LEMMA OpenhabsGo ==
    ASSUME SafeInv, [Next]_vars, NEW h \in openhabs, h.id \notin {g.id : g \in openhabs'}
    PROVE  \E r \in Request : DropOpenhabs(r) /\ arg[r].target # None /\ h.id = me[r].account
<1>1. ASSUME NEW r \in Request, SaveUuid(r) PROVE FALSE
  <2>1. \A g \in openhabs : (IF g.id = arg[r].target THEN [g EXCEPT !.uuid = arg[r].uuid] ELSE g).id = g.id
    BY DEF SafeInv, Typed, StoredType, OpenhabDoc
  <2>2. QED
    BY <1>1, <2>1 DEF SaveUuid
<1>2. ~(openhabs \subseteq openhabs')
  OBVIOUS
<1>3. ASSUME NEW r \in Request, Handle(r) PROVE DropOpenhabs(r)
  <2>1. ~SetOpenhab(r) /\ ~FindName(r) /\ ~FindUuid(r) /\ ~FindUser(r) /\ ~FindSelf(r)
        /\ ~FindAccount(r) /\ ~FindOpenhab(r)
    BY <1>2 DEF SetOpenhab, FindName, FindUuid, FindUser, FindSelf, FindAccount, FindOpenhab, stored
  <2>2. ~SaveAccount(r) /\ ~SaveUser(r) /\ ~SaveOpenhab(r) /\ ~SaveRecord(r)
    BY <1>2 DEF SaveAccount, SaveUser, SaveOpenhab, SaveRecord
  <2>3. ~DropUser(r) /\ ~DropRecords(r) /\ ~DropUsers(r) /\ ~DropAccount(r)
    BY <1>2 DEF DropUser, DropRecords, DropUsers, DropAccount
  <2>4. QED
    BY <1>1, <1>3, <2>1, <2>2, <2>3 DEF Handle
<1>4. ASSUME NEW r \in Request, Arrives(r) \/ Fail(r) PROVE FALSE
  <2>1. UNCHANGED openhabs
    BY <1>4 DEF Arrives, Register, AddUser, DeleteUser, Update, DeleteAccount, DeleteItems,
       Enter, Write, Arrive, Fail, stored
  <2>2. QED
    BY <1>2, <2>1
<1>5. PICK r \in Request : DropOpenhabs(r)
  BY <1>2, <1>3, <1>4 DEF Next, stored, vars
<1>6. h.account = me[r].account /\ arg[r].target # None
  BY <1>5 DEF DropOpenhabs
<1>7. QED
  BY <1>5, <1>6 DEF SafeInv, OpenhabsWell

\* As long as requests do not overlap, the step that deletes an openHAB leaves no record of
\* it, whichever command of an earlier deletion failed (user.service.ts:375).
THEOREM RecordsGoFirst == Spec => RecordsFirst
<1>1. ASSUME SafeInv, AloneWell, [Next]_vars, alone', NEW h \in openhabs,
             h.id \notin {g.id : g \in openhabs'}, NEW x \in records', x.kind \in OpenhabRecord
      PROVE  x.owner # h.id
  <2>1. PICK r \in Request : DropOpenhabs(r) /\ arg[r].target # None /\ h.id = me[r].account
    BY <1>1, OpenhabsGo
  <2>2. alone /\ records' = records
    BY <1>1, <2>1 DEF DropOpenhabs, Goto
  <2>3. QED
    BY <1>1, <2>1, <2>2, RecordsGone
<1>2. AccountsInv => SafeInv /\ AloneWell
  BY DEF AccountsInv, SafeInv
<1>3. SafeInv /\ AloneWell /\ [Next]_vars =>
         (alone' => \A h \in openhabs : h.id \notin {g.id : g \in openhabs'} =>
                      \A x \in records' : x.kind \in OpenhabRecord => x.owner # h.id)
  BY <1>1
<1>4. QED
  BY <1>2, <1>3, AccountsCorrect, PTL DEF RecordsFirst, Spec

\* The account and the user that a registration has created are there when it succeeds,
\* whatever other requests, deletions among them, have done in between.
THEOREM RegistersWhole == Spec => RegisteredWhole
<1>1. ASSUME SafeInv, [Next]_vars, NEW r \in Request, doing[r] = "register", step[r] # "ok",
             step'[r] = "ok"
      PROVE  /\ r \in accounts'
             /\ \E u \in users' : u.id = r /\ u.account = r
             /\ \E h \in openhabs' : h.account = r
  <2>1. PICK q \in Request : Arrives(q) \/ Handle(q) \/ Fail(q)
    BY <1>1 DEF Next, vars
  <2>2. ~Arrives(q)
    <3>1. ASSUME NEW d, NEW s, NEW u, NEW a, Arrive(q, d, s, u, a)
          PROVE  step' = [step EXCEPT ![q] = s] /\ step[q] = "none"
      BY <3>1 DEF Arrive
    <3>2. Arrives(q) => \E s \in {"name", "setOpenhab", "save"} : step' = [step EXCEPT ![q] = s]
      BY <3>1 DEF Arrives, Register, AddUser, DeleteUser, Update, DeleteAccount, DeleteItems,
         Enter, Write
    <3>3. QED
      BY <1>1, <3>2, Here DEF RequestType
  <2>3. q = r
    BY <1>1, <2>1, <2>2, Moves
  <2>4. SaveOpenhab(r)
    BY <1>1, <2>1, <2>2, <2>3, SucceedsAtTheEnd
  <2>5. /\ r \in accounts /\ \E u \in users : u.id = r /\ u.account = r
        /\ UNCHANGED <<accounts, users>>
    <3>1. step[r] = "saveOpenhab"
      BY <2>4 DEF SaveOpenhab
    <3>2. \E u \in users : u.id = r /\ u.account = r
      BY <1>1, <3>1, Here DEF Registers
    <3>3. QED
      BY <1>1, <2>4, <3>1, <3>2, Here DEF Registers, SaveOpenhab, SafeInv
  <2>6. \E h \in openhabs' : h.account = r
    <3>1. Answer(r, "error") => step'[r] = "error"
      BY <1>1, Here DEF Answer, RequestType
    <3>2. [id |-> r, account |-> r, uuid |-> arg[r].uuid] \in openhabs'
      BY <1>1, <2>4, <3>1 DEF SaveOpenhab
    <3>3. QED
      BY <3>2
  <2>7. QED
    BY <2>5, <2>6
<1>2. AccountsInv => SafeInv
  BY DEF AccountsInv, SafeInv
<1>3. SafeInv /\ [Next]_vars =>
         \A r \in Request :
            doing[r] = "register" /\ step[r] # "ok" /\ step'[r] = "ok" =>
               /\ r \in accounts'
               /\ \E u \in users' : u.id = r /\ u.account = r
               /\ \E h \in openhabs' : h.account = r
  BY <1>1
<1>4. QED
  BY <1>2, <1>3, AccountsCorrect, PTL DEF RegisteredWhole, Spec

\* Of account a, nothing is lost in a step.
Keeps(a) ==
    /\ a \in accounts => a \in accounts'
    /\ \A u \in users : u.account = a => u \in users'
    /\ \A h \in openhabs : h.account = a => \E g \in openhabs' : g.id = h.id
    /\ \A x \in records, u \in users, h \in openhabs :
          u.account = a /\ h.account = a /\ Owned(x, u.id, h.id) => x \in records'

\* A step that deletes something is of somebody of the account it is from.
Acts(r) ==
    \A a \in Request : ~Keeps(a) => me[r] # None /\ me[r].account = a /\ step'[r] # step[r]

LEMMA LookActs ==
    ASSUME NEW r \in Request, UNCHANGED stored
    PROVE  Acts(r)
BY DEF Acts, Keeps, stored

LEMMA SaveActs ==
    ASSUME SafeInv, NEW r \in Request,
           \/ SaveAccount(r) \/ SaveUser(r) \/ SaveOpenhab(r) \/ SaveUuid(r) \/ SaveRecord(r)
    PROVE  Acts(r)
<1>1. CASE SaveUuid(r)
  <2>1. CASE UNCHANGED openhabs
    BY <1>1, <2>1, LookActs DEF SaveUuid, stored
  <2>2. CASE openhabs' = {IF h.id = arg[r].target
                          THEN [h EXCEPT !.uuid = arg[r].uuid] ELSE h : h \in openhabs}
    <3> DEFINE new(h) == IF h.id = arg[r].target THEN [h EXCEPT !.uuid = arg[r].uuid] ELSE h
    <3>1. \A h \in openhabs : new(h).id = h.id
      BY DEF SafeInv, Typed, StoredType, RequestType, OpenhabDoc
    <3>2. openhabs' = {new(h) : h \in openhabs}
      BY <2>2
    <3> HIDE DEF new
    <3>3. \A h \in openhabs : \E g \in openhabs' : g.id = h.id
      BY <3>1, <3>2
    <3>4. UNCHANGED <<accounts, users, records>>
      BY <1>1 DEF SaveUuid
    <3>5. QED
      BY <3>3, <3>4 DEF Acts, Keeps
  <2>3. QED
    BY <1>1, <2>1, <2>2 DEF SaveUuid
<1>2. CASE ~SaveUuid(r)
  <2>1. /\ accounts \subseteq accounts' /\ users \subseteq users'
        /\ openhabs \subseteq openhabs' /\ records \subseteq records'
    BY <1>2 DEF SaveAccount, SaveUser, SaveOpenhab, SaveRecord
  <2>2. ASSUME NEW a \in Request PROVE Keeps(a)
    <3>1. \A x \in records, u \in users, h \in openhabs : x \in records'
      BY <2>1
    <3>2. QED
      BY <2>1, <3>1 DEF Keeps
  <2>3. QED
    BY <2>2 DEF Acts
<1>3. QED
  BY <1>1, <1>2

LEMMA DropUserActs ==
    ASSUME SafeInv, NEW r \in Request, DropUser(r)
    PROVE  Acts(r)
<1>1. /\ step[r] = "users" /\ doing[r] = "deleteUser" /\ UNCHANGED <<accounts, openhabs, records>>
      /\ users' = {u \in users : u.id # arg[r].target} /\ step'[r] = "ok"
  BY Here DEF DropUser, Answer, RequestType
<1>2. /\ \A u \in users : u.id = arg[r].target => u.account = me[r].account
      /\ me[r] # None
  BY <1>1, Here, Operations DEF DeletesUser, AsksWell
<1>3. QED
  BY <1>1, <1>2 DEF Acts, Keeps

LEMMA DropRecordsActs ==
    ASSUME SafeInv, NEW r \in Request, DropRecords(r)
    PROVE  Acts(r)
<1> DEFINE k == step[r]
           owner == IF k \in OpenhabRecord THEN arg[r].target ELSE me[r].id
<1>1. /\ UNCHANGED <<accounts, users, openhabs>> /\ k \in OpenhabRecord \cup UserRecord
      /\ doing[r] \in {"deleteItems", "deleteAccount"}
      /\ records' = {x \in records : ~(x.kind = k /\ x.owner = owner)}
      /\ doing[r] = "deleteItems" => k \in {"event", "item"}
  BY Here, StepTells DEF DropRecords, OpenhabRecord, UserRecord
<1>2. me[r] # None /\ me[r] \in UserDoc
  BY <1>1, Deleting, Operations DEF OpenhabRecord, UserRecord
<1>3. step'[r] # step[r]
  <2>1. step'[r] = Following(doing[r], k)
    BY Here DEF DropRecords, Answer, Goto, RequestType
  <2>2. QED
    BY <1>1, <2>1 DEF Following, OpenhabRecord, UserRecord
<1>4. ASSUME NEW a \in Request, NEW x \in records, NEW u \in users, NEW h \in openhabs,
             u.account = a, h.account = a, Owned(x, u.id, h.id), x \notin records'
      PROVE  me[r].account = a
  <2>1. x.kind = k /\ x.owner = owner
    BY <1>1, <1>4
  <2>2. CASE k \in OpenhabRecord
    <3>1. x.owner = arg[r].target /\ x.owner = h.id /\ h.id = h.account /\ h.id \in Request
      BY <1>4, <2>1, <2>2 DEF Owned, SafeInv, OpenhabsWell, Typed, StoredType, RequestType,
         OpenhabDoc
    <3>2. arg[r].target \in {None, me[r].account}
      BY <1>1, Here DEF Deletes
    <3>3. QED
      BY <1>4, <3>1, <3>2, Operations
  <2>3. CASE k \notin OpenhabRecord
    <3>1. x.owner = me[r].id /\ x.owner = u.id
      BY <1>4, <2>1, <2>3 DEF Owned
    <3>2. QED
      BY <1>2, <1>4, <3>1, Here DEF MeWell
  <2>4. QED
    BY <2>2, <2>3
<1> HIDE DEF owner
<1>5. QED
  BY <1>1, <1>2, <1>3, <1>4 DEF Acts, Keeps

LEMMA DropAllActs ==
    ASSUME SafeInv, NEW r \in Request, DropOpenhabs(r) \/ DropUsers(r) \/ DropAccount(r)
    PROVE  Acts(r)
<1>1. doing[r] = "deleteAccount" /\ step[r] # "setOpenhab"
  BY Here, StepTells DEF DropOpenhabs, DropUsers, DropAccount
<1>2. me[r] # None
  BY <1>1, Deleting, Operations
<1>3. step'[r] # step[r]
  BY Here DEF DropOpenhabs, DropUsers, DropAccount, Goto, Answer, RequestType
<1>4. CASE DropOpenhabs(r)
  <2>1. \A h \in openhabs : h.account # me[r].account => h \in openhabs'
    BY <1>4 DEF DropOpenhabs
  <2>2. UNCHANGED <<accounts, users, records>>
    BY <1>4 DEF DropOpenhabs
  <2>3. QED
    BY <1>2, <1>3, <2>1, <2>2 DEF Acts, Keeps
<1>5. CASE DropUsers(r)
  BY <1>2, <1>3, <1>5 DEF DropUsers, Acts, Keeps
<1>6. CASE DropAccount(r)
  BY <1>2, <1>3, <1>6 DEF DropAccount, Acts, Keeps
<1>7. QED
  BY <1>4, <1>5, <1>6

\* Whatever is deleted, is deleted by somebody of the account it belongs to: nobody's
\* request, whichever ids it was sent, and however late it goes on with what it found,
\* touches what is of another account.
THEOREM OthersKeepTheirs == Spec => NoForeignDeletion
<1>1. ASSUME SafeInv, [Next]_vars, NEW a \in Request
      PROVE  \/ Keeps(a)
             \/ \E r \in Request : me[r] # None /\ me[r].account = a /\ step'[r] # step[r]
  <2>1. ASSUME NEW r \in Request, Handle(r) PROVE Acts(r)
    <3>1. CASE UNCHANGED stored
      BY <3>1, LookActs
    <3>2. CASE ~UNCHANGED stored
      BY <1>1, <2>1, <3>2, SaveActs, DropUserActs, DropRecordsActs, DropAllActs
         DEF Handle, SetOpenhab, FindName, FindUuid, FindUser, FindSelf, FindAccount, FindOpenhab
    <3>3. QED
      BY <3>1, <3>2
  <2>2. ASSUME NEW r \in Request, Arrives(r) PROVE Acts(r)
    BY <2>2, LookActs DEF Arrives, Register, AddUser, DeleteUser, Update, DeleteAccount,
       DeleteItems, Enter, Write, Arrive
  <2>3. ASSUME NEW r \in Request, Fail(r) PROVE Acts(r)
    BY <2>3, LookActs DEF Fail
  <2>4. CASE UNCHANGED stored
    BY <2>4 DEF Keeps, stored
  <2>5. QED
    BY <1>1, <2>1, <2>2, <2>3, <2>4 DEF Next, vars, Acts
<1>2. AccountsInv => SafeInv
  BY DEF AccountsInv, SafeInv
<1>3. SafeInv /\ [Next]_vars =>
         \A a \in Request :
            \/ /\ a \in accounts => a \in accounts'
               /\ \A u \in users : u.account = a => u \in users'
               /\ \A h \in openhabs : h.account = a => \E g \in openhabs' : g.id = h.id
               /\ \A x \in records, u \in users, h \in openhabs :
                     u.account = a /\ h.account = a /\ Owned(x, u.id, h.id) => x \in records'
            \/ \E r \in Request :
                  me[r] # None /\ me[r].account = a /\ step'[r] # step[r]
  BY <1>1 DEF Keeps
<1>4. QED
  BY <1>2, <1>3, AccountsCorrect, PTL DEF NoForeignDeletion, Spec
=============================================================================
