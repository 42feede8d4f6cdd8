--------------------------- MODULE Notifications ----------------------------
(***************************************************************************)
(* Notifications and the devices they are pushed to: from an openHAB's     *)
(* socket to one user, to all of its account's, or for the log only        *)
(* (socket-server.ts handleNotification, handleBroadcastNotification and   *)
(* handleLogNotification), from a user's API call or page                  *)
(* (api.controller.ts, devices.controller.ts), through                     *)
(* services/notification.service.ts and lib/push/fcm.provider.ts; and the  *)
(* registration of devices (registration.controller.ts).                   *)
(*                                                                         *)
(* Each command to MongoDB and each push is an action, and may fail.  The  *)
(* handlers of one socket run side by side, so nothing is in order.        *)
(*                                                                         *)
(* Operators named Bug... are not part of the model: each is a definition  *)
(* with one mistake, to show that a property would notice it.              *)
(***************************************************************************)
EXTENDS Naturals, FiniteSets

CONSTANTS
    User,
    Openhab,
    Home,     \* the openHAB of each user's account
    Device,   \* the ids that apps have chosen
    Reg,      \* FCM registrations
    Request,  \* requests, each handled once; bound: there are no others
    None

\* Every account has had its openHAB, while that is there.
ASSUME NotificationsAssumption ==
    /\ Home \in [User -> Openhab]
    /\ None \notin User \cup Device \cup {"broadcast", "log"}

VARIABLES
    users,    \* those who exist
    homes,    \* the openHABs that exist
    devices,  \* the registered devices
    saved,    \* the notifications in MongoDB: whose request, for which user
    tried,    \* what FCM was asked to deliver, and to which registration
    req       \* what each request is at

stored == <<users, homes, devices, saved, tried>>
vars == <<stored, req>>

\* A device's document; its id is the request that created it.
DeviceDoc == [id : Request, owner : User, device : Device, reg : Reg]
Pushed == Request \X User \X Reg

\* A request: what it does next, what it is, from which openHAB, for which user,
\* which users are still to come, the device and registrations it deals with; and, for
\* the properties, the devices there were when it came and have been since, and the users
\* it failed for.
Job == {"single", "broadcast", "log", "api", "hide", "message", "register", "delete"}
Before == [step |-> "none", job |-> None, from |-> None, user |-> None, todo |-> {},
           device |-> None, regs |-> {}, found |-> None, there |-> {}, failed |-> {}]

Init ==
    /\ users = User /\ homes = Openhab
    /\ devices = {} /\ saved = {} /\ tried = {}
    /\ req = [r \in Request |-> Before]

-----------------------------------------------------------------------------
Arrive(r, new) ==
    /\ req[r].step = "none"
    /\ req' = [req EXCEPT ![r] = new]
    /\ UNCHANGED stored

\* 'notification' to user u, whoever's that is.
Notification(r, h, u) ==
    Arrive(r, [Before EXCEPT !.step = "user", !.job = "single", !.from = h, !.user = u])

\* 'broadcastnotification' and 'lognotification', to all users of the account; the
\* socket of an openHAB that was deleted is still connected.
ToAll(r, h, j) ==
    Arrive(r, [Before EXCEPT !.step = "home", !.job = j, !.from = h, !.there = devices])

BroadcastNotification(r, h) == ToAll(r, h, "broadcast")
LogNotification(r, h) == ToAll(r, h, "log")

\* What user u asks for, at step s; setOpenhab finds the account's openHAB.
ByUser(r, u, j, s, d, id) ==
    /\ u \in users /\ Home[u] \in homes
    /\ Arrive(r, [Before EXCEPT !.step = s, !.job = j, !.from = Home[u], !.user = u,
                                !.device = d, !.found = id])

\* POST /api/v1/sendnotification.
SendNotification(r, u) == ByUser(r, u, "api", "save", None, None)

\* GET /api/v1/hidenotification, which may name the device it comes from.
HideNotification(r, u, d) == ByUser(r, u, "hide", "devices", d, None)

\* POST /devices/:id/sendmessage and GET /devices/:id/delete, of any device's id.
SendMessage(r, u, id) == ByUser(r, u, "message", "save", None, id)
DeleteDevice(r, u, id) == ByUser(r, u, "delete", "own", None, id)

\* /addAndroidRegistration and /addIosRegistration; a device is its type and id.
RegisterDevice(r, u, d, g) ==
    /\ u \in users /\ Home[u] \in homes
    /\ Arrive(r, [Before EXCEPT !.step = "find", !.job = "register", !.user = u, !.device = d,
                                !.regs = {g}])

-----------------------------------------------------------------------------
Goto(r, s) == req' = [req EXCEPT ![r].step = s]

Several(r) == req[r].job \in {"broadcast", "log"}

\* The request is over, without or with a failure for these users; what the properties
\* need is kept.
Ended(r, failed) ==
    [Before EXCEPT !.step = "over", !.from = req[r].from,
        !.job = IF Several(r) THEN req[r].job ELSE None, !.there = req[r].there,
        !.failed = IF Several(r) THEN req[r].failed \cup failed ELSE {}]

Over(r, failed) == req' = [req EXCEPT ![r] = Ended(r, failed)]

\* On to the next user of a broadcast, in any order, if there is one.
Proceed(r, failed) ==
    IF req[r].todo = {} THEN Over(r, failed)
    ELSE req' = [req EXCEPT ![r].step = "next", ![r].user = None, ![r].regs = {},
                            ![r].failed = @ \cup failed]

InProgress(r) == req[r].step \notin {"none", "next", "over", "gone"}

BugFail(r) ==
    /\ InProgress(r)
    /\ Over(r, {req[r].user} \cap User)
    /\ UNCHANGED stored

\* A command fails, or the payload is too large: of a broadcast, for this user only.
Fail(r) ==
    /\ InProgress(r)
    /\ IF req[r].user = None THEN Over(r, User) ELSE Proceed(r, {req[r].user})
    /\ UNCHANGED stored

\* The user by name, if there is one.
FindByUsername(r) ==
    /\ req[r].step = "user"
    /\ IF req[r].user \in users THEN Goto(r, "openhab") ELSE Over(r, {})
    /\ UNCHANGED stored

BugFindById(r) ==
    /\ req[r].step = "openhab"
    /\ Goto(r, "save")
    /\ UNCHANGED stored

\* The openHAB must be there, and of the user's account.
FindById(r) ==
    /\ req[r].step = "openhab"
    /\ IF req[r].from \in homes /\ Home[req[r].user] = req[r].from
       THEN Goto(r, "save") ELSE Over(r, {})
    /\ UNCHANGED stored

\* getUsersForOpenhab: without its openHAB a notification to all ends, for nobody.
FindHome(r) ==
    /\ req[r].step = "home"
    /\ IF req[r].from \in homes THEN Goto(r, "users")
       ELSE req' = [req EXCEPT ![r] = [Before EXCEPT !.step = "gone", !.from = req[r].from]]
    /\ UNCHANGED stored

\* And then its account's users.
FindUsers(r) ==
    /\ req[r].step = "users"
    /\ LET all == {u \in users : Home[u] = req[r].from}
       IN  IF all = {} THEN Over(r, {})
           ELSE req' = [req EXCEPT ![r].todo = all, ![r].step = "next"]
    /\ UNCHANGED stored

NextUser(r, u) ==
    /\ req[r].step = "next" /\ u \in req[r].todo
    /\ req' = [req EXCEPT ![r].todo = @ \ {u}, ![r].user = u, ![r].step = "save"]
    /\ UNCHANGED stored

\* validateAndPersist.
Save(r) ==
    /\ req[r].step = "save"
    /\ saved' = saved \cup {<<r, req[r].user>>}
    /\ CASE req[r].job = "log" -> Proceed(r, {})
         [] req[r].job = "message" -> Goto(r, "own")
         [] OTHER -> Goto(r, "devices")
    /\ UNCHANGED <<users, homes, devices, tried>>

\* The registrations of the user's devices; hiding leaves out the one it came from.
FindByOwner(r) ==
    LET regs == {d.reg : d \in {e \in devices : e.owner = req[r].user /\ e.device # req[r].device}}
    IN  /\ req[r].step = "devices"
        /\ IF regs = {} THEN Proceed(r, {})
           ELSE req' = [req EXCEPT ![r].regs = regs, ![r].step = "push"]
        /\ UNCHANGED stored

\* FCM accepts the message for some of the registrations, or answers with an error, or
\* is not configured; nothing of this is an error to the caller, or kept.
Push(r) ==
    /\ req[r].step = "push" /\ req[r].job # "hide"
    /\ tried' = tried \cup {r} \X {req[r].user} \X req[r].regs
    /\ Proceed(r, {})
    /\ UNCHANGED <<users, homes, devices, saved>>

\* The apps are asked to take a notification away; what was asked before stays on record.
PushHide(r) ==
    /\ req[r].step = "push" /\ req[r].job = "hide"
    /\ Proceed(r, {})
    /\ UNCHANGED stored

\* findByIdAndOwner.
FindByIdAndOwner(r) ==
    LET own == {d \in devices : d.id = req[r].found /\ d.owner = req[r].user}
    IN  /\ req[r].step = "own"
        /\ IF own = {} THEN Over(r, {})
           ELSE req' = [req EXCEPT ![r].regs = {d.reg : d \in own},
                           ![r].step = IF req[r].job = "delete" THEN "delete" ELSE "push"]
        /\ UNCHANGED stored

\* The request's work is done, and these are the devices now.
Leaves(r, docs) ==
    /\ devices' = docs
    /\ req' = [q \in Request |-> IF q = r THEN Ended(r, {})
                                  ELSE [req[q] EXCEPT !.there = @ \cap docs]]

DeleteById(r) ==
    /\ req[r].step = "delete"
    /\ Leaves(r, {d \in devices : d.id # req[r].found})
    /\ UNCHANGED <<users, homes, saved, tried>>

\* findByOwnerAndDeviceId: one of them, should there be several.
FindByOwnerAndDeviceId(r) ==
    LET same == {d \in devices : d.owner = req[r].user /\ d.device = req[r].device}
    IN  /\ req[r].step = "find"
        /\ \/ \E d \in same : req' = [req EXCEPT ![r].found = d.id, ![r].step = "update"]
           \/ same = {} /\ Goto(r, "create")
        /\ UNCHANGED stored

\* updateFcmRegistration, of a device that may be gone by now.
UpdateFcmRegistration(r) ==
    /\ req[r].step = "update"
    /\ \E g \in req[r].regs :
          Leaves(r, {IF d.id = req[r].found THEN [d EXCEPT !.reg = g] ELSE d : d \in devices})
    /\ UNCHANGED <<users, homes, saved, tried>>

\* Nothing keeps two registrations at a time from creating two documents.
CreateDevice(r) ==
    /\ req[r].step = "create"
    /\ \E g \in req[r].regs :
          Leaves(r, devices \cup {[id |-> r, owner |-> req[r].user, device |-> req[r].device,
                                   reg |-> g]})
    /\ UNCHANGED <<users, homes, saved, tried>>

\* A user is deleted (module Accounts); the devices may stay.
DropUser(u) ==
    /\ u \in users
    /\ users' = users \ {u}
    /\ UNCHANGED <<homes, devices, saved, tried, req>>

\* deleteAccount deletes the openHAB before its users, and may fail in between.
DropHome(h) ==
    /\ h \in homes
    /\ homes' = homes \ {h}
    /\ UNCHANGED <<users, devices, saved, tried, req>>

Next ==
    \/ \E r \in Request :
        \/ \E h \in Openhab :
            \/ BroadcastNotification(r, h) \/ LogNotification(r, h)
            \/ \E u \in User : Notification(r, h, u)
        \/ \E u \in User :
            \/ SendNotification(r, u)
            \/ \E d \in Device \cup {None} : HideNotification(r, u, d)
            \/ \E d \in devices : SendMessage(r, u, d.id) \/ DeleteDevice(r, u, d.id)
        \/ \E u \in User, d \in Device, g \in Reg : RegisterDevice(r, u, d, g)
        \/ FindByUsername(r) \/ FindById(r) \/ FindHome(r) \/ FindUsers(r)
        \/ \E u \in User : NextUser(r, u)
        \/ Save(r) \/ FindByOwner(r) \/ Push(r) \/ PushHide(r)
        \/ FindByIdAndOwner(r) \/ DeleteById(r)
        \/ FindByOwnerAndDeviceId(r) \/ UpdateFcmRegistration(r) \/ CreateDevice(r)
        \/ Fail(r)
    \/ \E u \in User : DropUser(u)
    \/ \E h \in Openhab : DropHome(h)

Spec == Init /\ [][Next]_vars

-----------------------------------------------------------------------------
(* Properties.                                                             *)

TypeOK ==
    /\ users \subseteq User /\ homes \subseteq Openhab /\ devices \subseteq DeviceDoc
    /\ saved \subseteq Request \X User
    /\ tried \subseteq Pushed
    /\ req \in [Request -> [step : {"none", "user", "openhab", "home", "users", "next", "save",
                                    "devices", "push", "own", "delete", "find", "update",
                                    "create", "over", "gone"},
                            job : Job \cup {None}, from : Openhab \cup {None},
                            user : User \cup {None}, todo : SUBSET User,
                            device : Device \cup {None}, regs : SUBSET Reg,
                            found : Request \cup {None}, there : SUBSET DeviceDoc,
                            failed : SUBSET User]]

\* Nothing is pushed that was not saved first, for a user of the account it is from.
PushedIsSaved ==
    /\ TypeOK
    /\ \A p \in tried : <<p[1], p[2]>> \in saved
    /\ \A p \in saved : Home[p[2]] = req[p[1]].from

\* When a notification is over, it is saved for everybody it was for whose own commands
\* did not fail, and has been pushed to each of their devices that was there when it
\* came and has been since: another user's failure, or a registration or deletion meanwhile,
\* does not change that.  It ends for nobody only if its openHAB was deleted.
ReachesAll ==
    \A r \in Request :
        /\ req[r].step = "over" /\ Several(r) =>
              \A u \in users \ req[r].failed : Home[u] = req[r].from =>
                  /\ <<r, u>> \in saved
                  /\ req[r].job = "broadcast" =>
                        \A d \in req[r].there : d.owner = u => <<r, u, d.reg>> \in tried
        /\ req[r].step = "gone" => req[r].from \notin homes
====
