------------------------------ MODULE Webhooks ------------------------------
(***************************************************************************)
(* Webhooks (models/webhook.model.ts): an openHAB registers a path of its  *)
(* own over its socket and is given an address, under which anybody may    *)
(* reach that path until it expires or is removed (socket-server.ts        *)
(* handleWebhookRegister and handleWebhookRemove, webhooks.controller.ts,  *)
(* middleware.ts createSetOpenhabForWebhook).                              *)
(*                                                                         *)
(* Each command to MongoDB is an action; a request may end before any of   *)
(* them (Fail), and an upsert also for a duplicate key.  The expiry is     *)
(* computed before the upsert is sent, which takes at most Delay ticks.    *)
(* MongoDB removes expired documents some time later.                      *)
(*                                                                         *)
(* Operators named Bug... are not part of the model: each is a definition  *)
(* with one mistake, to show that a property would notice it.              *)
(***************************************************************************)
EXTENDS Naturals, FiniteSets

CONSTANTS
    Openhab,
    Path,
    Uuid,     \* the addresses' uuids; bound: there are no others
    Request,  \* bound: requests handled at a time
    Ttl,      \* 30 days, in ticks
    Delay,    \* the longest wait for MongoDB, in ticks
    None

Slot == Openhab \X Path

VARIABLES
    openhabs,  \* those that exist
    hooks,     \* the document of each openHAB and path
    given,     \* for whom each uuid was made
    promised,  \* the address and the latest expiry each openHAB was told, unless removed
    req        \* the requests in progress

stored == <<openhabs, hooks, given, promised>>
vars == <<stored, req>>

\* Expired when nothing is left, removed when there is no uuid.
NoHook == [uuid |-> None, left |-> 0]
Done == [step |-> "idle", slot |-> None, uuid |-> None, left |-> 0, wait |-> 0, late |-> FALSE]

Init ==
    /\ openhabs = Openhab
    /\ hooks = [s \in Slot |-> NoHook]
    /\ given = [i \in Uuid |-> None]
    /\ promised = [s \in Slot |-> NoHook]
    /\ req = [r \in Request |-> Done]

Begin(r, new) == req[r].step = "idle" /\ req' = [req EXCEPT ![r] = new]
Turn(r, s) == req' = [req EXCEPT ![r].step = s]
Finish(r) == req' = [req EXCEPT ![r] = Done]

Fail(r) == req[r].step # "idle" /\ Finish(r) /\ UNCHANGED stored

-----------------------------------------------------------------------------
(* Registration; s[1] is the openHAB of the socket.                        *)

\* 'webhook:register', also after the openHAB was deleted: its socket stays.
RegisterWebhook(r, s) ==
    /\ Begin(r, [Done EXCEPT !.step = "upsert", !.slot = s, !.left = Ttl])
    /\ UNCHANGED stored

\* The request is over; calls to address i are no longer late.
Renewed(r, i) ==
    req' = [q \in Request |-> IF q = r THEN Done
                              ELSE [req[q] EXCEPT !.late = @ /\ req[q].uuid # i]]

\* The answer; those to two registrations may come in either order.
Told(s, i, left) ==
    promised' = [promised EXCEPT ![s] =
        [uuid |-> i, left |-> IF @.uuid = i /\ @.left > left THEN @.left ELSE left]]

BugUpsert(r) ==
    LET s == req[r].slot
    IN  /\ req[r].step = "upsert"
        /\ \E i \in Uuid :
              /\ IF hooks[s] = NoHook THEN given[i] = None ELSE i = hooks[s].uuid
              /\ given' = [given EXCEPT ![i] = s]
              /\ hooks' = [hooks EXCEPT ![s] = IF @ = NoHook
                              THEN [uuid |-> i, left |-> req[r].left] ELSE @]
              /\ Told(s, i, req[r].left)
              /\ Renewed(r, i)
        /\ UNCHANGED openhabs

\* A path that is registered keeps its uuid.
Upsert(r) ==
    LET s == req[r].slot
    IN  /\ req[r].step = "upsert"
        /\ \E i \in Uuid :
              /\ IF hooks[s] = NoHook THEN given[i] = None ELSE i = hooks[s].uuid
              /\ given' = [given EXCEPT ![i] = s]
              /\ hooks' = [hooks EXCEPT ![s] = [uuid |-> i, left |-> req[r].left]]
              /\ Told(s, i, req[r].left)
              /\ Renewed(r, i)
        /\ UNCHANGED openhabs

-----------------------------------------------------------------------------
(* Removal.                                                                *)

\* Documents and promises of these slots go.
Drop(slots) ==
    /\ hooks' = [s \in Slot |-> IF s \in slots THEN NoHook ELSE hooks[s]]
    /\ promised' = [s \in Slot |-> IF s \in slots THEN NoHook ELSE promised[s]]

\* 'webhook:remove'.
RemoveWebhook(r, s) ==
    /\ Begin(r, [Done EXCEPT !.step = "remove", !.slot = s])
    /\ UNCHANGED stored

Remove(r) ==
    /\ req[r].step = "remove"
    /\ Drop({req[r].slot})
    /\ Finish(r)
    /\ UNCHANGED <<openhabs, given>>

\* GET /webhooks/:id/delete by a user of openHAB o; i stands for the document's id.
DeleteWebhook(r, o, i) ==
    /\ o \in openhabs /\ given[i] # None
    /\ Begin(r, [Done EXCEPT !.step = "find", !.slot = <<o, given[i][2]>>,
                             !.uuid = i])
    /\ UNCHANGED stored

FindByIdAndOpenhab(r) ==
    /\ req[r].step = "find"
    /\ IF hooks[req[r].slot].uuid = req[r].uuid THEN Turn(r, "delete") ELSE Finish(r)
    /\ UNCHANGED stored

\* By its id: a successor of the document is another one.
DeleteById(r) ==
    /\ req[r].step = "delete"
    /\ Drop({s \in {req[r].slot} : hooks[s].uuid = req[r].uuid})
    /\ Finish(r)
    /\ UNCHANGED <<openhabs, given>>

\* deleteAccount (module Accounts), seen from here.
DropHooks(o) ==
    /\ o \in openhabs
    /\ Drop({o} \X Path)
    /\ UNCHANGED <<openhabs, given, req>>

DropOpenhab(o) ==
    /\ o \in openhabs
    /\ openhabs' = openhabs \ {o}
    /\ UNCHANGED <<hooks, given, promised, req>>

-----------------------------------------------------------------------------
(* /api/hooks/:uuid, by anybody.                                           *)

Valid(i) == given[i] # None /\ hooks[given[i]].uuid = i /\ hooks[given[i]].left > 0

Call(r, i) ==
    /\ given[i] # None
    /\ Begin(r, [Done EXCEPT !.step = "hook", !.uuid = i, !.late = ~Valid(i)])
    /\ UNCHANGED stored

BugFindByUuid(r) ==
    /\ req[r].step = "hook"
    /\ \/ \E s \in Slot : /\ hooks[s].uuid = req[r].uuid
                          /\ req' = [req EXCEPT ![r].step = "openhab", ![r].slot = s]
       \/ (\A s \in Slot : hooks[s].uuid # req[r].uuid) /\ Finish(r)
    /\ UNCHANGED stored

\* Expired documents that are still there count as gone.
FindByUuid(r) ==
    LET Found(s) == hooks[s].uuid = req[r].uuid /\ hooks[s].left > 0
    IN  /\ req[r].step = "hook"
        /\ \/ \E s \in Slot : Found(s) /\ req' = [req EXCEPT ![r].step = "openhab", ![r].slot = s]
           \/ (\A s \in Slot : ~Found(s)) /\ Finish(r)
        /\ UNCHANGED stored

FindOpenhab(r) ==
    /\ req[r].step = "openhab"
    /\ IF req[r].slot[1] \in openhabs THEN Turn(r, "serve") ELSE Finish(r)
    /\ UNCHANGED stored

\* The openHAB is looked up like any other (ConnectionCache); it is offline, the body is
\* too large, or the request goes on its way (RequestForwarding).
Serve(r) ==
    /\ req[r].step = "serve"
    /\ Finish(r)
    /\ UNCHANGED stored

-----------------------------------------------------------------------------
\* MongoDB's TTL index.
Expire(s) ==
    /\ hooks[s] # NoHook /\ hooks[s].left = 0
    /\ hooks' = [hooks EXCEPT ![s] = NoHook]
    /\ UNCHANGED <<openhabs, given, promised, req>>

Registering == {r \in Request : req[r].step = "upsert"}

Less(i) == IF i = 0 THEN 0 ELSE i - 1

Tick ==
    /\ \A r \in Registering : req[r].wait < Delay
    /\ req' = [r \in Request |-> IF r \in Registering
                                 THEN [req[r] EXCEPT !.wait = @ + 1, !.left = Less(@)] ELSE req[r]]
    /\ hooks' = [s \in Slot |-> [hooks[s] EXCEPT !.left = Less(@)]]
    /\ promised' = [s \in Slot |-> [promised[s] EXCEPT !.left = Less(@)]]
    /\ UNCHANGED <<openhabs, given>>

Next ==
    \/ \E r \in Request :
        \/ \E s \in Slot : RegisterWebhook(r, s) \/ RemoveWebhook(r, s)
        \/ Upsert(r) \/ Remove(r)
        \/ \E o \in Openhab, i \in Uuid : DeleteWebhook(r, o, i)
        \/ FindByIdAndOpenhab(r) \/ DeleteById(r)
        \/ \E i \in Uuid : Call(r, i)
        \/ FindByUuid(r) \/ FindOpenhab(r) \/ Serve(r)
        \/ Fail(r)
    \/ \E o \in Openhab : DropHooks(o) \/ DropOpenhab(o)
    \/ \E s \in Slot : Expire(s)
    \/ Tick

Spec == Init /\ [][Next]_vars

-----------------------------------------------------------------------------
(* Properties.                                                             *)

TypeOK ==
    LET Hook == [uuid : Uuid \cup {None}, left : 0..Ttl]
    IN  /\ openhabs \subseteq Openhab
        /\ hooks \in [Slot -> Hook] /\ promised \in [Slot -> Hook]
        /\ given \in [Uuid -> Slot \cup {None}]
        /\ req \in [Request -> [step : {"idle", "upsert", "remove", "find", "delete", "hook",
                                        "openhab", "serve"},
                                slot : Slot \cup {None}, uuid : Uuid \cup {None},
                                left : 0..Ttl, wait : 0..Delay, late : BOOLEAN]]

\* An openHAB that was told an address can rely on it until it expires - save for the
\* time an older registration of the path took - unless somebody removes it, even if
\* the path is registered again, twice at once or just as it expires.
KeptAlive ==
    \A s \in Slot : promised[s].left > Delay =>
        hooks[s].uuid = promised[s].uuid /\ hooks[s].left + Delay >= promised[s].left

\* An address leads to the path it was made for, and to nothing when it had expired
\* or been removed before the call came (and was not registered again meanwhile).
GoneForGood ==
    /\ TypeOK
    /\ \A s \in Slot : hooks[s] # NoHook => given[hooks[s].uuid] = s
    /\ \A r \in Request : req[r].step \in {"openhab", "serve"} =>
          req[r].slot = given[req[r].uuid] /\ ~req[r].late
====
