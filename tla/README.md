# A TLA+ verification of openHAB Cloud

openHAB Cloud lets people reach their openHAB at home. Each openHAB keeps one
Socket.IO connection to one of several cloud nodes; an HTTP request to the
cloud is carried over that connection and the answer carried back. The nodes
share a Redis (locks, counters) and a MongoDB (users, openHABs, records).

This directory models the parts of that system where order, time and failure
decide whether it works, checks them with TLC and proves about them with TLAPS.
Paths below are relative to `src/` of the repository's TypeScript sources
(`src/src/` from the top of the tree).

- [Inventory](#inventory) - the system's parts
- [Modules](#modules) - what is modelled and how it corresponds to the code
- [Runs](#runs) - what TLC checks
- [Disagreements](#disagreements-between-code-and-documents)
- [Known gaps](#known-gaps) - what the code does not promise
- [Proofs](#proofs)
- [Not modelled](#not-modelled)
- [Plan](#plan)

## Inventory

| Component | State | Operations | Interacts with | Hard part | What makes it correct |
|---|---|---|---|---|---|
| Connection lock (`socket/connection-manager.ts`, `lib/redis.ts`) | Redis key `connection:<id>` with a lease; watches of the node's Redis client | acquire (SET NX EX), renew (MULTI EXPIRE GET), release (WATCH GET MULTI DEL) | socket server calls it; the caches read its key | leases against heartbeats, lost replies, one Redis client for all sockets of a node | one connection per openHAB; nobody deletes or renews another's lock; no lock stays for ever |
| Socket server (`socket/socket-server.ts`) | sockets, rooms, `isShuttingDown` | handshake middlewares, connection, ping, disconnect, shutdown | lock, cache, proxy handler, repositories | awaits between middlewares; a client that leaves meanwhile | as above; tunnels of a disconnected openHAB end |
| Request proxy (`routes/index.ts`, `socket/proxy-handler.ts`, `request-tracker.ts`, `websocket-tracker.ts`, `socket-writer.ts`, upgrade in `app.ts`) | tracked requests, tunnels, responses | proxy route, five answer handlers, upgrade, client events | openHAB sockets, HTTP clients | every order of answers, disconnects and client events; ids that repeat | answers reach the request they answer; given-up work is cancelled; nothing is kept for ever |
| Connection cache and forwarding (`routes/middleware.ts`) | per-node cache of where an openHAB is | lookup, fill, invalidate, forward, retry | reads the lock's key; socket server invalidates | fills with values read before an invalidation; two nodes that disagree | staleness is bounded; a node knows its own connections |
| Background jobs (`jobs/`) | Redis lock `jobs:<name>`, saved statistics | run, execute | Redis, MongoDB | a lock that expires under a running job | runs meet, and statistics move back, only when a run has outlived its lock |
| Admission (`isBlocked`, `blockUuid`, `authenticate`, events) | Redis key `blocked:<uuid>`, event records, `last_online` | check, block, authenticate | socket server | events of two connections out of order | a refused openHAB gets in again; the last event tells the truth |
| Accounts (`services/user.service.ts`, `auth.service.ts`, `models/user*.ts`, `verification.model.ts`) | users, accounts, codes, password cache | register, verify, reset, change, delete | MongoDB | several writes without a transaction; codes used twice; a cache of passwords | no user without account, no orphans, a code counts once |
| openHAB credentials (`services/openhab.service.ts`) | uuid and secret | create, update | MongoDB | check, then write | a uuid has one openHAB |
| Webhooks (`models/webhook.model.ts`, `controllers/webhooks.controller.ts`) | uuid per openHAB and path, expiry | register (upsert), remove, look up | socket server, proxy route | upserts that race; expiry | one live uuid per path, refreshed in place |
| Notifications and devices (`services/notification.service.ts`, `controllers/registration.controller.ts`) | notifications, device tokens | send, log, broadcast, hide, register | push provider | persist first, push later; registration that races | nothing pushed that is not saved; one record per device |
| OAuth2 (`controllers/oauth2.controller.ts`, `models/oauth2.model.ts`) | clients, codes, tokens | grant, exchange, revoke | sessions | two writes of an exchange | a token has a granted code |
| Invitations, enrolment, staff | invitations | send, mark used | email | - | - |
| Guards, validation, vhost, sessions (`middleware/`) | none of their own | decide on one request | routes | - | - |
| Items, events | records | write, list | MongoDB | - | - |
| Configuration, wiring, start and stop (`app.ts`, `factories/`, `config/`) | - | create, shutdown | everything | shutdown while handshakes run | - |
| Email and push providers, health, pages, command line tools | - | - | - | external I/O | - |

The hazards these parts are exposed to are listed, each at its line, under
`hazards` in `PROJECT.json`; every property below answers one of them.

How the modelled parts interact. The handshake of `SocketServer` ends in
`acquireLock`; only its holder gets to `connection`, where the socket joins the
room of its uuid and the node's cache entry is invalidated. What the lock promises
is the abstract module `SingleConnection`, which `TimelyConnectionLock` is proved
to implement; `RequestProxy` relies on it (one socket in a room) as the guard of
its `Connect`, and `Presence` as the guard of its own. `ConnectionCache` keeps of
the lock only its key, which may also vanish at any time; what its lookups promise
is `Whereabouts`, which it is proved to implement, and on which
`RequestForwarding` is built. `RequestForwarding` in turn is proved to implement
`ClientRequest`, the promise to the client. On the database side `Accounts` owns
the users, openHABs and their records; `Grants`, `Webhooks` and `Notifications` see
its deletions as steps of their environment (`DropOwner`, `DropOpenhab`,
`DropHooks`, `DropHome`, `DropUser`), single command by single command, so that
whatever they promise holds in the middle of a deletion too. That costs them
something: a notification that finds its openHAB deleted is for nobody, though its
users may still be there, and `ReachesAll` says so.

## Modules

| Module | Models | Extends |
|---|---|---|
| `ConnectionLock` | the lock's Redis protocol and the life of sockets around it | - |
| `SingleConnection` | abstract: which sockets serve which openHAB | - |
| `TimelyConnectionLock` | timing condition `Timely`, inductive invariant, refinement | `ConnectionLock` |
| `Presence` | blocks, authentication, events of an openHAB's sockets | - |
| `RequestProxy` | the proxy of one node: trackers, responses, tunnels | - |
| `Whereabouts` | abstract: what a lookup of an openHAB's place promises | - |
| `ConnectionCache` | the nodes' caches of an openHAB's place | - (`Whereabouts` by refinement) |
| `ClientRequest` | abstract: what a client is promised about a request | - |
| `RequestForwarding` | a request's hops from node to node | `Whereabouts` (`ClientRequest` by refinement) |
| `Accounts` | users, accounts, openHABs and their records | - |
| `Passwords` | signing in, passwords, codes, the password cache | - |
| `Grants` | OAuth2 codes and tokens, requests with a token | - |
| `Credentials` | the two ways in, by password or by token, which share no state | `Passwords`, with an instance of `Grants` |
| `Webhooks` | addresses of openHABs' paths | - |
| `Notifications` | notifications and devices | - |
| `Messages` | the two things an openHAB does besides answering, which share no state | `Notifications`, with an instance of `Webhooks` |
| `JobLock` | a background job under its lock | - |
| `Leases` | the keys with a lease besides the connections': blocks and the job's lock, which share no state | `Presence`, with an instance of `JobLock` |
| `...Proofs` | theorems and proofs of the module of that name (`ConnectionLockProofs` also of `TimelyConnectionLock`) | it (or `TimelyConnectionLock`) and `TLAPS` |
| `MC...` | values of function constants, symmetry, and that the values satisfy `Timely`; `MCCredentials` and `MCMessages` let one of their two parts explore while the other rests, `MCJobLock` checks the job's part of `Leases` | the module it checks |

Operators named `Bug...` are not part of a model. Each is a definition with one
plausible mistake; put in place of the right one it must break a property, which
shows that the property says something about the code.

### ConnectionLock

An operation of `ConnectionManager` awaits several Redis commands. It is one
action per command that Redis executes and one per reply the code acts on:

| Code | Actions |
|---|---|
| middlewares: shutdown check, blocked, authentication | `Begin`, `Refuse` |
| `acquireLock`, then `next()` and `connection` | `AcquireExec`, `AcquireReply` |
| packet `ping`, `handlePing`, `renewLock` | `Ping`, `RenewExec`, `RenewReply` |
| `disconnect`, `handleDisconnect`, `releaseLock` | `ClientClose`, `PingTimeout`, then `ReleaseWatch`, `ReleaseGet`, `ReleaseExec`, `ReleaseUnwatch` |
| a client that leaves during the handshake | `ClientAbort` |
| `shutdown()`, end of the process | `Drain`, `Restart` |
| loss of the Redis connection: every waiting call throws | `RedisDrop` |
| time, leases | `Tick` |

State: `lock`, `ttl` are the keys in Redis; `watched`, `dirty` what Redis keeps
for a client's WATCH - per **node**, since a node has one client
(`lib/redis.ts`); `sock`, `open`, `renew` the progress of each connection;
`age`, `quiet` how long it has waited and has not been heard; `draining` is
`isShuttingDown`. `Conn` are the `connectionId`s. One may be used again once no
trace of it is left, which stands for a fresh one.

Time: a tick cannot pass while a command has waited `Delay` ticks or a client has
been silent for `PingDeadline` ticks. This is how timeouts are guaranteed to
fire; how long a lease is compared with these waits is a constant, and both the
good and the bad relation are checked.

Left out: JSON and dates of the key's value, `last_online` (its failure is in
`ReleaseExec`: the catch then unwatches), records of events, logging.

### Presence

The sockets of one openHAB and of strangers who use its uuid with a wrong secret.
The middlewares in their order: `Handshake`, `IsBlocked`/`NotBlocked` (an error of
Redis counts as not blocked), `Authenticated`/`NotAuthenticated` (an error of
MongoDB counts as not authenticated), `BlockUuid` (SET NX EX), `Connect` or
`NotAcquired`; then `Disconnect`, `Released`, `Crash`. Events are saved without
anybody waiting (`Save`, `SaveFails`): only how many are under way and the balance
of those saved is kept, since nothing orders them. The lock here is a variable that
at most one socket holds while it is connected, as `SingleConnection` promises; the
lease of a socket that is not connected may end at any time (`LockExpires`).

### RequestProxy

Node.js runs a handler to its end, so each handler is one action: the proxy
route (`ProxyRequest`, `RejectRequest`), the five handlers of `ProxyHandler` and
the upgrade inside the first (`ResponseHeader` with `Upgrade`,
`ResponseContent`, `ResponseFinished`, `ResponseError`, `WebSocketData`,
`WebSocketClose`), and `removeAllForUuid` (`Disconnect`). What Node.js delivers
later are actions of their own: a response's `finish` and `close`
(`ResponseFinish`, `ResponseClose`) and a tunnel's `close`/`end` (`TunnelCleanup`).

State: `tracked` and `headersSent` are the RequestTracker, `tunnels` and `via`
the WebSocketTracker, `committed`, `ended`, `stage`, `client` the response and
its TCP socket. Three variables only observe: `received` and `cancelled` (what
an openHAB was sent) and `wrote` (whose bytes reached a client). A payload is
reduced to whose it is and whether it answers this request.

An openHAB (external) answers a request it was sent, a header first, then
content, then an end or an error. A socket in `Late` may also bring answers to
requests of an earlier connection of the same openHAB: their ids come from
another node or process, where the counter also started at 1.
`ProxyRequest(u, FALSE)` is the case that the client left before the route
attached its `close` listener. `WsPath` are requests that came as HTTP upgrades
under `/ws/`, which have no inactivity timeout of the HTTP server. Requests are
made to the openHABs in `Asked`. A cancel is sent in many places (the response's
`close`, a tunnel's `cleanup`, four handlers); `cancelRequest` has no caller.

### ConnectionCache

One openHAB. A lookup is `Hit`, or `Miss` (GET sent), `Read` (Redis executes it)
and `Fill` (the reply is cached) or `ReadError`; `Retry` is ensureServer's
refresh after a failed hop. The connection side writes the key (`Grant`,
`Release`, `Expire`) and invalidates the node's entry (`Join`, `Left`). Replies
of one Redis client come in the order of its commands: `ahead` records which
lookups were executed before a command on the same client. That order - and
nothing else - keeps a lookup that read "offline" before a connection's SET from
filling the cache after the connection's invalidation.

### Whereabouts, ClientRequest, RequestForwarding

`Whereabouts`: the place of an openHAB moves and, some time after a move, is
settled; a lookup answers anything before it is settled, the place afterwards, and
"offline" when Redis fails. `ConnectionCache` maps `settled` to "no cache entry and
no reply under way says otherwise". A lookup includes the refresh after a failed
hop (`AskAgain`).

`RequestForwarding`: every node a request reaches runs the same middleware, so a
request is a chain of hops, each with a lookup. `Request` is setOpenhab; `Refuse`,
`Local` and `Forward` the three ways out of ensureServer; `Pipe`, `PipeEnd`,
`PipeBreak` the response of the internal request; `Swallow` a response of 101, for
which nobody listens: Node.js then closes the connection and calls neither the
response's callback nor the error's; `FirstError` handleFirstError (invalidate,
look up again, once more through ensureServer's cases), `RetryError`
handleRetryError. `hop[l]` tells whether `l` waits for the first or the second
attempt and whether a response has begun: after that, nothing is retried. A hop is
`hung` when the code does nothing more for it and leaves its response open: after
a 101, after a response that was only closed before its end (the response is then
aborted, without an error of the request), and after a second attempt that broke
off. `Local` may find the room empty; the hop is then `empty` until somebody gives
up or the inactivity timeout fires (`Timeout`; not for an upgrade, whose socket
the HTTP server has let go). Any node may crash with its hops. `Entry` are the
nodes clients talk to. `upgrade` tells a request for a WebSocket from others;
`given`, `failed` and `calm` only observe. Left out: what a request contains, and
the header that names the node (nothing reads it).

### Accounts

One action per command to MongoDB of `register`, `users/add`, `users/delete`,
`updateCredentials`, `deleteAccount`, `deleteItemsAndEvents`, and of anybody who
is about to save a record of an owner it has found. For a user's records that is
just before; an openHAB's (webhooks, events) are written by its socket, which
looked the openHAB up in its handshake and goes on until it disconnects, also for
an openHAB that was deleted meanwhile: nothing disconnects it. `sockets` are the
openHABs that may have such a socket, all there have been (`Connect`). `step` is
the next command of a request, `doing` the operation, `me` the session's user as
it was when the request arrived. Any command may fail (`Fail`), which leaves what
was done. The unique indexes are guards of the writes; the earlier look-ups
(`FindName`, `FindUuid`) are separate steps. `before` and `alone` only observe:
which requests were over when one arrived, and that no two ever overlapped.

### Passwords

One user, on several nodes: `checkPassword` as a hit (`Hit`) or bcrypt (`Miss`,
`Compared`) on a document that was read at most `Delay` before, with an entry that
expires `Ttl` after bcrypt *began*; `SetPassword`; the reset code's look-up, use
and marking as three steps (`FindCode`, `SetPassword`, `MarkUsed`); the
verification code, which is marked before the user is updated (`MarkMail`,
`UpdateVerifiedEmail`); eviction, restarts, and MongoDB's expiry of codes. `was`
and `since` record how long ago each password was the user's and the password
changed, up to the bound that the property needs.

### Grants

The user's decision creates a code (`Decide`, `CreateCode`); an exchange finds it,
creates a token of the code's user and client (`holder` is who asked) and invalidates
the code in three steps; a request with a token finds the
token, its user and the user's openHAB before it acts; revocation finds, then
deletes. `late` marks a request that came when its token was already out of use.
A code is modelled as found whether or not it was invalidated, because the look-up
in the code does not ask.

### Webhooks

`RegisterWebhook` computes the expiry, `Upsert` writes it up to `Delay` later;
removal over the socket and by page; calls by anybody (`Call`, `FindByUuid`,
`FindOpenhab`, `Serve`). `hooks` is MongoDB; an entry that has expired stays until
`Expire`, and must not be found meanwhile. `promised` records the address and the
latest expiry the openHAB was told, unless it was removed since (of two overlapping
registrations, the second reply may carry the older expiry); `given` for whom each
address was made.

### Notifications

Each request is handled once, command by command; `homes` are the openHABs that
exist, which an account's deletion removes before its users. A notification to one user, a
broadcast and a log entry to all of the account (user after user, one failure
skipping that user only), a message to one device, hiding, the API; registration
and deletion of devices. FCM (external) accepts a push for any subset of the
registrations. `saved`, `tried` are what MongoDB has and FCM was asked;
`there` observes the devices that were there when the request came and have been
since, as they were: a device that registers again meanwhile leaves it, even if it
later registers as it was before.

### JobLock

`BaseJob.run` for the one job there is: `Start` (SET NX EX), `Collect`, `Save`,
`Fail`. Nobody releases the lock and nobody renews it, and a run takes as long as its
counts do: it may outlive the lock (`Outlived`). `late` observes whether the saved
statistics are of such a run.

## Runs

| Run | Instance | Shows |
|---|---|---|
| `lock_timely` | 2 nodes, 2 openHABs, 3 connections (2 of one openHAB, on different nodes), lease 7 > 1 + 5 x 1 | `LeaseInv`, `OneConnection`, `DeletesOwnLock`, `RenewsOwnLock`, and the refinement of `SingleConnection` |
| `lock_untimely` | 2 nodes, one connection each, lease 2, deadline 3, delay 3, fair | when the lease is too short two connections meet, but the one that lost is disconnected (`SplitBrainHeals`), and a lock whose connection is gone is freed (`LeakedLockExpires`) |
| `lock_eio4` | as `lock_timely`, with Engine.IO 4 clients | a violation, see below |
| `lock_shared` | as `lock_timely`, lease 2, the first two connections with Engine.IO 4 clients | a violation, see below |
| `proxy` | 2 requests (the second an upgrade) to an openHAB with two successive sockets; another openHAB, which answers to any id; fair | `OwnOpenhabWrites`, `NoAbandonedWork`, `TunnelServed`, `TrackedIsWritable`, `UnservedIsReclaimed` |
| `cache` | 2 nodes with a connection each, 2 lookups, lifetime 2, delay 1 | `CacheInv`, `CachesSettle`, `SeesOwnConnection`, and the refinement of `Whereabouts` |
| `forward` | 2 nodes, the client at one of them, 3 hops, fair | `ForwardedOnce`, `OfflineIsTrue`, `GivenOnce`, `ForwardedIsAnswered`, and the refinement of `ClientRequest` |
| `accounts` | 4 requests, 2 names, 2 uuids, webhooks and tokens as records | `ChildrenFirst`, `HasMaster`, `DeletedForGood`, `RecordsFirst`, `RegisteredWhole`, `NoForeignDeletion` |
| `credentials` | 1 node, 2 passwords, 2 calls, 1 code, lifetime 2, delay 1; 2 users, 2 clients, 1 code, 2 tokens, 2 requests | `PasswordsHold`, `CodeSpent`; `GrantsHold` |
| `messages` | 2 users of one openHAB, another openHAB, 1 device, 2 registrations, 3 requests, one of which at most is to several; 1 path per openHAB, 2 addresses, 2 calls, lifetime 3, delay 1 | `PushedIsSaved`, `ReachesAll`; `KeptAlive`, `GoneForGood` |
| `presence` | 2 sockets, 1 stranger, a block of 2 ticks, 2 events of a kind under way, fair | `EventsBalance`, `GetsIn` |
| `job` | 3 runs, lock 2, a run of up to 5, clock up to 8 | `RunsApart`, `StatsForward` |

Why these bounds are enough. The lock of one openHAB is disturbed by its own other
connections (two suffice for every takeover) and by the connections of another
openHAB on the same node (one suffices to clear or dirty a watch). Times are only
compared with each other, so the smallest numbers with the wanted order stand for
70 s, 45 s, 60 s, 30 days and network delays. Two requests show an HTTP request
and an upgrade next to each other; requests meet only in the tunnels of one
openHAB, and the other openHAB need only bring answers that are not asked for. The
two nodes of `forward` differ in nothing, so it does not matter which has the
client. Three hops on two nodes are the shortest chain that comes back to a node
it has left (`ForwardedOnce`) and leave room for a retry next to an abandoned hop.
Four requests are a registration, a second user, and two operations that race -
two deletions, a deletion and an addition, two registrations of a name - or a
deletion that failed and what comes after it. In `credentials` one reset may
overlap a change or a sign-in, and a second exchange a revocation. In `messages` a
broadcast to two users overlaps a registration and a deletion of a device, and the
deletion of the openHAB and of its users (`Bounded` in `MCMessages`: only the
other openHAB stays, and a second broadcast, which would only read what the first
one reads, is left out); two calls are two registrations of a path, or a
registration and a visitor. In `job` a run may last as long as two locks and more,
so that three are under way at once.

The counts of requests, codes, tokens and addresses are bounds: a module whose
requests are used up stops, and so `accounts`, `credentials`, `messages` and `job`
(whose clock ends) run without the deadlock check. `Presence` caps the events of a
kind being saved (`Saves`); a socket waits when there are more, and since saves end
that delays only.

Fairness. `ConnectionLock`: time passes and whatever Redis or the server owes is
done (`WF` of `Tick` and `Serve`); clients, crashes and drops owe nothing. The
`Tick` guard already bounds the waits; fairness only says the system goes on.
`RequestProxy`: events of a response that are due are delivered (Node.js), and the
inactivity timeout of an HTTP connection fires (`Timeout`,
`req.socket.setTimeout(600000)`); openHABs and clients owe nothing.
`RequestForwarding`: what a node does with a hop is done (`WF` of `Handle`): Redis
answers or fails, an internal response arrives, breaks or is timed out
(`INTERNAL_PROXY_TIMEOUT_MS`), and the inactivity timeout of a request that is
served locally fires; the openHAB, the client and the answer to an upgrade owe
nothing. `Presence`: the openHAB's client keeps reconnecting (Socket.IO's does),
commands are answered, time passes (`WF`); and of what is tried again and again
not every attempt fails (`SF` of the steps that need Redis, MongoDB and the client
to hold out at once).

### Disagreements between code and documents

Each run checks a sentence of the repository that the code does not keep.

| Run | Sentence | What happens |
|---|---|---|
| `lock_eio4` | `connection-manager.ts:72` "ensuring one connection per openHAB", `DEVELOPMENT.md:252` | the lock is renewed only on `ping` packets, which Engine.IO 4 clients do not send; it expires under the socket |
| `lock_shared` | `connection-manager.ts:249` "Uses Redis WATCH to ensure we only delete our own lock" | the node's sockets share one Redis client, whose watches any EXEC or UNWATCH forgets; when the lease runs out between a release's GET and its EXEC, and another socket of the node renews in between, the release deletes the successor's lock |

Two more sentences hold only under a condition the code does not enforce.
`connection-manager.ts:210` "Verifies we still own the lock before renewing":
EXPIRE runs before the owner is compared, so a renewal that comes after its lease
is over lengthens a successor's (`RenewsOwnLock` holds under `Timely` only).
`base-job.ts:61` "Only one instance across the cluster can run the job at a time":
the job's lock is not renewed and a run has no time limit, so two runs do meet in
the run `job`; `RunsApart` says by how much the older one has then outlived its
lock, `StatsForward` that older statistics replace newer ones only then.

### Known gaps

What the models contain and no property promises, because the code does not keep
it. Each was met while a stronger property was tried.

Connections and requests:

- A watch that another socket's key has dirtied aborts the renewal of an owner
  (one Redis client per node, `connection-manager.ts:222`), who is told that it lost
  its lock and disconnected; so is an owner whose renewal meets an error of Redis
  (`:240`). With `Timely` the first cannot happen (`EndsOnlyForCause`).
- Request ids restart at 1 in every process (`request-tracker.ts:71`): a late answer
  of the same openHAB may end another request of it.
- After content without a header, an error meets a response that is committed
  though the tracker does not say so (`proxy-handler.ts:198`): `send()` throws.
- Requests under `/ws/`, and those whose client left before the route listened for
  it, stay tracked (`routes/index.ts:890`); nobody calls `cleanupStale`.
- A forwarded upgrade (`/ws/`) that the openHAB accepts with 101 is never answered:
  the request has no 'upgrade' listener (`middleware.ts:313`).
- A response that another node closes before its end leaves the client's response
  open (no error of the request is raised, `middleware.ts:404`), and so does any
  failure of a second attempt once its response has begun (`:448`).
- A hop that answers after `INTERNAL_PROXY_TIMEOUT_MS` is given up and the request
  sent once more, so that the openHAB may get it twice (`middleware.ts:332`).
- After its uuid was changed a connected openHAB stays in the room of the old one
  (`socket-server.ts:235`); requests for the new uuid find an empty room and hang.
- An 'offline' event may be saved after the 'online' event of the successor.
- A failure of MongoDB during authentication blocks the rightful openHAB for the
  block's time, and so does a stranger who knows its uuid; one who keeps trying may
  keep the openHAB out. (In `Presence` each stranger tries once.)
- The socket of an openHAB whose account was deleted stays connected; the events and
  webhooks it writes from then on have no openHAB (`socket-server.ts:364`, `:472`).

Accounts and passwords:

- `deleteAccount` removes the records of the acting user; devices, notifications
  and tokens of the account's other users stay (`user.service.ts:355` speaks of all
  associated data). The deletion of a single user removes only its document.
- A deletion that fails after the openHABs are gone cannot be repeated by its user:
  setOpenhab answers 500 to an account without one.
- A registration that fails after the user was saved leaves a user who can get no
  openHAB, and whose name stays taken (the comment at `service.factory.ts:99` calls it atomic).
- Two masters who delete each other at once leave an account without one; a user
  added while the account is deleted stays without account.
- `updateCredentials` reports success for an openHAB that was deleted meanwhile.
- Overlapping resets with one code both succeed, and so does a later one if the
  marking of the code has failed.
- A verification whose last write fails has used up its code.

Grants, webhooks, notifications:

- An exchange does not ask whether a code is still valid (`oauth2.controller.ts:203`,
  `:219`), so it may be repeated.
- A request whose token is revoked after it was looked up goes on.
- A broadcast of an openHAB that is deleted before it is looked up reaches nobody, and
  nothing is reported but a line in the log (`socket-server.ts:536`), though the account's
  users may still be there, or stay when the deletion fails next.
- A request with a token opens a session (`ifttt.controller.ts:132`), which may
  outlive the token. Sessions are not modelled.
- A webhook's expiry is computed before its upsert is sent; of two registrations at
  once the older expiry may win, by the time the write took.
- `hideNotification` may overtake the notification; two registrations of a device
  at once leave two documents.

## Proofs

TLC checks small instances; these theorems hold for every value of the constants
that satisfies the named assumptions of the modules.

**`ConnectionLockProofs`** - for any timing and any mix of clients: `TypeCorrect`;
`EveryLockExpires`: a key exists exactly as long as it has a lease.

With the condition `Timely` (Engine.IO 3 clients; lease longer than ping deadline
plus five waits), which each theorem names as its hypothesis and the run
`lock_timely` satisfies, there is more. `OneConnection` is not
inductive: that a second SET fails depends on the key still being there. The
inductive invariant `LeaseInv` follows the lease through the life of a
connection: `LeaseHeld` says the connection owns its key and has used up at most
`Spent(c)`, a bound that grows with each phase; `WatchesOwnKey` that no watch is
dirty, since keys change only by their owner's hand; `RenewPhase` that no renewal
is answered "lost" by Redis. From it follow `AtMostOneConnection`,
`ReleasesOnlyOwnLock` - whatever the sockets that share a Redis client do to its
watches: it is the lease that protects the lock, and without the lease `lock_shared`
shows it is not protected -, `RenewsOnlyOwnLock`, `EndsOnlyForCause` - a connected
socket ends by its client, the node's end or a failure of Redis only, the last of which
includes a renewal whose owner is told "lost" because Redis failed - and
`LockImplementsSingleConnection`: initial states map to initial states, and every
step is an attach, a detach or a stutter of `SingleConnection`.

**`RequestProxyProofs`** - for any openHABs, sockets, late answers and upgrades.
`ProxyCorrect` proves `ProxyInv`: ids not handed out
are untouched, requests are sent only to sockets of their openHAB, an openHAB has
one socket, tunnels have a live socket, tracked responses are writable.
`NoForeignWriter`, `NoOrphanTunnel` and `TrackedStaysWritable` are parts of it.
`AbandonedWorkIsCancelled` adds `NoAbandonedWork`, for every openHAB from which no
late answers come: a late answer of its own can end a request it still works on,
one of another openHAB cannot.

**`ConnectionCacheProofs`** - `CacheInv` measures how long an entry can have been
wrong (`StaleIsYoung`) and orders replies (`AnsweredFirst`); the theorems are
`CacheCorrect`, `CacheStalenessBound`, `ConnectionSeenAtOnce`.
`CacheImplementsWhereabouts`: mapped by `phase` and `known`, every step is a move,
a settling, a question, an answer or a stutter of `Whereabouts`; that an answer
given while the place is settled is the place is the staleness bound.

**`LeasesProofs`** - for any sockets, strangers, lengths of a block and events under
way: `EventsAlwaysBalance`. `EventsBalance` is inductive but for one thing,
cardinalities are those of finite sets; that the attached sockets are finitely many
is an invariant itself, whether or not there are finitely many sockets. And for any
lock time and any length of a run (`JobAssumption`: the two are positive):
`JobCorrect`, `OverlapIsLate`, `StatsMoveForward`. `JobInv` is held together by
`LeaseCovers` - the lease and the time any run has spent add up to at least the lock
time, so a SET that succeeds finds every run in progress past its lock - and by
`StampsOrdered`, which orders the statistics of runs that are not.

**`RequestForwardingProofs`** - if `First` is a hop and `NoHop` is none
(`ForwardAssumption`) and `Offline` is not a node (`PlaceAssumption`); clients
talk to any of the nodes. `ForwardedOnce` is not inductive: that a request is not
sent on depends on what the second hop found. `ForwardInv` says where a hop's
callee runs (`Callees`), that hops whose lookup ended in quiet have all found the
same place (`Calm`), that without a failure one hop at most is still on its way
(`Once`), and that a calm request is served within two hops (`Straight`). The
theorems are `ForwardedAtMostOnce`, `OfflineOnlyIfSo`, `GivenAtMostOnce` and
`ForwardingImplementsClientRequest`.

**`CredentialsProofs`** - for any cache time `Ttl` >= `Delay` (`PasswordsAssumption`).
`PasswordsInv` adds to the promises what each request holds: the document it
compares with was right when read (`Sound`). No step but `Tick` makes anything
older (`Kept`), and `Tick` ages entries as it ages what they say. The theorems are
`PasswordsCorrect` and `CodeCountsOnce`. Of grants, if `None` is not a user:
`GrantsInv` adds that codes and tokens, once created, stay whose they are and that a
late request already holds what will stop it: a revoked token or a user who is
gone. The theorem is `GrantsCorrect`.

**`AccountsProofs`** - for any requests, names, uuids, jobs and kinds of records
(`AccountsAssumption`: the one who does nothing is nobody, and what may be saved are
records), and whichever commands fail. A promise about what is left after a deletion
depends on what each of its commands has found and removed. So `AccountsInv` says,
per request, what it knows at its step: what it asks (`AsksWell`), on whose behalf
(`MeWell`), that what a registration in progress has created is still there
(`Registers`), that the user to be deleted is of the same account (`DeletesUser`),
and what a deletion has left behind it so far (`Deletes`). These hold under every
overlap, because the ids of users and accounts are never used twice (`UsersWell`)
and setOpenhab lets nobody pass whose openHAB is not yet registered
(`OpenhabsWell`). `AloneWell` is what holds besides while requests do not
overlap: every user and openHAB has its account, every openHAB a master, and a
request finds what it found before. From it follow `AccountsCorrect`, `ParentsStay`,
`MasterStays`, `DeletionIsFinal`, `RegistersWhole` and `OthersKeepTheirs`.
`RecordsGoFirst` needs more than what is left of the records a deletion found:
while requests do not overlap its collections also stay empty from their own step on
(`RecordsGone`, in the proof `OpenhabsGo`). That records of an openHAB have an openHAB
is no invariant: its socket may write after the deletion.

**`MessagesProofs`** - of webhooks, for any openHABs, paths, addresses, lifetime
and delay (`MessagesAssumption`: `None` is no address and no path). `WebhooksInv`
says that an address is made for one path and only its document has it, that what
was promised is there (`HooksWell`), that a registration under way will write an
expiry that is at most its own wait too early, and that a late call holds an
address which leads nowhere (`CallsWell`). The theorems are `AddressesLast` and
`ExpiredIsGone`. Of notifications, for any users, devices and requests
(`NotificationsAssumption`: every user is of an openHAB, `None` is neither user
nor device): `NotificationsInv` says what is stored (`Records`), from whom
(`Origins`), what each request holds - above all the registrations it has read,
among which is that of every device that has been there all the time (`Proper`) -
and that each user of a broadcast is still to come, has failed, is at hand, or was
reached, unless its openHAB was found deleted (`Reaches`). The theorems are
`SavedBeforePushed` and `EverybodyIsReached`. The proof needs that `there` forgets
a device that is registered anew: one whose registration changes and changes back
while a broadcast runs may be missed by it, though it looks the same at the start
and at the end. Four requests show that.

Every invariant and action property of the passing runs is proved. What a theorem
assumes beyond the shape of the constants is `Timely`, a condition on the deployment:
the default lock time of 70 s satisfies it for Engine.IO 3 clients whose Redis answers
in time. Only model-checked is liveness under fairness (`SplitBrainHeals`,
`LeakedLockExpires`, `UnservedIsReclaimed`, `ForwardedIsAnswered`, `GetsIn`),
which is beyond the prover.

## Not modelled

- The data of client frames in a tunnel and backpressure (`socket-writer.ts`):
  no state but the TCP socket's. `cleanupOrphaned` looks for requests that are
  finished but tracked; the handlers that set `finished` remove the request in the
  same step, so it finds none. `cleanupStale`, `cancelRequest` have no caller.
- A handshake that passed the shutdown check and connects after
  `disconnectSockets`: the steps are in the model, no promise is stated about it.
- `last_online`: written on each connection, read by pages only.
- Sessions: express-session over Redis; nothing but the guards of routes reads them.
- Invitations, enrolment, staff pages: mails that are recorded and sent;
  registration does not look at invitations.
- Lists of items and events, pages, forms and their validation beyond the normal
  forms the models assume, virtual hosts, redirects: decisions on one request.
- Configuration, wiring, logging, email providers, health, command line tools: I/O
  and rendering.

## Plan

The promises the runs check are proved where the prover reaches. What is left:

- an abstract specification for `Accounts` (an account appears and disappears as a
  whole), for runs whose requests do not overlap, with the refinement that
  `AloneWell` prepares; likewise one of the job's lock (runs a lock time apart);
- lemmas of the liveness arguments that are safety properties, as that a lock whose
  connection is gone is never renewed again;
- the hazards without a property, each with its reason under `hazards`.
