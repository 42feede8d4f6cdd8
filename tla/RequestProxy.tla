---------------------------- MODULE RequestProxy ----------------------------
(***************************************************************************)
(* How one cloud node carries HTTP requests to openHABs and their answers  *)
(* back: the proxy route (routes/index.ts createProxyHandlerBase), the     *)
(* RequestTracker and WebSocketTracker, and ProxyHandler, which acts on    *)
(* what an openHAB's socket sends.                                         *)
(*                                                                         *)
(* Node.js runs every handler to its end, so a handler is one action; the  *)
(* events of a client's response and of its TCP socket come later, in      *)
(* actions of their own.  Payloads are left out, except whose answer the   *)
(* bytes of a response are.                                                *)
(*                                                                         *)
(* Operators named Bug... are not part of the model: each is a definition  *)
(* with one mistake, to show that a property would notice it.              *)
(***************************************************************************)
EXTENDS Naturals

CONSTANTS
    Uuid,        \* openHABs
    NoUuid,
    Socket,      \* Socket.IO connections of openHABs to this node
    NoSocket,
    UuidOf,      \* the openHAB behind a socket
    Late,        \* sockets on which answers to an earlier connection's
                 \* requests may still come in
    Asked,       \* openHABs that requests are made to; bound: the others only
                 \* connect, and answer on a socket in Late
    WsPath,      \* requests that come as HTTP upgrades under /ws/ (app.ts)
    MaxRequest   \* bound: request ids this node hands out

ASSUME ProxyAssumption ==
    /\ NoUuid \notin Uuid
    /\ NoSocket \notin Socket
    /\ UuidOf \in [Socket -> Uuid]
    /\ Late \subseteq Socket
    /\ Asked \subseteq Uuid
    /\ WsPath \subseteq Nat
    /\ MaxRequest \in Nat

Request == 1..MaxRequest

VARIABLES
    connected,    \* sockets in the room of their uuid
    counter,      \* RequestTracker.requestCounter
    tracked,      \* keys of RequestTracker.requests
    owner,        \* the openHAB of each proxied request
    headersSent,  \* TrackedRequest.headersSent
    committed,    \* the response's own headersSent
    ended,        \* the response's writableEnded
    stage,        \* how far the response's events have got
    client,       \* the client's TCP socket; "half": it sent its end
    tunnels,      \* keys of WebSocketTracker.connections
    via,          \* the openHAB socket a tunnel forwards to
    received,     \* the requests each connected socket was sent
    cancelled,    \* the cancels each connected socket was sent
    said,         \* what the openHAB has answered to a request so far
    wrote         \* whose bytes went to the client: <<uuid, own answer>>

tracking == <<tracked, headersSent>>
response == <<committed, ended, stage, client, wrote>>
tunnel == <<tunnels, via>>
agent == <<connected, received>>
vars == <<counter, owner, tracking, response, tunnel, agent, cancelled, said>>

TypeOK ==
    /\ connected \subseteq Socket
    /\ counter \in 1..(MaxRequest + 1)
    /\ tracked \subseteq Request
    /\ owner \in [Request -> Uuid \cup {NoUuid}]
    /\ headersSent \in [Request -> BOOLEAN]
    /\ committed \in [Request -> BOOLEAN]
    /\ ended \in [Request -> BOOLEAN]
    /\ stage \in [Request -> {"live", "unheard", "finished", "closed", "detached"}]
    /\ client \in [Request -> {"open", "half", "gone"}]
    /\ tunnels \subseteq Request
    /\ via \in [Request -> Socket \cup {NoSocket}]
    /\ received \in [Socket -> SUBSET Request]
    /\ cancelled \in [Socket -> SUBSET Request]
    /\ said \in [Request -> {"nothing", "header", "finished", "error"}]
    /\ wrote \in [Request -> SUBSET (Uuid \X BOOLEAN)]

Init ==
    /\ connected = {}
    /\ counter = 1
    /\ tracked = {} /\ tunnels = {}
    /\ owner = [r \in Request |-> NoUuid]
    /\ headersSent = [r \in Request |-> FALSE]
    /\ committed = [r \in Request |-> FALSE]
    /\ ended = [r \in Request |-> FALSE]
    /\ stage = [r \in Request |-> "live"]
    /\ client = [r \in Request |-> "open"]
    /\ via = [r \in Request |-> NoSocket]
    /\ received = [s \in Socket |-> {}]
    /\ cancelled = [s \in Socket |-> {}]
    /\ said = [r \in Request |-> "nothing"]
    /\ wrote = [r \in Request |-> {}]

-----------------------------------------------------------------------------
Room(u) == {s \in connected : UuidOf[s] = u}

\* emit 'cancel' to the connected ones of the sockets in S.
Cancel(S, r) ==
    cancelled' = [s \in Socket |->
        IF s \in S \cap connected THEN cancelled[s] \cup {r} ELSE cancelled[s]]

BugNotUntracked(r) == UNCHANGED tracked

\* RequestTracker.safeRemove.
Untrack(r) == tracked' = tracked \ {r}

\* RequestTracker.markHeadersSent.
MarkHeadersSent(r) == headersSent' = [headersSent EXCEPT ![r] = TRUE]

BugOwnsAll(s, r) == TRUE

\* "Verify the socket owns this request."
Owns(s, r) == UuidOf[s] = owner[r]

\* Bytes of s's message reach the client; own is whether they answer r.
Write(s, r, own) == wrote' = [wrote EXCEPT ![r] = @ \cup {<<UuidOf[s], own>>}]

-----------------------------------------------------------------------------
(* openHAB sockets come and go.                                            *)

\* 'connection': the socket joins its room.  The connection lock lets an
\* openHAB have one socket at a time.  A socket no tunnel still forwards to may
\* stand for a new one.
Connect(s) ==
    /\ s \notin connected /\ Room(UuidOf[s]) = {}
    /\ \A r \in Request : stage[r] = "detached" => via[r] # s
    /\ connected' = connected \cup {s}
    /\ received' = [received EXCEPT ![s] = {}]
    /\ cancelled' = [cancelled EXCEPT ![s] = {}]
    /\ UNCHANGED <<counter, owner, tracking, response, tunnel, said>>

BugTunnelsOf(u) == {}

\* The tunnels removeAllForUuid finds.
TunnelsOf(u) == {r \in tunnels : owner[r] = u}

\* handleDisconnect, with removeAllForUuid: the tunnels go at once, the
\* requests waiting for an answer stay.
Disconnect(s) ==
    LET gone == TunnelsOf(UuidOf[s]) IN
    /\ s \in connected
    /\ connected' = connected \ {s}
    /\ tunnels' = tunnels \ gone
    /\ client' = [r \in Request |-> IF r \in gone THEN "gone" ELSE client[r]]
    /\ received' = [received EXCEPT ![s] = {}]
    /\ cancelled' = [cancelled EXCEPT ![s] = {}]
    /\ UNCHANGED <<counter, owner, tracking, committed, ended, stage, wrote,
                   via, said>>

-----------------------------------------------------------------------------
(* The proxy route.                                                        *)

\* The handler emits 'request' to the openHAB's room, which may be empty, and
\* tracks the response.  When the client left before (during the lookups of an
\* upgrade, or of a retry of ensureServer), 'close' was emitted before anybody
\* listened: heard is FALSE, and the response is tracked all the same.
ProxyRequest(u, heard) ==
    LET r == counter IN
    /\ counter <= MaxRequest
    /\ IF heard
       THEN UNCHANGED <<client, stage>>
       ELSE /\ client' = [client EXCEPT ![r] = "gone"]
            /\ stage' = [stage EXCEPT ![r] = "unheard"]
    /\ counter' = counter + 1
    /\ owner' = [owner EXCEPT ![r] = u]
    /\ tracked' = tracked \cup {r}
    /\ received' = [s \in Socket |->
          IF s \in Room(u) THEN received[s] \cup {r} ELSE received[s]]
    /\ UNCHANGED <<headersSent, committed, ended, wrote, tunnel, connected,
                   cancelled, said>>

\* An id is taken, but the openHAB or the path is missing: answered with 500.
RejectRequest ==
    /\ counter <= MaxRequest
    /\ counter' = counter + 1
    /\ UNCHANGED <<owner, tracking, response, tunnel, agent, cancelled, said>>

-----------------------------------------------------------------------------
(* The client's side of a response.                                        *)

Proxied(r) == owner[r] # NoUuid

\* The client leaves, or its connection breaks, or the server's inactivity
\* timeout of ten minutes destroys it.  The timeout is switched off for a tunnel,
\* and nobody handles it on a socket that came with an upgrade.
ClientGone(r) ==
    /\ Proxied(r) /\ client[r] # "gone" /\ stage[r] \in {"live", "detached"}
    /\ client' = [client EXCEPT ![r] = "gone"]
    /\ UNCHANGED <<counter, owner, tracking, committed, ended, stage, wrote,
                   tunnel, agent, cancelled, said>>

\* The client of a tunnel sends its end; the server side stays open.
ClientEnd(r) ==
    /\ stage[r] = "detached" /\ client[r] = "open"
    /\ client' = [client EXCEPT ![r] = "half"]
    /\ UNCHANGED <<counter, owner, tracking, committed, ended, stage, wrote,
                   tunnel, agent, cancelled, said>>

\* 'finish': an ended response has been handed to the operating system; the
\* socket of an upgrade that was answered otherwise is destroyed (app.ts).
ResponseFinish(r) ==
    /\ stage[r] = "live" /\ ended[r] /\ client[r] = "open"
    /\ stage' = [stage EXCEPT ![r] = "finished"]
    /\ client' = [client EXCEPT ![r] = IF r \in WsPath THEN "gone" ELSE "open"]
    /\ Untrack(r)
    /\ UNCHANGED <<counter, owner, headersSent, committed, ended, wrote,
                   tunnel, agent, cancelled, said>>

BugClosesSilently(r) ==
    /\ Proxied(r)
    /\ stage[r] = "finished" \/ (stage[r] = "live" /\ client[r] = "gone")
    /\ stage' = [stage EXCEPT ![r] = "closed"]
    /\ Untrack(r)
    /\ UNCHANGED <<counter, owner, headersSent, committed, ended, client, wrote,
                   tunnel, agent, cancelled, said>>

\* 'close': a request still tracked is cancelled at its openHAB.
ResponseClose(r) ==
    /\ Proxied(r)
    /\ stage[r] = "finished" \/ (stage[r] = "live" /\ client[r] = "gone")
    /\ stage' = [stage EXCEPT ![r] = "closed"]
    /\ IF r \in tracked THEN Cancel(Room(owner[r]), r) ELSE UNCHANGED cancelled
    /\ Untrack(r)
    /\ UNCHANGED <<counter, owner, headersSent, committed, ended, client, wrote,
                   tunnel, agent, said>>

\* 'close', 'error' or 'end' of a tunnel's client socket: cleanup().
TunnelCleanup(r) ==
    /\ stage[r] = "detached" /\ client[r] # "open"
    /\ stage' = [stage EXCEPT ![r] = "closed"]
    /\ tunnels' = tunnels \ {r}
    /\ Cancel({via[r]}, r)
    /\ UNCHANGED <<counter, owner, tracking, committed, ended, client, wrote,
                   via, agent, said>>

-----------------------------------------------------------------------------
(* ProxyHandler: what arrives on an openHAB's socket.                      *)

\* An openHAB answers a request it was sent, a header first; and a socket in
\* Late may bring any answer to a request of an earlier connection, whose ids
\* another node or process handed out.
Answers(s, r, own, before, after) ==
    /\ s \in connected
    /\ \/ own /\ r \in received[s] /\ said[r] \in before
          /\ said' = [said EXCEPT ![r] = after]
       \/ ~own /\ s \in Late /\ UNCHANGED said

\* The message is for no tracked request, or one of another openHAB.
Ignore == UNCHANGED <<tracking, response, tunnel, cancelled>>

\* Code 101: the client's socket leaves the response and becomes a tunnel,
\* unless it is destroyed already.
Upgrade(s, r, own) ==
    /\ Untrack(r)
    /\ IF client[r] = "gone"
       THEN Cancel({s}, r) /\ UNCHANGED <<response, tunnel>>
       ELSE /\ stage' = [stage EXCEPT ![r] = "detached"]
            /\ tunnels' = tunnels \cup {r}
            /\ via' = [via EXCEPT ![r] = s]
            /\ Write(s, r, own)
            /\ UNCHANGED <<committed, ended, client, cancelled>>
    /\ UNCHANGED headersSent

\* handleResponseHeader; writeHead throws on a header it does not accept, and
\* the catch leaves everything as it was.
ResponseHeader(s, r, own, is101, accepted) ==
    /\ Answers(s, r, own, {"nothing"}, "header")
    /\ CASE r \notin tracked ->
              Cancel({s}, r) /\ UNCHANGED <<tracking, response, tunnel>>
         [] r \in tracked /\ (~Owns(s, r) \/ headersSent[r] \/ committed[r]) -> Ignore
         [] OTHER ->
              \/ is101 /\ Upgrade(s, r, own)
              \/ /\ ~is101 /\ accepted
                 /\ MarkHeadersSent(r)
                 /\ committed' = [committed EXCEPT ![r] = TRUE]
                 /\ Write(s, r, own)
                 /\ UNCHANGED <<tracked, ended, stage, client, tunnel, cancelled>>
              \/ ~is101 /\ ~accepted /\ Ignore
    /\ UNCHANGED <<counter, owner, agent>>

\* handleResponseContent; a write commits a response that had no header.
ResponseContent(s, r, own) ==
    /\ Answers(s, r, own, {"header"}, "header")
    /\ CASE r \notin tracked ->
              Cancel({s}, r) /\ UNCHANGED <<tracking, response, tunnel>>
         [] r \in tracked /\ ~Owns(s, r) -> Ignore
         [] r \in tracked /\ Owns(s, r) /\ ended[r] ->
              /\ Cancel({s}, r)
              /\ Untrack(r)
              /\ UNCHANGED <<headersSent, response, tunnel>>
         [] OTHER ->
              /\ committed' = [committed EXCEPT ![r] = TRUE]
              /\ Write(s, r, own)
              /\ UNCHANGED <<tracking, ended, stage, client, tunnel, cancelled>>
    /\ UNCHANGED <<counter, owner, agent>>

\* response.end(), markFinished and safeRemove.
End(r) ==
    /\ ended' = [ended EXCEPT ![r] = TRUE]
    /\ committed' = [committed EXCEPT ![r] = TRUE]
    /\ Untrack(r)
    /\ UNCHANGED <<headersSent, stage, client, tunnel, cancelled>>

\* handleResponseFinished.
ResponseFinished(s, r, own) ==
    /\ Answers(s, r, own, {"header"}, "finished")
    /\ IF r \in tracked /\ Owns(s, r)
       THEN End(r) /\ UNCHANGED wrote
       ELSE Ignore
    /\ UNCHANGED <<counter, owner, agent>>

\* handleResponseError looks at the tracker's headersSent only.  When the
\* response is committed without it, send() throws before anything changes.
ResponseError(s, r, own) ==
    /\ Answers(s, r, own, {"nothing", "header"}, "error")
    /\ CASE r \notin tracked \/ ~Owns(s, r) -> Ignore
         [] r \in tracked /\ Owns(s, r) /\ ~headersSent[r] /\ committed[r] -> Ignore
         [] r \in tracked /\ Owns(s, r) /\ ~headersSent[r] /\ ~committed[r] ->
              End(r) /\ Write(s, r, own)
         [] OTHER -> End(r) /\ UNCHANGED wrote
    /\ UNCHANGED <<counter, owner, agent>>

\* The tunnel's client socket is destroyed; its 'close' comes later.
Destroy(r) ==
    /\ client' = [client EXCEPT ![r] = "gone"]
    /\ tunnels' = tunnels \ {r}

\* handleWebSocketData; a write to a destroyed socket fails.
WebSocketData(s, r, own) ==
    /\ Answers(s, r, own, {"header"}, "header")
    /\ CASE r \notin tunnels -> Cancel({s}, r) /\ UNCHANGED <<response, tunnel>>
         [] r \in tunnels /\ ~Owns(s, r) -> Ignore
         [] r \in tunnels /\ Owns(s, r) /\ client[r] = "gone" ->
              /\ Destroy(r)
              /\ Cancel({s}, r)
              /\ UNCHANGED <<committed, ended, stage, wrote, via>>
         [] OTHER ->
              /\ Write(s, r, own)
              /\ UNCHANGED <<committed, ended, stage, client, tunnel, cancelled>>
    /\ UNCHANGED <<counter, owner, tracking, agent>>

\* handleWebSocketClose.
WebSocketClose(s, r, own) ==
    /\ Answers(s, r, own, {"header"}, "finished")
    /\ IF r \in tunnels /\ Owns(s, r)
       THEN Destroy(r) /\ UNCHANGED <<committed, ended, stage, wrote, via>>
       ELSE UNCHANGED <<response, tunnel>>
    /\ UNCHANGED <<counter, owner, tracking, cancelled, agent>>

-----------------------------------------------------------------------------
FromOpenhab(s, r, own) ==
    \/ \E is101, accepted \in BOOLEAN : ResponseHeader(s, r, own, is101, accepted)
    \/ ResponseContent(s, r, own)
    \/ ResponseFinished(s, r, own)
    \/ ResponseError(s, r, own)
    \/ WebSocketData(s, r, own)
    \/ WebSocketClose(s, r, own)

ResponseEvent(r) == ResponseFinish(r) \/ ResponseClose(r) \/ TunnelCleanup(r)

Next ==
    \/ \E s \in Socket : Connect(s) \/ Disconnect(s)
    \/ \E u \in Asked, heard \in BOOLEAN : ProxyRequest(u, heard)
    \/ RejectRequest
    \/ \E r \in Request : ClientGone(r) \/ ClientEnd(r) \/ ResponseEvent(r)
    \/ \E s \in Socket, r \in Request, own \in BOOLEAN : FromOpenhab(s, r, own)

Spec == Init /\ [][Next]_vars

\* Nobody who was sent request r is connected any more.
Unserved(r) == \A s \in connected : r \notin received[s]

\* The inactivity timeout of a request on which nothing is written any more.
Timeout(r) == r \in tracked \ WsPath /\ Unserved(r) /\ ClientGone(r)

\* Events of responses are delivered and timeouts fire.
FairSpec ==
    /\ Spec
    /\ \A r \in Request : WF_vars(ResponseEvent(r)) /\ WF_vars(Timeout(r))

-----------------------------------------------------------------------------
(* Properties.                                                             *)

\* Only the openHAB a request was made to writes into its response or tunnel
\* (proxy-handler.ts: "Verify the socket owns this request").
OwnOpenhabWrites == \A r \in Request : \A w \in wrote[r] : w[1] = owner[r]

\* No answers to an earlier connection's requests come in from openHAB u.
Prompt(u) == \A s \in Late : UuidOf[s] # u

\* When the cloud gives a request or tunnel up, for whatever reason, the openHAB
\* that still works on it has been told to cancel.  (A late answer of its own
\* may end the new request of the same id; one of another openHAB never does.)
NoAbandonedWork ==
    \A s \in connected : Prompt(UuidOf[s]) => \A r \in received[s] :
        \/ r \in tracked \cup tunnels
        \/ said[r] \in {"finished", "error"}
        \/ r \in cancelled[s]

\* A tunnel is served by a connected socket of its openHAB and is no longer an
\* HTTP request: removeAllForUuid leaves none behind.
TunnelServed ==
    \A r \in tunnels :
        /\ via[r] \in Room(owner[r])
        /\ r \notin tracked /\ ~ended[r]

\* A tracked response is open for writing, and when its tracker says the headers
\* are out they are: the two records of the same fact cannot disagree that way.
TrackedIsWritable ==
    \A r \in tracked :
        /\ ~ended[r] /\ stage[r] \in {"live", "unheard"}
        /\ headersSent[r] => committed[r]

\* What no handler has touched yet: ids not handed out.
FreshIds ==
    \A r \in Request : r >= counter =>
        /\ owner[r] = NoUuid /\ wrote[r] = {}
        /\ stage[r] = "live" /\ ~ended[r] /\ ~headersSent[r]
        /\ r \notin tracked \cup tunnels
        /\ \A s \in Socket : r \notin received[s]

\* A tracked request has an openHAB, and only that openHAB was sent it.
SentToOwner ==
    /\ \A r \in tracked : owner[r] # NoUuid
    /\ \A s \in Socket : \A r \in received[s] : UuidOf[s] = owner[r]

\* One socket for each openHAB, as the connection lock promises.
OneSocket ==
    \A s, t \in connected : UuidOf[s] = UuidOf[t] => s = t

\* The inductive invariant.
ProxyInv ==
    /\ TypeOK
    /\ FreshIds /\ SentToOwner /\ OneSocket
    /\ OwnOpenhabWrites /\ TunnelServed /\ TrackedIsWritable

\* A request whose openHAB disconnected does not stay tracked for ever: no timer
\* of the tracker ends it, but the inactivity timeout of its HTTP connection does,
\* if the request came with one and its client was there to begin with.
UnservedIsReclaimed ==
    \A r \in Request \ WsPath :
        r \in tracked /\ stage[r] # "unheard" /\ Unserved(r) ~> r \notin tracked
=============================================================================
