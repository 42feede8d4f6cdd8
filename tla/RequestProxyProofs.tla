------------------------- MODULE RequestProxyProofs -------------------------
(***************************************************************************)
(* What holds of the request proxy for any openHABs, sockets and number of *)
(* requests.                                                               *)
(***************************************************************************)
EXTENDS RequestProxy, TLAPS

-----------------------------------------------------------------------------
(* What a message of an openHAB may do, whichever handler takes it.        *)

\* Every handler leaves the sockets, the owners and the counter alone, and for
\* each request keeps what it has, or untracks it, ends it, or upgrades it.
LEMMA AnswerConnected ==
    ASSUME NEW s \in Socket, NEW r \in Request, NEW own \in BOOLEAN,
           FromOpenhab(s, r, own)
    PROVE  s \in connected /\ UNCHANGED <<counter, owner, agent>>
BY DEF FromOpenhab, ResponseHeader, ResponseContent, ResponseFinished,
       ResponseError, WebSocketData, WebSocketClose, Answers

LEMMA SaidType ==
    ASSUME TypeOK, NEW s \in Socket, NEW r \in Request, NEW own \in BOOLEAN,
           FromOpenhab(s, r, own)
    PROVE  said' \in [Request -> {"nothing", "header", "finished", "error"}]
<1> USE DEF TypeOK, Answers
<1>1. CASE \E is101, accepted \in BOOLEAN : ResponseHeader(s, r, own, is101, accepted)
  BY <1>1 DEF ResponseHeader
<1>2. CASE ResponseContent(s, r, own)
  BY <1>2 DEF ResponseContent
<1>3. CASE ResponseFinished(s, r, own)
  BY <1>3 DEF ResponseFinished
<1>4. CASE ResponseError(s, r, own)
  BY <1>4 DEF ResponseError
<1>5. CASE WebSocketData(s, r, own)
  BY <1>5 DEF WebSocketData
<1>6. CASE WebSocketClose(s, r, own)
  BY <1>6 DEF WebSocketClose
<1>7. QED
  BY <1>1, <1>2, <1>3, <1>4, <1>5, <1>6 DEF FromOpenhab

\* The outcomes of the handlers, named by what they do to the request.
Refused(s, r) ==
    Cancel({s}, r) /\ UNCHANGED <<tracking, response, tunnel>>

Dropped(s, r) ==
    /\ Untrack(r) /\ Cancel({s}, r)
    /\ UNCHANGED <<headersSent, response, tunnel>>

Upgraded(s, r, own) ==
    /\ Untrack(r) /\ UNCHANGED headersSent
    /\ stage' = [stage EXCEPT ![r] = "detached"]
    /\ tunnels' = tunnels \cup {r}
    /\ via' = [via EXCEPT ![r] = s]
    /\ Write(s, r, own)
    /\ UNCHANGED <<committed, ended, client, cancelled>>

Headed(s, r, own) ==
    /\ MarkHeadersSent(r)
    /\ committed' = [committed EXCEPT ![r] = TRUE]
    /\ Write(s, r, own)
    /\ UNCHANGED <<tracked, ended, stage, client, tunnel, cancelled>>

Written(s, r, own) ==
    /\ committed' = [committed EXCEPT ![r] = TRUE]
    /\ Write(s, r, own)
    /\ UNCHANGED <<tracking, ended, stage, client, tunnel, cancelled>>

Forwarded(s, r, own) ==
    /\ Write(s, r, own)
    /\ UNCHANGED <<committed, ended, stage, client, tunnel, cancelled, tracking>>

Closed(r) ==
    /\ Destroy(r)
    /\ UNCHANGED <<committed, ended, stage, wrote, via, tracking>>

Outcome(s, r, own) ==
    \/ Ignore \/ Refused(s, r)
    \/ /\ r \in tracked /\ Owns(s, r)
       /\ \/ Dropped(s, r) \/ Upgraded(s, r, own) \/ Headed(s, r, own)
          \/ Written(s, r, own)
          \/ End(r) /\ (UNCHANGED wrote \/ Write(s, r, own))
    \/ /\ r \in tunnels /\ Owns(s, r)
       /\ \/ Forwarded(s, r, own)
          \/ Closed(r) /\ (Cancel({s}, r) \/ UNCHANGED cancelled)

LEMMA Outcomes ==
    ASSUME NEW s \in Socket, NEW r \in Request, NEW own \in BOOLEAN,
           FromOpenhab(s, r, own)
    PROVE  Outcome(s, r, own)
<1> USE DEF Outcome
<1>1. ASSUME NEW is101 \in BOOLEAN, NEW accepted \in BOOLEAN,
             ResponseHeader(s, r, own, is101, accepted)
      PROVE  Outcome(s, r, own)
  <2>1. CASE r \notin tracked
    BY <1>1, <2>1 DEF ResponseHeader, Refused
  <2>2. CASE r \in tracked /\ (~Owns(s, r) \/ headersSent[r] \/ committed[r])
    BY <1>1, <2>2 DEF ResponseHeader
  <2>3. CASE r \in tracked /\ ~(~Owns(s, r) \/ headersSent[r] \/ committed[r])
    BY <1>1, <2>3 DEF ResponseHeader, Upgrade, Upgraded, Dropped, Headed
  <2>4. QED
    BY <2>1, <2>2, <2>3
<1>2. CASE ResponseContent(s, r, own)
  BY <1>2 DEF ResponseContent, Refused, Dropped, Written
<1>3. CASE ResponseFinished(s, r, own)
  BY <1>3 DEF ResponseFinished
<1>4. CASE ResponseError(s, r, own)
  BY <1>4 DEF ResponseError
<1>5. CASE WebSocketData(s, r, own)
  BY <1>5 DEF WebSocketData, Refused, Forwarded, Closed
<1>6. CASE WebSocketClose(s, r, own)
  BY <1>6 DEF WebSocketClose, Ignore, Closed
<1>7. QED
  BY <1>1, <1>2, <1>3, <1>4, <1>5, <1>6 DEF FromOpenhab

-----------------------------------------------------------------------------
(* The inductive invariant.                                                *)

LEMMA CancelType ==
    ASSUME TypeOK, NEW S, NEW r \in Request, Cancel(S, r)
    PROVE  cancelled' \in [Socket -> SUBSET Request]
BY DEF TypeOK, Cancel

LEMMA WriteType ==
    ASSUME TypeOK, NEW s \in Socket, NEW r \in Request, NEW own \in BOOLEAN,
           Write(s, r, own)
    PROVE  /\ wrote' \in [Request -> SUBSET (Uuid \X BOOLEAN)]
           /\ \A q \in Request : q # r => wrote'[q] = wrote[q]
           /\ Owns(s, r) => \A w \in wrote'[r] : w \in wrote[r] \/ w[1] = owner[r]
<1>1. <<UuidOf[s], own>> \in Uuid \X BOOLEAN
  BY ProxyAssumption
<1>2. wrote \in [Request -> SUBSET (Uuid \X BOOLEAN)]
  BY DEF TypeOK
<1>3. wrote'[r] = wrote[r] \cup {<<UuidOf[s], own>>}
  BY <1>2 DEF Write
<1>4. QED
  BY <1>1, <1>2, <1>3 DEF Write, Owns

\* A message of an openHAB preserves the invariant.
LEMMA OutcomeStep ==
    ASSUME ProxyInv, NEW s \in connected, NEW r \in Request, NEW own \in BOOLEAN,
           Outcome(s, r, own), UNCHANGED <<counter, owner, agent>>,
           said' \in [Request -> {"nothing", "header", "finished", "error"}]
    PROVE  ProxyInv'
<1> USE DEF ProxyInv, tracking, response, tunnel, agent
<1>0. TypeOK /\ s \in Socket
  BY DEF TypeOK
<1>1. OneSocket'
  BY DEF OneSocket
<1>2. TypeOK'
  <2>1. cancelled' \in [Socket -> SUBSET Request]
    <3>1. UNCHANGED cancelled \/ Cancel({s}, r)
      BY DEF Outcome, Ignore, Refused, Dropped, Upgraded, Headed, Written, End,
         Forwarded, Closed
    <3>2. QED
      BY <1>0, <3>1, CancelType DEF TypeOK
  <2>2. wrote' \in [Request -> SUBSET (Uuid \X BOOLEAN)]
    <3>1. UNCHANGED wrote \/ Write(s, r, own)
      BY DEF Outcome, Ignore, Refused, Dropped, Upgraded, Headed, Written, End,
         Forwarded, Closed
    <3>2. QED
      BY <1>0, <3>1, WriteType DEF TypeOK
  <2>3. /\ tracked' \subseteq tracked
        /\ tunnels' \subseteq tunnels \cup {r}
    BY DEF Outcome, Ignore, Refused, Dropped, Upgraded, Headed, Written, End,
       Forwarded, Closed, Untrack, MarkHeadersSent, Destroy
  <2>4. /\ UNCHANGED headersSent \/ headersSent' = [headersSent EXCEPT ![r] = TRUE]
        /\ UNCHANGED committed \/ committed' = [committed EXCEPT ![r] = TRUE]
        /\ UNCHANGED ended \/ ended' = [ended EXCEPT ![r] = TRUE]
    BY DEF Outcome, Ignore, Refused, Dropped, Upgraded, Headed, Written, End,
       Forwarded, Closed, Untrack, MarkHeadersSent, Destroy
  <2>5. /\ UNCHANGED stage \/ stage' = [stage EXCEPT ![r] = "detached"]
        /\ UNCHANGED client \/ client' = [client EXCEPT ![r] = "gone"]
        /\ UNCHANGED via \/ via' = [via EXCEPT ![r] = s]
    BY DEF Outcome, Ignore, Refused, Dropped, Upgraded, Headed, Written, End,
       Forwarded, Closed, Untrack, MarkHeadersSent, Destroy
  <2>6. /\ headersSent' \in [Request -> BOOLEAN]
        /\ committed' \in [Request -> BOOLEAN]
        /\ ended' \in [Request -> BOOLEAN]
    BY <1>0, <2>4 DEF TypeOK
  <2>7. /\ stage' \in [Request -> {"live", "unheard", "finished", "closed", "detached"}]
        /\ client' \in [Request -> {"open", "half", "gone"}]
        /\ via' \in [Request -> Socket \cup {NoSocket}]
    BY <1>0, <2>5 DEF TypeOK
  <2>8. QED
    BY <2>1, <2>2, <2>3, <2>6, <2>7 DEF TypeOK
<1>3. /\ tracked' \subseteq tracked
      /\ tunnels' \subseteq tunnels \cup {r}
      /\ r \in tunnels' \ tunnels => r \in tracked
  BY DEF Outcome, Ignore, Refused, Dropped, Upgraded, Headed, Written, End,
     Forwarded, Closed, Untrack, Destroy
<1>4. /\ \A q \in Request : q # r => wrote'[q] = wrote[q]
      /\ wrote'[r] # wrote[r] => r \in tracked \cup tunnels
      /\ \A w \in wrote'[r] : w \in wrote[r] \/ w[1] = owner[r]
  BY <1>0, WriteType DEF Outcome, Ignore, Refused, Dropped, Upgraded, Headed,
     Written, End, Forwarded, Closed
<1>5. FreshIds'
  <2>1. \A q \in Request \ (tracked \cup tunnels) :
           /\ stage'[q] = stage[q] /\ ended'[q] = ended[q]
           /\ headersSent'[q] = headersSent[q]
    BY <1>0 DEF Outcome, Ignore, Refused, Dropped, Upgraded, Headed, Written,
       End, Forwarded, Closed, MarkHeadersSent, TypeOK
  <2>2. QED
    BY <1>3, <1>4, <2>1 DEF FreshIds
<1>6. SentToOwner'
  BY <1>3 DEF SentToOwner
<1>7. OwnOpenhabWrites'
  BY <1>4 DEF OwnOpenhabWrites
<1>8. TrackedIsWritable'
  BY <1>0 DEF TrackedIsWritable, Outcome, Ignore, Refused, Dropped, Upgraded,
     Headed, Written, End, Forwarded, Closed, Untrack, MarkHeadersSent, Destroy,
     TypeOK
<1>9. TunnelServed'
  <2>1. CASE Ignore \/ Refused(s, r) \/ Dropped(s, r) \/ Headed(s, r, own)
             \/ Written(s, r, own) \/ Forwarded(s, r, own) \/ Closed(r)
    BY <1>0, <2>1 DEF TunnelServed, Room, Ignore, Refused, Dropped, Headed,
       Written, Forwarded, Closed, Untrack, Destroy, TypeOK
  <2>2. CASE r \in tracked /\ Owns(s, r) /\ Upgraded(s, r, own)
    <3>1. via'[r] = s /\ UuidOf[s] = owner[r] /\ s \in connected
      BY <1>0, <2>2 DEF Upgraded, Owns, TypeOK
    <3>2. r \notin tracked' /\ ~ended'[r]
      BY <2>2 DEF Upgraded, Untrack, TrackedIsWritable
    <3>3. \A q \in tunnels : q # r => via'[q] = via[q] /\ ended'[q] = ended[q]
      BY <1>0, <2>2 DEF Upgraded, TypeOK
    <3>4. QED
      BY <2>2, <3>1, <3>2, <3>3, <1>3 DEF TunnelServed, Room, Upgraded
  <2>3. CASE r \in tracked /\ End(r)
    BY <1>0, <2>3 DEF End, Untrack, TunnelServed, Room, TypeOK
  <2>4. QED
    BY <2>1, <2>2, <2>3 DEF Outcome
<1>10. QED
  BY <1>1, <1>2, <1>5, <1>6, <1>7, <1>8, <1>9

-----------------------------------------------------------------------------
(* The other actions.                                                      *)

LEMMA InitInv == Init => ProxyInv
BY ProxyAssumption
   DEF Init, ProxyInv, TypeOK, FreshIds, SentToOwner, OneSocket, Room,
       OwnOpenhabWrites, TunnelServed, TrackedIsWritable, Request

LEMMA StutterStep == ProxyInv /\ UNCHANGED vars => ProxyInv'
BY DEF ProxyInv, vars, tracking, response, tunnel, agent, TypeOK, FreshIds,
       SentToOwner, OneSocket, OwnOpenhabWrites, TunnelServed, Room,
       TrackedIsWritable

LEMMA ConnectStep ==
    ASSUME ProxyInv, NEW s \in Socket, Connect(s)
    PROVE  ProxyInv'
<1> USE DEF ProxyInv, Connect, tracking, response, tunnel, agent
<1>1. TypeOK'
  BY DEF TypeOK
<1>2. /\ \A t \in connected : UuidOf[t] # UuidOf[s]
      /\ \A t \in Socket : received'[t] \subseteq received[t]
  BY DEF Room, TypeOK
<1>3. FreshIds' /\ SentToOwner'
  BY <1>2 DEF FreshIds, SentToOwner
<1>4. OneSocket'
  BY <1>2 DEF OneSocket
<1>5. OwnOpenhabWrites' /\ TrackedIsWritable'
  BY DEF OwnOpenhabWrites, TrackedIsWritable
<1>6. TunnelServed'
  BY DEF TunnelServed, Room
<1>7. QED
  BY <1>1, <1>3, <1>4, <1>5, <1>6

\* A socket's tunnels leave with it; any other tunnel's socket is of another
\* openHAB, so it stays.
LEMMA DisconnectStep ==
    ASSUME ProxyInv, NEW s \in Socket, Disconnect(s)
    PROVE  ProxyInv'
<1> USE DEF ProxyInv, Disconnect, tracking, response, tunnel, agent
<1>1. TypeOK'
  BY DEF TypeOK
<1>2. \A t \in Socket : received'[t] \subseteq received[t]
  BY DEF TypeOK
<1>3. FreshIds' /\ SentToOwner'
  BY <1>2 DEF FreshIds, SentToOwner
<1>4. OneSocket' /\ OwnOpenhabWrites' /\ TrackedIsWritable'
  BY DEF OneSocket, OwnOpenhabWrites, TrackedIsWritable
<1>5. TunnelServed'
  BY DEF TunnelServed, Room, TunnelsOf
<1>6. QED
  BY <1>1, <1>3, <1>4, <1>5

LEMMA ProxyRequestStep ==
    ASSUME ProxyInv, NEW u \in Uuid, NEW heard \in BOOLEAN, ProxyRequest(u, heard)
    PROVE  ProxyInv'
<1> DEFINE r == counter
<1> USE DEF ProxyInv, ProxyRequest, tracking, response, tunnel, agent
<1>1. r \in Request /\ counter' = r + 1 /\ r \in Nat
  BY ProxyAssumption DEF TypeOK, Request
<1>2. /\ owner[r] = NoUuid /\ wrote[r] = {} /\ r \notin tracked \cup tunnels
      /\ \A s \in Socket : r \notin received[s]
  BY <1>1 DEF FreshIds, Request
<1>3. /\ tracked' = tracked \cup {r}
      /\ owner' = [owner EXCEPT ![r] = u]
      /\ UNCHANGED <<headersSent, committed, ended, wrote, tunnel, connected,
                     cancelled, said>>
      /\ UNCHANGED stage \/ stage' = [stage EXCEPT ![r] = "unheard"]
      /\ UNCHANGED client \/ client' = [client EXCEPT ![r] = "gone"]
      /\ \A s \in Socket : received'[s] =
            IF s \in Room(u) THEN received[s] \cup {r} ELSE received[s]
  OBVIOUS
<1> HIDE DEF r
<1>4. owner' \in [Request -> Uuid \cup {NoUuid}] /\ owner'[r] = u
      /\ \A q \in Request : q # r => owner'[q] = owner[q]
  BY <1>1, <1>3 DEF TypeOK
<1>5. TypeOK'
  <2>1. counter' \in 1..(MaxRequest + 1)
    BY <1>1, ProxyAssumption DEF Request
  <2>2. received' \in [Socket -> SUBSET Request]
    BY <1>1, <1>3 DEF TypeOK, r
  <2>3. /\ stage' \in [Request -> {"live", "unheard", "finished", "closed", "detached"}]
        /\ client' \in [Request -> {"open", "half", "gone"}]
    BY <1>3 DEF TypeOK
  <2>4. QED
    BY <1>1, <1>3, <1>4, <2>1, <2>2, <2>3 DEF TypeOK
<1>6. FreshIds'
  <2>1. \A q \in Request : q # r => stage'[q] = stage[q]
    BY <1>3 DEF TypeOK
  <2>2. \A q \in Request : q >= counter' => q >= counter /\ q # r
    BY <1>1 DEF r, Request
  <2>3. QED
    BY <1>3, <1>4, <2>1, <2>2 DEF FreshIds, TypeOK
<1>7. SentToOwner'
  BY <1>1, <1>2, <1>3, <1>4, ProxyAssumption DEF SentToOwner, Room, TypeOK
<1>8. OneSocket' /\ OwnOpenhabWrites'
  BY <1>2, <1>3, <1>4 DEF OneSocket, OwnOpenhabWrites
<1>9. TunnelServed'
  BY <1>2, <1>3, <1>4 DEF TunnelServed, Room, TypeOK
<1>10. TrackedIsWritable'
  <2>1. stage[r] = "live" /\ ~ended[r] /\ ~headersSent[r]
    BY <1>1 DEF FreshIds, r
  <2>2. /\ \A q \in Request : q # r => stage'[q] = stage[q]
        /\ stage'[r] \in {"live", "unheard"}
    BY <1>1, <1>3, <2>1 DEF TypeOK
  <2>3. QED
    BY <1>3, <2>1, <2>2 DEF TrackedIsWritable, TypeOK
<1>11. QED
  BY <1>5, <1>6, <1>7, <1>8, <1>9, <1>10

LEMMA RejectStep == ProxyInv /\ RejectRequest => ProxyInv'
<1> SUFFICES ASSUME ProxyInv, RejectRequest PROVE ProxyInv'
  OBVIOUS
<1> USE DEF ProxyInv, RejectRequest, tracking, response, tunnel, agent
<1>1. TypeOK'
  BY ProxyAssumption DEF TypeOK
<1>2. FreshIds'
  BY ProxyAssumption DEF FreshIds, TypeOK, Request
<1>3. QED
  BY <1>1, <1>2 DEF SentToOwner, OneSocket, OwnOpenhabWrites, TunnelServed,
     Room, TrackedIsWritable

\* The events of a response or of its client's socket.
LEMMA ClientStep ==
    ASSUME ProxyInv, NEW r \in Request, ClientGone(r) \/ ClientEnd(r)
    PROVE  ProxyInv'
<1> USE DEF ProxyInv, ClientGone, ClientEnd, tracking, response, tunnel, agent
<1>1. TypeOK'
  BY DEF TypeOK
<1>2. QED
  BY <1>1 DEF FreshIds, SentToOwner, OneSocket, OwnOpenhabWrites, TunnelServed,
     Room, TrackedIsWritable

LEMMA FinishStep ==
    ASSUME ProxyInv, NEW r \in Request, ResponseFinish(r)
    PROVE  ProxyInv'
<1> USE DEF ProxyInv, ResponseFinish, Untrack, tracking, response, tunnel, agent
<1>1. TypeOK'
  BY DEF TypeOK
<1>2. FreshIds' /\ TrackedIsWritable'
  BY DEF FreshIds, TrackedIsWritable, TypeOK
<1>3. QED
  BY <1>1, <1>2 DEF SentToOwner, OneSocket, OwnOpenhabWrites, TunnelServed, Room

LEMMA CloseStep ==
    ASSUME ProxyInv, NEW r \in Request, ResponseClose(r)
    PROVE  ProxyInv'
<1> USE DEF ProxyInv, ResponseClose, Untrack, tracking, response, tunnel, agent
<1>1. cancelled' \in [Socket -> SUBSET Request]
  BY CancelType DEF TypeOK
<1>2. TypeOK'
  BY <1>1 DEF TypeOK
<1>3. FreshIds' /\ TrackedIsWritable'
  BY DEF FreshIds, TrackedIsWritable, TypeOK, Proxied
<1>4. QED
  BY <1>2, <1>3 DEF SentToOwner, OneSocket, OwnOpenhabWrites, TunnelServed, Room

LEMMA CleanupStep ==
    ASSUME ProxyInv, NEW r \in Request, TunnelCleanup(r)
    PROVE  ProxyInv'
<1> USE DEF ProxyInv, TunnelCleanup, tracking, response, tunnel, agent
<1>1. cancelled' \in [Socket -> SUBSET Request]
  BY CancelType DEF TypeOK
<1>2. TypeOK'
  BY <1>1 DEF TypeOK
<1>3. FreshIds' /\ TrackedIsWritable'
  BY DEF FreshIds, TrackedIsWritable, TypeOK
<1>4. QED
  BY <1>2, <1>3 DEF SentToOwner, OneSocket, OwnOpenhabWrites, TunnelServed, Room

-----------------------------------------------------------------------------
\* The invariant the handlers keep: a response or tunnel is written by its own
\* openHAB only, a tunnel has its openHAB's connected socket, and what is tracked
\* can still be written.
THEOREM ProxyCorrect == Spec => []ProxyInv
<1>1. ProxyInv /\ [Next]_vars => ProxyInv'
  <2> SUFFICES ASSUME ProxyInv, [Next]_vars PROVE ProxyInv'
    OBVIOUS
  <2>1. ASSUME NEW s \in Socket, Connect(s) \/ Disconnect(s)
        PROVE  ProxyInv'
    BY <2>1, ConnectStep, DisconnectStep
  <2>2. ASSUME NEW u \in Asked, NEW heard \in BOOLEAN, ProxyRequest(u, heard)
        PROVE  ProxyInv'
    BY <2>2, ProxyRequestStep, ProxyAssumption
  <2>3. ASSUME NEW r \in Request,
               ClientGone(r) \/ ClientEnd(r) \/ ResponseEvent(r)
        PROVE  ProxyInv'
    BY <2>3, ClientStep, FinishStep, CloseStep, CleanupStep DEF ResponseEvent
  <2>4. ASSUME NEW s \in Socket, NEW r \in Request, NEW own \in BOOLEAN,
               FromOpenhab(s, r, own)
        PROVE  ProxyInv'
    BY <2>4, AnswerConnected, SaidType, Outcomes, OutcomeStep DEF ProxyInv
  <2>5. QED
    BY <2>1, <2>2, <2>3, <2>4, RejectStep, StutterStep DEF Next
<1>2. QED
  BY InitInv, <1>1, PTL DEF Spec

\* Bytes in a response come from the request's own openHAB, even when answers
\* to an earlier connection's requests still come in.
THEOREM NoForeignWriter == Spec => []OwnOpenhabWrites
<1>1. ProxyInv => OwnOpenhabWrites
  BY DEF ProxyInv
<1>2. QED
  BY <1>1, ProxyCorrect, PTL

\* No tunnel outlives its openHAB's connection.
THEOREM NoOrphanTunnel == Spec => []TunnelServed
<1>1. ProxyInv => TunnelServed
  BY DEF ProxyInv
<1>2. QED
  BY <1>1, ProxyCorrect, PTL

\* The tracker never holds a response that is over.
THEOREM TrackedStaysWritable == Spec => []TrackedIsWritable
<1>1. ProxyInv => TrackedIsWritable
  BY DEF ProxyInv
<1>2. QED
  BY <1>1, ProxyCorrect, PTL

-----------------------------------------------------------------------------
(* No abandoned work: what the cloud gives up, the openHAB is told.        *)

\* Every answer keeps its request, or is the openHAB's last word on it, or is
\* answered with a cancel.
LEMMA AnswerTold ==
    ASSUME TypeOK,
           NEW s \in Socket, s \notin Late, NEW r \in Request, NEW own \in BOOLEAN,
           FromOpenhab(s, r, own)
    PROVE  /\ said[r] \notin {"finished", "error"}
           /\ \A q \in Request : q # r => said'[q] = said[q]
           /\ UNCHANGED cancelled \/ Cancel({s}, r)
           /\ tracked \ {r} \subseteq tracked' /\ tunnels \ {r} \subseteq tunnels'
           /\ r \in tracked \cup tunnels =>
                  \/ r \in tracked' \cup tunnels'
                  \/ said'[r] \in {"finished", "error"}
                  \/ Cancel({s}, r)
<1> DEFINE Told == /\ UNCHANGED cancelled \/ Cancel({s}, r)
                   /\ tracked \ {r} \subseteq tracked'
                   /\ tunnels \ {r} \subseteq tunnels'
                   /\ r \in tracked \cup tunnels =>
                         \/ r \in tracked' \cup tunnels'
                         \/ said'[r] \in {"finished", "error"}
                         \/ Cancel({s}, r)
<1> USE DEF tracking, response, tunnel
<1>1. /\ said[r] \notin {"finished", "error"}
      /\ \A q \in Request : q # r => said'[q] = said[q]
  BY DEF TypeOK, FromOpenhab, ResponseHeader, ResponseContent, ResponseFinished,
     ResponseError, WebSocketData, WebSocketClose, Answers
<1>2. ASSUME NEW before, NEW after \in {"finished", "error"},
             Answers(s, r, own, before, after)
      PROVE  said'[r] \in {"finished", "error"}
  BY <1>2 DEF Answers, TypeOK
<1>3. ASSUME NEW is101 \in BOOLEAN, NEW accepted \in BOOLEAN,
             ResponseHeader(s, r, own, is101, accepted)
      PROVE  Told
  <2>1. CASE r \notin tracked
    BY <1>3, <2>1 DEF ResponseHeader
  <2>2. CASE r \in tracked /\ (~Owns(s, r) \/ headersSent[r] \/ committed[r])
    BY <1>3, <2>2 DEF ResponseHeader, Ignore
  <2>3. CASE r \in tracked /\ ~(~Owns(s, r) \/ headersSent[r] \/ committed[r])
    BY <1>3, <2>3 DEF ResponseHeader, Upgrade, Untrack, Ignore
  <2>4. QED
    BY <2>1, <2>2, <2>3
<1>4. CASE ResponseContent(s, r, own)
  BY <1>1, <1>4 DEF ResponseContent, Ignore, Untrack
<1>5. CASE ResponseFinished(s, r, own)
  BY <1>1, <1>5, <1>2 DEF ResponseFinished, Ignore, End, Untrack
<1>6. CASE ResponseError(s, r, own)
  BY <1>1, <1>6, <1>2 DEF ResponseError, Ignore, End, Untrack
<1>7. CASE WebSocketData(s, r, own)
  BY <1>1, <1>7 DEF WebSocketData, Ignore, Destroy
<1>8. CASE WebSocketClose(s, r, own)
  BY <1>1, <1>8, <1>2 DEF WebSocketClose, Destroy
<1>9. QED
  BY <1>1, <1>3, <1>4, <1>5, <1>6, <1>7, <1>8 DEF FromOpenhab

\* An answer changes nothing of other requests, and nothing at all of a request
\* of another openHAB.
LEMMA OthersUntold ==
    ASSUME TypeOK, SentToOwner,
           NEW s \in Socket, NEW r \in Request, NEW own \in BOOLEAN,
           FromOpenhab(s, r, own)
    PROVE  /\ \A q \in Request : q # r => said'[q] = said[q]
           /\ UNCHANGED cancelled \/ Cancel({s}, r)
           /\ tracked \ {r} \subseteq tracked' /\ tunnels \ {r} \subseteq tunnels'
           /\ ~Owns(s, r) => UNCHANGED <<tracked, tunnels, said>>
<1> USE DEF tracking, response, tunnel
<1>1. ASSUME NEW before, NEW after, Answers(s, r, own, before, after)
      PROVE  /\ \A q \in Request : q # r => said'[q] = said[q]
             /\ ~Owns(s, r) => UNCHANGED said
  BY <1>1 DEF Answers, Owns, SentToOwner, TypeOK
<1> DEFINE Untold == /\ UNCHANGED cancelled \/ Cancel({s}, r)
                     /\ tracked \ {r} \subseteq tracked'
                     /\ tunnels \ {r} \subseteq tunnels'
                     /\ ~Owns(s, r) => UNCHANGED <<tracked, tunnels>>
<1>2. ASSUME NEW is101 \in BOOLEAN, NEW accepted \in BOOLEAN,
             ResponseHeader(s, r, own, is101, accepted)
      PROVE  Untold
  <2>1. CASE r \notin tracked
    BY <1>2, <2>1 DEF ResponseHeader
  <2>2. CASE r \in tracked /\ (~Owns(s, r) \/ headersSent[r] \/ committed[r])
    BY <1>2, <2>2 DEF ResponseHeader, Ignore
  <2>3. CASE r \in tracked /\ ~(~Owns(s, r) \/ headersSent[r] \/ committed[r])
    BY <1>2, <2>3 DEF ResponseHeader, Upgrade, Untrack, Ignore
  <2>4. QED
    BY <2>1, <2>2, <2>3
<1>3. CASE ResponseContent(s, r, own)
  BY <1>1, <1>3 DEF ResponseContent, Ignore, Untrack
<1>4. CASE ResponseFinished(s, r, own)
  BY <1>1, <1>4 DEF ResponseFinished, Ignore, End, Untrack
<1>5. CASE ResponseError(s, r, own)
  BY <1>1, <1>5 DEF ResponseError, Ignore, End, Untrack
<1>6. CASE WebSocketData(s, r, own)
  BY <1>1, <1>6 DEF WebSocketData, Ignore, Destroy
<1>7. CASE WebSocketClose(s, r, own)
  BY <1>1, <1>7 DEF WebSocketClose, Destroy
<1>8. \E before, after : Answers(s, r, own, before, after)
  BY DEF FromOpenhab, ResponseHeader, ResponseContent, ResponseFinished,
     ResponseError, WebSocketData, WebSocketClose
<1>9. QED
  BY <1>1, <1>2, <1>3, <1>4, <1>5, <1>6, <1>7, <1>8 DEF FromOpenhab

LEMMA CancelTells ==
    ASSUME TypeOK, NEW S, NEW r \in Request, Cancel(S, r), UNCHANGED connected
    PROVE  /\ \A t \in Socket : cancelled[t] \subseteq cancelled'[t]
           /\ \A t \in S \cap connected : r \in cancelled'[t]
BY DEF TypeOK, Cancel

\* Of an openHAB's connected sockets there is only one: the cancel that goes to
\* the socket a message came from reaches whoever works on the request.
LEMMA AbandonedByAnswer ==
    ASSUME ProxyInv, NoAbandonedWork,
           NEW s \in Socket, NEW r \in Request, NEW own \in BOOLEAN,
           FromOpenhab(s, r, own)
    PROVE  NoAbandonedWork'
<1>1. TypeOK /\ s \in connected /\ UNCHANGED <<connected, received>>
  BY AnswerConnected DEF ProxyInv, agent
<1>2. s \notin Late => \A t \in connected : r \in received[t] => t = s
  BY <1>1 DEF ProxyInv, SentToOwner, OneSocket, TypeOK, FromOpenhab,
     ResponseHeader, ResponseContent, ResponseFinished, ResponseError,
     WebSocketData, WebSocketClose, Answers
<1>3. /\ \A q \in Request : q # r => said'[q] = said[q]
      /\ UNCHANGED cancelled \/ Cancel({s}, r)
      /\ tracked \ {r} \subseteq tracked' /\ tunnels \ {r} \subseteq tunnels'
      /\ ~Owns(s, r) => UNCHANGED <<tracked, tunnels, said>>
  BY <1>1, OthersUntold DEF ProxyInv
<1>4. \A t \in Socket : cancelled[t] \subseteq cancelled'[t]
  BY <1>1, <1>3, CancelTells
<1>5. Cancel({s}, r) => r \in cancelled'[s]
  BY <1>1, CancelTells
<1>6. s \notin Late =>
      /\ said[r] \notin {"finished", "error"}
      /\ r \in tracked \cup tunnels =>
             \/ r \in tracked' \cup tunnels'
             \/ said'[r] \in {"finished", "error"}
             \/ Cancel({s}, r)
  BY <1>1, AnswerTold
<1>7. SUFFICES ASSUME NEW t \in connected, Prompt(UuidOf[t]), NEW q \in received[t]
               PROVE  \/ q \in tracked' \cup tunnels'
                      \/ said'[q] \in {"finished", "error"}
                      \/ q \in cancelled'[t]
  BY <1>1 DEF NoAbandonedWork
<1>8. t \in Socket /\ q \in Request
  BY <1>1 DEF TypeOK
<1>9. \/ q \in tracked \cup tunnels
      \/ said[q] \in {"finished", "error"}
      \/ q \in cancelled[t]
  BY <1>7 DEF NoAbandonedWork
<1>10. CASE q # r
  BY <1>3, <1>4, <1>8, <1>9, <1>10
<1>11. CASE q = r /\ s \in Late
  <2>1. ~Owns(s, r)
    BY <1>7, <1>8, <1>11 DEF Prompt, Owns, ProxyInv, SentToOwner
  <2>2. QED
    BY <1>3, <1>4, <1>8, <1>9, <1>11, <2>1
<1>12. CASE q = r /\ s \notin Late
  <2>1. t = s
    BY <1>2, <1>12
  <2>2. QED
    BY <1>4, <1>5, <1>6, <1>8, <1>9, <1>12, <2>1
<1>13. QED
  BY <1>10, <1>11, <1>12

\* The client's side: 'close' tells the openHAB, 'finish' has nothing to tell
\* as an ended response is no longer tracked, and the end of a tunnel tells the
\* socket that serves it.
LEMMA AbandonedByClient ==
    ASSUME ProxyInv, NoAbandonedWork, NEW r \in Request,
           ClientGone(r) \/ ClientEnd(r) \/ ResponseEvent(r)
    PROVE  NoAbandonedWork'
<1> USE DEF tracking, response, tunnel, agent
<1>1. TypeOK
  BY DEF ProxyInv
<1>2. CASE ClientGone(r) \/ ClientEnd(r)
  BY <1>2 DEF ClientGone, ClientEnd, NoAbandonedWork
<1>3. CASE ResponseFinish(r)
  <2>1. UNCHANGED tracked
    BY <1>3 DEF ResponseFinish, Untrack, ProxyInv, TrackedIsWritable
  <2>2. QED
    BY <1>3, <2>1 DEF ResponseFinish, NoAbandonedWork
<1>4. CASE ResponseClose(r)
  <2>1. /\ tracked' = tracked \ {r}
        /\ UNCHANGED <<tunnels, said, connected, received>>
        /\ IF r \in tracked THEN Cancel(Room(owner[r]), r) ELSE UNCHANGED cancelled
    BY <1>4 DEF ResponseClose, Untrack
  <2>2. \A t \in Socket : cancelled[t] \subseteq cancelled'[t]
    BY <1>1, <2>1, CancelTells
  <2>3. r \in tracked => \A t \in connected :
                             r \in received[t] => r \in cancelled'[t]
    BY <1>1, <2>1, CancelTells DEF ProxyInv, SentToOwner, Room, TypeOK
  <2>4. QED
    BY <1>1, <2>1, <2>2, <2>3 DEF NoAbandonedWork, TypeOK
<1>5. CASE TunnelCleanup(r)
  <2>1. /\ tunnels' = tunnels \ {r} /\ Cancel({via[r]}, r)
        /\ UNCHANGED <<tracked, said, connected, received>>
    BY <1>5 DEF TunnelCleanup
  <2>2. \A t \in Socket : cancelled[t] \subseteq cancelled'[t]
    BY <1>1, <2>1, CancelTells
  <2>3. ASSUME r \in tunnels, NEW t \in connected, r \in received[t]
        PROVE  r \in cancelled'[t]
    <3>1. via[r] = t
      BY <1>1, <2>3
         DEF ProxyInv, SentToOwner, OneSocket, TunnelServed, Room, TypeOK
    <3>2. QED
      BY <1>1, <2>1, <2>3, <3>1, CancelTells
  <2>4. QED
    BY <1>1, <2>1, <2>2, <2>3 DEF NoAbandonedWork, TypeOK
<1>6. QED
  BY <1>2, <1>3, <1>4, <1>5 DEF ResponseEvent

LEMMA AbandonedByDisconnect ==
    ASSUME ProxyInv, NoAbandonedWork, NEW s \in Socket, Disconnect(s)
    PROVE  NoAbandonedWork'
<1>1. TypeOK
  BY DEF ProxyInv
<1>2. /\ connected' = connected \ {s} /\ tunnels' = tunnels \ TunnelsOf(UuidOf[s])
      /\ UNCHANGED <<tracked, said>> /\ s \in connected
      /\ \A t \in Socket : t # s => /\ received'[t] = received[t]
                                    /\ cancelled'[t] = cancelled[t]
  BY <1>1 DEF Disconnect, tracking, TypeOK
<1>3. \A t \in connected' : \A r \in received[t] : r \notin TunnelsOf(UuidOf[s])
  BY <1>1, <1>2 DEF ProxyInv, SentToOwner, OneSocket, TunnelsOf, TypeOK
<1>4. QED
  BY <1>1, <1>2, <1>3 DEF NoAbandonedWork, TypeOK

LEMMA AbandonedByRoute ==
    ASSUME ProxyInv, NoAbandonedWork, NEW u \in Uuid, NEW heard \in BOOLEAN, ProxyRequest(u, heard)
    PROVE  NoAbandonedWork'
<1>1. TypeOK
  BY DEF ProxyInv
<1>2. /\ tracked' = tracked \cup {counter}
      /\ UNCHANGED <<connected, tunnels, said, cancelled>>
      /\ \A t \in Socket : received'[t] \subseteq received[t] \cup {counter}
  BY <1>1 DEF ProxyRequest, tunnel, TypeOK
<1>3. QED
  BY <1>1, <1>2 DEF NoAbandonedWork, TypeOK

\* When the cloud gives a request or a tunnel up, the openHAB that works on it
\* has been told, as long as no answers to its own earlier connection's requests
\* come in; those of other openHABs may.
THEOREM AbandonedWorkIsCancelled == Spec => []NoAbandonedWork
<1>1. Init => NoAbandonedWork
  BY DEF Init, NoAbandonedWork
<1>2. ProxyInv /\ NoAbandonedWork /\ [Next]_vars => NoAbandonedWork'
  <2> SUFFICES ASSUME ProxyInv, NoAbandonedWork, [Next]_vars
               PROVE  NoAbandonedWork'
    OBVIOUS
  <2>1. ASSUME NEW s \in Socket, Connect(s)
        PROVE  NoAbandonedWork'
    BY <2>1 DEF Connect, NoAbandonedWork, ProxyInv, TypeOK, tracking, tunnel
  <2>2. CASE RejectRequest \/ UNCHANGED vars
    BY <2>2 DEF RejectRequest, vars, NoAbandonedWork, tracking, tunnel, agent
  <2>3. ASSUME NEW s \in Socket, NEW r \in Request, NEW own \in BOOLEAN,
               FromOpenhab(s, r, own)
        PROVE  NoAbandonedWork'
    BY <2>3, AbandonedByAnswer
  <2>4. ASSUME NEW u \in Asked, NEW heard \in BOOLEAN, ProxyRequest(u, heard)
        PROVE  NoAbandonedWork'
    BY <2>4, AbandonedByRoute, ProxyAssumption
  <2>5. QED
    BY <2>1, <2>2, <2>3, <2>4, AbandonedByDisconnect, AbandonedByClient DEF Next
<1>3. QED
  BY <1>1, <1>2, ProxyCorrect, PTL DEF Spec
=============================================================================
