------------------------- MODULE RequestForwarding -------------------------
(***************************************************************************)
(* A client's request on its way to the node that holds the openHAB's      *)
(* connection (routes/middleware.ts: setOpenhab, ensureServer,             *)
(* proxyToServer), over the lookups of module Whereabouts, which           *)
(* ConnectionCache implements.                                             *)
(*                                                                         *)
(* Every node a request reaches handles it as if the client had sent it:   *)
(* it looks the openHAB up, in its own cache, and serves the request or    *)
(* forwards it once more.  One such handling is a hop, and each hop has    *)
(* one of the lookups.  A hop that was forwarded waits for the answer;     *)
(* when that fails (connection refused, reset, or silent for               *)
(* INTERNAL_PROXY_TIMEOUT_MS) it asks Redis and forwards a second time.    *)
(* The client sends one request after the other; some ask for a WebSocket  *)
(* (/ws/), which takes the same way.                                       *)
(*                                                                         *)
(* Operators named Bug... are not part of the model: each is a definition  *)
(* with one mistake, to show that a property would notice it.              *)
(***************************************************************************)
EXTENDS Naturals, Whereabouts

CONSTANTS
    Entry,  \* the nodes that clients talk to
    First,  \* the hop the client talks to; bound: all hops are Lookup
    NoHop

ASSUME ForwardAssumption ==
    Entry \subseteq Node /\ First \in Lookup /\ NoHop \notin Lookup

Hop == Lookup

VARIABLES
    upgrade, \* the request asks for a WebSocket
    at,      \* the node a hop runs on, Offline without one
    hop,     \* where each hop is
    callee,  \* the hop it waits for
    answer,  \* what it has answered
    given,   \* how often the openHAB was given the request; 2: more than once
    failed,  \* a forwarded hop, or a lookup, has failed
    calm     \* the hops whose lookup ended with the place settled, as it still is

chain == <<at, hop, callee, answer>>
vars == <<whereabouts, upgrade, chain, given, failed, calm>>

TypeOK ==
    /\ place \in Place /\ settled \in BOOLEAN
    /\ state \in [Hop -> {"idle", "looking", "found"}]
    /\ found \in [Hop -> Place]
    /\ upgrade \in BOOLEAN
    /\ at \in [Hop -> Place]
    /\ hop \in [Hop -> {"none", "routing", "waiting", "refreshing", "again",
                        "piping", "repiping", "hung", "local", "empty", "done"}]
    /\ callee \in [Hop -> Hop \cup {NoHop}]
    /\ answer \in [Hop -> {"none", "openhab", "tunnel", "error"}]
    /\ given \in 0..2
    /\ failed \in BOOLEAN
    /\ calm \subseteq Hop

Init ==
    /\ WInit
    /\ upgrade = FALSE
    /\ at = [l \in Hop |-> Offline]
    /\ hop = [l \in Hop |-> "none"]
    /\ callee = [l \in Hop |-> NoHop]
    /\ answer = [l \in Hop |-> "none"]
    /\ given = 0
    /\ failed = FALSE
    /\ calm = {}

-----------------------------------------------------------------------------
\* Whose answer a hop waits for, or passes on.
Waits(l) == hop[l] \in {"waiting", "again", "piping", "repiping"}

\* Nobody waits for hop l any more.
Abandoned(l) == l # First /\ \A k \in Hop : ~(Waits(k) /\ callee[k] = l)

\* The client's request reaches node n, whose setOpenhab looks the openHAB up.
\* Of the last request nothing is left.
Request(n) ==
    /\ \A l \in Hop : hop[l] = "none"
    /\ Ask(First)
    /\ upgrade' \in BOOLEAN
    /\ at' = [at EXCEPT ![First] = n]
    /\ hop' = [hop EXCEPT ![First] = "routing"]
    /\ answer' = [answer EXCEPT ![First] = "none"]
    /\ given' = 0 /\ failed' = FALSE /\ calm' = {}
    /\ UNCHANGED callee

\* The lookup ends.
Looked(l) ==
    /\ state[l] = "looking"
    /\ \/ Find(l) /\ UNCHANGED failed
       \/ FindError(l) /\ failed' = TRUE
    /\ calm' = IF settled THEN calm \cup {l} ELSE calm \ {l}
    /\ UNCHANGED <<chain, given>>

-----------------------------------------------------------------------------
(* ensureServer, with what the lookup or the refresh has found.            *)

Routed(l) == hop[l] \in {"routing", "refreshing"} /\ state[l] = "found"

\* Hop l answers and is over.
End(l, what) ==
    /\ hop' = [hop EXCEPT ![l] = "done"]
    /\ answer' = [answer EXCEPT ![l] = what]
    /\ callee' = [callee EXCEPT ![l] = NoHop]
    /\ calm' = calm \ ({l} \ {First})
    /\ UNCHANGED <<at, whereabouts>>

BugRefusesElsewhere(l) ==
    /\ Routed(l) /\ found[l] # at[l]
    /\ End(l, "error")
    /\ UNCHANGED <<given, failed>>

\* 500 or 502, "openHAB is offline".
Refuse(l) ==
    /\ Routed(l) /\ found[l] = Offline
    /\ End(l, "error")
    /\ UNCHANGED <<given, failed>>

\* The proxy handler emits to the openHAB's room on this node; when that is empty
\* nobody answers.  The handler sets the inactivity timeout of the caller's
\* connection (600 s).
Local(l) ==
    /\ Routed(l) /\ found[l] = at[l]
    /\ \/ /\ hop' = [hop EXCEPT ![l] = "local"]
          /\ given' = IF given = 0 THEN 1 ELSE 2
       \/ /\ hop' = [hop EXCEPT ![l] = "empty"]
          /\ UNCHANGED given
    /\ UNCHANGED <<whereabouts, at, callee, answer, failed, calm>>

BugForwardsItself(l) == Routed(l) /\ found[l] # Offline

\* Another node holds the connection.
Elsewhere(l) == Routed(l) /\ found[l] \in Node \ {at[l]}

FreeHops == {m \in Hop \ {First} : hop[m] = "none"}

\* proxyToServer: the request is a new hop on the other node, or does not get
\* there (the node is down; here also: there is no hop left).
Forward(l) ==
    LET next == IF hop[l] = "routing" THEN "waiting" ELSE "again" IN
    /\ Elsewhere(l)
    /\ \/ LET m == CHOOSE m \in FreeHops : TRUE IN
              /\ FreeHops # {} /\ Ask(m)
              /\ at' = [at EXCEPT ![m] = found[l]]
              /\ hop' = [hop EXCEPT ![l] = next, ![m] = "routing"]
              /\ callee' = [callee EXCEPT ![l] = m]
       \/ /\ hop' = [hop EXCEPT ![l] = next]
          /\ UNCHANGED <<whereabouts, at, callee>>
    /\ UNCHANGED <<answer, given, failed, calm>>

-----------------------------------------------------------------------------
(* What becomes of a hop that was forwarded.                               *)

\* The response's header comes and is passed on, whatever its status, but for 101.
Pipe(l) ==
    /\ hop[l] \in {"waiting", "again"} /\ callee[l] # NoHop
    /\ answer[callee[l]] \notin {"none", "tunnel"}
    /\ hop' = [hop EXCEPT ![l] = IF @ = "waiting" THEN "piping" ELSE "repiping"]
    /\ answer' = [answer EXCEPT ![l] = answer[callee[l]]]
    /\ UNCHANGED <<whereabouts, at, callee, given, failed, calm>>

\* Nothing more is done for the client; its response is left open.
Hang(l) ==
    /\ hop' = [hop EXCEPT ![l] = "hung"]
    /\ callee' = [callee EXCEPT ![l] = NoHop]
    /\ UNCHANGED <<whereabouts, at, answer, given, failed, calm>>

\* 101: nobody listens to the request's 'upgrade', so Node.js closes the connection,
\* and calls neither the response's callback nor the error's.
Swallow(l) ==
    /\ hop[l] \in {"waiting", "again"} /\ callee[l] # NoHop
    /\ answer[callee[l]] = "tunnel"
    /\ Hang(l)

\* The response's end comes.
PipeEnd(l) ==
    /\ hop[l] \in {"piping", "repiping"}
    /\ End(l, answer[l])
    /\ UNCHANGED <<given, failed>>

\* The hop gives its callee up, invalidates the cache and asks Redis.
Refresh(l) ==
    /\ AskAgain(l)
    /\ hop' = [hop EXCEPT ![l] = "refreshing"]
    /\ callee' = [callee EXCEPT ![l] = NoHop]
    /\ calm' = calm \ {l}
    /\ UNCHANGED <<at, answer, given>>

BugRetriesCommitted(l) == hop[l] = "piping" /\ Refresh(l) /\ UNCHANGED failed

\* It does not.  The first time an error of the request (a reset, silence) ends the
\* response where it is ("can't retry"); a connection that is only closed raises
\* none, and the second time nothing is done for one.
PipeBreak(l) ==
    \/ hop[l] = "piping" /\ End(l, answer[l]) /\ UNCHANGED <<given, failed>>
    \/ hop[l] \in {"piping", "repiping"} /\ Hang(l)

\* handleFirstError.
FirstError(l) == hop[l] = "waiting" /\ Refresh(l) /\ failed' = TRUE

BugRetryUnanswered(l) == FALSE

\* handleRetryError: 502, "Bad Gateway".
RetryError(l) ==
    /\ hop[l] = "again"
    /\ End(l, "error")
    /\ failed' = TRUE
    /\ UNCHANGED given

-----------------------------------------------------------------------------
(* The openHAB, the client, and the environment.                           *)

\* The openHAB answers a request it was given, an upgrade with 101 ("tunnel") or not.
OpenhabAnswers(l) ==
    /\ hop[l] = "local"
    /\ \/ End(l, "openhab")
       \/ upgrade /\ End(l, "tunnel")
    /\ UNCHANGED <<given, failed>>

\* The inactivity timeout closes the caller's connection; one that was upgraded is
\* not the HTTP server's any more.
Timeout(l) ==
    /\ hop[l] \in {"local", "empty"} /\ ~upgrade
    /\ End(l, answer[l])
    /\ UNCHANGED <<given, failed>>

\* The caller or the client is gone ('close').
GiveUp(l) ==
    /\ hop[l] \in {"local", "empty", "hung"} /\ (l = First \/ Abandoned(l))
    /\ End(l, answer[l])
    /\ UNCHANGED <<given, failed>>

\* A hop that is over is forgotten, when its caller has read its answer.
Clear(l) ==
    /\ hop[l] = "done" /\ (l = First \/ Abandoned(l))
    /\ Forget({l})
    /\ hop' = [hop EXCEPT ![l] = "none"]
    /\ at' = [at EXCEPT ![l] = Offline]
    /\ answer' = [answer EXCEPT ![l] = IF l = First THEN @ ELSE "none"]
    /\ calm' = calm \ {l}
    /\ UNCHANGED <<callee, given, failed>>

\* The openHAB connects, disconnects, or its lease runs out; or none of this has
\* happened for a while.
Environment ==
    /\ Move \/ Settle
    /\ calm' = IF settled' THEN calm ELSE {}
    /\ UNCHANGED <<chain, given, failed>>

\* A node's hops end with its process; who waits for one gets an error.
Crash(n) ==
    LET lost == {l \in Hop : at[l] = n /\ hop[l] # "none"} IN
    /\ lost # {}
    /\ Forget(lost)
    /\ hop' = [l \in Hop |-> IF l \in lost THEN "none" ELSE hop[l]]
    /\ at' = [l \in Hop |-> IF l \in lost THEN Offline ELSE at[l]]
    /\ answer' = [l \in Hop |-> IF l \in lost \ {First} THEN "none" ELSE answer[l]]
    /\ callee' = [l \in Hop |->
          IF l \in lost \/ callee[l] \in lost THEN NoHop ELSE callee[l]]
    /\ failed' = TRUE
    /\ calm' = calm \ lost
    /\ UNCHANGED given

\* What the nodes do with a hop.
Handle(l) ==
    \/ Looked(l) \/ Refuse(l) \/ Local(l) \/ Forward(l)
    \/ Pipe(l) \/ Swallow(l) \/ PipeEnd(l) \/ PipeBreak(l)
    \/ FirstError(l) \/ RetryError(l) \/ Timeout(l)

Next ==
    \/ \E n \in Entry : Request(n)
    \/ /\ \/ \E l \in Hop : Handle(l) \/ OpenhabAnswers(l) \/ GiveUp(l) \/ Clear(l)
          \/ \E n \in Node : Crash(n)
          \/ Environment
       /\ UNCHANGED upgrade

Spec == Init /\ [][Next]_vars

\* Redis answers; responses arrive or are timed out.  Neither the openHAB nor the
\* client need do anything.
FairSpec == Spec /\ \A l \in Hop : WF_vars(Handle(l) /\ UNCHANGED upgrade)

-----------------------------------------------------------------------------
(* Properties.                                                             *)

\* Two nodes do not send a request to and fro once the place has settled: where
\* it is forwarded to then, it stays.
ForwardedOnce ==
    /\ TypeOK
    /\ \A l \in calm : Waits(l) /\ callee[l] \in calm => ~Waits(callee[l])

\* The client is told "offline" of an openHAB that was connected the whole time
\* only after a hop or Redis failed.
OfflineIsTrue ==
    First \in calm /\ answer[First] = "error" /\ place # Offline => failed

\* The openHAB gets a request more than once only after a hop failed: a response
\* that has begun is never asked for again ("can't retry").
GivenOnce == given > 1 => failed

\* A request that was forwarded, and is not an upgrade, does not keep its client
\* waiting, whatever the other node and the openHAB do: it is answered, or, served by
\* this node after all, ends when the inactivity timeout does.
ForwardedIsAnswered ==
    hop[First] = "waiting" /\ ~upgrade ~>
        answer[First] # "none" \/ hop[First] \in {"done", "none"}

Reply == IF answer[First] = "tunnel" THEN "openhab" ELSE answer[First]
Promise == INSTANCE ClientRequest WITH given <- given > 0, reply <- Reply

\* However many hops it takes, the client gets one answer, and the openHAB's only
\* if the openHAB was given the request.
ImplementsClientRequest == Promise!RSpec
=============================================================================
