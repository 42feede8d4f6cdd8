------------------------------- MODULE Grants -------------------------------
(***************************************************************************)
(* The OAuth2 server: codes a user grants to a client, the tokens clients  *)
(* exchange them for (controllers/oauth2.controller.ts), requests with a   *)
(* token, such as IFTTT's (services/auth.service.ts validateBearerToken,   *)
(* controllers/ifttt.controller.ts), and their revocation                  *)
(* (controllers/applications.controller.ts).                               *)
(*                                                                         *)
(* Each command to MongoDB is an action; a request may end before any of   *)
(* them (Fail).  Accounts are deleted as in module Accounts; here their    *)
(* users just go.  An exchange looks at the code's client and address, but *)
(* not at whether the code was invalidated.                                *)
(*                                                                         *)
(* Operators named Bug... are not part of the model: each is a definition  *)
(* with one mistake, to show that a property would notice it.              *)
(***************************************************************************)
EXTENDS Naturals, FiniteSets

CONSTANTS
    User,
    Client,   \* the registered applications, all active
    Grant,    \* codes; bound: there are no others
    Token,    \* access tokens; bound: there are no others
    Request,  \* bound: requests handled at a time
    None

VARIABLES
    users,    \* those who exist
    openhabs, \* the users whose account has an openHAB
    grants,    \* what is stored of each code
    tokens,   \* and of each token; history: holder, whose exchange made it
    req       \* the requests in progress

vars == <<users, openhabs, grants, tokens, req>>
stored == <<users, openhabs, grants, tokens>>

NoCode == [user |-> None, client |-> None, valid |-> FALSE]
NoToken == [user |-> None, client |-> None, grant |-> None, holder |-> None,
            state |-> "none"]
Done == [step |-> "idle", job |-> None, user |-> None, client |-> None,
         grant |-> None, token |-> None, late |-> FALSE]

Init ==
    /\ users = User /\ openhabs = User
    /\ grants = [g \in Grant |-> NoCode]
    /\ tokens = [t \in Token |-> NoToken]
    /\ req = [r \in Request |-> Done]

Begin(r, new) == req[r].step = "idle" /\ req' = [req EXCEPT ![r] = new]
Turn(r, s) == req' = [req EXCEPT ![r].step = s]
Finish(r) == req' = [req EXCEPT ![r] = Done]

Fail(r) == req[r].step # "idle" /\ Finish(r) /\ UNCHANGED stored

-----------------------------------------------------------------------------
(* The user's decision.                                                    *)

\* POST /oauth2/authorize/decision of a user in whose session the transaction of
\* GET /oauth2/authorize names client c; the user allows it.
Decide(r, u, c) ==
    /\ u \in users
    /\ Begin(r, [Done EXCEPT !.step = "grant", !.job = "decide", !.user = u, !.client = c])
    /\ UNCHANGED stored

CreateCode(r, g) ==
    /\ req[r].step = "grant" /\ grants[g] = NoCode
    /\ grants' = [grants EXCEPT ![g] = [user |-> req[r].user, client |-> req[r].client,
                                      valid |-> TRUE]]
    /\ Finish(r)
    /\ UNCHANGED <<users, openhabs, tokens>>

-----------------------------------------------------------------------------
(* The exchange.                                                           *)

\* POST /oauth2/token of client c, which has proved who it is.
Exchange(r, c, g) ==
    /\ grants[g] # NoCode
    /\ Begin(r, [Done EXCEPT !.step = "code", !.job = "exchange", !.client = c, !.grant = g])
    /\ UNCHANGED stored

BugFindsAnyCode(r) ==
    /\ req[r].step = "code"
    /\ Turn(r, "issue")
    /\ UNCHANGED stored

FindCode(r) ==
    /\ req[r].step = "code"
    /\ IF grants[req[r].grant].client = req[r].client THEN Turn(r, "issue") ELSE Finish(r)
    /\ UNCHANGED stored

\* The token is for the user and the client of the code; the one that asked gets it.
CreateToken(r, t) ==
    LET g == req[r].grant
    IN  /\ req[r].step = "issue" /\ tokens[t] = NoToken
        /\ tokens' = [tokens EXCEPT ![t] = [user |-> grants[g].user, client |-> grants[g].client,
                                            grant |-> g, holder |-> req[r].client,
                                            state |-> "held"]]
        /\ Turn(r, "invalidate")
        /\ UNCHANGED <<users, openhabs, grants>>

Invalidate(r) ==
    /\ req[r].step = "invalidate"
    /\ grants' = [grants EXCEPT ![req[r].grant].valid = FALSE]
    /\ Finish(r)
    /\ UNCHANGED <<users, openhabs, tokens>>

-----------------------------------------------------------------------------
(* Requests with a token.                                                  *)

\* A token is out of use when its user revoked it, or is gone.
OutOfUse(t) == tokens[t].state = "revoked" \/ tokens[t].user \notin users

Bearer(r, t) ==
    /\ tokens[t] # NoToken
    /\ Begin(r, [Done EXCEPT !.step = "token", !.job = "bearer", !.token = t,
                             !.late = OutOfUse(t)])
    /\ UNCHANGED stored

FindToken(r) ==
    LET t == tokens[req[r].token]
    IN  /\ req[r].step = "token"
        /\ req' = [req EXCEPT ![r] =
                     IF t.state = "held" THEN [@ EXCEPT !.step = "user", !.user = t.user] ELSE Done]
        /\ UNCHANGED stored

\* Users are always active.
FindOwner(r) ==
    /\ req[r].step = "user"
    /\ IF req[r].user \in users THEN Turn(r, "openhab") ELSE Finish(r)
    /\ UNCHANGED stored

\* setOpenhab, and the triggers' own lookup.
FindTheirOpenhab(r) ==
    /\ req[r].step = "openhab"
    /\ IF req[r].user \in openhabs THEN Turn(r, "act") ELSE Finish(r)
    /\ UNCHANGED stored

\* A command goes to the openHAB, or its items or events to the client.
Act(r) ==
    /\ req[r].step = "act"
    /\ Finish(r)
    /\ UNCHANGED stored

-----------------------------------------------------------------------------
(* Revocation.                                                             *)

\* GET /applications/:id/delete, of any token.
Revoke(r, u, t) ==
    /\ u \in users /\ tokens[t] # NoToken
    /\ Begin(r, [Done EXCEPT !.step = "find", !.job = "revoke", !.user = u, !.token = t])
    /\ UNCHANGED stored

FindOwnToken(r) ==
    LET t == tokens[req[r].token]
    IN  /\ req[r].step = "find"
        /\ IF t.state = "held" /\ t.user = req[r].user THEN Turn(r, "delete") ELSE Finish(r)
        /\ UNCHANGED stored

DeleteToken(r) ==
    /\ req[r].step = "delete"
    /\ tokens' = [tokens EXCEPT ![req[r].token].state = "revoked"]
    /\ Finish(r)
    /\ UNCHANGED <<users, openhabs, grants>>

\* deleteAccount, seen from here; a master may also delete just the user.
DropTokens(u) ==
    /\ \E t \in Token : tokens[t].user = u /\ tokens[t].state = "held"
    /\ tokens' = [t \in Token |-> IF tokens[t].user = u
                                  THEN [tokens[t] EXCEPT !.state = "revoked"] ELSE tokens[t]]
    /\ UNCHANGED <<users, openhabs, grants, req>>

DropOpenhab(u) ==
    /\ u \in openhabs
    /\ openhabs' = openhabs \ {u}
    /\ UNCHANGED <<users, grants, tokens, req>>

DropOwner(u) ==
    /\ u \in users
    /\ users' = users \ {u}
    /\ UNCHANGED <<openhabs, grants, tokens, req>>

Next ==
    \/ \E r \in Request :
        \/ \E u \in User, c \in Client : Decide(r, u, c)
        \/ \E g \in Grant : CreateCode(r, g)
        \/ \E c \in Client, g \in Grant : Exchange(r, c, g)
        \/ FindCode(r) \/ Invalidate(r)
        \/ \E t \in Token : CreateToken(r, t) \/ Bearer(r, t)
        \/ FindToken(r) \/ FindOwner(r) \/ FindTheirOpenhab(r) \/ Act(r)
        \/ \E u \in User, t \in Token : Revoke(r, u, t)
        \/ FindOwnToken(r) \/ DeleteToken(r)
        \/ Fail(r)
    \/ \E u \in User : DropTokens(u) \/ DropOpenhab(u) \/ DropOwner(u)

Spec == Init /\ [][Next]_vars

-----------------------------------------------------------------------------
(* Properties.                                                             *)

\* What is kept of a request in progress.
Progress == [step : {"idle", "grant", "code", "issue", "invalidate", "token", "user",
                     "openhab", "act", "find", "delete"},
             job : {"decide", "exchange", "bearer", "revoke", None},
             user : User \cup {None}, client : Client \cup {None},
             grant : Grant \cup {None}, token : Token \cup {None}, late : BOOLEAN]

TypeOK ==
    /\ users \subseteq User /\ openhabs \subseteq User
    /\ grants \in [Grant -> [user : User \cup {None}, client : Client \cup {None}, valid : BOOLEAN]]
    /\ tokens \in [Token -> [user : User \cup {None}, client : Client \cup {None},
                             grant : Grant \cup {None}, holder : Client \cup {None},
                             state : {"none", "held", "revoked"}]]
    /\ req \in [Request -> Progress]

\* Every token is for the user who allowed it and the client that was allowed, and
\* was made for that client.
AsGranted ==
    \A t \in Token : tokens[t] # NoToken =>
        /\ tokens[t].user = grants[tokens[t].grant].user
        /\ tokens[t].client = grants[tokens[t].grant].client
        /\ tokens[t].holder = grants[tokens[t].grant].client

\* A request that came after its token was revoked, or its user deleted, gets no
\* further than the lookups of these two.
RevokedForGood ==
    \A r \in Request : req[r].late => req[r].step \in {"token", "user"}

\* Tokens give what was granted, to whom it was granted, until it is taken back -
\* however grants, exchanges, revocations and deletions of users overlap.
GrantsHold == TypeOK /\ AsGranted /\ RevokedForGood
====
