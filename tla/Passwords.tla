----------------------------- MODULE Passwords ------------------------------
(***************************************************************************)
(* The password of one user: signing in, changing it, resetting it with a  *)
(* code, verifying the mail address with another (services/user.service.ts *)
(* and auth.service.ts), and the cache of comparisons each node keeps      *)
(* (models/user.model.ts: checkPassword).                                  *)
(*                                                                         *)
(* checkPassword compares with the hash of a document that was read        *)
(* earlier, and remembers the outcome, right or wrong, for CACHE_TTL_MS.   *)
(* Nothing clears it when the password changes.  A tick is the unit of     *)
(* time; a read and a comparison each take at most Delay ticks.            *)
(*                                                                         *)
(* Operators named Bug... are not part of the model: each is a definition  *)
(* with one mistake, to show that a property would notice it.              *)
(***************************************************************************)
EXTENDS Naturals, FiniteSets

CONSTANTS
    Node,      \* processes, each with its cache
    Password,
    Call,      \* bound: requests handled at a time
    Code,      \* reset codes; bound: there are no others
    Ttl,       \* CACHE_TTL_MS in ticks
    Delay,     \* the longest wait for MongoDB, or for bcrypt, in ticks
    None

ASSUME PasswordsAssumption ==
    /\ Ttl \in Nat /\ Delay \in Nat /\ Delay <= Ttl
    /\ None \notin Password \cup Code

\* How long an answer may be out of date.
Stale == Ttl + Delay

VARIABLES
    password,  \* the one whose hash the user's document holds
    was,       \* for each password, ticks since it was that one; at most Stale + 1
    since,     \* ticks since the password last changed; at most Stale + 1
    codes,     \* the reset codes in MongoDB
    mail,      \* the code that was mailed to verify the address
    verified,  \* the user's verifiedEmail
    spent,     \* the codes that have set a password, as their users were told
    cache,     \* what each node remembers of each password
    call       \* the requests in progress

vars == <<password, was, since, codes, mail, verified, spent, cache, call>>

Idle == [step |-> "idle", job |-> None, node |-> None, tried |-> None, new |-> None,
         code |-> None, seen |-> None, wait |-> 0, late |-> FALSE]

\* An entry of which nothing is left has expired, or was never made.
NoEntry == [result |-> FALSE, left |-> 0]

\* What is kept of a request in progress.
Progress == [step : {"idle", "load", "compare", "find", "set", "mark", "update"},
             job : {"login", "change", "reset", "verify", None}, node : Node \cup {None},
             tried : Password \cup {None}, new : Password \cup {None},
             code : Code \cup {None}, seen : Password \cup {None},
             wait : 0..Delay, late : BOOLEAN]

TypeOK ==
    /\ password \in Password
    /\ was \in [Password -> 0..Stale + 1]
    /\ since \in 0..Stale + 1
    /\ codes \in [Code -> {"none", "open", "used", "expired"}]
    /\ mail \in {"open", "used", "expired"} /\ verified \in BOOLEAN
    /\ spent \subseteq Code
    /\ cache \in [Node -> [Password -> [result : BOOLEAN, left : 0..Ttl]]]
    /\ call \in [Call -> Progress]

Init ==
    /\ password \in Password
    /\ was = [p \in Password |-> IF p = password THEN 0 ELSE Stale + 1]
    /\ since = Stale + 1
    /\ codes = [c \in Code |-> "none"]
    /\ mail = "open" /\ verified = FALSE
    /\ spent = {}
    /\ cache = [n \in Node |-> [p \in Password |-> NoEntry]]
    /\ call = [k \in Call |-> Idle]

stored == <<password, was, since, codes, mail, verified, spent>>

-----------------------------------------------------------------------------
Goto(k, s) == call' = [call EXCEPT ![k].step = s, ![k].wait = 0]

\* The request is answered.
End(k) == call' = [call EXCEPT ![k] = Idle]

\* A command or the comparison fails, or a new password is not complex enough.
Fail(k) ==
    /\ call[k].step # "idle"
    /\ End(k)
    /\ UNCHANGED <<stored, cache>>

-----------------------------------------------------------------------------
(* Signing in, and changing the password.                                  *)

\* Somebody signs in at node n with p (POST /login, Basic): the user is read.
Login(k, n, p) ==
    /\ call[k].step = "idle"
    /\ call' = [call EXCEPT ![k] = [Idle EXCEPT
                   !.step = "load", !.job = "login", !.node = n, !.tried = p, !.seen = password]]
    /\ UNCHANGED <<stored, cache>>

\* POST /accountpassword, with p as the old password.
Change(k, n, p, new) ==
    /\ call[k].step = "idle"
    /\ call' = [call EXCEPT ![k] = [Idle EXCEPT
                   !.step = "load", !.job = "change", !.node = n, !.tried = p, !.new = new,
                   !.seen = password]]
    /\ UNCHANGED <<stored, cache>>

\* checkPassword has answered: a sign-in is over, a change goes on.
Checked(k, result) ==
    IF result /\ call[k].job = "change" THEN Goto(k, "set") ELSE End(k)

\* The document has come, and the cache has an answer.
Hit(k) ==
    LET e == cache[call[k].node][call[k].tried]
    IN  /\ call[k].step = "load" /\ e.left > 0
        /\ Checked(k, e.result)
        /\ UNCHANGED <<stored, cache>>

\* It has none: bcrypt compares, and the entry's time begins now.
Miss(k) ==
    /\ call[k].step = "load" /\ cache[call[k].node][call[k].tried].left = 0
    /\ Goto(k, "compare")
    /\ UNCHANGED <<stored, cache>>

BugCompared(k) ==
    LET right == call[k].seen = call[k].tried
    IN  /\ call[k].step = "compare"
        /\ cache' = [cache EXCEPT ![call[k].node][call[k].tried] =
                        [result |-> right, left |-> Ttl]]
        /\ Checked(k, right)
        /\ UNCHANGED stored

Compared(k) ==
    LET right == call[k].seen = call[k].tried
    IN  /\ call[k].step = "compare"
        /\ cache' = [cache EXCEPT ![call[k].node][call[k].tried] =
                        [result |-> right, left |-> Ttl - call[k].wait]]
        /\ Checked(k, right)
        /\ UNCHANGED stored

\* setPassword; a reset's code is still to be marked.
SetPassword(k) ==
    LET new == call[k].new
    IN  /\ call[k].step = "set"
        /\ password' = new
        /\ was' = [was EXCEPT ![new] = 0]
        /\ since' = IF new = password THEN since ELSE 0
        /\ IF call[k].job = "reset" THEN Goto(k, "mark") ELSE End(k)
        /\ UNCHANGED <<codes, mail, verified, spent, cache>>

-----------------------------------------------------------------------------
(* Resetting the password.                                                 *)

\* POST /lostpassword: whether the mail with it arrives or not, the code is there,
\* and so are the earlier ones.
InitiatePasswordReset(c) ==
    /\ codes[c] = "none"
    /\ codes' = [codes EXCEPT ![c] = "open"]
    /\ UNCHANGED <<password, was, since, mail, verified, spent, cache, call>>

\* POST /lostpasswordreset.
ResetPassword(k, n, c, new) ==
    /\ call[k].step = "idle"
    /\ call' = [call EXCEPT ![k] = [Idle EXCEPT
                   !.step = "find", !.job = "reset", !.node = n, !.code = c, !.new = new,
                   !.late = (c \in spent)]]
    /\ UNCHANGED <<stored, cache>>

BugFindCode(k) ==
    /\ call[k].step = "find" /\ call[k].job = "reset"
    /\ IF codes[call[k].code] \in {"open", "used"} THEN Goto(k, "set") ELSE End(k)
    /\ UNCHANGED <<stored, cache>>

FindCode(k) ==
    /\ call[k].step = "find" /\ call[k].job = "reset"
    /\ IF codes[call[k].code] = "open" THEN Goto(k, "set") ELSE End(k)
    /\ UNCHANGED <<stored, cache>>

\* Only now the user is told that the password is set.
MarkUsed(k) ==
    LET c == call[k].code
    IN  /\ call[k].step = "mark" /\ call[k].job = "reset"
        /\ codes' = [codes EXCEPT ![c] = IF @ = "open" THEN "used" ELSE @]
        /\ spent' = spent \cup {c}
        /\ End(k)
        /\ UNCHANGED <<password, was, since, mail, verified, cache>>

\* MongoDB removes codes of 30 days.
ExpireCode(c) ==
    /\ codes[c] \in {"open", "used"}
    /\ codes' = [codes EXCEPT ![c] = "expired"]
    /\ UNCHANGED <<password, was, since, mail, verified, spent, cache, call>>

-----------------------------------------------------------------------------
(* Verifying the address; the code was sent when the user registered.      *)

\* GET /verify.
VerifyEmail(k, n) ==
    /\ call[k].step = "idle"
    /\ call' = [call EXCEPT ![k] = [Idle EXCEPT !.step = "find", !.job = "verify", !.node = n]]
    /\ UNCHANGED <<stored, cache>>

FindMail(k) ==
    /\ call[k].step = "find" /\ call[k].job = "verify"
    /\ IF mail = "open" THEN Goto(k, "mark") ELSE End(k)
    /\ UNCHANGED <<stored, cache>>

\* The code is marked first: when this is the last that happens, it is lost.
MarkMail(k) ==
    /\ call[k].step = "mark" /\ call[k].job = "verify"
    /\ mail' = IF mail = "open" THEN "used" ELSE mail
    /\ Goto(k, "update")
    /\ UNCHANGED <<password, was, since, codes, verified, spent, cache>>

UpdateVerifiedEmail(k) ==
    /\ call[k].step = "update"
    /\ verified' = TRUE
    /\ End(k)
    /\ UNCHANGED <<password, was, since, codes, mail, spent, cache>>

ExpireMail ==
    /\ mail \in {"open", "used"}
    /\ mail' = "expired"
    /\ UNCHANGED <<password, was, since, codes, verified, spent, cache, call>>

-----------------------------------------------------------------------------
\* Too many entries: the oldest go.
Evict(n, p) ==
    /\ cache[n][p].left > 0
    /\ cache' = [cache EXCEPT ![n][p] = NoEntry]
    /\ UNCHANGED <<stored, call>>

\* A process ends and starts anew.
Restart(n) ==
    /\ cache' = [cache EXCEPT ![n] = [p \in Password |-> NoEntry]]
    /\ call' = [k \in Call |-> IF call[k].node = n THEN Idle ELSE call[k]]
    /\ UNCHANGED stored

\* Calls that wait for a read or a comparison.
Waiting == {k \in Call : call[k].step \in {"load", "compare"}}

More(i) == IF i > Stale THEN i ELSE i + 1

Tick ==
    /\ \A k \in Waiting : call[k].wait < Delay
    /\ call' = [k \in Call |-> IF k \in Waiting THEN [call[k] EXCEPT !.wait = @ + 1] ELSE call[k]]
    /\ cache' = [n \in Node |-> [p \in Password |->
                    IF cache[n][p].left > 1 THEN [cache[n][p] EXCEPT !.left = @ - 1]
                                            ELSE NoEntry]]
    /\ was' = [p \in Password |-> IF p = password THEN 0 ELSE More(was[p])]
    /\ since' = More(since)
    /\ UNCHANGED <<password, codes, mail, verified, spent>>

Handle(k) ==
    \/ Hit(k) \/ Miss(k) \/ Compared(k) \/ SetPassword(k)
    \/ FindCode(k) \/ MarkUsed(k)
    \/ FindMail(k) \/ MarkMail(k) \/ UpdateVerifiedEmail(k)

Next ==
    \/ \E k \in Call : Handle(k) \/ Fail(k)
    \/ \E k \in Call, n \in Node, p \in Password : Login(k, n, p)
    \/ \E k \in Call, n \in Node, p, new \in Password : Change(k, n, p, new)
    \/ \E k \in Call, n \in Node, c \in Code, new \in Password : ResetPassword(k, n, c, new)
    \/ \E k \in Call, n \in Node : VerifyEmail(k, n)
    \/ ExpireMail
    \/ \E c \in Code : InitiatePasswordReset(c) \/ ExpireCode(c)
    \/ \E n \in Node, p \in Password : Evict(n, p)
    \/ \E n \in Node : Restart(n)
    \/ Tick

Spec == Init /\ [][Next]_vars

-----------------------------------------------------------------------------
(* Properties.                                                             *)

\* How old what an entry says may be.
Age(e) == Delay + Ttl - e.left

\* An answer from the cache was right not long ago: a password it accepts was the
\* user's, one it refuses was not, within the last Stale ticks.  So an old password
\* soon ceases to work, and a new one soon works, at every node.
AnswersSettle ==
    \A n \in Node, p \in Password :
        LET e == cache[n][p]
        IN  e.left > 0 => IF e.result THEN was[p] <= Age(e)
                                      ELSE p # password \/ since <= Age(e)

\* How old the document is that a call compares with, at most.
ReadAge(k) == IF call[k].step = "load" THEN call[k].wait ELSE Delay + call[k].wait

\* A call compares with a password that was the user's not long ago.
ReadsSettle ==
    /\ was[password] = 0
    /\ \A k \in Call : call[k].step \in {"load", "compare"} =>
          /\ call[k].tried \in Password /\ call[k].node \in Node /\ call[k].seen \in Password
          /\ was[call[k].seen] <= ReadAge(k)
          /\ password = call[k].seen \/ since <= ReadAge(k)

\* What each node answers is at most Stale ticks out of date, whatever is forgotten,
\* evicted, restarted or read late.
PasswordsHold == TypeOK /\ ReadsSettle /\ AnswersSettle

\* A code that has set a password, as its user was told, sets none again.
CodeSpent == \A k \in Call : call[k].late => call[k].step = "find"
====
