------------------------- MODULE CredentialsProofs -------------------------
(***************************************************************************)
(* How long an old password may be accepted and a new one refused, and     *)
(* that a code counts once, for any nodes, passwords, codes, requests,     *)
(* cache time and delay.  And that tokens give what was granted until it   *)
(* is taken back, for any users, clients, codes, tokens and requests.      *)
(***************************************************************************)
EXTENDS Credentials, TLAPS

\* What is stored; a code that was spent is not open again.
StoredWell ==
    /\ password \in Password
    /\ was \in [Password -> 0..Stale + 1] /\ was[password] = 0
    /\ since \in 0..Stale + 1
    /\ codes \in [Code -> {"none", "open", "used", "expired"}]
    /\ mail \in {"open", "used", "expired"} /\ verified \in BOOLEAN
    /\ spent \subseteq Code
    /\ \A c \in spent : codes[c] \in {"used", "expired"}

Entry == [result : BOOLEAN, left : 0..Ttl]

CacheWell ==
    /\ cache \in [Node -> [Password -> Entry]]
    /\ AnswersSettle

\* The document that x compares with was right at most a ticks ago.
Read(x, a) ==
    /\ x.tried \in Password /\ x.node \in Node /\ x.seen \in Password
    /\ was[x.seen] <= a
    /\ password = x.seen \/ since <= a

\* A request in progress.
Sound(x) ==
    /\ x \in Progress
    /\ x.step = "load" => Read(x, x.wait)
    /\ x.step = "compare" => Read(x, Delay + x.wait)
    /\ x.step # "idle" /\ x.job \in {"change", "reset"} => x.new \in Password
    /\ x.step # "idle" /\ x.job = "reset" => x.code \in Code
    /\ x.step = "set" => x.job \in {"change", "reset"}
    /\ x.job = "reset" /\ x.step \in {"set", "mark"} => codes[x.code] # "none"
    /\ x.late => x.step = "find" /\ x.job = "reset" /\ x.code \in spent

CallsWell ==
    /\ call \in [Call -> Progress]
    /\ \A k \in Call : Sound(call[k])

\* The inductive invariant.
PasswordsInv == StoredWell /\ CacheWell /\ CallsWell

LEMMA StaleType == Stale \in Nat /\ Ttl \in Nat /\ Delay \in Nat /\ Delay <= Ttl
BY PasswordsAssumption DEF Stale

LEMMA InvHolds == PasswordsInv => PasswordsHold /\ CodeSpent
<1> SUFFICES ASSUME PasswordsInv PROVE PasswordsHold /\ CodeSpent
  OBVIOUS
<1>1. TypeOK
  BY DEF PasswordsInv, StoredWell, CacheWell, CallsWell, Entry, TypeOK
<1>2. ReadsSettle
  <2>1. ASSUME NEW k \in Call, call[k].step \in {"load", "compare"}
        PROVE  Read(call[k], ReadAge(k))
    BY <2>1 DEF PasswordsInv, CallsWell, Sound, ReadAge
  <2>2. QED
    BY <2>1 DEF Read, ReadsSettle, PasswordsInv, StoredWell
<1>3. CodeSpent
  BY DEF PasswordsInv, CallsWell, Sound, CodeSpent
<1>4. QED
  BY <1>1, <1>2, <1>3 DEF PasswordsHold, PasswordsInv, CacheWell

LEMMA IdleSound == Idle \in Progress /\ Sound(Idle)
<1>1. Idle \in Progress
  BY StaleType DEF Idle, Progress
<1>2. Idle.step = "idle" /\ ~Idle.late
  BY DEF Idle
<1>3. QED
  BY <1>1, <1>2 DEF Sound

LEMMA NoEntryType == NoEntry \in Entry
BY StaleType DEF NoEntry, Entry

LEMMA PasswordsInit == Init => PasswordsInv
<1> SUFFICES ASSUME Init PROVE PasswordsInv
  OBVIOUS
<1>1. StoredWell
  <2>1. 0 \in 0..Stale + 1 /\ Stale + 1 \in 0..Stale + 1
    BY StaleType
  <2>2. was \in [Password -> 0..Stale + 1] /\ was[password] = 0 /\ password \in Password
    BY <2>1 DEF Init
  <2>3. QED
    BY <2>1, <2>2 DEF Init, StoredWell
<1>2. CacheWell
  <2>1. cache \in [Node -> [Password -> Entry]]
    BY NoEntryType DEF Init
  <2>2. \A n \in Node, p \in Password : cache[n][p].left = 0
    BY DEF Init, NoEntry
  <2>3. QED
    BY <2>1, <2>2 DEF CacheWell, AnswersSettle
<1>3. CallsWell
  BY IdleSound DEF Init, CallsWell
<1>4. QED
  BY <1>1, <1>2, <1>3 DEF PasswordsInv

-----------------------------------------------------------------------------
(* What a step, but for a tick, leaves of what caches and requests rely    *)
(* on: nothing becomes older, and no code is forgotten.                    *)

Kept ==
    /\ \A p \in Password : was'[p] \in 0..was[p]
    /\ UNCHANGED <<password, since>> \/ since' = 0
    /\ \A c \in Code : codes[c] # "none" => codes'[c] # "none"
    /\ spent \subseteq spent'

LEMMA StoredKept == StoredWell /\ UNCHANGED stored => Kept /\ StoredWell'
<1> SUFFICES ASSUME StoredWell, UNCHANGED stored PROVE Kept /\ StoredWell'
  OBVIOUS
<1>1. Kept
  BY StaleType DEF StoredWell, stored, Kept
<1>2. StoredWell'
  BY DEF StoredWell, stored
<1>3. QED
  BY <1>1, <1>2

LEMMA ReadStays ==
    ASSUME StoredWell, Kept, NEW x, NEW a \in Nat, Read(x, a)
    PROVE  Read(x, a)'
BY StaleType DEF StoredWell, Kept, Read

LEMMA SoundStays ==
    ASSUME StoredWell, Kept, NEW x, Sound(x)
    PROVE  Sound(x)'
<1>1. x.wait \in Nat /\ Delay + x.wait \in Nat
  BY StaleType DEF Sound, Progress
<1>2. x.step = "load" => Read(x, x.wait)'
  BY <1>1, ReadStays DEF Sound
<1>3. x.step = "compare" => Read(x, Delay + x.wait)'
  BY <1>1, ReadStays DEF Sound
<1>4. QED
  BY <1>2, <1>3 DEF Sound, Kept

LEMMA CacheStays ==
    ASSUME StoredWell, Kept, CacheWell, UNCHANGED cache
    PROVE  CacheWell'
<1>1. ASSUME NEW n \in Node, NEW p \in Password
      PROVE  LET e == cache[n][p]
             IN  e.left > 0 => IF e.result THEN was'[p] <= Age(e)
                                           ELSE p # password' \/ since' <= Age(e)
  <2>1. cache[n][p] \in Entry
    BY DEF CacheWell
  <2>2. cache[n][p].left \in 0..Ttl /\ cache[n][p].result \in BOOLEAN
    BY <2>1 DEF Entry
  <2>3. Age(cache[n][p]) \in Nat
    BY <2>2, StaleType DEF Age
  <2>4. QED
    BY <2>2, <2>3, StaleType DEF StoredWell, Kept, CacheWell, AnswersSettle
<1>2. QED
  BY <1>1 DEF CacheWell, AnswersSettle, Age

\* One request goes on, as x.
LEMMA CallStep ==
    ASSUME StoredWell, CallsWell, Kept, NEW k \in Call, NEW x, Sound(x)',
           call' = [call EXCEPT ![k] = x]
    PROVE  CallsWell'
<1>1. x \in Progress
  BY DEF Sound
<1>2. call' \in [Call -> Progress]
  BY <1>1 DEF CallsWell
<1>3. ASSUME NEW j \in Call PROVE Sound(call[j])'
  <2>1. CASE j = k
    <3>1. call'[j] = x
      BY <2>1 DEF CallsWell
    <3>2. QED
      BY <3>1 DEF Sound, Read
  <2>2. CASE j # k
    <3>1. call'[j] = call[j]
      BY <2>2 DEF CallsWell
    <3>2. Sound(call[j])
      BY DEF CallsWell
    <3>3. QED
      BY <3>1, <3>2, SoundStays DEF Sound, Read
  <2>3. QED
    BY <2>1, <2>2
<1>4. QED
  BY <1>2, <1>3 DEF CallsWell

\* It ends.
LEMMA EndStep ==
    ASSUME StoredWell, CallsWell, Kept, NEW k \in Call, End(k)
    PROVE  CallsWell'
BY IdleSound, SoundStays, CallStep DEF End

\* None goes on.
LEMMA RestStep ==
    ASSUME StoredWell, CallsWell, Kept, UNCHANGED call
    PROVE  CallsWell'
<1>1. ASSUME NEW j \in Call PROVE Sound(call[j])'
  <2>1. Sound(call[j])
    BY DEF CallsWell
  <2>2. QED
    BY <2>1, SoundStays DEF Sound, Read
<1>2. QED
  BY <1>1 DEF CallsWell

-----------------------------------------------------------------------------
(* Steps that change nothing but a request.                                *)

LEMMA QuietStep ==
    ASSUME PasswordsInv, UNCHANGED <<stored, cache>>, NEW k \in Call, NEW x, Sound(x),
           call' = [call EXCEPT ![k] = x]
    PROVE  PasswordsInv'
BY StoredKept, CacheStays, SoundStays, CallStep DEF PasswordsInv

LEMMA QuietEnd ==
    ASSUME PasswordsInv, UNCHANGED <<stored, cache>>, NEW k \in Call, End(k)
    PROVE  PasswordsInv'
BY IdleSound, QuietStep DEF End

\* Requests arrive; the document a sign-in or a change reads is the present one.
LEMMA ArrivalStep ==
    ASSUME PasswordsInv, NEW k \in Call, NEW n \in Node,
           \/ \E p \in Password : Login(k, n, p)
           \/ \E p, new \in Password : Change(k, n, p, new)
           \/ \E c \in Code, new \in Password : ResetPassword(k, n, c, new)
           \/ VerifyEmail(k, n)
    PROVE  PasswordsInv'
<1>0. /\ password \in Password /\ was[password] <= 0
      /\ 0 \in 0..Delay
  BY StaleType DEF PasswordsInv, StoredWell
<1>1. ASSUME NEW p \in Password, Login(k, n, p) PROVE PasswordsInv'
  <2> DEFINE x == [Idle EXCEPT !.step = "load", !.job = "login", !.node = n, !.tried = p,
                               !.seen = password]
  <2>1. x \in Progress
    BY <1>0 DEF Idle, Progress
  <2>2. Sound(x)
    BY <1>0, <2>1 DEF Sound, Read, Idle
  <2>3. QED
    BY <1>1, <2>2, QuietStep DEF Login
<1>2. ASSUME NEW p \in Password, NEW new \in Password, Change(k, n, p, new)
      PROVE  PasswordsInv'
  <2> DEFINE x == [Idle EXCEPT !.step = "load", !.job = "change", !.node = n, !.tried = p,
                               !.new = new, !.seen = password]
  <2>1. x \in Progress
    BY <1>0 DEF Idle, Progress
  <2>2. Sound(x)
    BY <1>0, <2>1 DEF Sound, Read, Idle
  <2>3. QED
    BY <1>2, <2>2, QuietStep DEF Change
<1>3. ASSUME NEW c \in Code, NEW new \in Password, ResetPassword(k, n, c, new)
      PROVE  PasswordsInv'
  <2> DEFINE x == [Idle EXCEPT !.step = "find", !.job = "reset", !.node = n, !.code = c,
                               !.new = new, !.late = (c \in spent)]
  <2>1. x \in Progress
    <3>1. (c \in spent) \in BOOLEAN
      OBVIOUS
    <3>2. QED
      BY <1>0, <3>1 DEF Idle, Progress
  <2>2. Sound(x)
    BY <1>0, <2>1 DEF Sound, Idle
  <2>3. QED
    BY <1>3, <2>2, QuietStep DEF ResetPassword
<1>4. ASSUME VerifyEmail(k, n) PROVE PasswordsInv'
  <2> DEFINE x == [Idle EXCEPT !.step = "find", !.job = "verify", !.node = n]
  <2>1. x \in Progress
    BY <1>0 DEF Idle, Progress
  <2>2. Sound(x)
    BY <1>0, <2>1 DEF Sound, Idle
  <2>3. QED
    BY <1>4, <2>2, QuietStep DEF VerifyEmail
<1>5. QED
  BY <1>1, <1>2, <1>3, <1>4

\* A request in progress, one step further.
Further(k, s) == [call[k] EXCEPT !.step = s, !.wait = 0]

LEMMA FurtherType ==
    ASSUME PasswordsInv, NEW k \in Call,
           NEW s \in {"load", "compare", "find", "set", "mark", "update"}
    PROVE  /\ call[k] \in Progress /\ Sound(call[k])
           /\ Further(k, s) \in Progress
           /\ Further(k, s).step = s /\ Further(k, s).wait = 0
           /\ Further(k, s).job = call[k].job /\ Further(k, s).new = call[k].new
           /\ Further(k, s).code = call[k].code /\ Further(k, s).late = call[k].late
           /\ Further(k, s).tried = call[k].tried /\ Further(k, s).seen = call[k].seen
           /\ Further(k, s).node = call[k].node
           /\ Goto(k, s) => call' = [call EXCEPT ![k] = Further(k, s)]
<1>1. call[k] \in Progress /\ Sound(call[k]) /\ 0 \in 0..Delay
  BY StaleType DEF PasswordsInv, CallsWell
<1>2. Goto(k, s) => call' = [call EXCEPT ![k] = Further(k, s)]
  BY DEF PasswordsInv, CallsWell, Goto, Further
<1>3. QED
  BY <1>1, <1>2 DEF Further, Progress

\* checkPassword has answered.
LEMMA CheckedSound ==
    ASSUME PasswordsInv, NEW k \in Call, call[k].step \in {"load", "compare"},
           NEW result, Checked(k, result)
    PROVE  \E x : Sound(x) /\ call' = [call EXCEPT ![k] = x]
<1>1. CASE result /\ call[k].job = "change"
  <2>1. Sound(Further(k, "set"))
    BY <1>1, FurtherType DEF Sound
  <2>2. QED
    BY <1>1, <2>1, FurtherType DEF Checked
<1>2. QED
  BY <1>1, IdleSound DEF Checked, End

LEMMA LookupStep ==
    ASSUME PasswordsInv, NEW k \in Call,
           Hit(k) \/ Miss(k) \/ FindCode(k) \/ FindMail(k) \/ Fail(k)
    PROVE  PasswordsInv'
<1>1. ASSUME Hit(k) PROVE PasswordsInv'
  <2>1. \E x : Sound(x) /\ call' = [call EXCEPT ![k] = x]
    BY <1>1, CheckedSound DEF Hit
  <2>2. QED
    BY <1>1, <2>1, QuietStep DEF Hit
<1>2. ASSUME Miss(k) PROVE PasswordsInv'
  <2>1. call[k].step = "load" /\ Read(call[k], call[k].wait) /\ call[k].wait \in 0..Delay
    BY <1>2, FurtherType DEF Miss, Sound, Progress
  <2>2. Read(Further(k, "compare"), Delay)
    <3>1. was[call[k].seen] \in Nat /\ since \in Nat
      BY <2>1, StaleType DEF Read, PasswordsInv, StoredWell
    <3>2. QED
      BY <2>1, <3>1, FurtherType, StaleType DEF Read
  <2>3. Sound(Further(k, "compare"))
    BY <2>1, <2>2, FurtherType, StaleType DEF Sound
  <2>4. QED
    BY <1>2, <2>3, FurtherType, QuietStep DEF Miss
<1>3. ASSUME FindCode(k) PROVE PasswordsInv'
  <2>1. CASE codes[call[k].code] = "open"
    <3>1. ~call[k].late
      BY <1>3, <2>1, FurtherType DEF Sound, FindCode, PasswordsInv, StoredWell
    <3>2. Sound(Further(k, "set"))
      BY <1>3, <2>1, <3>1, FurtherType DEF Sound, FindCode
    <3>3. QED
      BY <1>3, <2>1, <3>2, FurtherType, QuietStep DEF FindCode
  <2>2. QED
    BY <1>3, <2>1, QuietEnd DEF FindCode
<1>4. ASSUME FindMail(k) PROVE PasswordsInv'
  <2>1. CASE mail = "open"
    <3>1. Sound(Further(k, "mark"))
      BY <1>4, FurtherType DEF Sound, FindMail
    <3>2. QED
      BY <1>4, <2>1, <3>1, FurtherType, QuietStep DEF FindMail
  <2>2. QED
    BY <1>4, <2>1, QuietEnd DEF FindMail
<1>5. QED
  BY <1>1, <1>2, <1>3, <1>4, QuietEnd DEF Fail

-----------------------------------------------------------------------------
(* Steps that change what is stored.                                       *)

LEMMA SetPasswordStep ==
    ASSUME PasswordsInv, NEW k \in Call, SetPassword(k)
    PROVE  PasswordsInv'
<1> DEFINE new == call[k].new
<1>1. /\ Sound(call[k]) /\ call[k].step = "set" /\ new \in Password
      /\ call[k].job \in {"change", "reset"}
  BY DEF PasswordsInv, CallsWell, SetPassword, Sound
<1>2. /\ password' = new /\ was' = [was EXCEPT ![new] = 0]
      /\ since' = IF new = password THEN since ELSE 0
      /\ UNCHANGED <<codes, mail, verified, spent, cache>>
  BY DEF SetPassword
<1>3. StoredWell'
  BY <1>1, <1>2, StaleType DEF PasswordsInv, StoredWell
<1>4. Kept
  BY <1>1, <1>2, StaleType DEF PasswordsInv, StoredWell, Kept
<1>5. CallsWell'
  <2>1. CASE call[k].job = "reset"
    <3>1. Sound(Further(k, "mark"))
      BY <1>1, <2>1, FurtherType DEF Sound
    <3>2. QED
      BY <2>1, <1>4, <3>1, FurtherType, SoundStays, CallStep DEF SetPassword, PasswordsInv
  <2>2. QED
    BY <2>1, <1>4, EndStep DEF SetPassword, PasswordsInv
<1>6. QED
  BY <1>2, <1>3, <1>4, <1>5, CacheStays DEF PasswordsInv

LEMMA MarkStep ==
    ASSUME PasswordsInv, NEW k \in Call,
           MarkUsed(k) \/ MarkMail(k) \/ UpdateVerifiedEmail(k)
    PROVE  PasswordsInv'
<1>1. ASSUME MarkUsed(k) PROVE PasswordsInv'
  <2> DEFINE c == call[k].code
  <2>1. c \in Code /\ codes[c] # "none"
    BY <1>1 DEF PasswordsInv, CallsWell, Sound, MarkUsed
  <2>2. /\ codes' = [codes EXCEPT ![c] = IF codes[c] = "open" THEN "used" ELSE codes[c]]
        /\ spent' = spent \cup {c} /\ End(k)
        /\ UNCHANGED <<password, was, since, mail, verified, cache>>
    BY <1>1 DEF MarkUsed
  <2>3. StoredWell'
    BY <2>1, <2>2 DEF PasswordsInv, StoredWell
  <2>4. Kept
    BY <2>1, <2>2, StaleType DEF PasswordsInv, StoredWell, Kept
  <2>5. QED
    BY <2>2, <2>3, <2>4, CacheStays, EndStep DEF PasswordsInv
<1>2. ASSUME MarkMail(k) PROVE PasswordsInv'
  <2>1. StoredWell' /\ Kept
    BY <1>2, StaleType DEF PasswordsInv, StoredWell, Kept, MarkMail
  <2>2. Sound(Further(k, "update"))
    BY <1>2, FurtherType DEF Sound, MarkMail
  <2>3. CallsWell'
    BY <1>2, <2>1, <2>2, FurtherType, SoundStays, CallStep DEF PasswordsInv, MarkMail
  <2>4. QED
    BY <1>2, <2>1, <2>3, CacheStays DEF PasswordsInv, MarkMail
<1>3. ASSUME UpdateVerifiedEmail(k) PROVE PasswordsInv'
  <2>1. StoredWell' /\ Kept
    BY <1>3, StaleType DEF PasswordsInv, StoredWell, Kept, UpdateVerifiedEmail
  <2>2. QED
    BY <1>3, <2>1, CacheStays, EndStep DEF PasswordsInv, UpdateVerifiedEmail
<1>4. QED
  BY <1>1, <1>2, <1>3

\* Codes are made, and expire.
LEMMA CodeStep ==
    ASSUME PasswordsInv,
           ExpireMail \/ \E c \in Code : InitiatePasswordReset(c) \/ ExpireCode(c)
    PROVE  PasswordsInv'
<1>1. UNCHANGED <<cache, call>>
  BY DEF ExpireMail, InitiatePasswordReset, ExpireCode
<1>2. StoredWell'
  BY DEF PasswordsInv, StoredWell, ExpireMail, InitiatePasswordReset, ExpireCode
<1>3. Kept
  BY StaleType DEF PasswordsInv, StoredWell, Kept, ExpireMail, InitiatePasswordReset, ExpireCode
<1>4. QED
  BY <1>1, <1>2, <1>3, CacheStays, RestStep DEF PasswordsInv

-----------------------------------------------------------------------------
(* Steps of a node's cache.                                                *)

\* What an entry says of a password is right, or was so lately enough.
Right(p, e) ==
    e.left > 0 => IF e.result THEN was[p] <= Age(e) ELSE p # password \/ since <= Age(e)

LEMMA CacheMeans ==
    CacheWell <=> /\ cache \in [Node -> [Password -> Entry]]
                  /\ \A n \in Node, p \in Password : Right(p, cache[n][p])
BY DEF CacheWell, AnswersSettle, Right

LEMMA NoEntryRight == \A p : Right(p, NoEntry)
BY DEF Right, NoEntry

\* One entry becomes e.
LEMMA EntryStep ==
    ASSUME CacheWell, UNCHANGED stored, NEW n \in Node, NEW p \in Password,
           NEW e \in Entry, Right(p, e), cache' = [cache EXCEPT ![n][p] = e]
    PROVE  CacheWell'
<1>1. cache \in [Node -> [Password -> Entry]]
  BY DEF CacheWell
<1>2. cache' \in [Node -> [Password -> Entry]]
  BY <1>1
<1>3. ASSUME NEW m \in Node, NEW q \in Password PROVE Right(q, cache'[m][q])
  <2>1. cache'[m][q] \in {cache[m][q], e} /\ (m = n /\ q = p => cache'[m][q] = e)
        /\ (~(m = n /\ q = p) => cache'[m][q] = cache[m][q])
    BY <1>1
  <2>2. Right(q, cache[m][q])
    BY CacheMeans
  <2>3. CASE m = n /\ q = p
    BY <2>1, <2>3
  <2>4. CASE ~(m = n /\ q = p)
    BY <2>1, <2>2, <2>4
  <2>5. QED
    BY <2>3, <2>4
<1>4. \A m \in Node, q \in Password : Right(q, cache[m][q])'
  BY <1>3 DEF Right, Age, stored
<1>5. QED
  BY <1>2, <1>4, CacheMeans DEF CacheWell, AnswersSettle, Right

\* What was compared was right when it was read, Delay at most before bcrypt began.
LEMMA ComparedStep ==
    ASSUME PasswordsInv, NEW k \in Call, Compared(k)
    PROVE  PasswordsInv'
<1> DEFINE p == call[k].tried
           n == call[k].node
           right == call[k].seen = p
           e == [result |-> right, left |-> Ttl - call[k].wait]
<1>1. /\ call[k].step = "compare" /\ Read(call[k], Delay + call[k].wait)
      /\ call[k].wait \in 0..Delay
  BY DEF PasswordsInv, CallsWell, Sound, Progress, Compared
<1>2. n \in Node /\ p \in Password
  BY <1>1 DEF Read
<1>3. e \in Entry /\ e.left = Ttl - call[k].wait /\ e.result = right
  <2>1. right \in BOOLEAN /\ Ttl - call[k].wait \in 0..Ttl
    BY <1>1, StaleType
  <2>2. QED
    BY <2>1 DEF Entry
<1>4. Right(p, e)
  <2>1. Age(e) = Delay + call[k].wait
    BY <1>1, <1>3, StaleType DEF Age
  <2>2. CASE right
    BY <1>1, <1>3, <2>1, <2>2 DEF Read, Right
  <2>3. CASE ~right
    BY <1>1, <1>3, <2>1, <2>3 DEF Read, Right
  <2>4. QED
    BY <2>2, <2>3
<1>5. CacheWell' /\ StoredWell' /\ Kept
  <2>1. cache' = [cache EXCEPT ![n][p] = e] /\ UNCHANGED stored
    BY DEF Compared
  <2>2. QED
    BY <1>2, <1>3, <1>4, <2>1, EntryStep, StoredKept DEF PasswordsInv
<1>6. \E x : Sound(x) /\ call' = [call EXCEPT ![k] = x]
  BY <1>1, CheckedSound DEF Compared
<1>7. QED
  BY <1>5, <1>6, SoundStays, CallStep DEF PasswordsInv

LEMMA EvictStep ==
    ASSUME PasswordsInv, NEW n \in Node, NEW p \in Password, Evict(n, p)
    PROVE  PasswordsInv'
BY NoEntryType, NoEntryRight, EntryStep, StoredKept, RestStep DEF Evict, PasswordsInv, stored

LEMMA RestartStep ==
    ASSUME PasswordsInv, NEW n \in Node, Restart(n)
    PROVE  PasswordsInv'
<1>1. StoredWell' /\ Kept
  BY StoredKept DEF Restart, PasswordsInv
<1>2. CacheWell'
  <2>1. cache' \in [Node -> [Password -> Entry]]
    BY NoEntryType DEF Restart, PasswordsInv, CacheWell
  <2>2. \A m \in Node, q \in Password :
            cache'[m][q] = NoEntry \/ cache'[m][q] = cache[m][q]
    BY DEF Restart, PasswordsInv, CacheWell
  <2>3. UNCHANGED <<was, since, password>>
    BY DEF Restart, stored
  <2>4. \A m \in Node, q \in Password : Right(q, cache'[m][q])
    BY <2>2, NoEntryRight, CacheMeans DEF PasswordsInv
  <2>5. QED
    BY <2>1, <2>3, <2>4 DEF CacheWell, AnswersSettle, Right, Age
<1>3. CallsWell'
  <2>1. call' \in [Call -> Progress]
    BY IdleSound DEF Restart, PasswordsInv, CallsWell
  <2>2. ASSUME NEW j \in Call PROVE Sound(call[j])'
    <3>1. call'[j] \in {Idle, call[j]} /\ Sound(call[j])
      BY DEF Restart, PasswordsInv, CallsWell
    <3>2. \A x : Sound(x) => Sound(x)'
      BY <1>1, SoundStays DEF PasswordsInv
    <3>3. QED
      BY <3>1, <3>2, IdleSound DEF Sound, Read
  <2>3. QED
    BY <2>1, <2>2 DEF CallsWell
<1>4. QED
  BY <1>1, <1>2, <1>3 DEF PasswordsInv

-----------------------------------------------------------------------------
(* A tick: what was right becomes a tick older, and so does every entry    *)
(* and every wait.                                                         *)

LEMMA Older ==
    ASSUME StoredWell, Tick
    PROVE  /\ StoredWell'
           /\ \A p \in Password : was'[p] \in 0..was[p] + 1
           /\ since' \in 0..since + 1 /\ password' = password
           /\ UNCHANGED <<codes, spent>>
<1>1. \A i \in 0..Stale + 1 : More(i) \in 0..Stale + 1 /\ More(i) <= i + 1
  BY StaleType DEF More
<1>2. was' = [p \in Password |-> IF p = password THEN 0 ELSE More(was[p])]
      /\ since' = More(since) /\ UNCHANGED <<password, codes, mail, verified, spent>>
  BY DEF Tick
<1>3. \A p \in Password : was[p] \in 0..Stale + 1 /\ More(was[p]) \in 0..Stale + 1
                          /\ More(was[p]) <= was[p] + 1
  BY <1>1 DEF StoredWell
<1>4. 0 \in 0..Stale + 1
  BY StaleType
<1>5. was' \in [Password -> 0..Stale + 1] /\ was'[password] = 0
  BY <1>2, <1>3, <1>4 DEF StoredWell
<1>6. \A p \in Password : was'[p] \in 0..was[p] + 1
  BY <1>2, <1>3, StaleType
<1>7. since' \in 0..Stale + 1 /\ since' \in 0..since + 1
  BY <1>1, <1>2, StaleType DEF StoredWell
<1>8. QED
  BY <1>2, <1>5, <1>6, <1>7 DEF StoredWell

LEMMA CacheOlder ==
    ASSUME StoredWell, CacheWell, Tick
    PROVE  CacheWell'
<1>1. cache \in [Node -> [Password -> Entry]]
  BY DEF CacheWell
<1>2. ASSUME NEW n \in Node, NEW p \in Password
      PROVE  cache'[n][p] \in Entry /\ Right(p, cache[n][p])'
  <2> DEFINE e == cache[n][p]
             f == [e EXCEPT !.left = e.left - 1]
  <2>1. e \in Entry /\ Right(p, e)
    BY <1>1, CacheMeans
  <2>2. e.left \in 0..Ttl /\ e.result \in BOOLEAN
    BY <2>1 DEF Entry
  <2>3. cache'[n][p] = IF e.left > 1 THEN f ELSE NoEntry
    BY DEF Tick
  <2>4. CASE e.left > 1
    <3>1. f \in Entry /\ f.left = e.left - 1 /\ f.result = e.result
      BY <2>1, <2>2, <2>4, StaleType DEF Entry
    <3>2. Age(e) \in Nat /\ Age(f) = Age(e) + 1
      BY <2>2, <3>1, StaleType DEF Age
    <3>3. /\ was[p] \in Nat /\ was'[p] \in Nat /\ was'[p] <= was[p] + 1
          /\ since \in Nat /\ since' \in Nat /\ since' <= since + 1 /\ password' = password
      BY Older, StaleType DEF StoredWell
    <3>4. IF f.result THEN was'[p] <= Age(f) ELSE p # password' \/ since' <= Age(f)
      BY <2>1, <2>2, <2>4, <3>1, <3>2, <3>3 DEF Right
    <3> HIDE DEF f
    <3>5. cache'[n][p] = f
      BY <2>3, <2>4
    <3>6. QED
      BY <3>1, <3>4, <3>5 DEF Right, Age
  <2>5. CASE ~(e.left > 1)
    BY <2>3, <2>5, NoEntryType DEF Right, NoEntry
  <2>6. QED
    BY <2>4, <2>5
<1>3. cache' \in [Node -> [Password -> Entry]]
  <2>1. cache' = [n \in Node |-> [p \in Password |->
                    IF cache[n][p].left > 1 THEN [cache[n][p] EXCEPT !.left = cache[n][p].left - 1]
                                            ELSE NoEntry]]
    BY DEF Tick
  <2>2. QED
    BY <1>2, <2>1
<1>4. QED
  BY <1>2, <1>3 DEF CacheWell, AnswersSettle, Right, Age

LEMMA CallsOlder ==
    ASSUME StoredWell, CallsWell, Tick
    PROVE  CallsWell'
<1>1. ASSUME NEW k \in Call PROVE call'[k] \in Progress /\ Sound(call[k])'
  <2> DEFINE x == call[k]
             y == [x EXCEPT !.wait = x.wait + 1]
  <2>1. x \in Progress /\ Sound(x)
    BY DEF CallsWell
  <2>2. call'[k] = IF k \in Waiting THEN y ELSE x
    BY DEF Tick
  <2>3. /\ \A p \in Password : /\ was[p] \in Nat /\ was'[p] \in Nat
                               /\ was'[p] <= was[p] + 1
        /\ since \in Nat /\ since' \in Nat /\ since' <= since + 1 /\ password' = password
        /\ UNCHANGED <<codes, spent>>
    BY Older, StaleType DEF StoredWell
  <2>4. CASE k \in Waiting
    <3>1. x.wait \in 0..Delay /\ x.wait < Delay /\ x.step \in {"load", "compare"}
      BY <2>1, <2>4 DEF Tick, Waiting, Progress
    <3>2. /\ y \in Progress /\ y.step = x.step /\ y.job = x.job /\ y.new = x.new
          /\ y.code = x.code /\ y.late = x.late /\ y.seen = x.seen /\ y.tried = x.tried
          /\ y.node = x.node /\ y.wait = x.wait + 1
      BY <2>1, <3>1, StaleType DEF Progress
    <3> HIDE DEF y
    <3>3. \A a \in Nat : Read(x, a) => y.seen \in Password /\ was'[y.seen] <= a + 1
                                       /\ (password' = y.seen \/ since' <= a + 1)
      BY <2>3, <3>2 DEF Read
    <3>4. x.step = "load" => was'[y.seen] <= y.wait /\ (password' = y.seen \/ since' <= y.wait)
      BY <2>1, <3>1, <3>2, <3>3 DEF Sound
    <3>5. x.step = "compare" => was'[y.seen] <= Delay + y.wait
                                /\ (password' = y.seen \/ since' <= Delay + y.wait)
      <4>1. Delay + x.wait \in Nat /\ (Delay + x.wait) + 1 = Delay + y.wait
        BY <3>1, <3>2, StaleType
      <4>2. QED
        BY <2>1, <3>3, <4>1 DEF Sound
    <3>6. call'[k] = y
      BY <2>2, <2>4
    <3>7. ~x.late
      BY <2>1, <3>1 DEF Sound
    <3>8. QED
      BY <2>1, <2>3, <3>1, <3>2, <3>4, <3>5, <3>6, <3>7 DEF Sound, Read
  <2>5. CASE k \notin Waiting
    <3>1. call'[k] = x /\ x.step \notin {"load", "compare"}
      BY <2>2, <2>5 DEF Waiting
    <3>2. QED
      BY <2>1, <2>3, <3>1 DEF Sound
  <2>6. QED
    BY <2>4, <2>5
<1>2. call' \in [Call -> Progress]
  <2>1. call' = [k \in Call |-> IF k \in Waiting THEN [call[k] EXCEPT !.wait = call[k].wait + 1]
                                                 ELSE call[k]]
    BY DEF Tick
  <2>2. QED
    BY <1>1, <2>1
<1>3. QED
  BY <1>1, <1>2 DEF CallsWell

LEMMA TickStep ==
    ASSUME PasswordsInv, Tick
    PROVE  PasswordsInv'
BY Older, CacheOlder, CallsOlder DEF PasswordsInv

LEMMA PasswordsStutter == PasswordsInv /\ UNCHANGED vars => PasswordsInv'
BY StoredKept, CacheStays, RestStep DEF PasswordsInv, vars, stored

-----------------------------------------------------------------------------
LEMMA PasswordsStep == PasswordsInv /\ [Next]_vars => PasswordsInv'
<1>1. ASSUME PasswordsInv, Next PROVE PasswordsInv'
  <2>1. ASSUME NEW k \in Call, Handle(k) PROVE PasswordsInv'
    BY <1>1, <2>1, LookupStep, ComparedStep, SetPasswordStep, MarkStep DEF Handle
  <2>2. QED
    BY <1>1, <2>1, LookupStep, ArrivalStep, CodeStep, EvictStep, RestartStep, TickStep DEF Next
<1>2. QED
  BY <1>1, PasswordsStutter

\* Every answer of a password cache was right at most Ttl + Delay ago, at every node,
\* whatever is changed, reset, evicted or restarted meanwhile.
THEOREM PasswordsCorrect == Spec => []PasswordsHold
BY PasswordsInit, PasswordsStep, InvHolds, PTL DEF Spec

\* A reset that arrives after its code has set a password gets no further than the
\* look-up of the code.
THEOREM CodeCountsOnce == Spec => []CodeSpent
BY PasswordsInit, PasswordsStep, InvHolds, PTL DEF Spec

-----------------------------------------------------------------------------
(* Grants and tokens.                                                      *)

\* A code that was created, and a token that was.
Created(g) == g \in Grant /\ grants[g] # G!NoCode
Issued(t) == t \in Token /\ tokens[t] # G!NoToken

\* What is stored is what was granted: codes are some user's, tokens are of codes.
GrantsWell ==
    /\ users \subseteq User /\ openhabs \subseteq User
    /\ grants \in [Grant -> [user : User \cup {None}, client : Client \cup {None}, valid : BOOLEAN]]
    /\ tokens \in [Token -> [user : User \cup {None}, client : Client \cup {None},
                             grant : Grant \cup {None}, holder : Client \cup {None},
                             state : {"none", "held", "revoked"}]]
    /\ \A g \in Grant : grants[g] # G!NoCode => grants[g].user \in User
    /\ \A t \in Token : tokens[t] # G!NoToken => Created(tokens[t].grant)
    /\ G!AsGranted

\* A request x in progress is about a code and a token that exist; and if it is late,
\* it will find its token revoked or its user gone.
SoundAsk(x) ==
    /\ x \in G!Progress
    /\ x.step = "grant" => x.user \in User
    /\ x.step \in {"code", "issue", "invalidate"} => Created(x.grant)
    /\ x.step = "issue" => grants[x.grant].client = x.client
    /\ x.step \in {"token", "find", "delete"} => Issued(x.token)
    /\ x.late => \/ x.step = "token" /\ G!OutOfUse(x.token)
                 \/ x.step = "user" /\ x.user \notin users

RequestsWell ==
    /\ req \in [Request -> G!Progress]
    /\ \A r \in Request : SoundAsk(req[r])

\* The inductive invariant.
GrantsInv == GrantsWell /\ RequestsWell

LEMMA GrantsInvHolds == GrantsInv => GrantsHold
BY DEF GrantsInv, GrantsWell, RequestsWell, SoundAsk, GrantsHold, G!GrantsHold, G!TypeOK,
   G!RevokedForGood

LEMMA DoneSound == SoundAsk(G!Done)
BY DEF SoundAsk, G!Done, G!Progress

LEMMA GrantsInit == None \notin User /\ G!Init => GrantsInv
<1> SUFFICES ASSUME None \notin User, G!Init PROVE GrantsInv
  OBVIOUS
<1>1. GrantsWell
  BY DEF G!Init, GrantsWell, G!AsGranted, G!NoCode, G!NoToken
<1>2. RequestsWell
  <2>1. G!Done \in G!Progress
    BY DEF G!Done, G!Progress
  <2>2. QED
    BY <2>1, DoneSound DEF G!Init, RequestsWell
<1>3. QED
  BY <1>1, <1>2 DEF GrantsInv

-----------------------------------------------------------------------------
(* What a step leaves of what a request relies on.                         *)

\* Codes and tokens that exist stay whose they are; a token that is revoked, and a
\* user who is gone, stay so.
GrantsKept ==
    /\ users' \subseteq users
    /\ \A g \in Grant : grants[g] # G!NoCode =>
          grants'[g] # G!NoCode /\ grants'[g].client = grants[g].client
    /\ \A t \in Token : tokens[t] # G!NoToken =>
          /\ tokens'[t] # G!NoToken /\ tokens'[t].user = tokens[t].user
          /\ tokens[t].state = "revoked" => tokens'[t].state = "revoked"

LEMMA GrantsStoredKept == UNCHANGED G!stored => GrantsKept
BY DEF G!stored, GrantsKept

LEMMA StoredStays == GrantsWell /\ UNCHANGED G!stored => GrantsWell'
BY DEF G!stored, GrantsWell, G!AsGranted, Created

LEMMA AskStays ==
    ASSUME GrantsKept, NEW x, SoundAsk(x)
    PROVE  SoundAsk(x)'
<1>1. x.late => \/ x.step = "token" /\ G!OutOfUse(x.token)'
                \/ x.step = "user" /\ x.user \notin users'
  BY DEF SoundAsk, GrantsKept, G!OutOfUse, Issued
<1>2. QED
  BY <1>1 DEF SoundAsk, GrantsKept, Created, Issued

\* One request goes on, as x.
LEMMA RequestStep ==
    ASSUME RequestsWell, GrantsKept, NEW r \in Request, NEW x, SoundAsk(x)',
           req' = [req EXCEPT ![r] = x]
    PROVE  RequestsWell'
<1>1. x \in G!Progress
  BY DEF SoundAsk
<1>2. req' \in [Request -> G!Progress]
  BY <1>1 DEF RequestsWell
<1>3. ASSUME NEW q \in Request PROVE SoundAsk(req[q])'
  <2>1. CASE q = r
    <3>1. req'[q] = x
      BY <2>1 DEF RequestsWell
    <3>2. QED
      BY <3>1 DEF SoundAsk, Created, Issued, G!OutOfUse
  <2>2. CASE q # r
    <3>1. req'[q] = req[q]
      BY <2>2 DEF RequestsWell
    <3>2. SoundAsk(req[q])
      BY DEF RequestsWell
    <3>3. QED
      BY <3>1, <3>2, AskStays DEF SoundAsk, Created, Issued, G!OutOfUse
  <2>3. QED
    BY <2>1, <2>2
<1>4. QED
  BY <1>2, <1>3 DEF RequestsWell

\* It ends.
LEMMA FinishStep ==
    ASSUME RequestsWell, GrantsKept, NEW r \in Request, G!Finish(r)
    PROVE  RequestsWell'
BY DoneSound, AskStays, RequestStep DEF G!Finish

\* None goes on.
LEMMA IdleStep ==
    ASSUME RequestsWell, GrantsKept, UNCHANGED req
    PROVE  RequestsWell'
<1>1. ASSUME NEW q \in Request PROVE SoundAsk(req[q])'
  <2>1. SoundAsk(req[q])
    BY DEF RequestsWell
  <2>2. QED
    BY <2>1, AskStays DEF SoundAsk, Created, Issued, G!OutOfUse
<1>2. QED
  BY <1>1 DEF RequestsWell

-----------------------------------------------------------------------------
(* Steps that only read.                                                   *)

\* It begins, as x.
LEMMA BeginStep ==
    ASSUME GrantsInv, UNCHANGED G!stored, NEW r \in Request, NEW x, SoundAsk(x), G!Begin(r, x)
    PROVE  GrantsInv'
BY GrantsStoredKept, StoredStays, AskStays, RequestStep DEF GrantsInv, G!Begin

LEMMA AskStep ==
    ASSUME None \notin User, GrantsInv, NEW r \in Request,
           \/ \E u \in User, c \in Client : G!Decide(r, u, c)
           \/ \E c \in Client, g \in Grant : G!Exchange(r, c, g)
           \/ \E t \in Token : G!Bearer(r, t)
           \/ \E u \in User, t \in Token : G!Revoke(r, u, t)
    PROVE  GrantsInv'
<1>1. ASSUME NEW u \in User, NEW c \in Client, G!Decide(r, u, c) PROVE GrantsInv'
  <2>1. SoundAsk([G!Done EXCEPT !.step = "grant", !.job = "decide", !.user = u, !.client = c])
    BY DEF SoundAsk, G!Done, G!Progress
  <2>2. QED
    BY <1>1, <2>1, BeginStep DEF G!Decide
<1>2. ASSUME NEW c \in Client, NEW g \in Grant, G!Exchange(r, c, g) PROVE GrantsInv'
  <2>1. SoundAsk([G!Done EXCEPT !.step = "code", !.job = "exchange", !.client = c, !.grant = g])
    BY <1>2 DEF SoundAsk, G!Done, G!Progress, G!Exchange, Created
  <2>2. QED
    BY <1>2, <2>1, BeginStep DEF G!Exchange
<1>3. ASSUME NEW t \in Token, G!Bearer(r, t) PROVE GrantsInv'
  <2>1. SoundAsk([G!Done EXCEPT !.step = "token", !.job = "bearer", !.token = t,
                           !.late = G!OutOfUse(t)])
    <3>1. G!OutOfUse(t) \in BOOLEAN
      BY DEF G!OutOfUse
    <3>2. QED
      BY <1>3, <3>1 DEF SoundAsk, G!Done, G!Progress, G!Bearer, Issued
  <2>2. QED
    BY <1>3, <2>1, BeginStep DEF G!Bearer
<1>4. ASSUME NEW u \in User, NEW t \in Token, G!Revoke(r, u, t) PROVE GrantsInv'
  <2>1. SoundAsk([G!Done EXCEPT !.step = "find", !.job = "revoke", !.user = u, !.token = t])
    BY <1>4 DEF SoundAsk, G!Done, G!Progress, G!Revoke, Issued
  <2>2. QED
    BY <1>4, <2>1, BeginStep DEF G!Revoke
<1>5. QED
  BY <1>1, <1>2, <1>3, <1>4

\* The look-ups, and what follows them: a request goes one step further or ends.
LEMMA AskLookupStep ==
    ASSUME None \notin User, GrantsInv, NEW r \in Request,
           \/ G!FindCode(r) \/ G!FindToken(r) \/ G!FindOwner(r) \/ G!FindTheirOpenhab(r) \/ G!Act(r)
           \/ G!FindOwnToken(r) \/ G!Fail(r)
    PROVE  GrantsInv'
<1>0. /\ UNCHANGED G!stored /\ GrantsKept /\ GrantsWell' /\ RequestsWell
      /\ SoundAsk(req[r]) /\ req[r] \in G!Progress
  BY GrantsStoredKept, StoredStays DEF GrantsInv, RequestsWell, G!FindCode, G!FindToken, G!FindOwner,
     G!FindTheirOpenhab, G!Act, G!FindOwnToken, G!Fail
<1>1. ASSUME G!Finish(r) PROVE GrantsInv'
  BY <1>0, <1>1, FinishStep DEF GrantsInv
<1>2. ASSUME NEW s, SoundAsk([req[r] EXCEPT !.step = s]), G!Turn(r, s) PROVE GrantsInv'
  <2>1. req' = [req EXCEPT ![r] = [req[r] EXCEPT !.step = s]]
    BY <1>0, <1>2 DEF G!Turn, RequestsWell
  <2>2. QED
    BY <1>0, <1>2, <2>1, AskStays, RequestStep DEF GrantsInv
<1>3. ASSUME G!FindCode(r) PROVE GrantsInv'
  <2>1. CASE G!Turn(r, "issue") /\ grants[req[r].grant].client = req[r].client
    <3>1. SoundAsk([req[r] EXCEPT !.step = "issue"])
      BY <1>0, <1>3, <2>1 DEF SoundAsk, G!Progress, G!FindCode
    <3>2. QED
      BY <1>2, <2>1, <3>1
  <2>2. QED
    BY <1>1, <1>3, <2>1 DEF G!FindCode
<1>4. ASSUME G!FindToken(r) PROVE GrantsInv'
  <2> DEFINE t == tokens[req[r].token]
             x == [req[r] EXCEPT !.step = "user", !.user = t.user]
  <2>1. CASE t.state = "held" /\ req' = [req EXCEPT ![r] = x]
    <3>1. Issued(req[r].token)
      BY <1>0, <1>4 DEF SoundAsk, G!FindToken
    <3>0. t.user \in User \cup {None}
      BY <3>1 DEF GrantsInv, GrantsWell, Issued
    <3>2. x \in G!Progress /\ x.step = "user" /\ x.user = t.user /\ x.late = req[r].late
      BY <1>0, <3>0 DEF G!Progress
    <3>3. x.late => x.user \notin users
      BY <1>0, <1>4, <2>1, <3>2 DEF SoundAsk, G!FindToken, G!OutOfUse
    <3>4. SoundAsk(x)
      BY <3>2, <3>3 DEF SoundAsk
    <3>5. QED
      BY <1>0, <2>1, <3>4, AskStays, RequestStep DEF GrantsInv
  <2>2. CASE t.state # "held" /\ G!Finish(r)
    BY <1>1, <2>2
  <2>3. req' = [req EXCEPT ![r] = IF t.state = "held" THEN x ELSE G!Done]
    BY <1>0, <1>4 DEF G!FindToken, RequestsWell
  <2>4. QED
    BY <2>1, <2>2, <2>3 DEF G!Finish
<1>5. ASSUME G!FindOwner(r) PROVE GrantsInv'
  <2>1. CASE G!Turn(r, "openhab") /\ req[r].user \in users
    <3>1. SoundAsk([req[r] EXCEPT !.step = "openhab"])
      BY <1>0, <1>5, <2>1 DEF SoundAsk, G!Progress, G!FindOwner
    <3>2. QED
      BY <1>2, <2>1, <3>1
  <2>2. QED
    BY <1>1, <1>5, <2>1 DEF G!FindOwner
<1>6. ASSUME G!FindTheirOpenhab(r) PROVE GrantsInv'
  <2>1. CASE G!Turn(r, "act")
    <3>1. SoundAsk([req[r] EXCEPT !.step = "act"])
      BY <1>0, <1>6 DEF SoundAsk, G!Progress, G!FindTheirOpenhab
    <3>2. QED
      BY <1>2, <2>1, <3>1
  <2>2. QED
    BY <1>1, <1>6, <2>1 DEF G!FindTheirOpenhab
<1>7. ASSUME G!FindOwnToken(r) PROVE GrantsInv'
  <2>1. CASE G!Turn(r, "delete")
    <3>1. SoundAsk([req[r] EXCEPT !.step = "delete"])
      BY <1>0, <1>7 DEF SoundAsk, G!Progress, G!FindOwnToken
    <3>2. QED
      BY <1>2, <2>1, <3>1
  <2>2. QED
    BY <1>1, <1>7, <2>1 DEF G!FindOwnToken
<1>8. QED
  BY <1>1, <1>3, <1>4, <1>5, <1>6, <1>7 DEF G!Act, G!Fail

-----------------------------------------------------------------------------
(* Writes.                                                                 *)

LEMMA CreateCodeStep ==
    ASSUME None \notin User, GrantsInv, NEW r \in Request, NEW g \in Grant, G!CreateCode(r, g)
    PROVE  GrantsInv'
<1> DEFINE new == [user |-> req[r].user, client |-> req[r].client, valid |-> TRUE]
<1>1. SoundAsk(req[r]) /\ req[r] \in G!Progress /\ RequestsWell /\ GrantsWell
  BY DEF GrantsInv, RequestsWell
<1>2. req[r].user \in User /\ req[r].client \in Client \cup {None}
  BY <1>1 DEF G!CreateCode, SoundAsk, G!Progress
<1>3. grants' = [grants EXCEPT ![g] = new] /\ UNCHANGED <<users, openhabs, tokens>>
  BY DEF G!CreateCode
<1>4. \A h \in Grant : grants[h] # G!NoCode => grants'[h] = grants[h]
  BY <1>1, <1>3 DEF GrantsWell, G!CreateCode
<1>5. GrantsKept
  BY <1>3, <1>4 DEF GrantsKept
<1>6. GrantsWell'
  <2>1. grants' \in [Grant -> [user : User \cup {None}, client : Client \cup {None},
                               valid : BOOLEAN]]
    BY <1>1, <1>2, <1>3 DEF GrantsWell
  <2>2. \A h \in Grant : grants'[h] # G!NoCode => grants'[h].user \in User
    BY <1>1, <1>2, <1>3 DEF GrantsWell
  <2>3. \A t \in Token : tokens[t] # G!NoToken =>
            Created(tokens[t].grant)' /\ grants'[tokens[t].grant] = grants[tokens[t].grant]
    BY <1>1, <1>4, <1>3 DEF GrantsWell, Created
  <2>4. QED
    BY <1>1, <1>3, <2>1, <2>2, <2>3 DEF GrantsWell, G!AsGranted, Created
<1>7. QED
  BY <1>1, <1>5, <1>6, FinishStep DEF GrantsInv, G!CreateCode

\* The code is still there, and still its user's.
LEMMA CreateTokenStep ==
    ASSUME None \notin User, GrantsInv, NEW r \in Request, NEW t \in Token, G!CreateToken(r, t)
    PROVE  GrantsInv'
<1> DEFINE g == req[r].grant
           new == [user |-> grants[g].user, client |-> grants[g].client, grant |-> g,
                   holder |-> req[r].client, state |-> "held"]
           x == [req[r] EXCEPT !.step = "invalidate"]
<1>1. SoundAsk(req[r]) /\ req[r] \in G!Progress /\ RequestsWell /\ GrantsWell
  BY DEF GrantsInv, RequestsWell
<1>2. Created(g) /\ grants[g].client = req[r].client
  BY <1>1 DEF G!CreateToken, SoundAsk
<1>3. tokens' = [tokens EXCEPT ![t] = new] /\ UNCHANGED <<users, openhabs, grants>>
  BY DEF G!CreateToken
<1>4. \A u \in Token : tokens[u] # G!NoToken => tokens'[u] = tokens[u]
  BY <1>1, <1>3 DEF GrantsWell, G!CreateToken
<1>5. GrantsKept
  BY <1>3, <1>4 DEF GrantsKept
<1>6. GrantsWell'
  <2>1. new \in [user : User \cup {None}, client : Client \cup {None},
                 grant : Grant \cup {None}, holder : Client \cup {None},
                 state : {"none", "held", "revoked"}]
    BY <1>1, <1>2 DEF GrantsWell, G!Progress, Created
  <2>2. tokens' \in [Token -> [user : User \cup {None}, client : Client \cup {None},
                               grant : Grant \cup {None}, holder : Client \cup {None},
                               state : {"none", "held", "revoked"}]]
    BY <1>1, <1>3, <2>1 DEF GrantsWell
  <2>3. \A u \in Token : tokens'[u] # G!NoToken =>
            /\ Created(tokens'[u].grant)
            /\ tokens'[u].user = grants[tokens'[u].grant].user
            /\ tokens'[u].client = grants[tokens'[u].grant].client
            /\ tokens'[u].holder = grants[tokens'[u].grant].client
    BY <1>1, <1>2, <1>3 DEF GrantsWell, G!AsGranted
  <2>4. QED
    BY <1>1, <1>3, <2>2, <2>3 DEF GrantsWell, G!AsGranted, Created
<1>7. req' = [req EXCEPT ![r] = x]
  BY <1>1 DEF G!CreateToken, G!Turn, RequestsWell
<1>8. SoundAsk(x)
  BY <1>1, <1>2 DEF SoundAsk, G!Progress, G!CreateToken
<1>9. QED
  BY <1>1, <1>5, <1>6, <1>7, <1>8, AskStays, RequestStep DEF GrantsInv

LEMMA InvalidateStep ==
    ASSUME None \notin User, GrantsInv, NEW r \in Request, G!Invalidate(r)
    PROVE  GrantsInv'
<1>1. SoundAsk(req[r]) /\ RequestsWell /\ GrantsWell
  BY DEF GrantsInv, RequestsWell
<1>2. Created(req[r].grant)
  BY <1>1 DEF G!Invalidate, SoundAsk
<1>3. /\ grants' \in [Grant -> [user : User \cup {None}, client : Client \cup {None},
                                valid : BOOLEAN]]
      /\ UNCHANGED <<users, openhabs, tokens>>
      /\ \A g \in Grant : g # req[r].grant => grants'[g] = grants[g]
      /\ grants'[req[r].grant] = [grants[req[r].grant] EXCEPT !.valid = FALSE]
  <2> DEFINE g == req[r].grant
             new == [grants[g] EXCEPT !.valid = FALSE]
  <2>1. g \in Grant /\ grants' = [grants EXCEPT ![g] = new]
    BY <1>2 DEF G!Invalidate, Created
  <2>2. new \in [user : User \cup {None}, client : Client \cup {None}, valid : BOOLEAN]
    <3>1. grants[g] \in [user : User \cup {None}, client : Client \cup {None}, valid : BOOLEAN]
      BY <1>1, <2>1 DEF GrantsWell
    <3>2. QED
      BY <3>1
  <2> HIDE DEF new
  <2>3. /\ grants' \in [Grant -> [user : User \cup {None}, client : Client \cup {None},
                                  valid : BOOLEAN]]
        /\ \A h \in Grant : h # g => grants'[h] = grants[h]
        /\ grants'[g] = new
    BY <1>1, <2>1, <2>2 DEF GrantsWell
  <2>4. QED
    BY <2>3 DEF G!Invalidate, new
<1>4. \A g \in Grant : /\ grants'[g].user = grants[g].user
                       /\ grants'[g].client = grants[g].client
  BY <1>1, <1>3 DEF GrantsWell
<1>5. \A g \in Grant : grants[g] # G!NoCode => grants'[g] # G!NoCode
  BY <1>1, <1>4 DEF GrantsWell, G!NoCode
<1>6. \A g \in Grant : grants'[g] # G!NoCode => grants'[g].user \in User
  BY <1>1, <1>2, <1>3, <1>4 DEF GrantsWell, Created
<1>7. GrantsKept
  BY <1>3, <1>4, <1>5 DEF GrantsKept
<1>8. GrantsWell'
  BY <1>1, <1>3, <1>4, <1>5, <1>6 DEF GrantsWell, G!AsGranted, Created
<1>9. QED
  BY <1>1, <1>7, <1>8, FinishStep DEF GrantsInv, G!Invalidate

\* Tokens that are revoked, one or all of a user, keep what else they are.
LEMMA Revoked ==
    ASSUME GrantsWell, NEW T \in SUBSET Token, \A t \in T : tokens[t] # G!NoToken,
           tokens' = [t \in Token |-> IF t \in T THEN [tokens[t] EXCEPT !.state = "revoked"]
                                                 ELSE tokens[t]],
           UNCHANGED <<users, openhabs, grants>>
    PROVE  GrantsWell' /\ GrantsKept
<1>1. tokens' \in [Token -> [user : User \cup {None}, client : Client \cup {None},
                             grant : Grant \cup {None}, holder : Client \cup {None},
                             state : {"none", "held", "revoked"}]]
  BY DEF GrantsWell
<1>2. \A t \in Token : /\ tokens'[t].user = tokens[t].user
                       /\ tokens'[t].client = tokens[t].client
                       /\ tokens'[t].holder = tokens[t].holder
                       /\ tokens'[t].grant = tokens[t].grant
                       /\ tokens[t].state = "revoked" => tokens'[t].state = "revoked"
  BY DEF GrantsWell
<1>3. \A t \in Token : tokens[t] # G!NoToken => tokens'[t] # G!NoToken
  <2>1. ASSUME NEW t \in T PROVE tokens'[t].state = "revoked"
    <3>1. t \in Token /\ tokens'[t] = [tokens[t] EXCEPT !.state = "revoked"]
      OBVIOUS
    <3>2. QED
      BY <3>1 DEF GrantsWell
  <2>2. \A t \in T : tokens'[t] # G!NoToken
    BY <2>1 DEF G!NoToken
  <2>3. QED
    BY <2>2
<1>4. \A t \in Token : tokens'[t] # G!NoToken => tokens[t] # G!NoToken
  OBVIOUS
<1>5. GrantsKept
  BY <1>2, <1>3 DEF GrantsKept
<1>6. QED
  BY <1>1, <1>2, <1>4, <1>5 DEF GrantsWell, G!AsGranted, Created

LEMMA RevokeStep ==
    ASSUME None \notin User, GrantsInv,
           (\E r \in Request : G!DeleteToken(r)) \/ (\E u \in User : G!DropTokens(u))
    PROVE  GrantsInv'
<1>1. RequestsWell /\ GrantsWell
  BY DEF GrantsInv
<1>2. ASSUME NEW r \in Request, G!DeleteToken(r) PROVE GrantsInv'
  <2>1. Issued(req[r].token)
    BY <1>1, <1>2 DEF RequestsWell, SoundAsk, G!DeleteToken
  <2>2. tokens' = [t \in Token |-> IF t \in {req[r].token}
                                   THEN [tokens[t] EXCEPT !.state = "revoked"] ELSE tokens[t]]
    BY <1>1, <1>2, <2>1 DEF G!DeleteToken, GrantsWell, Issued
  <2>3. GrantsWell' /\ GrantsKept
    <3>1. {req[r].token} \in SUBSET Token /\ \A t \in {req[r].token} : tokens[t] # G!NoToken
      BY <2>1 DEF Issued
    <3>2. QED
      BY <1>1, <1>2, <2>2, <3>1, Revoked DEF G!DeleteToken
  <2>4. QED
    BY <1>1, <1>2, <2>3, FinishStep DEF GrantsInv, G!DeleteToken
<1>3. ASSUME NEW u \in User, G!DropTokens(u) PROVE GrantsInv'
  <2> DEFINE T == {t \in Token : tokens[t].user = u}
  <2>1. \A t \in T : tokens[t] # G!NoToken
    BY DEF G!NoToken
  <2>2. GrantsWell' /\ GrantsKept
    <3>1. tokens' = [t \in Token |-> IF t \in T THEN [tokens[t] EXCEPT !.state = "revoked"]
                                                ELSE tokens[t]]
      BY <1>3 DEF G!DropTokens
    <3>2. QED
      BY <1>1, <1>3, <2>1, <3>1, Revoked DEF G!DropTokens
  <2>3. QED
    BY <1>1, <1>3, <2>2, IdleStep DEF GrantsInv, G!DropTokens
<1>4. QED
  BY <1>2, <1>3

\* A user who is gone does not come back.
LEMMA DropStep ==
    ASSUME GrantsInv, NEW u \in User, G!DropOpenhab(u) \/ G!DropOwner(u)
    PROVE  GrantsInv'
<1>1. GrantsWell' /\ GrantsKept
  BY DEF GrantsInv, G!DropOpenhab, G!DropOwner, GrantsWell, G!AsGranted, Created, GrantsKept
<1>2. QED
  BY <1>1, IdleStep DEF GrantsInv, G!DropOpenhab, G!DropOwner

LEMMA GrantsStutter == GrantsInv /\ UNCHANGED G!vars => GrantsInv'
BY GrantsStoredKept, StoredStays, IdleStep DEF GrantsInv, G!vars, G!stored

-----------------------------------------------------------------------------
\* Every token is what its user granted, and a request that comes after its
\* revocation, or its user's deletion, gets nothing - for any number of requests that
\* grant, exchange, use and revoke at the same time.
THEOREM GrantsCorrect ==
    ASSUME None \notin User
    PROVE  G!Spec => []GrantsHold
<1>1. G!Init => GrantsInv
  BY GrantsInit
<1>2. GrantsInv /\ [G!Next]_(G!vars) => GrantsInv'
  <2>1. ASSUME GrantsInv, G!Next PROVE GrantsInv'
    BY <2>1, AskStep, AskLookupStep, CreateCodeStep, CreateTokenStep, InvalidateStep,
       RevokeStep, DropStep DEF G!Next
  <2>2. QED
    BY <2>1, GrantsStutter
<1>3. GrantsInv => GrantsHold
  BY GrantsInvHolds
<1>4. QED
  BY <1>1, <1>2, <1>3, PTL DEF G!Spec
=============================================================================
