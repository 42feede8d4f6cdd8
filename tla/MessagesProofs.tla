--------------------------- MODULE MessagesProofs ---------------------------
(***************************************************************************)
(* That addresses last as long as promised and no longer, for any          *)
(* openHABs, paths, requests, lifetime and delay.  And that notifications  *)
(* reach everybody they are for, whoever else's fail, for any users,       *)
(* devices and requests.                                                   *)
(***************************************************************************)
EXTENDS Messages, TLAPS

-----------------------------------------------------------------------------
(* Webhooks.                                                               *)

LEMMA DelayType == Ttl \in Nat /\ Delay \in Nat /\ None \notin Uuid /\ None \notin W!Slot
BY MessagesAssumption DEF W!Slot

Hook == [uuid : Uuid \cup {None}, left : 0..Ttl]

\* Each uuid was made for one path, and only its document has it.  What was promised
\* is there, save for the time that a registration may take.
HooksWell ==
    /\ openhabs \subseteq Openhab
    /\ hooks \in [W!Slot -> Hook] /\ promised \in [W!Slot -> Hook]
    /\ given \in [Uuid -> W!Slot \cup {None}]
    /\ \A s \in W!Slot :
          /\ hooks[s].uuid = None => hooks[s] = W!NoHook
          /\ hooks[s].uuid # None => given[hooks[s].uuid] = s
          /\ promised[s].left <= hooks[s].left + Delay
          /\ promised[s].left > Delay => hooks[s].uuid = promised[s].uuid

Service == [step : {"idle", "upsert", "remove", "find", "delete", "hook", "openhab", "serve"},
            slot : W!Slot \cup {None}, uuid : Uuid \cup {None},
            left : 0..Ttl, wait : 0..Delay, late : BOOLEAN]

\* What a request at each step knows.
SoundCall(x) ==
    /\ x \in Service
    /\ x.step \in {"upsert", "remove", "find", "delete"} => x.slot \in W!Slot
    /\ x.step = "upsert" => x.left + x.wait >= Ttl
    /\ x.step = "hook" => x.uuid \in Uuid
    /\ x.late => x.step = "hook" /\ ~W!Valid(x.uuid)
    /\ x.step \in {"openhab", "serve"} =>
          x.uuid \in Uuid /\ given[x.uuid] # None /\ x.slot = given[x.uuid]

CallsWell ==
    /\ call \in [Serving -> Service]
    /\ \A c \in Serving : SoundCall(call[c])

\* The inductive invariant.
WebhooksInv == HooksWell /\ CallsWell

LEMMA WebhooksInvHolds == WebhooksInv => KeptAlive /\ GoneForGood
<1> SUFFICES ASSUME WebhooksInv PROVE KeptAlive /\ GoneForGood
  OBVIOUS
<1>1. KeptAlive
  BY DelayType DEF WebhooksInv, HooksWell, Hook, KeptAlive, W!KeptAlive
<1>2. W!TypeOK
  BY DEF WebhooksInv, HooksWell, CallsWell, Hook, Service, W!TypeOK
<1>3. ASSUME NEW s \in W!Slot, hooks[s] # W!NoHook PROVE given[hooks[s].uuid] = s
  BY <1>3 DEF WebhooksInv, HooksWell
<1>4. ASSUME NEW c \in Serving, call[c].step \in {"openhab", "serve"}
      PROVE  call[c].slot = given[call[c].uuid] /\ ~call[c].late
  BY <1>4 DEF WebhooksInv, CallsWell, SoundCall
<1>5. QED
  BY <1>1, <1>2, <1>3, <1>4 DEF GoneForGood, W!GoneForGood

LEMMA DoneType ==
    /\ W!Done \in Service /\ W!Done.step = "idle" /\ W!Done.left = 0 /\ W!Done.wait = 0
    /\ W!Done.late = FALSE
BY DelayType DEF W!Done, Service

LEMMA DoneServing == SoundCall(W!Done)
BY DoneType DEF SoundCall

LEMMA WebhooksInit == W!Init => WebhooksInv
<1> SUFFICES ASSUME W!Init PROVE WebhooksInv
  OBVIOUS
<1>1. W!NoHook \in Hook /\ W!NoHook.uuid = None /\ W!NoHook.left = 0
  BY DelayType DEF W!NoHook, Hook
<1>2. HooksWell
  BY <1>1, DelayType DEF W!Init, HooksWell
<1>3. CallsWell
  BY DoneServing DEF W!Init, CallsWell, SoundCall
<1>4. QED
  BY <1>2, <1>3 DEF WebhooksInv

-----------------------------------------------------------------------------
(* What a step leaves of what a request relies on.                         *)

\* A uuid stays whose it is, and an address that leads nowhere still does - except i,
\* which may have been registered.
HooksKept(i) ==
    /\ \A j \in Uuid : given[j] # None => given'[j] = given[j]
    /\ \A j \in Uuid : j # i /\ W!Valid(j)' => W!Valid(j)

LEMMA HooksStay == HooksWell /\ UNCHANGED W!stored => HooksWell' /\ \A i : HooksKept(i)
BY DEF W!stored, HooksWell, HooksKept, W!Valid

LEMMA CallStays ==
    ASSUME NEW i, HooksKept(i), NEW x, SoundCall(x), x.late => x.uuid # i
    PROVE  SoundCall(x)'
<1>1. x.late => x.uuid \in Uuid /\ ~W!Valid(x.uuid)'
  BY DEF SoundCall, HooksKept
<1>2. QED
  BY <1>1 DEF SoundCall, HooksKept

\* One request goes on, as x.
LEMMA CallStep ==
    ASSUME CallsWell, HooksKept(None), NEW c \in Serving, NEW x, SoundCall(x)',
           call' = [call EXCEPT ![c] = x]
    PROVE  CallsWell'
<1>1. x \in Service
  BY DEF SoundCall
<1>2. call' \in [Serving -> Service]
  BY <1>1 DEF CallsWell
<1>3. ASSUME NEW q \in Serving PROVE SoundCall(call[q])'
  <2>1. CASE q = c
    <3>1. call'[q] = x
      BY <2>1 DEF CallsWell
    <3>2. QED
      BY <3>1 DEF SoundCall, W!Valid
  <2>2. CASE q # c
    <3>1. call'[q] = call[q]
      BY <2>2 DEF CallsWell
    <3>2. SoundCall(call[q]) /\ (call[q].late => call[q].uuid # None)
      BY DelayType DEF CallsWell, SoundCall
    <3>3. QED
      BY <3>1, <3>2, CallStays DEF SoundCall, W!Valid
  <2>3. QED
    BY <2>1, <2>2
<1>4. QED
  BY <1>2, <1>3 DEF CallsWell

\* It ends.
LEMMA CallEnds ==
    ASSUME CallsWell, HooksKept(None), NEW c \in Serving, W!Finish(c)
    PROVE  CallsWell'
<1>1. W!Done.late = FALSE
  BY DEF W!Done
<1>2. SoundCall(W!Done)'
  BY <1>1, DoneServing, CallStays
<1>3. QED
  BY <1>2, CallStep DEF W!Finish

\* It begins, or goes one step further, as x, and nothing is stored.
LEMMA QuietCall ==
    ASSUME WebhooksInv, UNCHANGED W!stored, NEW c \in Serving, NEW x, SoundCall(x),
           call' = [call EXCEPT ![c] = x]
    PROVE  WebhooksInv'
<1>1. HooksWell' /\ HooksKept(None)
  BY HooksStay DEF WebhooksInv
<1>2. x.late => x.uuid # None
  BY DelayType DEF SoundCall
<1>3. SoundCall(x)'
  BY <1>1, <1>2, CallStays
<1>4. QED
  BY <1>1, <1>3, CallStep DEF WebhooksInv

LEMMA QuietEnd ==
    ASSUME WebhooksInv, UNCHANGED W!stored, NEW c \in Serving, W!Finish(c)
    PROVE  WebhooksInv'
BY DoneServing, QuietCall DEF W!Finish

\* None goes on.
LEMMA CallsRest ==
    ASSUME CallsWell, HooksKept(None), UNCHANGED call
    PROVE  CallsWell'
<1>1. ASSUME NEW q \in Serving PROVE SoundCall(call[q])'
  <2>1. SoundCall(call[q]) /\ (call[q].late => call[q].uuid # None)
    BY DelayType DEF CallsWell, SoundCall
  <2>2. QED
    BY <2>1, CallStays DEF SoundCall, W!Valid
<1>2. QED
  BY <1>1 DEF CallsWell

-----------------------------------------------------------------------------
(* Requests arrive, and look things up.                                    *)

LEMMA ArriveStep ==
    ASSUME WebhooksInv, NEW c \in Serving,
           \/ \E s \in W!Slot : W!RegisterWebhook(c, s) \/ W!RemoveWebhook(c, s)
           \/ \E o \in Openhab, i \in Uuid : W!DeleteWebhook(c, o, i)
           \/ \E i \in Uuid : W!Call(c, i)
    PROVE  WebhooksInv'
<1>1. ASSUME NEW s \in W!Slot, W!RegisterWebhook(c, s) PROVE WebhooksInv'
  <2>1. Ttl \in 0..Ttl /\ Ttl + 0 >= Ttl
    BY DelayType
  <2>2. SoundCall([W!Done EXCEPT !.step = "upsert", !.slot = s, !.left = Ttl])
    BY <2>1, DoneType DEF SoundCall, Service
  <2>3. QED
    BY <1>1, <2>2, QuietCall DEF W!RegisterWebhook, W!Begin
<1>2. ASSUME NEW s \in W!Slot, W!RemoveWebhook(c, s) PROVE WebhooksInv'
  <2>1. SoundCall([W!Done EXCEPT !.step = "remove", !.slot = s])
    BY DelayType, DoneType DEF SoundCall, Service
  <2>2. QED
    BY <1>2, <2>1, QuietCall DEF W!RemoveWebhook, W!Begin
<1>3. ASSUME NEW o \in Openhab, NEW i \in Uuid, W!DeleteWebhook(c, o, i) PROVE WebhooksInv'
  <2>1. given[i] \in Openhab \X Path
    BY <1>3 DEF W!DeleteWebhook, WebhooksInv, HooksWell, W!Slot
  <2>2. <<o, given[i][2]>> \in W!Slot
    BY <2>1 DEF W!Slot
  <2>3. SoundCall([W!Done EXCEPT !.step = "find", !.slot = <<o, given[i][2]>>, !.uuid = i])
    BY <2>2, DelayType, DoneType DEF SoundCall, Service
  <2>4. QED
    BY <1>3, <2>3, QuietCall DEF W!DeleteWebhook, W!Begin
<1>4. ASSUME NEW i \in Uuid, W!Call(c, i) PROVE WebhooksInv'
  <2>1. W!Valid(i) \in BOOLEAN
    BY DEF W!Valid
  <2>2. SoundCall([W!Done EXCEPT !.step = "hook", !.uuid = i, !.late = ~W!Valid(i)])
    BY <2>1, DelayType, DoneType DEF SoundCall, Service
  <2>3. QED
    BY <1>4, <2>2, QuietCall DEF W!Call, W!Begin
<1>5. QED
  BY <1>1, <1>2, <1>3, <1>4

\* A request turns to another step.
LEMMA TurnStep ==
    ASSUME WebhooksInv, UNCHANGED W!stored, NEW c \in Serving, NEW s, W!Turn(c, s),
           \/ call[c].step = "find" /\ s = "delete"
           \/ call[c].step = "openhab" /\ s = "serve"
    PROVE  WebhooksInv'
<1>1. SoundCall(call[c])
  BY DEF WebhooksInv, CallsWell
<1>2. SoundCall([call[c] EXCEPT !.step = s])
  BY <1>1 DEF SoundCall, Service
<1>3. call' = [call EXCEPT ![c] = [call[c] EXCEPT !.step = s]]
  BY DEF W!Turn
<1>4. QED
  BY <1>2, <1>3, QuietCall

LEMMA LookStep ==
    ASSUME WebhooksInv, NEW c \in Serving,
           \/ W!FindByIdAndOpenhab(c) \/ W!FindByUuid(c) \/ W!FindOpenhab(c)
           \/ W!Serve(c) \/ W!Fail(c)
    PROVE  WebhooksInv'
<1>1. CASE W!FindByIdAndOpenhab(c)
  BY <1>1, TurnStep, QuietEnd DEF W!FindByIdAndOpenhab
<1>2. CASE W!FindByUuid(c)
  <2>1. CASE W!Finish(c)
    BY <1>2, <2>1, QuietEnd DEF W!FindByUuid
  <2>2. ASSUME NEW s \in W!Slot, hooks[s].uuid = call[c].uuid, hooks[s].left > 0,
               call' = [call EXCEPT ![c].step = "openhab", ![c].slot = s]
        PROVE  WebhooksInv'
    <3>1. SoundCall(call[c]) /\ call[c].step = "hook"
      BY <1>2 DEF WebhooksInv, CallsWell, W!FindByUuid
    <3>2. call[c].uuid \in Uuid /\ given[call[c].uuid] = s
      BY <2>2, <3>1, DelayType DEF SoundCall, WebhooksInv, HooksWell
    <3>3. W!Valid(call[c].uuid)
      BY <2>2, <3>2, DelayType DEF W!Valid
    <3>4. SoundCall([call[c] EXCEPT !.step = "openhab", !.slot = s])
      BY <3>1, <3>2, <3>3, DelayType DEF SoundCall, Service
    <3>5. call' = [call EXCEPT ![c] = [call[c] EXCEPT !.step = "openhab", !.slot = s]]
      BY <2>2 DEF WebhooksInv, CallsWell
    <3>6. UNCHANGED W!stored
      BY <1>2 DEF W!FindByUuid
    <3>7. QED
      BY <3>4, <3>5, <3>6, QuietCall
  <2>3. QED
    BY <1>2, <2>1, <2>2 DEF W!FindByUuid
<1>3. CASE W!FindOpenhab(c)
  BY <1>3, TurnStep, QuietEnd DEF W!FindOpenhab
<1>4. CASE W!Serve(c)
  BY <1>4, QuietEnd DEF W!Serve
<1>5. CASE W!Fail(c)
  BY <1>5, QuietEnd DEF W!Fail
<1>6. QED
  BY <1>1, <1>2, <1>3, <1>4, <1>5

-----------------------------------------------------------------------------
(* Documents go.                                                           *)

\* Removed, with what was promised.
LEMMA DropStep ==
    ASSUME HooksWell, NEW slots, W!Drop(slots), UNCHANGED <<openhabs, given>>
    PROVE  HooksWell' /\ HooksKept(None)
<1>1. W!NoHook \in Hook /\ W!NoHook.uuid = None /\ W!NoHook.left = 0
  BY DelayType DEF W!NoHook, Hook
<1>2. /\ hooks' = [s \in W!Slot |-> IF s \in slots THEN W!NoHook ELSE hooks[s]]
      /\ promised' = [s \in W!Slot |-> IF s \in slots THEN W!NoHook ELSE promised[s]]
  BY DEF W!Drop
<1>3. hooks' \in [W!Slot -> Hook] /\ promised' \in [W!Slot -> Hook]
  BY <1>1, <1>2 DEF HooksWell
<1>4. ASSUME NEW s \in W!Slot
      PROVE  \/ hooks'[s] = W!NoHook /\ promised'[s] = W!NoHook
             \/ hooks'[s] = hooks[s] /\ promised'[s] = promised[s]
  BY <1>2
<1>5. HooksWell'
  BY <1>1, <1>3, <1>4, DelayType DEF HooksWell
<1>6. ASSUME NEW j \in Uuid, W!Valid(j)' PROVE W!Valid(j)
  BY <1>1, <1>4, <1>6, DelayType DEF W!Valid, HooksWell
<1>7. QED
  BY <1>5, <1>6 DEF HooksKept

LEMMA RemoveStep ==
    ASSUME WebhooksInv, NEW c \in Serving, W!Remove(c) \/ W!DeleteById(c)
    PROVE  WebhooksInv'
<1>1. PICK slots : W!Drop(slots) /\ UNCHANGED <<openhabs, given>>
  BY DEF W!Remove, W!DeleteById
<1>2. HooksWell' /\ HooksKept(None)
  BY <1>1, DropStep DEF WebhooksInv
<1>3. QED
  BY <1>2, CallEnds DEF WebhooksInv, W!Remove, W!DeleteById

LEMMA DropHooksStep ==
    ASSUME WebhooksInv, NEW o \in Openhab, W!DropHooks(o)
    PROVE  WebhooksInv'
<1>1. HooksWell' /\ HooksKept(None)
  BY DropStep DEF WebhooksInv, W!DropHooks
<1>2. QED
  BY <1>1, CallsRest DEF WebhooksInv, W!DropHooks

LEMMA DropOpenhabStep ==
    ASSUME WebhooksInv, NEW o \in Openhab, W!DropOpenhab(o)
    PROVE  WebhooksInv'
<1>1. HooksWell' /\ HooksKept(None)
  BY DEF WebhooksInv, W!DropOpenhab, HooksWell, HooksKept, W!Valid
<1>2. QED
  BY <1>1, CallsRest DEF WebhooksInv, W!DropOpenhab

LEMMA ExpireStep ==
    ASSUME WebhooksInv, NEW s \in W!Slot, W!Expire(s)
    PROVE  WebhooksInv'
<1>1. W!NoHook \in Hook /\ W!NoHook.uuid = None /\ W!NoHook.left = 0
  BY DelayType DEF W!NoHook, Hook
<1>2. hooks' \in [W!Slot -> Hook]
  BY <1>1 DEF WebhooksInv, HooksWell, W!Expire
<1>3. ASSUME NEW t \in W!Slot
      PROVE  \/ t = s /\ hooks'[t] = W!NoHook /\ hooks[t].left = 0
             \/ hooks'[t] = hooks[t]
  BY DEF WebhooksInv, HooksWell, W!Expire
<1>4. ASSUME NEW t \in W!Slot
      PROVE  promised[t].left \in Nat /\ hooks[t].left \in Nat
  BY DelayType DEF WebhooksInv, HooksWell, Hook
<1>5. UNCHANGED <<openhabs, given, promised>>
  BY DEF W!Expire
<1>6. HooksWell'
  BY <1>1, <1>2, <1>3, <1>4, <1>5, DelayType DEF WebhooksInv, HooksWell
<1>7. ASSUME NEW j \in Uuid, W!Valid(j)' PROVE W!Valid(j)
  BY <1>1, <1>3, <1>5, <1>7, DelayType DEF W!Valid, WebhooksInv, HooksWell
<1>8. HooksKept(None)
  BY <1>5, <1>7 DEF HooksKept
<1>9. QED
  BY <1>6, <1>8, CallsRest DEF WebhooksInv, W!Expire

-----------------------------------------------------------------------------
(* The upsert: the only step that makes an address lead somewhere.         *)

LEMMA UpsertStep ==
    ASSUME WebhooksInv, NEW c \in Serving, W!Upsert(c)
    PROVE  WebhooksInv'
<1> DEFINE s == call[c].slot
           left == call[c].left
<1>1. SoundCall(call[c]) /\ call[c].step = "upsert"
  BY DEF WebhooksInv, CallsWell, W!Upsert
<1>2. s \in W!Slot /\ left \in 0..Ttl /\ left + Delay >= Ttl
  BY <1>1, DelayType DEF SoundCall, Service
<1>3. PICK i \in Uuid :
        /\ IF hooks[s] = W!NoHook THEN given[i] = None ELSE i = hooks[s].uuid
        /\ given' = [given EXCEPT ![i] = s]
        /\ hooks' = [hooks EXCEPT ![s] = [uuid |-> i, left |-> left]]
        /\ W!Told(s, i, left)
        /\ W!Renewed(c, i)
  BY DEF W!Upsert
<1>4. given[i] = None \/ given[i] = s
  BY <1>2, <1>3, DelayType DEF WebhooksInv, HooksWell
<1>5. ASSUME NEW j \in Uuid, given[j] # None PROVE given'[j] = given[j]
  BY <1>3, <1>4, <1>5 DEF WebhooksInv, HooksWell
<1>6. given'[i] = s /\ given' \in [Uuid -> W!Slot \cup {None}]
  BY <1>2, <1>3 DEF WebhooksInv, HooksWell
<1>7. hooks'[s] = [uuid |-> i, left |-> left] /\ hooks' \in [W!Slot -> Hook]
  BY <1>2, <1>3 DEF WebhooksInv, HooksWell, Hook
<1>8. ASSUME NEW t \in W!Slot, t # s PROVE hooks'[t] = hooks[t] /\ promised'[t] = promised[t]
  BY <1>3, <1>8 DEF WebhooksInv, HooksWell, W!Told
<1>9. /\ promised'[s] \in Hook /\ promised'[s].uuid = i /\ promised' \in [W!Slot -> Hook]
  <2>1. promised[s] \in Hook
    BY <1>2 DEF WebhooksInv, HooksWell
  <2>2. promised'[s] = [uuid |-> i, left |-> IF promised[s].uuid = i /\ promised[s].left > left
                                             THEN promised[s].left ELSE left]
    BY <1>2, <1>3 DEF WebhooksInv, HooksWell, W!Told
  <2>3. promised'[s] \in Hook /\ promised'[s].uuid = i
    BY <1>2, <2>1, <2>2 DEF Hook
  <2>4. promised' = [promised EXCEPT ![s] = promised'[s]]
    BY <1>3, <2>2 DEF WebhooksInv, HooksWell, W!Told
  <2>5. QED
    BY <2>3, <2>4 DEF WebhooksInv, HooksWell
<1>10. promised'[s].left <= left + Delay
  BY <1>2, <1>9, DelayType DEF Hook
<1>11. openhabs' = openhabs
  BY DEF W!Upsert
<1>12. HooksWell'
  <2>1. ASSUME NEW t \in W!Slot
        PROVE  /\ hooks'[t].uuid = None => hooks'[t] = W!NoHook
               /\ hooks'[t].uuid # None => given'[hooks'[t].uuid] = t
               /\ promised'[t].left <= hooks'[t].left + Delay
               /\ promised'[t].left > Delay => hooks'[t].uuid = promised'[t].uuid
    <3>1. CASE t = s
      BY <1>6, <1>7, <1>9, <1>10, <3>1, DelayType
    <3>2. CASE t # s
      <4>1. hooks[t].uuid # None => hooks[t].uuid \in Uuid /\ given[hooks[t].uuid] = t
        BY DEF WebhooksInv, HooksWell, Hook
      <4>2. QED
        BY <1>5, <1>8, <3>2, <4>1, DelayType DEF WebhooksInv, HooksWell
    <3>3. QED
      BY <3>1, <3>2
  <2>2. QED
    BY <1>6, <1>7, <1>9, <1>11, <2>1 DEF WebhooksInv, HooksWell
<1>13. HooksKept(i)
  <2>1. ASSUME NEW j \in Uuid, j # i, W!Valid(j)' PROVE W!Valid(j)
    <3>1. given'[j] = given[j]
      BY <1>3, <2>1 DEF WebhooksInv, HooksWell
    <3>2. given[j] \in W!Slot
      BY <2>1, <3>1 DEF W!Valid, WebhooksInv, HooksWell
    <3>3. given[j] # s
      BY <1>7, <2>1, <3>1 DEF W!Valid
    <3>4. QED
      BY <1>8, <2>1, <3>1, <3>2, <3>3 DEF W!Valid
  <2>2. QED
    BY <1>5, <2>1 DEF HooksKept
<1>14. CallsWell'
  <2>1. W!Done \in Service /\ SoundCall(W!Done)
    BY DoneServing DEF SoundCall
  <2>2. ASSUME NEW q \in Serving
        PROVE  SoundCall(call[q])'
    <3>1. CASE q = c
      <4>1. call'[q] = W!Done /\ W!Done.late = FALSE
        BY <1>3, <3>1 DEF W!Renewed, W!Done
      <4>2. QED
        BY <1>13, <2>1, <4>1, CallStays DEF SoundCall, W!Valid
    <3>2. CASE q # c
      <4>0. PICK x : x = [call[q] EXCEPT !.late = call[q].late /\ call[q].uuid # i]
        OBVIOUS
      <4>1. call'[q] = x
        BY <1>3, <3>2, <4>0 DEF W!Renewed
      <4>2. SoundCall(call[q])
        BY DEF WebhooksInv, CallsWell
      <4>3. /\ x.late = (call[q].late /\ call[q].uuid # i)
            /\ x \in Service /\ x.step = call[q].step /\ x.slot = call[q].slot
            /\ x.uuid = call[q].uuid /\ x.left = call[q].left /\ x.wait = call[q].wait
        BY <4>0, <4>2 DEF SoundCall, Service
      <4>4. SoundCall(x)
        BY <4>2, <4>3 DEF SoundCall
      <4>5. SoundCall(x)'
        BY <1>13, <4>3, <4>4, CallStays
      <4>6. QED
        BY <4>1, <4>5 DEF SoundCall, W!Valid
    <3>3. QED
      BY <3>1, <3>2
  <2>3. call' \in [Serving -> Service]
    <3>1. DOMAIN call' = Serving /\ call' = [q \in Serving |-> call'[q]]
      BY <1>3 DEF W!Renewed
    <3>2. \A q \in Serving : call'[q] \in Service
      BY <2>2 DEF SoundCall
    <3>3. QED
      BY <3>1, <3>2
  <2>4. QED
    BY <2>2, <2>3 DEF CallsWell
<1>15. QED
  BY <1>12, <1>14 DEF WebhooksInv

-----------------------------------------------------------------------------
(* Time passes.                                                            *)

LEMMA LessType ==
    ASSUME NEW bound \in Nat, NEW n \in 0..bound
    PROVE  /\ W!Less(n) \in 0..bound /\ W!Less(n) <= n /\ n <= W!Less(n) + 1
           /\ n > 0 => W!Less(n) = n - 1
           /\ W!Less(n) > 0 => n > 0
BY DEF W!Less

LEMMA WebhookTickStep ==
    ASSUME WebhooksInv, W!Tick
    PROVE  WebhooksInv'
<1>1. UNCHANGED <<openhabs, given>>
  BY DEF W!Tick
<1>2. ASSUME NEW s \in W!Slot
      PROVE  /\ hooks[s] \in Hook /\ hooks[s].left \in 0..Ttl /\ hooks'[s] \in Hook
             /\ hooks'[s].uuid = hooks[s].uuid /\ hooks'[s].left = W!Less(hooks[s].left)
             /\ promised[s] \in Hook /\ promised[s].left \in 0..Ttl /\ promised'[s] \in Hook
             /\ promised'[s].uuid = promised[s].uuid
             /\ promised'[s].left = W!Less(promised[s].left)
  <2>1. hooks[s] \in Hook /\ promised[s] \in Hook
    BY DEF WebhooksInv, HooksWell
  <2>2. /\ hooks'[s] = [hooks[s] EXCEPT !.left = W!Less(hooks[s].left)]
        /\ promised'[s] = [promised[s] EXCEPT !.left = W!Less(promised[s].left)]
    BY DEF W!Tick
  <2>3. hooks[s].left \in 0..Ttl /\ promised[s].left \in 0..Ttl
    BY <2>1 DEF Hook
  <2>4. W!Less(hooks[s].left) \in 0..Ttl /\ W!Less(promised[s].left) \in 0..Ttl
    BY <2>3, LessType, DelayType
  <2>5. QED
    BY <2>1, <2>2, <2>3, <2>4 DEF Hook
<1>3. hooks' \in [W!Slot -> Hook] /\ promised' \in [W!Slot -> Hook]
  <2>1. /\ hooks' = [s \in W!Slot |-> hooks'[s]]
        /\ promised' = [s \in W!Slot |-> promised'[s]]
    BY DEF W!Tick
  <2>2. QED
    BY <1>2, <2>1
<1>4. HooksWell'
  <2>1. ASSUME NEW s \in W!Slot
        PROVE  /\ hooks'[s].uuid = None => hooks'[s] = W!NoHook
               /\ hooks'[s].uuid # None => given'[hooks'[s].uuid] = s
               /\ promised'[s].left <= hooks'[s].left + Delay
               /\ promised'[s].left > Delay => hooks'[s].uuid = promised'[s].uuid
    <3>1. hooks[s].uuid = None => hooks[s].left = 0 /\ hooks'[s] = W!NoHook
      <4>1. ASSUME hooks[s].uuid = None PROVE hooks[s].left = 0 /\ hooks'[s] = W!NoHook
        <5>1. hooks[s].left = 0
          BY <4>1 DEF WebhooksInv, HooksWell, W!NoHook
        <5>2. hooks'[s].left = 0 /\ hooks'[s].uuid = None
          BY <1>2, <4>1, <5>1 DEF W!Less
        <5>3. QED
          BY <1>2, <5>1, <5>2 DEF Hook, W!NoHook
      <4>2. QED
        BY <4>1
    <3>2. promised[s].left <= hooks[s].left + Delay
      BY DEF WebhooksInv, HooksWell
    <3>3. promised'[s].left <= hooks'[s].left + Delay
      BY <1>2, <3>2, DelayType DEF W!Less
    <3>4. promised'[s].left > Delay => promised[s].left > Delay
      BY <1>2, DelayType DEF W!Less
    <3>5. QED
      BY <1>1, <1>2, <3>1, <3>3, <3>4 DEF WebhooksInv, HooksWell
  <2>2. QED
    BY <1>1, <1>3, <2>1 DEF WebhooksInv, HooksWell
<1>5. HooksKept(None)
  <2>1. ASSUME NEW j \in Uuid, W!Valid(j)' PROVE W!Valid(j)
    <3>1. given[j] \in W!Slot
      BY <1>1, <2>1 DEF W!Valid, WebhooksInv, HooksWell
    <3>2. hooks[given[j]].uuid = j /\ hooks'[given[j]].left > 0
      BY <1>1, <1>2, <2>1, <3>1 DEF W!Valid
    <3>3. hooks[given[j]].left > 0
      BY <1>2, <3>1, <3>2 DEF W!Less
    <3>4. QED
      BY <1>1, <2>1, <3>2, <3>3 DEF W!Valid
  <2>2. QED
    BY <1>1, <2>1 DEF HooksKept
<1>6. ASSUME NEW q \in Serving PROVE SoundCall(call[q])'
  <2>1. SoundCall(call[q]) /\ (call[q].late => call[q].uuid # None)
    BY DelayType DEF WebhooksInv, CallsWell, SoundCall
  <2>2. CASE q \notin W!Registering
    <3>1. call'[q] = call[q]
      BY <2>2 DEF W!Tick
    <3>2. QED
      BY <1>5, <2>1, <3>1, CallStays DEF SoundCall, W!Valid
  <2>3. CASE q \in W!Registering
    <3>0. PICK x : x = [call[q] EXCEPT !.wait = call[q].wait + 1, !.left = W!Less(call[q].left)]
      OBVIOUS
    <3>1. call'[q] = x
      BY <2>3, <3>0 DEF W!Tick
    <3>2. /\ call[q].left \in 0..Ttl /\ call[q].wait \in 0..Delay /\ call[q].wait < Delay
          /\ call[q].step = "upsert" /\ ~call[q].late /\ call[q].left + call[q].wait >= Ttl
      BY <2>1, <2>3 DEF W!Tick, W!Registering, SoundCall, Service
    <3>3. W!Less(call[q].left) \in 0..Ttl /\ call[q].left <= W!Less(call[q].left) + 1
      BY <3>2, LessType, DelayType
    <3>4. /\ x.wait = call[q].wait + 1 /\ x.left = W!Less(call[q].left)
          /\ x.step = "upsert" /\ x.slot = call[q].slot /\ x.uuid = call[q].uuid
          /\ x.late = call[q].late /\ x \in Service
      <4>1. call[q] \in Service /\ call[q].wait + 1 \in 0..Delay
        BY <2>1, <3>2, DelayType DEF SoundCall
      <4>2. QED
        BY <3>0, <3>2, <3>3, <4>1 DEF Service
    <3>5. x.left + x.wait >= Ttl
      BY <3>2, <3>3, <3>4, DelayType
    <3>6. SoundCall(x)
      BY <2>1, <3>2, <3>4, <3>5 DEF SoundCall
    <3>7. SoundCall(x)'
      BY <1>5, <3>2, <3>4, <3>6, CallStays
    <3>8. QED
      BY <3>1, <3>7 DEF SoundCall, W!Valid
  <2>4. QED
    BY <2>2, <2>3
<1>7. CallsWell'
  <2>1. call' = [q \in Serving |-> call'[q]]
    BY DEF W!Tick
  <2>2. \A q \in Serving : call'[q] \in Service
    BY <1>6 DEF SoundCall
  <2>3. QED
    BY <1>6, <2>1, <2>2 DEF CallsWell
<1>8. QED
  BY <1>4, <1>7 DEF WebhooksInv

-----------------------------------------------------------------------------
LEMMA WebhooksStutter == WebhooksInv /\ UNCHANGED W!vars => WebhooksInv'
<1> SUFFICES ASSUME WebhooksInv, UNCHANGED W!vars PROVE WebhooksInv'
  OBVIOUS
<1>1. HooksWell' /\ HooksKept(None)
  BY HooksStay DEF WebhooksInv, W!vars
<1>2. QED
  BY <1>1, CallsRest DEF WebhooksInv, W!vars

LEMMA WebhooksStep == WebhooksInv /\ [W!Next]_(W!vars) => WebhooksInv'
<1>1. ASSUME WebhooksInv, W!Next PROVE WebhooksInv'
  BY <1>1, ArriveStep, LookStep, UpsertStep, RemoveStep, DropHooksStep, DropOpenhabStep,
     ExpireStep, WebhookTickStep DEF W!Next
<1>2. QED
  BY <1>1, WebhooksStutter

\* An address that an openHAB was told leads to its path until it expires or is removed,
\* for any openHABs, paths, requests, lifetime and delay.
THEOREM AddressesLast == W!Spec => []KeptAlive
<1>1. W!Init => WebhooksInv
  BY WebhooksInit
<1>2. WebhooksInv /\ [W!Next]_(W!vars) => WebhooksInv'
  BY WebhooksStep
<1>3. WebhooksInv => KeptAlive
  BY WebhooksInvHolds
<1>4. QED
  BY <1>1, <1>2, <1>3, PTL DEF W!Spec

\* A call that comes after its address expired or was removed is never served, and no
\* call is served by another path than the one its address was made for.
THEOREM ExpiredIsGone == W!Spec => []GoneForGood
<1>1. W!Init => WebhooksInv
  BY WebhooksInit
<1>2. WebhooksInv /\ [W!Next]_(W!vars) => WebhooksInv'
  BY WebhooksStep
<1>3. WebhooksInv => GoneForGood
  BY WebhooksInvHolds
<1>4. QED
  BY <1>1, <1>2, <1>3, PTL DEF W!Spec

-----------------------------------------------------------------------------
(* Notifications.                                                          *)

Deed == [step : {"none", "user", "openhab", "home", "users", "next", "save", "devices",
                 "push", "own", "delete", "find", "update", "create", "over", "gone"},
         job : Job \cup {None}, from : Openhab \cup {None},
         user : User \cup {None}, todo : SUBSET User,
         device : Device \cup {None}, regs : SUBSET Reg,
         found : Request \cup {None}, there : SUBSET DeviceDoc, failed : SUBSET User]

ToMany(x) == x.job \in {"broadcast", "log"}

\* What is stored.
Records ==
    /\ users \subseteq User /\ homes \subseteq Openhab /\ devices \subseteq DeviceDoc
    /\ saved \subseteq Request \X User /\ tried \subseteq Pushed
    /\ \A p \in tried : <<p[1], p[2]>> \in saved

\* A notification is from the openHAB of its user's account.
Origins == \A p \in saved : req[p[1]].step # "none" /\ Home[p[2]] = req[p[1]].from

\* What a request r at each step is.
Proper(r, x) ==
    /\ x \in Deed
    /\ x.there \subseteq devices
    /\ \A u \in x.todo : Home[u] = x.from
    /\ IF ToMany(x) THEN x.device = None ELSE x.todo = {} /\ x.there = {}
    /\ x.step \in {"user", "openhab", "own", "delete", "find", "update", "create"} =>
          ~ToMany(x) /\ x.user \in User
    /\ x.step \in {"find", "update", "create"} => x.device \in Device
    /\ x.step \in {"home", "users", "next"} => ToMany(x) /\ x.user = None
    /\ x.step \in {"home", "users"} => x.todo = {}
    /\ x.step \in {"save", "devices", "push"} => x.user \in User /\ Home[x.user] = x.from
    /\ x.step \in {"devices", "push"} =>
          x.job # "log" /\ (x.job # "hide" => <<r, x.user>> \in saved)
    /\ x.step = "own" => Home[x.user] = x.from
    /\ x.step = "own" /\ x.job # "delete" => <<r, x.user>> \in saved
    /\ x.step = "push" /\ x.job = "broadcast" =>
          \A d \in x.there : d.owner = x.user => d.reg \in x.regs
    /\ x.step = "over" => x.todo = {} /\ x.user = None
    /\ x.step = "gone" => x.from \notin homes

\* Request r is done with user u: it is saved, and was pushed to each device.
Reached(r, x, u) ==
    /\ <<r, u>> \in saved
    /\ x.job = "broadcast" => \A d \in x.there : d.owner = u => <<r, u, d.reg>> \in tried

\* Each of the account's users is still to come, or failed, or is at hand, or was reached.
Reaches(r, x) ==
    ToMany(x) /\ x.step \in {"next", "save", "devices", "push", "over"} =>
        \A u \in users : Home[u] = x.from =>
            u \in x.todo \cup x.failed \/ u = x.user \/ Reached(r, x, u)

\* The inductive invariant.
NotificationsInv ==
    /\ Records /\ Origins
    /\ req \in [Request -> Deed]
    /\ \A r \in Request : Proper(r, req[r]) /\ Reaches(r, req[r])

LEMMA HomeType ==
    /\ Home \in [User -> Openhab]
    /\ None \notin User /\ None \notin Device /\ None \notin {"broadcast", "log"}
BY NotificationsAssumption

LEMMA NotificationsInvHolds == NotificationsInv => PushedIsSaved /\ ReachesAll
<1> SUFFICES ASSUME NotificationsInv PROVE PushedIsSaved /\ ReachesAll
  OBVIOUS
<1>1. TypeOK
  BY DEF NotificationsInv, Records, Deed, TypeOK
<1>2. PushedIsSaved
  BY <1>1 DEF NotificationsInv, Records, Origins, PushedIsSaved
<1>3. ASSUME NEW r \in Request, req[r].step = "over", Several(r),
             NEW u \in users \ req[r].failed, Home[u] = req[r].from
      PROVE  Reached(r, req[r], u)
  <2>1. Proper(r, req[r]) /\ Reaches(r, req[r]) /\ u \in User
    BY DEF NotificationsInv, Records
  <2>2. req[r].todo = {} /\ req[r].user = None
    BY <1>3, <2>1 DEF Proper
  <2>3. QED
    BY <1>3, <2>1, <2>2, HomeType DEF Reaches, ToMany, Several
<1>4. ReachesAll
  BY <1>3 DEF ReachesAll, Reached, NotificationsInv, Proper
<1>5. QED
  BY <1>2, <1>4

LEMMA BeforeType ==
    /\ Before \in Deed /\ Before.step = "none" /\ Before.job = None /\ Before.user = None
    /\ Before.todo = {} /\ Before.device = None /\ Before.there = {}
BY DEF Before, Deed

LEMMA NotificationsInit == Init => NotificationsInv
<1> SUFFICES ASSUME Init PROVE NotificationsInv
  OBVIOUS
<1>1. Records /\ Origins
  BY DEF Init, Records, Origins
<1>2. req \in [Request -> Deed]
  BY BeforeType DEF Init
<1>3. ASSUME NEW r \in Request PROVE Proper(r, req[r]) /\ Reaches(r, req[r])
  <2>1. req[r] = Before
    BY DEF Init
  <2>2. ~ToMany(Before)
    BY BeforeType, HomeType DEF ToMany
  <2>3. Proper(r, Before) /\ Reaches(r, Before)
    BY <2>2, BeforeType DEF Proper, Reaches
  <2>4. QED
    BY <2>1, <2>3
<1>4. QED
  BY <1>1, <1>2, <1>3 DEF NotificationsInv

-----------------------------------------------------------------------------
(* What a step leaves of what a request relies on.                         *)

Grows ==
    /\ users' \subseteq users /\ homes' \subseteq homes
    /\ saved \subseteq saved' /\ tried \subseteq tried'

LEMMA DeedStays ==
    ASSUME Grows, NEW r, NEW x, Proper(r, x), Reaches(r, x), x.there \subseteq devices'
    PROVE  Proper(r, x)' /\ Reaches(r, x)'
<1>1. Proper(r, x)'
  BY DEF Grows, Proper
<1>2. ASSUME NEW u \in users', Reached(r, x, u) PROVE Reached(r, x, u)'
  BY <1>2 DEF Grows, Reached
<1>3. Reaches(r, x)'
  BY <1>2 DEF Grows, Reaches
<1>4. QED
  BY <1>1, <1>3

\* Request r goes on, as x, and the devices stay as they are.
LEMMA DeedStep ==
    ASSUME NotificationsInv, Grows, devices' = devices, Records',
           NEW r \in Request, NEW x, Proper(r, x)', Reaches(r, x)', x.step # "none",
           req[r].step # "none" => x.from = req[r].from,
           \A p \in saved' \ saved : p[1] = r /\ Home[p[2]] = x.from,
           req' = [req EXCEPT ![r] = x]
    PROVE  NotificationsInv'
<1>1. x \in Deed
  BY DEF Proper
<1>2. req' \in [Request -> Deed] /\ req'[r] = x
  BY <1>1 DEF NotificationsInv
<1>3. ASSUME NEW q \in Request, q # r PROVE req'[q] = req[q]
  BY <1>3 DEF NotificationsInv
<1>4. Origins'
  <2>1. ASSUME NEW p \in saved' PROVE req'[p[1]].step # "none" /\ Home[p[2]] = req'[p[1]].from
    <3>1. CASE p \in saved
      <4>1. req[p[1]].step # "none" /\ Home[p[2]] = req[p[1]].from /\ p[1] \in Request
        BY <3>1 DEF NotificationsInv, Origins, Records
      <4>2. QED
        BY <1>2, <1>3, <4>1
    <3>2. CASE p \notin saved
      BY <1>2, <2>1, <3>2
    <3>3. QED
      BY <3>1, <3>2
  <2>2. QED
    BY <2>1 DEF Origins
<1>5. ASSUME NEW q \in Request PROVE (Proper(q, req[q]) /\ Reaches(q, req[q]))'
  <2>1. CASE q = r
    BY <1>2, <2>1 DEF Proper, Reaches, Reached
  <2>2. CASE q # r
    <3>1. Proper(q, req[q]) /\ Reaches(q, req[q])
      BY DEF NotificationsInv
    <3>2. req[q].there \subseteq devices'
      BY <3>1 DEF Proper
    <3>3. QED
      BY <1>3, <2>2, <3>1, <3>2, DeedStays DEF Proper, Reaches, Reached
  <2>3. QED
    BY <2>1, <2>2
<1>6. QED
  BY <1>2, <1>4, <1>5 DEF NotificationsInv

\* And nothing is stored.
LEMMA QuietDeed ==
    ASSUME NotificationsInv, UNCHANGED stored, NEW r \in Request, NEW x,
           Proper(r, x), Reaches(r, x), x.step # "none",
           req[r].step # "none" => x.from = req[r].from,
           req' = [req EXCEPT ![r] = x]
    PROVE  NotificationsInv'
<1>1. Grows /\ devices' = devices /\ saved' = saved
  BY DEF stored, Grows
<1>2. Records'
  BY DEF NotificationsInv, stored, Records
<1>3. x.there \subseteq devices'
  BY <1>1 DEF Proper
<1>4. Proper(r, x)' /\ Reaches(r, x)'
  BY <1>1, <1>3, DeedStays
<1>5. QED
  BY <1>1, <1>2, <1>4, DeedStep

\* What is left of a request when it is over.
LEMMA EndedIs ==
    ASSUME NotificationsInv, NEW r \in Request, NEW failed \in SUBSET User
    PROVE  /\ Ended(r, failed) \in Deed
           /\ Ended(r, failed).step = "over" /\ Ended(r, failed).from = req[r].from
           /\ Ended(r, failed).todo = {} /\ Ended(r, failed).user = None
           /\ Ended(r, failed).device = None /\ Ended(r, failed).there = req[r].there
           /\ ToMany(Ended(r, failed)) <=> ToMany(req[r])
           /\ ToMany(req[r]) => /\ Ended(r, failed).job = req[r].job
                                /\ Ended(r, failed).failed = req[r].failed \cup failed
<1>1. req[r] \in Deed
  BY DEF NotificationsInv
<1>2. CASE Several(r)
  <2>1. Ended(r, failed) =
          [Before EXCEPT !.step = "over", !.from = req[r].from, !.job = req[r].job,
                         !.there = req[r].there, !.failed = req[r].failed \cup failed]
    BY <1>2 DEF Ended
  <2>2. req[r].failed \cup failed \in SUBSET User
    BY <1>1 DEF Deed
  <2>3. QED
    BY <1>1, <1>2, <2>1, <2>2, BeforeType DEF Deed, Several, ToMany
<1>3. CASE ~Several(r)
  <2>1. Ended(r, failed) =
          [Before EXCEPT !.step = "over", !.from = req[r].from, !.job = None,
                         !.there = req[r].there, !.failed = {}]
    BY <1>3 DEF Ended
  <2>2. QED
    BY <1>1, <1>3, <2>1, BeforeType, HomeType DEF Deed, Several, ToMany
<1>4. QED
  BY <1>2, <1>3

LEMMA EndedProper ==
    ASSUME NotificationsInv, NEW r \in Request, NEW failed \in SUBSET User
    PROVE  Proper(r, Ended(r, failed))
<1>1. Proper(r, req[r])
  BY DEF NotificationsInv
<1>2. QED
  BY <1>1, EndedIs DEF Proper

\* A request ends, which leaves nobody out.
LEMMA OverStep ==
    ASSUME NotificationsInv, UNCHANGED stored, NEW r \in Request,
           NEW failed \in SUBSET User, Over(r, failed),
           ToMany(req[r]) => \A u \in users : Home[u] = req[r].from => u \in failed
    PROVE  NotificationsInv'
<1>1. Reaches(r, Ended(r, failed))
  BY EndedIs DEF Reaches
<1>2. QED
  BY <1>1, EndedIs, EndedProper, QuietDeed DEF Over

\* A request is done with a user, and goes on to the next one or ends.
LEMMA ProceedStep ==
    ASSUME NotificationsInv, Grows, devices' = devices, Records',
           NEW r \in Request, NEW failed \in SUBSET User, Proceed(r, failed),
           req[r].step \notin {"none", "over", "gone"},
           \A p \in saved' \ saved : p[1] = r /\ Home[p[2]] = req[r].from,
           NEW x, x = req[r],
           ToMany(x) => \A u \in users' : Home[u] = x.from =>
              u \in x.todo \cup x.failed \cup failed \/ Reached(r, x, u)'
    PROVE  NotificationsInv'
<1>1. Proper(r, x)
  BY DEF NotificationsInv
<1>2. CASE req[r].todo = {}
  <2>1. PICK y : y = Ended(r, failed)
    OBVIOUS
  <2>2. /\ y.step = "over" /\ y.from = x.from /\ y.there = x.there
        /\ ToMany(y) => ToMany(x) /\ y.job = x.job /\ y.failed = x.failed \cup failed
        /\ Proper(r, y) /\ y.there \subseteq devices'
    BY <1>1, <2>1, EndedIs, EndedProper DEF Proper
  <2>3. Proper(r, y)'
    BY <2>2 DEF Grows, Proper
  <2>4. ASSUME ToMany(y), NEW u \in users', Home[u] = y.from
        PROVE  u \in y.failed \/ Reached(r, y, u)'
    <3>1. u \in x.failed \cup failed \/ Reached(r, x, u)'
      BY <1>2, <2>2, <2>4
    <3>2. QED
      BY <2>2, <2>4, <3>1 DEF Reached
  <2>5. Reaches(r, y)'
    BY <2>4 DEF Reaches
  <2>6. req' = [req EXCEPT ![r] = y]
    BY <1>2, <2>1 DEF Proceed, Over
  <2>7. QED
    BY <2>2, <2>3, <2>5, <2>6, DeedStep
<1>3. CASE req[r].todo # {}
  <2>1. PICK y : y = [x EXCEPT !.step = "next", !.user = None, !.regs = {},
                               !.failed = x.failed \cup failed]
    OBVIOUS
  <2>2. x \in Deed /\ ToMany(x)
    BY <1>1, <1>3 DEF Proper
  <2>3. /\ y \in Deed /\ y.step = "next" /\ y.from = x.from /\ y.there = x.there
        /\ y.job = x.job /\ y.todo = x.todo /\ y.device = x.device
        /\ y.failed = x.failed \cup failed /\ y.user = None
    BY <2>1, <2>2 DEF Deed
  <2>4. Proper(r, y)'
    BY <1>1, <2>2, <2>3 DEF Proper, ToMany
  <2>5. ASSUME NEW u \in users', Home[u] = y.from
        PROVE  u \in y.todo \cup y.failed \/ Reached(r, y, u)'
    <3>1. u \in x.todo \cup x.failed \cup failed \/ Reached(r, x, u)'
      BY <2>2, <2>3, <2>5
    <3>2. QED
      BY <2>3, <3>1 DEF Reached
  <2>6. Reaches(r, y)'
    BY <2>5 DEF Reaches
  <2>7. req' = [req EXCEPT ![r] = y]
    <3>1. req' = [req EXCEPT ![r] = [req[r] EXCEPT !.step = "next", !.user = None, !.regs = {},
                                                   !.failed = req[r].failed \cup failed]]
      BY <1>3 DEF Proceed, NotificationsInv
    <3>2. QED
      BY <2>1, <3>1
  <2>8. QED
    BY <2>3, <2>4, <2>6, <2>7, DeedStep
<1>4. QED
  BY <1>2, <1>3

\* And nothing is stored.
LEMMA QuietProceed ==
    ASSUME NotificationsInv, UNCHANGED stored, NEW r \in Request,
           NEW failed \in SUBSET User, Proceed(r, failed),
           req[r].step \notin {"none", "over", "gone"},
           ToMany(req[r]) => \A u \in users : Home[u] = req[r].from =>
              u \in req[r].todo \cup req[r].failed \cup failed \/ Reached(r, req[r], u)
    PROVE  NotificationsInv'
<1>1. Grows /\ devices' = devices /\ saved' = saved /\ users' = users
  BY DEF stored, Grows
<1>2. Records'
  BY DEF NotificationsInv, stored, Records
<1>3. PICK x : x = req[r]
  OBVIOUS
<1>4. ASSUME NEW u, Reached(r, x, u) PROVE Reached(r, x, u)'
  BY <1>4 DEF Reached, stored
<1>5. QED
  BY <1>1, <1>2, <1>3, <1>4, ProceedStep

-----------------------------------------------------------------------------
(* Requests arrive.                                                        *)

LEMMA ArriveDeed ==
    ASSUME NotificationsInv, NEW r \in Request, NEW x, Arrive(r, x),
           Proper(r, x), x.step \notin {"none", "next", "over"}, ~ToMany(x) \/ x.step = "home"
    PROVE  NotificationsInv'
<1>1. Reaches(r, x)
  BY DEF Reaches
<1>2. QED
  BY <1>1, QuietDeed DEF Arrive

LEMMA ToAllStep ==
    ASSUME NotificationsInv, NEW r \in Request, NEW h \in Openhab,
           BroadcastNotification(r, h) \/ LogNotification(r, h)
    PROVE  NotificationsInv'
<1>1. PICK j \in {"broadcast", "log"} : ToAll(r, h, j)
  BY DEF BroadcastNotification, LogNotification
<1>2. PICK x : x = [Before EXCEPT !.step = "home", !.job = j, !.from = h, !.there = devices]
  OBVIOUS
<1>3. /\ x \in Deed /\ x.step = "home" /\ x.job = j /\ x.there = devices /\ x.todo = {}
      /\ x.device = None /\ x.user = None
  <2>1. devices \in SUBSET DeviceDoc /\ j \in Job
    BY DEF NotificationsInv, Records, Job
  <2>2. QED
    BY <1>2, <2>1, BeforeType DEF Deed
<1>4. ToMany(x)
  BY <1>3 DEF ToMany
<1>5. Proper(r, x)
  BY <1>3, <1>4 DEF Proper
<1>6. QED
  BY <1>1, <1>2, <1>3, <1>5, ArriveDeed DEF ToAll

LEMMA NotificationStep ==
    ASSUME NotificationsInv, NEW r \in Request, NEW h \in Openhab, NEW u \in User,
           Notification(r, h, u)
    PROVE  NotificationsInv'
<1>1. PICK x : x = [Before EXCEPT !.step = "user", !.job = "single", !.from = h, !.user = u]
  OBVIOUS
<1>2. /\ x \in Deed /\ x.step = "user" /\ x.job = "single" /\ x.user = u /\ x.todo = {}
      /\ x.there = {}
  BY <1>1, BeforeType DEF Deed, Job
<1>3. ~ToMany(x)
  BY <1>2 DEF ToMany
<1>4. Proper(r, x)
  BY <1>2, <1>3 DEF Proper
<1>5. QED
  BY <1>1, <1>2, <1>3, <1>4, ArriveDeed DEF Notification

LEMMA ByUserStep ==
    ASSUME NotificationsInv, NEW r \in Request, NEW u \in User, NEW j, NEW s,
           NEW d \in Device \cup {None}, NEW id \in Request \cup {None},
           ByUser(r, u, j, s, d, id),
           \/ j \in {"api", "message"} /\ s = "save"
           \/ j = "hide" /\ s = "devices"
           \/ j = "delete" /\ s = "own"
    PROVE  NotificationsInv'
<1>1. PICK x : x = [Before EXCEPT !.step = s, !.job = j, !.from = Home[u], !.user = u,
                                  !.device = d, !.found = id]
  OBVIOUS
<1>2. Home[u] \in Openhab
  BY HomeType
<1>3. /\ x \in Deed /\ x.step = s /\ x.job = j /\ x.user = u /\ x.from = Home[u]
      /\ x.todo = {} /\ x.there = {}
  BY <1>1, <1>2, BeforeType DEF Deed, Job
<1>4. ~ToMany(x)
  BY <1>3 DEF ToMany
<1>5. Proper(r, x)
  BY <1>3, <1>4 DEF Proper
<1>6. QED
  BY <1>1, <1>3, <1>4, <1>5, ArriveDeed DEF ByUser

LEMMA FromUserStep ==
    ASSUME NotificationsInv, NEW r \in Request, NEW u \in User,
           \/ SendNotification(r, u)
           \/ \E d \in Device \cup {None} : HideNotification(r, u, d)
           \/ \E d \in devices : SendMessage(r, u, d.id) \/ DeleteDevice(r, u, d.id)
    PROVE  NotificationsInv'
<1>1. CASE SendNotification(r, u)
  BY <1>1, ByUserStep DEF SendNotification
<1>2. ASSUME NEW d \in Device \cup {None}, HideNotification(r, u, d) PROVE NotificationsInv'
  BY <1>2, ByUserStep DEF HideNotification
<1>3. ASSUME NEW d \in devices, SendMessage(r, u, d.id) \/ DeleteDevice(r, u, d.id)
      PROVE  NotificationsInv'
  <2>1. d.id \in Request
    BY DEF NotificationsInv, Records, DeviceDoc
  <2>2. QED
    BY <1>3, <2>1, ByUserStep DEF SendMessage, DeleteDevice
<1>4. QED
  BY <1>1, <1>2, <1>3

LEMMA RegisterDeviceStep ==
    ASSUME NotificationsInv, NEW r \in Request, NEW u \in User, NEW d \in Device,
           NEW g \in Reg, RegisterDevice(r, u, d, g)
    PROVE  NotificationsInv'
<1>1. PICK x : x = [Before EXCEPT !.step = "find", !.job = "register", !.user = u,
                                  !.device = d, !.regs = {g}]
  OBVIOUS
<1>2. /\ x \in Deed /\ x.step = "find" /\ x.job = "register" /\ x.user = u /\ x.device = d
      /\ x.todo = {} /\ x.there = {}
  BY <1>1, BeforeType DEF Deed, Job
<1>3. ~ToMany(x)
  BY <1>2 DEF ToMany
<1>4. Proper(r, x)
  BY <1>2, <1>3 DEF Proper
<1>5. QED
  BY <1>1, <1>2, <1>3, <1>4, ArriveDeed DEF RegisterDevice

-----------------------------------------------------------------------------
(* Requests look things up.                                                *)

\* A request goes on to step s, not yet for each of many.
LEMMA GotoStep ==
    ASSUME NotificationsInv, UNCHANGED stored, NEW r \in Request, NEW s, Goto(r, s),
           \/ req[r].step = "user" /\ s = "openhab"
           \/ req[r].step = "openhab" /\ s = "save" /\ Home[req[r].user] = req[r].from
           \/ req[r].step = "find" /\ s = "create"
           \/ req[r].step = "home" /\ s = "users"
    PROVE  NotificationsInv'
<1>1. Proper(r, req[r])
  BY DEF NotificationsInv
<1>2. PICK x : x = [req[r] EXCEPT !.step = s]
  OBVIOUS
<1>3. /\ x \in Deed /\ x.step = s /\ x.job = req[r].job /\ x.user = req[r].user
      /\ x.from = req[r].from /\ x.todo = req[r].todo /\ x.there = req[r].there
      /\ x.device = req[r].device
  BY <1>1, <1>2 DEF Proper, Deed
<1>4. /\ ToMany(x) <=> ToMany(req[r])
      /\ ToMany(x) <=> s = "users"
  BY <1>1, <1>3 DEF Proper, ToMany
<1>5. Proper(r, x) /\ Reaches(r, x)
  BY <1>1, <1>3, <1>4 DEF Proper, Reaches
<1>6. req' = [req EXCEPT ![r] = x]
  BY <1>2 DEF Goto, NotificationsInv
<1>7. QED
  BY <1>3, <1>5, <1>6, QuietDeed

\* It ends.
LEMMA NotToManyEnds ==
    ASSUME NotificationsInv, UNCHANGED stored, NEW r \in Request, Over(r, {}),
           req[r].step \in {"user", "openhab", "own"}
    PROVE  NotificationsInv'
<1>1. ~ToMany(req[r])
  BY DEF NotificationsInv, Proper
<1>2. QED
  BY <1>1, OverStep

LEMMA FindUserStep ==
    ASSUME NotificationsInv, NEW r \in Request, FindByUsername(r) \/ FindById(r)
    PROVE  NotificationsInv'
<1>1. CASE FindByUsername(r)
  BY <1>1, GotoStep, NotToManyEnds DEF FindByUsername
<1>2. CASE FindById(r)
  BY <1>2, GotoStep, NotToManyEnds DEF FindById
<1>3. QED
  BY <1>1, <1>2

\* A notification to all whose openHAB is gone ends.
LEMMA FindHomeStep ==
    ASSUME NotificationsInv, NEW r \in Request, FindHome(r)
    PROVE  NotificationsInv'
<1>1. UNCHANGED stored /\ req[r].step = "home"
  BY DEF FindHome
<1>2. CASE Goto(r, "users")
  BY <1>1, <1>2, GotoStep
<1>3. CASE req[r].from \notin homes
  <2>1. PICK x : x = [Before EXCEPT !.step = "gone", !.from = req[r].from]
    OBVIOUS
  <2>2. req[r] \in Deed
    BY DEF NotificationsInv
  <2>3. /\ x \in Deed /\ x.step = "gone" /\ x.from = req[r].from /\ x.job = None
        /\ x.todo = {} /\ x.there = {}
    BY <2>1, <2>2, BeforeType DEF Deed
  <2>4. ~ToMany(x)
    BY <2>3, HomeType DEF ToMany
  <2>5. Proper(r, x) /\ Reaches(r, x)
    BY <1>3, <2>3, <2>4 DEF Proper, Reaches
  <2>6. req' = [req EXCEPT ![r] = x]
    BY <1>3, <2>1 DEF FindHome
  <2>7. QED
    BY <1>1, <2>3, <2>5, <2>6, QuietDeed
<1>4. QED
  BY <1>2, <1>3 DEF FindHome

LEMMA FindUsersStep ==
    ASSUME NotificationsInv, NEW r \in Request, FindUsers(r)
    PROVE  NotificationsInv'
<1> DEFINE all == {u \in users : Home[u] = req[r].from}
<1>1. UNCHANGED stored /\ req[r].step = "users"
  BY DEF FindUsers
<1>2. Proper(r, req[r])
  BY DEF NotificationsInv
<1>3. CASE all = {}
  <2>1. Over(r, {})
    BY <1>3 DEF FindUsers
  <2>2. QED
    BY <1>1, <1>3, <2>1, OverStep
<1>4. CASE all # {}
  <2>1. PICK x : x = [req[r] EXCEPT !.todo = all, !.step = "next"]
    OBVIOUS
  <2>2. all \in SUBSET User
    BY DEF NotificationsInv, Records
  <2>3. /\ x \in Deed /\ x.step = "next" /\ x.todo = all /\ x.job = req[r].job
        /\ x.from = req[r].from /\ x.there = req[r].there /\ x.device = req[r].device
        /\ x.user = req[r].user
    BY <1>2, <2>1, <2>2 DEF Proper, Deed
  <2>4. ToMany(req[r]) /\ ToMany(x)
    BY <1>1, <1>2, <2>3 DEF Proper, ToMany
  <2>5. Proper(r, x)
    BY <1>1, <1>2, <2>3, <2>4 DEF Proper
  <2>6. Reaches(r, x)
    BY <2>3 DEF Reaches
  <2>7. req' = [req EXCEPT ![r] = x]
    BY <1>4, <2>1 DEF FindUsers, NotificationsInv
  <2>8. QED
    BY <1>1, <2>3, <2>5, <2>6, <2>7, QuietDeed
<1>5. QED
  BY <1>3, <1>4

LEMMA NextUserStep ==
    ASSUME NotificationsInv, NEW r \in Request, NEW u \in User, NextUser(r, u)
    PROVE  NotificationsInv'
<1>1. UNCHANGED stored /\ req[r].step = "next" /\ u \in req[r].todo
  BY DEF NextUser
<1>2. Proper(r, req[r]) /\ Reaches(r, req[r])
  BY DEF NotificationsInv
<1>3. PICK x : x = [req[r] EXCEPT !.todo = req[r].todo \ {u}, !.user = u, !.step = "save"]
  OBVIOUS
<1>4. /\ x \in Deed /\ x.step = "save" /\ x.todo = req[r].todo \ {u} /\ x.user = u
      /\ x.job = req[r].job /\ x.from = req[r].from /\ x.there = req[r].there
      /\ x.device = req[r].device /\ x.failed = req[r].failed
  BY <1>2, <1>3 DEF Proper, Deed
<1>5. ToMany(req[r]) /\ ToMany(x)
  BY <1>1, <1>2, <1>4 DEF Proper, ToMany
<1>6. Proper(r, x)
  BY <1>1, <1>2, <1>4, <1>5 DEF Proper
<1>7. ASSUME NEW v \in users, Home[v] = x.from
      PROVE  v \in x.todo \cup x.failed \/ v = x.user \/ Reached(r, x, v)
  <2>1. v \in req[r].todo \cup req[r].failed \/ v = req[r].user \/ Reached(r, req[r], v)
    BY <1>1, <1>2, <1>4, <1>5, <1>7 DEF Reaches
  <2>2. v # req[r].user
    BY <1>1, <1>2, HomeType DEF Proper, NotificationsInv, Records
  <2>3. QED
    BY <1>4, <2>1, <2>2 DEF Reached
<1>8. Reaches(r, x)
  BY <1>7 DEF Reaches
<1>9. req' = [req EXCEPT ![r] = x]
  BY <1>3 DEF NextUser, NotificationsInv
<1>10. QED
  BY <1>1, <1>4, <1>6, <1>8, <1>9, QuietDeed

-----------------------------------------------------------------------------
(* A notification is saved.                                                *)

LEMMA SaveStep ==
    ASSUME NotificationsInv, NEW r \in Request, Save(r)
    PROVE  NotificationsInv'
<1>1. PICK x : x = req[r]
  OBVIOUS
<1>2. /\ Proper(r, x) /\ Reaches(r, x) /\ x.step = "save"
      /\ x.user \in User /\ Home[x.user] = x.from
  BY <1>1 DEF NotificationsInv, Proper, Save
<1>3. saved' = saved \cup {<<r, x.user>>} /\ UNCHANGED <<users, homes, devices, tried>>
  BY <1>1 DEF Save
<1>4. Grows /\ devices' = devices
  BY <1>3 DEF Grows
<1>5. Records'
  BY <1>2, <1>3 DEF NotificationsInv, Records
<1>6. \A p \in saved' \ saved : p[1] = r /\ Home[p[2]] = x.from
  BY <1>2, <1>3
<1>7. CASE x.job = "log"
  <2>1. Proceed(r, {})
    BY <1>1, <1>7 DEF Save
  <2>2. ASSUME NEW u \in users', Home[u] = x.from
        PROVE  u \in x.todo \cup x.failed \cup {} \/ Reached(r, x, u)'
    <3>1. CASE u = x.user
      BY <1>3, <1>7, <3>1 DEF Reached
    <3>2. CASE u # x.user
      BY <1>2, <1>3, <1>7, <2>2, <3>2 DEF Reaches, ToMany, Reached
    <3>3. QED
      BY <3>1, <3>2
  <2>3. req[r].step \notin {"none", "over", "gone"} /\ {} \in SUBSET User
    BY <1>1, <1>2
  <2>4. QED
    BY <1>1, <1>4, <1>5, <1>6, <2>1, <2>2, <2>3, ProceedStep
<1>8. CASE x.job # "log"
  <2>1. PICK s \in {"own", "devices"} : Goto(r, s) /\ (s = "own" <=> x.job = "message")
    BY <1>1, <1>8 DEF Save
  <2>2. PICK y : y = [x EXCEPT !.step = s]
    OBVIOUS
  <2>3. /\ y \in Deed /\ y.step = s /\ y.job = x.job /\ y.user = x.user /\ y.from = x.from
        /\ y.todo = x.todo /\ y.there = x.there /\ y.device = x.device /\ y.failed = x.failed
    BY <1>2, <2>1, <2>2 DEF Proper, Deed
  <2>4. ToMany(y) <=> ToMany(x)
    BY <2>3 DEF ToMany
  <2>5. s = "own" => ~ToMany(x)
    BY <2>1 DEF ToMany
  <2>6. <<r, y.user>> \in saved'
    BY <1>3, <2>3
  <2>7. Proper(r, y)'
    BY <1>2, <1>4, <1>8, <2>1, <2>3, <2>4, <2>5, <2>6 DEF Proper, ToMany
  <2>8. ASSUME ToMany(y), NEW u \in users', Home[u] = y.from
        PROVE  u \in y.todo \cup y.failed \/ u = y.user \/ Reached(r, y, u)'
    <3>1. u \in x.todo \cup x.failed \/ u = x.user \/ Reached(r, x, u)
      BY <1>2, <1>3, <2>3, <2>4, <2>8 DEF Reaches
    <3>2. QED
      BY <1>3, <2>3, <3>1 DEF Reached
  <2>9. Reaches(r, y)'
    BY <2>8 DEF Reaches
  <2>10. req' = [req EXCEPT ![r] = y]
    BY <1>1, <2>1, <2>2 DEF Goto, NotificationsInv
  <2>11. y.step # "none" /\ y.from = req[r].from
    BY <1>1, <2>1, <2>3
  <2>12. QED
    BY <1>4, <1>5, <1>6, <2>3, <2>7, <2>9, <2>10, <2>11, DeedStep
<1>9. QED
  BY <1>7, <1>8

-----------------------------------------------------------------------------
(* And pushed.                                                             *)

LEMMA FindByOwnerStep ==
    ASSUME NotificationsInv, NEW r \in Request, FindByOwner(r)
    PROVE  NotificationsInv'
<1> DEFINE mine == {e \in devices : e.owner = req[r].user /\ e.device # req[r].device}
           found == {d.reg : d \in mine}
<1>1. UNCHANGED stored /\ req[r].step = "devices"
  BY DEF FindByOwner
<1>2. Proper(r, req[r]) /\ Reaches(r, req[r])
  BY DEF NotificationsInv
<1>3. ASSUME ToMany(req[r]), NEW d \in req[r].there, d.owner = req[r].user
      PROVE  d.reg \in found
  <2>1. d \in devices /\ d \in DeviceDoc /\ req[r].device = None
    BY <1>2, <1>3 DEF Proper, NotificationsInv, Records
  <2>2. d.device # None
    BY <2>1, HomeType DEF DeviceDoc
  <2>3. QED
    BY <1>3, <2>1, <2>2
<1>4. found \in SUBSET Reg
  BY DEF NotificationsInv, Records, DeviceDoc
<1>5. CASE found = {}
  <2>1. Proceed(r, {})
    BY <1>5 DEF FindByOwner
  <2>2. ASSUME ToMany(req[r]), NEW u \in users, Home[u] = req[r].from
        PROVE  u \in req[r].todo \cup req[r].failed \cup {} \/ Reached(r, req[r], u)
    <3>1. CASE u = req[r].user
      <4>1. <<r, u>> \in saved
        BY <1>1, <1>2, <2>2, <3>1 DEF Proper, ToMany
      <4>2. \A d \in req[r].there : d.owner # u
        BY <1>3, <1>5, <2>2, <3>1
      <4>3. QED
        BY <4>1, <4>2 DEF Reached
    <3>2. CASE u # req[r].user
      BY <1>1, <1>2, <2>2, <3>2 DEF Reaches
    <3>3. QED
      BY <3>1, <3>2
  <2>3. {} \in SUBSET User
    OBVIOUS
  <2>4. QED
    BY <1>1, <2>1, <2>2, <2>3, QuietProceed
<1>6. CASE found # {}
  <2>1. PICK x : x = [req[r] EXCEPT !.regs = found, !.step = "push"]
    OBVIOUS
  <2>2. req[r] \in Deed
    BY <1>2 DEF Proper
  <2>3. /\ x \in Deed /\ x.step = "push" /\ x.regs = found /\ x.job = req[r].job
        /\ x.user = req[r].user /\ x.from = req[r].from /\ x.todo = req[r].todo
        /\ x.there = req[r].there /\ x.device = req[r].device /\ x.failed = req[r].failed
    BY <1>4, <2>1, <2>2 DEF Deed
  <2>4. ToMany(x) <=> ToMany(req[r])
    BY <2>3 DEF ToMany
  <2>5. x.job = "broadcast" => \A d \in x.there : d.owner = x.user => d.reg \in x.regs
    BY <1>3, <2>3 DEF ToMany
  <2> HIDE DEF found, mine
  <2>6. Proper(r, x)
    BY <1>1, <1>2, <2>3, <2>4, <2>5 DEF Proper
  <2>7. Reaches(r, x)
    BY <1>1, <1>2, <2>3, <2>4 DEF Reaches, Reached
  <2>8. req' = [req EXCEPT ![r] = x]
    BY <1>6, <2>1 DEF FindByOwner, NotificationsInv, found, mine
  <2>9. QED
    BY <1>1, <2>3, <2>6, <2>7, <2>8, QuietDeed
<1>7. QED
  BY <1>5, <1>6

LEMMA PushStep ==
    ASSUME NotificationsInv, NEW r \in Request, Push(r)
    PROVE  NotificationsInv'
<1>1. PICK x : x = req[r]
  OBVIOUS
<1>2. /\ Proper(r, x) /\ Reaches(r, x) /\ x.step = "push" /\ x.user \in User
      /\ x.job # "log" /\ <<r, x.user>> \in saved /\ x.regs \in SUBSET Reg
  BY <1>1 DEF NotificationsInv, Proper, Push, Deed
<1>4. /\ tried' = tried \cup ({r} \X {x.user} \X x.regs) /\ Proceed(r, {})
      /\ UNCHANGED <<users, homes, devices, saved>>
  BY <1>1 DEF Push
<1>5. Grows
  BY <1>4 DEF Grows
<1>6. Records'
  <2>2. {r} \X {x.user} \X x.regs \subseteq Pushed
    BY <1>2 DEF Pushed
  <2>3. \A p \in {r} \X {x.user} \X x.regs : <<p[1], p[2]>> \in saved
    BY <1>2
  <2>4. tried' \subseteq Pushed
    BY <1>4, <2>2 DEF NotificationsInv, Records
  <2>5. \A p \in tried' : <<p[1], p[2]>> \in saved'
    BY <1>4, <2>3 DEF NotificationsInv, Records
  <2>6. QED
    BY <1>4, <2>4, <2>5 DEF NotificationsInv, Records
<1>7. ASSUME ToMany(x), NEW u \in users', Home[u] = x.from
      PROVE  u \in x.todo \cup x.failed \cup {} \/ Reached(r, x, u)'
  <2>1. CASE u = x.user
    <3>1. ASSUME x.job = "broadcast", NEW d \in x.there, d.owner = u
          PROVE  <<r, u, d.reg>> \in tried'
      <4>1. d.reg \in x.regs
        BY <1>2, <2>1, <3>1 DEF Proper
      <4>2. QED
        BY <1>4, <2>1, <4>1
    <3>2. QED
      BY <1>2, <1>4, <2>1, <3>1 DEF Reached
  <2>2. CASE u # x.user
    <3>1. u \in x.todo \cup x.failed \/ Reached(r, x, u)
      BY <1>2, <1>4, <1>7, <2>2 DEF Reaches
    <3>2. Reached(r, x, u) => Reached(r, x, u)'
      BY <1>4 DEF Reached
    <3>3. QED
      BY <3>1, <3>2
  <2>3. QED
    BY <2>1, <2>2
<1>8. req[r].step \notin {"none", "over", "gone"} /\ {} \in SUBSET User
  BY <1>1, <1>2
<1>9. QED
  BY <1>1, <1>4, <1>5, <1>6, <1>7, <1>8, ProceedStep

LEMMA PushHideStep ==
    ASSUME NotificationsInv, NEW r \in Request, PushHide(r)
    PROVE  NotificationsInv'
<1>1. ~ToMany(req[r]) /\ req[r].step = "push" /\ {} \in SUBSET User
  BY DEF PushHide, ToMany
<1>2. QED
  BY <1>1, QuietProceed DEF PushHide

-----------------------------------------------------------------------------
(* Devices.                                                                *)

LEMMA FindByIdAndOwnerStep ==
    ASSUME NotificationsInv, NEW r \in Request, FindByIdAndOwner(r)
    PROVE  NotificationsInv'
<1> DEFINE own == {d \in devices : d.id = req[r].found /\ d.owner = req[r].user}
           s == IF req[r].job = "delete" THEN "delete" ELSE "push"
<1>1. UNCHANGED stored /\ req[r].step = "own"
  BY DEF FindByIdAndOwner
<1>2. CASE own = {}
  <2>1. Over(r, {})
    BY <1>2 DEF FindByIdAndOwner
  <2>2. QED
    BY <1>1, <2>1, NotToManyEnds
<1>3. CASE own # {}
  <2>1. Proper(r, req[r]) /\ req[r] \in Deed /\ ~ToMany(req[r])
    BY <1>1 DEF NotificationsInv, Proper
  <2>2. PICK regs \in SUBSET Reg : regs = {d.reg : d \in own}
    BY DEF NotificationsInv, Records, DeviceDoc
  <2>3. PICK t \in {"push", "delete"} : t = s
    OBVIOUS
  <2>4. PICK x : x = [req[r] EXCEPT !.regs = regs, !.step = t]
    OBVIOUS
  <2>5. req' = [req EXCEPT ![r] = x]
    BY <1>3, <2>2, <2>3, <2>4 DEF FindByIdAndOwner, NotificationsInv
  <2>6. /\ x \in Deed /\ x.step = t /\ x.job = req[r].job /\ x.user = req[r].user
        /\ x.from = req[r].from /\ x.todo = req[r].todo /\ x.there = req[r].there
        /\ x.device = req[r].device
    BY <2>1, <2>4 DEF Deed
  <2>7. ~ToMany(x)
    BY <2>1, <2>6 DEF ToMany
  <2>8. Proper(r, x)
    BY <1>1, <2>1, <2>3, <2>6, <2>7 DEF Proper, ToMany
  <2>9. Reaches(r, x)
    BY <2>7 DEF Reaches
  <2>10. QED
    BY <1>1, <2>5, <2>6, <2>8, <2>9, QuietDeed
<1>4. QED
  BY <1>2, <1>3

LEMMA FindByOwnerAndDeviceIdStep ==
    ASSUME NotificationsInv, NEW r \in Request, FindByOwnerAndDeviceId(r)
    PROVE  NotificationsInv'
<1>1. UNCHANGED stored /\ req[r].step = "find"
  BY DEF FindByOwnerAndDeviceId
<1>2. ASSUME NEW d \in devices, req' = [req EXCEPT ![r].found = d.id, ![r].step = "update"]
      PROVE  NotificationsInv'
  <2>1. Proper(r, req[r]) /\ req[r] \in Deed /\ ~ToMany(req[r])
    BY <1>1 DEF NotificationsInv, Proper
  <2>2. d.id \in Request
    BY DEF NotificationsInv, Records, DeviceDoc
  <2>3. PICK x : x = [req[r] EXCEPT !.found = d.id, !.step = "update"]
    OBVIOUS
  <2>4. /\ x \in Deed /\ x.step = "update" /\ x.job = req[r].job /\ x.user = req[r].user
        /\ x.from = req[r].from /\ x.todo = req[r].todo /\ x.there = req[r].there
        /\ x.device = req[r].device
    BY <2>1, <2>2, <2>3 DEF Deed
  <2>5. ~ToMany(x)
    BY <2>1, <2>4 DEF ToMany
  <2>6. Proper(r, x) /\ Reaches(r, x)
    BY <1>1, <2>1, <2>4, <2>5 DEF Proper, Reaches
  <2>7. req' = [req EXCEPT ![r] = x]
    BY <1>2, <2>3 DEF NotificationsInv
  <2>8. QED
    BY <1>1, <2>4, <2>6, <2>7, QuietDeed
<1>3. CASE Goto(r, "create")
  BY <1>1, <1>3, GotoStep
<1>4. QED
  BY <1>2, <1>3 DEF FindByOwnerAndDeviceId

\* The devices change: what a broadcast is to reach of them can only become less.
LEMMA LeavesStep ==
    ASSUME NotificationsInv, NEW r \in Request, NEW docs \in SUBSET DeviceDoc,
           Leaves(r, docs), req[r].step \in {"delete", "update", "create"},
           UNCHANGED <<users, homes, saved, tried>>
    PROVE  NotificationsInv'
<1>1. devices' = docs /\ Grows
  BY DEF Leaves, Grows
<1>2. Records'
  BY <1>1 DEF NotificationsInv, Records
<1>3. PICK x : x = Ended(r, {})
  OBVIOUS
<1>4. /\ x \in Deed /\ x.step = "over" /\ x.from = req[r].from /\ ~ToMany(x)
      /\ x.there = {} /\ Proper(r, x)
  <2>1. {} \in SUBSET User
    OBVIOUS
  <2>2. ~ToMany(req[r]) /\ req[r].there = {}
    BY DEF NotificationsInv, Proper
  <2>3. QED
    BY <1>3, <2>1, <2>2, EndedIs, EndedProper
<1>5. req'[r] = x /\ DOMAIN req' = Request /\ req' = [q \in Request |-> req'[q]]
  BY <1>3 DEF Leaves
<1>6. ASSUME NEW q \in Request, q # r
      PROVE  req'[q] = [req[q] EXCEPT !.there = req[q].there \cap docs]
  BY <1>6 DEF Leaves
<1>7. ASSUME NEW q \in Request, q # r
      PROVE  /\ req'[q] \in Deed /\ req'[q].there = req[q].there \cap docs
             /\ req'[q].step = req[q].step /\ req'[q].job = req[q].job
             /\ req'[q].from = req[q].from /\ req'[q].user = req[q].user
             /\ req'[q].todo = req[q].todo /\ req'[q].device = req[q].device
             /\ req'[q].regs = req[q].regs /\ req'[q].failed = req[q].failed
  <2>1. req[q] \in Deed
    BY DEF NotificationsInv
  <2>2. PICK there \in SUBSET DeviceDoc : there = req[q].there \cap docs
    OBVIOUS
  <2>3. req'[q] = [req[q] EXCEPT !.there = there]
    BY <1>6, <1>7, <2>2
  <2>4. QED
    BY <2>1, <2>2, <2>3 DEF Deed
<1>8. Origins'
  BY <1>4, <1>5, <1>7 DEF NotificationsInv, Records, Origins
<1>9. ASSUME NEW q \in Request PROVE (Proper(q, req[q]) /\ Reaches(q, req[q]))'
  <2>1. CASE q = r
    <3>1. Proper(r, x)' /\ Reaches(r, x)'
      BY <1>1, <1>4 DEF Proper, Reaches, Grows
    <3>2. QED
      BY <1>5, <2>1, <3>1 DEF Proper, Reaches, Reached
  <2>2. CASE q # r
    <3>1. PICK y : y = req'[q]
      OBVIOUS
    <3>2. Proper(q, req[q]) /\ Reaches(q, req[q])
      BY DEF NotificationsInv
    <3>3. /\ y \in Deed /\ y.there = req[q].there \cap docs
          /\ y.step = req[q].step /\ y.job = req[q].job
          /\ y.from = req[q].from /\ y.user = req[q].user
          /\ y.todo = req[q].todo /\ y.device = req[q].device
          /\ y.regs = req[q].regs /\ y.failed = req[q].failed
      BY <1>7, <2>2, <3>1
    <3>4. ToMany(y) <=> ToMany(req[q])
      BY <3>3 DEF ToMany
    <3>5. Proper(q, y)
      BY <3>2, <3>3, <3>4 DEF Proper
    <3>6. ASSUME NEW u, Reached(q, req[q], u) PROVE Reached(q, y, u)
      BY <3>3, <3>6 DEF Reached
    <3>7. Reaches(q, y)
      BY <3>2, <3>3, <3>4, <3>6 DEF Reaches
    <3>8. y.there \subseteq devices'
      BY <1>1, <3>3
    <3>9. Proper(q, y)' /\ Reaches(q, y)'
      BY <1>1, <3>5, <3>7, <3>8, DeedStays
    <3>10. QED
      BY <3>1, <3>9 DEF Proper, Reaches, Reached
  <2>3. QED
    BY <2>1, <2>2
<1>10. req' \in [Request -> Deed]
  BY <1>4, <1>5, <1>7
<1>11. QED
  BY <1>2, <1>8, <1>9, <1>10 DEF NotificationsInv

LEMMA DeviceStep ==
    ASSUME NotificationsInv, NEW r \in Request,
           DeleteById(r) \/ UpdateFcmRegistration(r) \/ CreateDevice(r)
    PROVE  NotificationsInv'
<1>1. /\ devices \subseteq DeviceDoc /\ Proper(r, req[r]) /\ req[r].regs \subseteq Reg
  BY DEF NotificationsInv, Records, Deed
<1>2. CASE DeleteById(r)
  <2>1. {d \in devices : d.id # req[r].found} \in SUBSET DeviceDoc
    BY <1>1
  <2>2. QED
    BY <1>2, <2>1, LeavesStep DEF DeleteById
<1>3. CASE UpdateFcmRegistration(r)
  <2>1. PICK g \in req[r].regs :
          Leaves(r, {IF d.id = req[r].found THEN [d EXCEPT !.reg = g] ELSE d : d \in devices})
    BY <1>3 DEF UpdateFcmRegistration
  <2>2. ASSUME NEW d \in devices
        PROVE  (IF d.id = req[r].found THEN [d EXCEPT !.reg = g] ELSE d) \in DeviceDoc
    BY <1>1, <2>1 DEF DeviceDoc
  <2>3. {IF d.id = req[r].found THEN [d EXCEPT !.reg = g] ELSE d : d \in devices}
          \in SUBSET DeviceDoc
    BY <2>2
  <2>4. QED
    BY <1>3, <2>1, <2>3, LeavesStep DEF UpdateFcmRegistration
<1>4. CASE CreateDevice(r)
  <2>1. PICK g \in req[r].regs :
          Leaves(r, devices \cup {[id |-> r, owner |-> req[r].user, device |-> req[r].device,
                                   reg |-> g]})
    BY <1>4 DEF CreateDevice
  <2>2. req[r].user \in User /\ req[r].device \in Device
    BY <1>1, <1>4 DEF CreateDevice, Proper
  <2>3. [id |-> r, owner |-> req[r].user, device |-> req[r].device, reg |-> g] \in DeviceDoc
    BY <1>1, <2>1, <2>2 DEF DeviceDoc
  <2>4. devices \cup {[id |-> r, owner |-> req[r].user, device |-> req[r].device, reg |-> g]}
          \in SUBSET DeviceDoc
    BY <1>1, <2>3
  <2>5. QED
    BY <1>4, <2>1, <2>4, LeavesStep DEF CreateDevice
<1>5. QED
  BY <1>2, <1>3, <1>4

-----------------------------------------------------------------------------
(* Failures and deletions.                                                 *)

LEMMA FailStep ==
    ASSUME NotificationsInv, NEW r \in Request, Fail(r)
    PROVE  NotificationsInv'
<1>1. UNCHANGED stored /\ req[r].step \notin {"none", "next", "over", "gone"}
  BY DEF Fail, InProgress
<1>2. Proper(r, req[r]) /\ Reaches(r, req[r])
  BY DEF NotificationsInv
<1>3. CASE req[r].user = None
  <2>1. Over(r, User) /\ User \in SUBSET User
    BY <1>3 DEF Fail
  <2>2. QED
    BY <1>1, <2>1, OverStep DEF NotificationsInv, Records
<1>4. CASE req[r].user # None
  <2>1. Proceed(r, {req[r].user}) /\ {req[r].user} \in SUBSET User
    BY <1>2, <1>4 DEF Fail, Proper, Deed
  <2>2. ToMany(req[r]) => req[r].step \in {"save", "devices", "push"}
    <3>1. req[r].step \in {"none", "user", "openhab", "home", "users", "next", "save",
                           "devices", "push", "own", "delete", "find", "update", "create",
                           "over", "gone"}
      BY <1>2 DEF Proper, Deed
    <3>2. QED
      BY <1>1, <1>2, <1>4, <3>1 DEF Proper
  <2>3. ASSUME ToMany(req[r]), NEW u \in users, Home[u] = req[r].from
        PROVE  \/ u \in req[r].todo \cup req[r].failed \cup {req[r].user}
               \/ Reached(r, req[r], u)
    BY <1>2, <2>2, <2>3 DEF Reaches
  <2>4. QED
    BY <1>1, <2>1, <2>3, QuietProceed
<1>5. QED
  BY <1>3, <1>4

\* Nothing happens, or a user or an openHAB goes.
LEMMA Fewer ==
    ASSUME NotificationsInv, users' \subseteq users, homes' \subseteq homes,
           UNCHANGED <<devices, saved, tried, req>>
    PROVE  NotificationsInv'
<1>1. Grows
  BY DEF Grows
<1>2. Records' /\ Origins' /\ req' \in [Request -> Deed]
  BY DEF NotificationsInv, Records, Origins
<1>3. ASSUME NEW q \in Request PROVE (Proper(q, req[q]) /\ Reaches(q, req[q]))'
  <2>1. Proper(q, req[q]) /\ Reaches(q, req[q]) /\ req[q].there \subseteq devices'
    BY DEF NotificationsInv, Proper
  <2>2. QED
    BY <1>1, <2>1, DeedStays DEF Proper, Reaches, Reached
<1>4. QED
  BY <1>2, <1>3 DEF NotificationsInv

-----------------------------------------------------------------------------
LEMMA NotificationsStep == NotificationsInv /\ [Next]_vars => NotificationsInv'
<1>1. ASSUME NotificationsInv, NEW u \in User, DropUser(u) PROVE NotificationsInv'
  BY <1>1, Fewer DEF DropUser
<1>2. ASSUME NotificationsInv, NEW h \in Openhab, DropHome(h) PROVE NotificationsInv'
  BY <1>2, Fewer DEF DropHome
<1>3. ASSUME NotificationsInv, UNCHANGED vars PROVE NotificationsInv'
  BY <1>3, Fewer DEF vars, stored
<1>4. ASSUME NotificationsInv, Next PROVE NotificationsInv'
  BY <1>1, <1>2, <1>4, ToAllStep, NotificationStep, FromUserStep, RegisterDeviceStep,
     FindUserStep, FindHomeStep, FindUsersStep, NextUserStep, SaveStep, FindByOwnerStep, PushStep, PushHideStep,
     FindByIdAndOwnerStep, DeviceStep, FindByOwnerAndDeviceIdStep, FailStep DEF Next
<1>5. QED
  BY <1>3, <1>4

\* Whatever the apps are asked to show was saved before, and is from the openHAB of its
\* user's account - for any users, openHABs, devices and requests.
THEOREM SavedBeforePushed == Spec => []PushedIsSaved
<1>1. Init => NotificationsInv
  BY NotificationsInit
<1>2. NotificationsInv /\ [Next]_vars => NotificationsInv'
  BY NotificationsStep
<1>3. NotificationsInv => PushedIsSaved
  BY NotificationsInvHolds
<1>4. QED
  BY <1>1, <1>2, <1>3, PTL DEF Spec

\* A notification to all reaches everybody whose own commands do not fail, whatever
\* happens to the others, and whichever devices come, change and go meanwhile; only if
\* its openHAB was deleted before it was looked up does it end for nobody.
THEOREM EverybodyIsReached == Spec => []ReachesAll
<1>1. Init => NotificationsInv
  BY NotificationsInit
<1>2. NotificationsInv /\ [Next]_vars => NotificationsInv'
  BY NotificationsStep
<1>3. NotificationsInv => ReachesAll
  BY NotificationsInvHolds
<1>4. QED
  BY <1>1, <1>2, <1>3, PTL DEF Spec
====
