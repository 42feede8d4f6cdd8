---------------------- MODULE RequestForwardingProofs ----------------------
(***************************************************************************)
(* What a client is promised about a request, for any number of nodes and  *)
(* hops.                                                                   *)
(***************************************************************************)
EXTENDS RequestForwarding, TLAPS

\* A hop looks the openHAB up before it does anything.
Looking == \A l \in Hop : state[l] = "looking" => hop[l] \in {"routing", "refreshing"}

\* A hop that is under way, or not there, has not answered.
Unanswered ==
    /\ \A l \in Hop : hop[l] \in {"routing", "waiting", "refreshing", "again", "local",
                          "empty"} => answer[l] = "none"
    /\ \A l \in Hop \ {First} : hop[l] = "none" => answer[l] = "none"

\* The openHAB's answers are of a request it was given.
Given ==
    \A l \in Hop : hop[l] = "local" \/ answer[l] \in {"openhab", "tunnel"} => given > 0

\* Without a failure, one hop at most is still on its way to the openHAB.
Once ==
    ~failed =>
        /\ given <= 1
        /\ \A l \in Hop :
              /\ hop[l] \notin {"refreshing", "again", "repiping"}
              /\ hop[l] = "routing" =>
                    given = 0 /\ \A m \in Hop : hop[m] = "routing" => m = l

\* A hop waits for one that runs where it has found the openHAB, and not here.
Callees ==
    /\ \A l \in Hop : Waits(l) =>
          /\ state[l] = "found" /\ found[l] \in Node \ {at[l]}
          /\ callee[l] # NoHop =>
                callee[l] # First /\ hop[callee[l]] # "none" /\ at[callee[l]] = found[l]
    /\ \A l \in Hop : ~Waits(l) => callee[l] = NoHop

\* A calm hop has found the place, which has not moved since.
Calm ==
    /\ calm # {} => settled
    /\ \A l \in calm :
          /\ state[l] = "found" /\ found[l] \in {place, Offline}
          /\ ~failed => found[l] = place

\* A calm request without a failure is served where it is or one hop further.
Straight ==
    First \in calm /\ ~failed =>
        /\ place # Offline => answer[First] # "error"
        /\ Waits(First) /\ callee[First] # NoHop =>
              LET m == callee[First]
              IN  /\ hop[m] \in {"routing", "local", "empty", "hung", "done"}
                  /\ answer[m] # "error"
                  /\ hop[m] = "routing" => state[m] = "looking" \/ m \in calm

\* The inductive invariant.
ForwardInv ==
    TypeOK /\ Looking /\ Unanswered /\ Given /\ Once /\ Callees /\ Calm /\ Straight

LEMMA ForwardInit == Init => ForwardInv
<1> SUFFICES ASSUME Init PROVE ForwardInv
  OBVIOUS
<1> USE ForwardAssumption, PlaceAssumption DEF Init, WInit, Hop, Place
<1>1. TypeOK
  <2>0. given \in 0..2 /\ calm \subseteq Hop
    OBVIOUS
  <2>1. failed \in BOOLEAN /\ settled \in BOOLEAN /\ upgrade \in BOOLEAN
    OBVIOUS
  <2>2. /\ place \in Place
        /\ state \in [Hop -> {"idle", "looking", "found"}]
        /\ found \in [Hop -> Place] /\ at \in [Hop -> Place]
    OBVIOUS
  <2>3. /\ hop \in [Hop -> {"none", "routing", "waiting", "refreshing", "again",
                            "piping", "repiping", "hung", "local", "empty", "done"}]
        /\ callee \in [Hop -> Hop \cup {NoHop}]
        /\ answer \in [Hop -> {"none", "openhab", "tunnel", "error"}]
    OBVIOUS
  <2>4. QED
    BY <2>0, <2>1, <2>2, <2>3 DEF TypeOK
<1>2. Looking /\ Unanswered /\ Given /\ Once
  BY DEF Looking, Unanswered, Given, Once
<1>3. Callees /\ Calm /\ Straight
  BY DEF Callees, Calm, Straight, Waits
<1>4. QED
  BY <1>1, <1>2, <1>3 DEF ForwardInv

-----------------------------------------------------------------------------
(* Every step preserves it.                                                *)

\* A new request finds nothing of the last one.
LEMMA RequestStep ==
    ASSUME ForwardInv, NEW n \in Node, Request(n)
    PROVE  ForwardInv'
<1> USE ForwardAssumption, PlaceAssumption DEF ForwardInv, Request, Ask, chain, place_vars, whereabouts, Waits, Hop, Place
<1>1. TypeOK'
  <2>1. state' \in [Hop -> {"idle", "looking", "found"}]
    BY DEF TypeOK
  <2>2. at' \in [Hop -> Place] /\ answer' \in [Hop -> {"none", "openhab", "tunnel", "error"}]
    BY DEF TypeOK
  <2>3. hop' \in [Hop -> {"none", "routing", "waiting", "refreshing", "again",
                         "piping", "repiping", "hung", "local", "empty", "done"}]
    BY DEF TypeOK
  <2>4. given' \in 0..2 /\ calm' \subseteq Hop
    OBVIOUS
  <2>5. failed' \in BOOLEAN /\ upgrade' \in BOOLEAN
    OBVIOUS
  <2>6. UNCHANGED <<place, settled, found, callee>>
    OBVIOUS
  <2>7. QED
    BY <2>1, <2>2, <2>3, <2>4, <2>6, <2>5 DEF TypeOK
<1>2. Looking'
  BY DEF TypeOK, Looking
<1>3. Unanswered'
  BY DEF TypeOK, Unanswered, Looking
<1>4. Given'
  BY DEF TypeOK, Given, Unanswered
<1>5. Once'
  BY DEF TypeOK, Once
<1>6. Callees'
  BY DEF TypeOK, Callees, Looking
<1>7. Calm'
  BY DEF TypeOK, Calm, Looking
<1>8. Straight'
  BY DEF TypeOK, Straight, Callees, Calm, Looking, Unanswered, Once
<1>9. QED
  BY <1>1, <1>2, <1>3, <1>4, <1>5, <1>6, <1>7, <1>8

LEMMA LookedStep ==
    ASSUME ForwardInv, NEW l \in Hop, Looked(l), UNCHANGED upgrade
    PROVE  ForwardInv'
<1> USE ForwardAssumption, PlaceAssumption DEF ForwardInv, Looked, Find, FindError, chain, place_vars, whereabouts, Waits, Hop, Place
<1>1. TypeOK'
  <2>1. state' = [state EXCEPT ![l] = "found"] /\ UNCHANGED <<chain, given, place_vars>>
    BY DEF TypeOK
  <2>2. \E p \in Place : found' = [found EXCEPT ![l] = p]
    BY DEF TypeOK
  <2>3. found' \in [Hop -> Place]
    BY <2>2 DEF TypeOK
  <2>4. calm' \subseteq Hop /\ failed' \in BOOLEAN
    BY DEF TypeOK
  <2>5. QED
    BY <2>1, <2>3, <2>4 DEF TypeOK
<1>2. Looking'
  BY DEF TypeOK, Looking
<1>3. Unanswered'
  BY DEF TypeOK, Unanswered, Looking
<1>4. Given'
  BY DEF TypeOK, Given, Unanswered
<1>5. Once'
  BY DEF TypeOK, Once
<1>6. Callees'
  BY DEF TypeOK, Callees, Looking
<1>7. Calm'
  BY DEF TypeOK, Calm, Looking
<1>8. Straight'
  BY DEF TypeOK, Straight, Callees, Calm, Looking, Unanswered, Once
<1>9. QED
  BY <1>1, <1>2, <1>3, <1>4, <1>5, <1>6, <1>7, <1>8

LEMMA RefuseStep ==
    ASSUME ForwardInv, NEW l \in Hop, Refuse(l), UNCHANGED upgrade
    PROVE  ForwardInv'
<1> USE ForwardAssumption, PlaceAssumption DEF ForwardInv, Refuse, Routed, End, chain, place_vars, whereabouts, Waits, Hop, Place
<1>1. TypeOK'
  BY DEF TypeOK
<1>2. Looking'
  BY DEF TypeOK, Looking
<1>3. Unanswered'
  BY DEF TypeOK, Unanswered, Looking
<1>4. Given'
  BY DEF TypeOK, Given, Unanswered
<1>5. Once'
  BY DEF TypeOK, Once
<1>6. Callees'
  BY DEF TypeOK, Callees, Looking
<1>7. Calm'
  BY DEF TypeOK, Calm, Looking
<1>8. Straight'
  BY DEF TypeOK, Straight, Callees, Calm, Looking, Unanswered, Once
<1>9. QED
  BY <1>1, <1>2, <1>3, <1>4, <1>5, <1>6, <1>7, <1>8

\* The openHAB gets the request; nobody else is still on the way.
LEMMA LocalStep ==
    ASSUME ForwardInv, NEW l \in Hop, Local(l), UNCHANGED upgrade
    PROVE  ForwardInv'
<1> USE ForwardAssumption, PlaceAssumption DEF ForwardInv, Local, Routed, chain, place_vars, whereabouts, Waits, Hop, Place
<1>1. TypeOK'
  BY DEF TypeOK
<1>2. Looking'
  BY DEF TypeOK, Looking
<1>3. Unanswered'
  BY DEF TypeOK, Unanswered, Looking
<1>4. Given'
  BY DEF TypeOK, Given, Unanswered
<1>5. Once'
  BY DEF TypeOK, Once
<1>6. Callees'
  BY DEF TypeOK, Callees, Looking
<1>7. Calm'
  BY DEF TypeOK, Calm, Looking
<1>8. Straight'
  BY DEF TypeOK, Straight, Callees, Calm, Looking, Unanswered, Once
<1>9. QED
  BY <1>1, <1>2, <1>3, <1>4, <1>5, <1>6, <1>7, <1>8

\* Hop l is forwarded, as hop m, or does not get to the other node.
Onward(l) == IF hop[l] = "routing" THEN "waiting" ELSE "again"

Reaches(l, m) ==
    /\ hop[l] \in {"routing", "refreshing"} /\ state[l] = "found"
    /\ found[l] \in Node \ {at[l]}
    /\ m # First /\ hop[m] = "none" /\ Ask(m)
    /\ at' = [at EXCEPT ![m] = found[l]]
    /\ hop' = [hop EXCEPT ![l] = Onward(l), ![m] = "routing"]
    /\ callee' = [callee EXCEPT ![l] = m]
    /\ UNCHANGED <<answer, given, failed, calm>>

Misses(l) ==
    /\ hop[l] \in {"routing", "refreshing"} /\ state[l] = "found"
    /\ found[l] \in Node \ {at[l]}
    /\ hop' = [hop EXCEPT ![l] = Onward(l)]
    /\ UNCHANGED <<whereabouts, at, callee, answer, given, failed, calm>>

\* The new hop runs where this one has found the openHAB.
LEMMA ReachStep ==
    ASSUME ForwardInv, NEW l \in Hop, NEW m \in Hop, Reaches(l, m), UNCHANGED upgrade
    PROVE  ForwardInv'
<1> USE ForwardAssumption, PlaceAssumption DEF ForwardInv, Reaches, Ask, chain, place_vars, whereabouts, Waits, Hop, Place
<1>0. /\ m # l /\ hop'[m] = "routing" /\ hop'[l] = Onward(l)
      /\ state'[m] = "looking" /\ at'[m] = found[l] /\ callee'[l] = m
      /\ Onward(l) \in {"waiting", "again"} /\ state[m] = "idle"
      /\ hop[l] = "routing" => Onward(l) = "waiting"
      /\ \A j \in Hop \ {l, m} : hop'[j] = hop[j]
      /\ \A j \in Hop \ {m} : state'[j] = state[j] /\ at'[j] = at[j]
      /\ \A j \in Hop \ {l} : callee'[j] = callee[j]
      /\ UNCHANGED <<place, settled, found, answer, given, failed, calm>>
  BY DEF TypeOK, Onward
<1>1. TypeOK'
  BY <1>0 DEF TypeOK
<1>2. Looking'
  BY <1>0 DEF TypeOK, Looking
<1>3. Unanswered'
  BY <1>0 DEF TypeOK, Unanswered, Looking
<1>4. Given'
  BY <1>0 DEF TypeOK, Given, Unanswered
<1>5. Once'
  BY <1>0 DEF TypeOK, Once
<1>6. Callees'
  BY <1>0 DEF TypeOK, Callees, Looking
<1>7. Calm'
  BY <1>0 DEF TypeOK, Calm, Looking
<1>8. Straight'
  BY <1>0 DEF TypeOK, Straight, Callees, Calm, Looking, Unanswered, Once
<1>9. QED
  BY <1>1, <1>2, <1>3, <1>4, <1>5, <1>6, <1>7, <1>8

\* It does not get there.
LEMMA MissStep ==
    ASSUME ForwardInv, NEW l \in Hop, Misses(l), UNCHANGED upgrade
    PROVE  ForwardInv'
<1> USE ForwardAssumption, PlaceAssumption DEF ForwardInv, Misses, chain, place_vars, whereabouts, Waits, Hop, Place
<1>0. /\ hop'[l] = Onward(l) /\ Onward(l) \in {"waiting", "again"}
      /\ hop[l] = "routing" => Onward(l) = "waiting"
      /\ \A j \in Hop \ {l} : hop'[j] = hop[j]
  BY DEF TypeOK, Onward
<1>1. TypeOK'
  BY <1>0 DEF TypeOK
<1>2. Looking'
  BY <1>0 DEF TypeOK, Looking
<1>3. Unanswered'
  BY <1>0 DEF TypeOK, Unanswered, Looking
<1>4. Given'
  BY <1>0 DEF TypeOK, Given, Unanswered
<1>5. Once'
  BY <1>0 DEF TypeOK, Once
<1>6. Callees'
  BY <1>0 DEF TypeOK, Callees, Looking
<1>7. Calm'
  BY <1>0 DEF TypeOK, Calm, Looking
<1>8. Straight'
  BY <1>0 DEF TypeOK, Straight, Callees, Calm, Looking, Unanswered, Once
<1>9. QED
  BY <1>1, <1>2, <1>3, <1>4, <1>5, <1>6, <1>7, <1>8

LEMMA ForwardStep ==
    ASSUME ForwardInv, NEW l \in Hop, Forward(l), UNCHANGED upgrade
    PROVE  ForwardInv'
<1>1. Routed(l) /\ found[l] \in Node \ {at[l]} /\ UNCHANGED <<answer, given, failed, calm>>
  BY DEF Forward, Elsewhere
<1>2. ASSUME FreeHops # {}, NEW m, m = CHOOSE x \in FreeHops : TRUE, Ask(m),
             at' = [at EXCEPT ![m] = found[l]],
             hop' = [hop EXCEPT ![l] = Onward(l), ![m] = "routing"],
             callee' = [callee EXCEPT ![l] = m]
      PROVE  ForwardInv'
  <2>1. m \in FreeHops
    BY <1>2
  <2>2. m \in Hop /\ m # First /\ hop[m] = "none"
    BY <2>1 DEF FreeHops
  <2>3. Reaches(l, m)
    BY <1>1, <1>2, <2>2 DEF Reaches, Routed
  <2>4. QED
    BY <2>2, <2>3, ReachStep
<1>3. CASE hop' = [hop EXCEPT ![l] = Onward(l)] /\ UNCHANGED <<whereabouts, at, callee>>
  <2>1. Misses(l)
    BY <1>1, <1>3 DEF Misses, Routed
  <2>2. QED
    BY <2>1, MissStep
<1>4. QED
  BY <1>2, <1>3 DEF Forward, Onward

LEMMA PipeStep ==
    ASSUME ForwardInv, NEW l \in Hop, Pipe(l), UNCHANGED upgrade
    PROVE  ForwardInv'
<1> USE ForwardAssumption, PlaceAssumption DEF ForwardInv, Pipe, chain, place_vars, whereabouts, Waits, Hop, Place
<1>1. TypeOK'
  BY DEF TypeOK
<1>2. Looking'
  BY DEF TypeOK, Looking
<1>3. Unanswered'
  BY DEF TypeOK, Unanswered, Looking
<1>4. Given'
  BY DEF TypeOK, Given, Unanswered
<1>5. Once'
  BY DEF TypeOK, Once
<1>6. Callees'
  BY DEF TypeOK, Callees, Looking
<1>7. Calm'
  BY DEF TypeOK, Calm, Looking
<1>8. Straight'
  BY DEF TypeOK, Straight, Callees, Calm, Looking, Unanswered, Once
<1>9. QED
  BY <1>1, <1>2, <1>3, <1>4, <1>5, <1>6, <1>7, <1>8

LEMMA SwallowStep ==
    ASSUME ForwardInv, NEW l \in Hop, Swallow(l), UNCHANGED upgrade
    PROVE  ForwardInv'
<1> USE ForwardAssumption, PlaceAssumption DEF ForwardInv, Swallow, Hang, chain, place_vars, whereabouts, Waits, Hop, Place
<1>1. TypeOK'
  BY DEF TypeOK
<1>2. Looking'
  BY DEF TypeOK, Looking
<1>3. Unanswered'
  BY DEF TypeOK, Unanswered, Looking
<1>4. Given'
  BY DEF TypeOK, Given, Unanswered
<1>5. Once'
  BY DEF TypeOK, Once
<1>6. Callees'
  BY DEF TypeOK, Callees, Looking
<1>7. Calm'
  BY DEF TypeOK, Calm, Looking
<1>8. Straight'
  BY DEF TypeOK, Straight, Callees, Calm, Looking, Unanswered, Once
<1>9. QED
  BY <1>1, <1>2, <1>3, <1>4, <1>5, <1>6, <1>7, <1>8

LEMMA PipeEndStep ==
    ASSUME ForwardInv, NEW l \in Hop, PipeEnd(l), UNCHANGED upgrade
    PROVE  ForwardInv'
<1> USE ForwardAssumption, PlaceAssumption DEF ForwardInv, PipeEnd, End, chain, place_vars, whereabouts, Waits, Hop, Place
<1>1. TypeOK'
  BY DEF TypeOK
<1>2. Looking'
  BY DEF TypeOK, Looking
<1>3. Unanswered'
  BY DEF TypeOK, Unanswered, Looking
<1>4. Given'
  BY DEF TypeOK, Given, Unanswered
<1>5. Once'
  BY DEF TypeOK, Once
<1>6. Callees'
  BY DEF TypeOK, Callees, Looking
<1>7. Calm'
  BY DEF TypeOK, Calm, Looking
<1>8. Straight'
  BY DEF TypeOK, Straight, Callees, Calm, Looking, Unanswered, Once
<1>9. QED
  BY <1>1, <1>2, <1>3, <1>4, <1>5, <1>6, <1>7, <1>8

LEMMA PipeBreakStep ==
    ASSUME ForwardInv, NEW l \in Hop, PipeBreak(l), UNCHANGED upgrade
    PROVE  ForwardInv'
<1> USE ForwardAssumption, PlaceAssumption DEF ForwardInv, PipeBreak, Hang, End, chain, place_vars, whereabouts, Waits, Hop, Place
<1>1. TypeOK'
  BY DEF TypeOK
<1>2. Looking'
  BY DEF TypeOK, Looking
<1>3. Unanswered'
  BY DEF TypeOK, Unanswered, Looking
<1>4. Given'
  BY DEF TypeOK, Given, Unanswered
<1>5. Once'
  BY DEF TypeOK, Once
<1>6. Callees'
  BY DEF TypeOK, Callees, Looking
<1>7. Calm'
  BY DEF TypeOK, Calm, Looking
<1>8. Straight'
  BY DEF TypeOK, Straight, Callees, Calm, Looking, Unanswered, Once
<1>9. QED
  BY <1>1, <1>2, <1>3, <1>4, <1>5, <1>6, <1>7, <1>8

LEMMA FirstErrorStep ==
    ASSUME ForwardInv, NEW l \in Hop, FirstError(l), UNCHANGED upgrade
    PROVE  ForwardInv'
<1> USE ForwardAssumption, PlaceAssumption DEF ForwardInv, FirstError, Refresh, AskAgain, chain, place_vars, whereabouts, Waits, Hop, Place
<1>1. TypeOK'
  BY DEF TypeOK
<1>2. Looking'
  BY DEF TypeOK, Looking
<1>3. Unanswered'
  BY DEF TypeOK, Unanswered, Looking
<1>4. Given'
  BY DEF TypeOK, Given, Unanswered
<1>5. Once'
  BY DEF TypeOK, Once
<1>6. Callees'
  BY DEF TypeOK, Callees, Looking
<1>7. Calm'
  BY DEF TypeOK, Calm, Looking
<1>8. Straight'
  BY DEF TypeOK, Straight, Callees, Calm, Looking, Unanswered, Once
<1>9. QED
  BY <1>1, <1>2, <1>3, <1>4, <1>5, <1>6, <1>7, <1>8

LEMMA RetryErrorStep ==
    ASSUME ForwardInv, NEW l \in Hop, RetryError(l), UNCHANGED upgrade
    PROVE  ForwardInv'
<1> USE ForwardAssumption, PlaceAssumption DEF ForwardInv, RetryError, End, chain, place_vars, whereabouts, Waits, Hop, Place
<1>1. TypeOK'
  BY DEF TypeOK
<1>2. Looking'
  BY DEF TypeOK, Looking
<1>3. Unanswered'
  BY DEF TypeOK, Unanswered, Looking
<1>4. Given'
  BY DEF TypeOK, Given, Unanswered
<1>5. Once'
  BY DEF TypeOK, Once
<1>6. Callees'
  BY DEF TypeOK, Callees, Looking
<1>7. Calm'
  BY DEF TypeOK, Calm, Looking
<1>8. Straight'
  BY DEF TypeOK, Straight, Callees, Calm, Looking, Unanswered, Once
<1>9. QED
  BY <1>1, <1>2, <1>3, <1>4, <1>5, <1>6, <1>7, <1>8

LEMMA OpenhabAnswersStep ==
    ASSUME ForwardInv, NEW l \in Hop, OpenhabAnswers(l), UNCHANGED upgrade
    PROVE  ForwardInv'
<1> USE ForwardAssumption, PlaceAssumption DEF ForwardInv, OpenhabAnswers, End, chain, place_vars, whereabouts, Waits, Hop, Place
<1>1. TypeOK'
  BY DEF TypeOK
<1>2. Looking'
  BY DEF TypeOK, Looking
<1>3. Unanswered'
  BY DEF TypeOK, Unanswered, Looking
<1>4. Given'
  BY DEF TypeOK, Given, Unanswered
<1>5. Once'
  BY DEF TypeOK, Once
<1>6. Callees'
  BY DEF TypeOK, Callees, Looking
<1>7. Calm'
  BY DEF TypeOK, Calm, Looking
<1>8. Straight'
  BY DEF TypeOK, Straight, Callees, Calm, Looking, Unanswered, Once
<1>9. QED
  BY <1>1, <1>2, <1>3, <1>4, <1>5, <1>6, <1>7, <1>8

LEMMA TimeoutStep ==
    ASSUME ForwardInv, NEW l \in Hop, Timeout(l), UNCHANGED upgrade
    PROVE  ForwardInv'
<1> USE ForwardAssumption, PlaceAssumption DEF ForwardInv, Timeout, End, chain, place_vars, whereabouts, Waits, Hop, Place
<1>1. TypeOK'
  BY DEF TypeOK
<1>2. Looking'
  BY DEF TypeOK, Looking
<1>3. Unanswered'
  BY DEF TypeOK, Unanswered, Looking
<1>4. Given'
  BY DEF TypeOK, Given, Unanswered
<1>5. Once'
  BY DEF TypeOK, Once
<1>6. Callees'
  BY DEF TypeOK, Callees, Looking
<1>7. Calm'
  BY DEF TypeOK, Calm, Looking
<1>8. Straight'
  BY DEF TypeOK, Straight, Callees, Calm, Looking, Unanswered, Once
<1>9. QED
  BY <1>1, <1>2, <1>3, <1>4, <1>5, <1>6, <1>7, <1>8

LEMMA GiveUpStep ==
    ASSUME ForwardInv, NEW l \in Hop, GiveUp(l), UNCHANGED upgrade
    PROVE  ForwardInv'
<1> USE ForwardAssumption, PlaceAssumption DEF ForwardInv, GiveUp, End, Abandoned, chain, place_vars, whereabouts, Waits, Hop, Place
<1>1. TypeOK'
  BY DEF TypeOK
<1>2. Looking'
  BY DEF TypeOK, Looking
<1>3. Unanswered'
  BY DEF TypeOK, Unanswered, Looking
<1>4. Given'
  BY DEF TypeOK, Given, Unanswered
<1>5. Once'
  BY DEF TypeOK, Once
<1>6. Callees'
  BY DEF TypeOK, Callees, Looking
<1>7. Calm'
  BY DEF TypeOK, Calm, Looking
<1>8. Straight'
  BY DEF TypeOK, Straight, Callees, Calm, Looking, Unanswered, Once
<1>9. QED
  BY <1>1, <1>2, <1>3, <1>4, <1>5, <1>6, <1>7, <1>8

\* Nobody waits for a hop that is forgotten.
LEMMA ClearStep ==
    ASSUME ForwardInv, NEW l \in Hop, Clear(l), UNCHANGED upgrade
    PROVE  ForwardInv'
<1> USE ForwardAssumption, PlaceAssumption DEF ForwardInv, Clear, Forget, Abandoned, chain, place_vars, whereabouts, Waits, Hop, Place
<1>1. TypeOK'
  BY DEF TypeOK
<1>2. Looking'
  BY DEF TypeOK, Looking
<1>3. Unanswered'
  BY DEF TypeOK, Unanswered, Looking
<1>4. Given'
  BY DEF TypeOK, Given, Unanswered
<1>5. Once'
  BY DEF TypeOK, Once
<1>6. Callees'
  BY DEF TypeOK, Callees, Looking
<1>7. Calm'
  BY DEF TypeOK, Calm, Looking
<1>8. Straight'
  BY DEF TypeOK, Straight, Callees, Calm, Looking, Unanswered, Once
<1>9. QED
  BY <1>1, <1>2, <1>3, <1>4, <1>5, <1>6, <1>7, <1>8

\* When the place moves, nobody is calm.
LEMMA EnvironmentStep ==
    ASSUME ForwardInv, Environment, UNCHANGED upgrade
    PROVE  ForwardInv'
<1> USE ForwardAssumption, PlaceAssumption DEF ForwardInv, Environment, Move, Settle, chain, place_vars, whereabouts, Waits, Hop, Place
<1>1. TypeOK'
  BY DEF TypeOK
<1>2. Looking'
  BY DEF TypeOK, Looking
<1>3. Unanswered'
  BY DEF TypeOK, Unanswered, Looking
<1>4. Given'
  BY DEF TypeOK, Given, Unanswered
<1>5. Once'
  BY DEF TypeOK, Once
<1>6. Callees'
  BY DEF TypeOK, Callees, Looking
<1>7. Calm'
  BY DEF TypeOK, Calm, Looking
<1>8. Straight'
  BY DEF TypeOK, Straight, Callees, Calm, Looking, Unanswered, Once
<1>9. QED
  BY <1>1, <1>2, <1>3, <1>4, <1>5, <1>6, <1>7, <1>8

LEMMA CrashStep ==
    ASSUME ForwardInv, NEW n \in Node, Crash(n), UNCHANGED upgrade
    PROVE  ForwardInv'
<1> USE ForwardAssumption, PlaceAssumption DEF ForwardInv, Crash, Forget, chain, place_vars, whereabouts, Waits, Hop, Place
<1>1. TypeOK'
  BY DEF TypeOK
<1>2. Looking'
  BY DEF TypeOK, Looking
<1>3. Unanswered'
  BY DEF TypeOK, Unanswered, Looking
<1>4. Given'
  BY DEF TypeOK, Given, Unanswered
<1>5. Once'
  BY DEF TypeOK, Once
<1>6. Callees'
  BY DEF TypeOK, Callees, Looking
<1>7. Calm'
  BY DEF TypeOK, Calm, Looking
<1>8. Straight'
  BY DEF TypeOK, Straight, Callees, Calm, Looking, Unanswered, Once
<1>9. QED
  BY <1>1, <1>2, <1>3, <1>4, <1>5, <1>6, <1>7, <1>8

LEMMA ForwardStutter == ForwardInv /\ UNCHANGED vars => ForwardInv'
<1> SUFFICES ASSUME ForwardInv, UNCHANGED vars PROVE ForwardInv'
  OBVIOUS
<1> USE DEF ForwardInv, vars, whereabouts, place_vars, chain
<1>1. TypeOK' /\ Looking' /\ Unanswered' /\ Given'
  BY DEF TypeOK, Looking, Unanswered, Given
<1>2. Once' /\ Callees' /\ Calm' /\ Straight'
  BY DEF Once, Callees, Calm, Straight, Waits
<1>3. QED
  BY <1>1, <1>2

LEMMA ForwardCorrect == Spec => []ForwardInv
<1>1. ForwardInv /\ [Next]_vars => ForwardInv'
  <2>1. ASSUME ForwardInv, Next PROVE ForwardInv'
    <3>1. ASSUME NEW l \in Hop, Handle(l), UNCHANGED upgrade PROVE ForwardInv'
      BY <2>1, <3>1, LookedStep, RefuseStep, LocalStep, ForwardStep, PipeStep, SwallowStep,
         PipeEndStep, PipeBreakStep, FirstErrorStep, RetryErrorStep, TimeoutStep DEF Handle
    <3>2. ASSUME NEW n \in Entry, Request(n) PROVE ForwardInv'
      BY <2>1, <3>2, RequestStep, ForwardAssumption
    <3>3. QED
      BY <2>1, <3>1, <3>2, CrashStep, OpenhabAnswersStep, GiveUpStep, ClearStep,
         EnvironmentStep DEF Next
  <2>2. QED
    BY <2>1, ForwardStutter
<1>2. QED
  BY <1>1, ForwardInit, PTL DEF Spec

-----------------------------------------------------------------------------
\* Once the openHAB's place has settled a request is forwarded to where it is, and not
\* on from there: two nodes do not send it to and fro, however many there are.
THEOREM ForwardedAtMostOnce == Spec => []ForwardedOnce
<1>1. ForwardInv => ForwardedOnce
  <2> SUFFICES ASSUME ForwardInv PROVE ForwardedOnce
    OBVIOUS
  <2>1. ASSUME NEW l \in calm, Waits(l), callee[l] \in calm, Waits(callee[l]) PROVE FALSE
    <3> DEFINE m == callee[l]
    <3>1. l \in Hop /\ m \in Hop /\ m # NoHop
      BY <2>1, ForwardAssumption DEF ForwardInv, TypeOK, Hop
    <3>2. found[l] \in Node \ {at[l]} /\ found[m] \in Node \ {at[m]} /\ at[m] = found[l]
      BY <2>1, <3>1 DEF ForwardInv, Callees
    <3>3. found[l] \in {place, Offline} /\ found[m] \in {place, Offline}
      BY <2>1 DEF ForwardInv, Calm
    <3>4. QED
      BY <3>2, <3>3, PlaceAssumption
  <2>2. QED
    BY <2>1 DEF ForwardedOnce, ForwardInv
<1>2. QED
  BY <1>1, ForwardCorrect, PTL

\* A client is told that its openHAB is offline, when it was connected all the time,
\* only after a node or Redis failed.
THEOREM OfflineOnlyIfSo == Spec => []OfflineIsTrue
<1>1. ForwardInv => OfflineIsTrue
  BY DEF ForwardInv, Straight, OfflineIsTrue
<1>2. QED
  BY <1>1, ForwardCorrect, PTL

\* The openHAB is given a request a second time only after a hop failed.
THEOREM GivenAtMostOnce == Spec => []GivenOnce
<1>1. ForwardInv => GivenOnce
  BY DEF ForwardInv, TypeOK, Once, GivenOnce
<1>2. QED
  BY <1>1, ForwardCorrect, PTL

\* However many nodes a request passes, its client gets one answer, and an answer of
\* the openHAB only if the openHAB was given the request.
THEOREM ForwardingImplementsClientRequest == Spec => ImplementsClientRequest
<1>1. Init => Promise!RInit
  BY ForwardAssumption DEF Init, Promise!RInit, Hop, Reply
<1>2. ForwardInv /\ [Next]_vars => [Promise!RNext]_<<given > 0, Reply>>
  <2> SUFFICES ASSUME ForwardInv, [Next]_vars
               PROVE  Promise!RNext \/ UNCHANGED <<given > 0, Reply>>
    OBVIOUS
  <2>0. /\ First \in Hop /\ given \in 0..2
        /\ answer \in [Hop -> {"none", "openhab", "tunnel", "error"}]
    BY ForwardAssumption DEF ForwardInv, TypeOK, Hop
  <2>1. ASSUME NEW n \in Entry, Request(n) PROVE Promise!RNext
    <3>1. given' = 0 /\ Reply' = "none"
      BY <2>0, <2>1 DEF Request, Reply
    <3>2. QED
      BY <3>1 DEF Promise!RNext, Promise!NextRequest
  <2>2. ASSUME NEW l \in Hop, Local(l)
        PROVE  Promise!RNext \/ UNCHANGED <<given > 0, Reply>>
    <3>1. UNCHANGED answer /\ (UNCHANGED given \/ given' > 0)
      BY <2>0, <2>2 DEF Local
    <3>2. QED
      BY <3>1 DEF Promise!RNext, Promise!Give, Reply
  <2>3. ASSUME UNCHANGED given,
               answer'[First] # answer[First] =>
                  /\ answer[First] = "none"
                  /\ \/ answer'[First] = "error"
                     \/ answer'[First] \in {"openhab", "tunnel"} /\ given > 0
        PROVE  Promise!RNext \/ UNCHANGED <<given > 0, Reply>>
    BY <2>3 DEF Promise!RNext, Promise!ReplyOpenhab, Promise!ReplyError, Reply
  <2>4. ASSUME NEW l \in Hop,
               \/ Looked(l) \/ Refuse(l) \/ Forward(l) \/ Pipe(l) \/ Swallow(l)
               \/ PipeEnd(l) \/ PipeBreak(l) \/ FirstError(l) \/ RetryError(l)
               \/ OpenhabAnswers(l) \/ Timeout(l) \/ GiveUp(l) \/ Clear(l)
        PROVE  Promise!RNext \/ UNCHANGED <<given > 0, Reply>>
    <3>1. UNCHANGED given
      BY <2>4 DEF Looked, Refuse, Forward, Pipe, Swallow, Hang, PipeEnd, PipeBreak,
         FirstError, Refresh, RetryError, OpenhabAnswers, Timeout, GiveUp, Clear, chain
    <3>2. ASSUME answer'[First] # answer[First]
          PROVE  /\ answer[First] = "none"
                 /\ \/ answer'[First] = "error"
                    \/ answer'[First] \in {"openhab", "tunnel"} /\ given > 0
      <4>1. CASE Refuse(l) \/ RetryError(l)
        BY <2>0, <3>2, <4>1 DEF ForwardInv, Unanswered, Refuse, RetryError, Routed, End
      <4>2. CASE Pipe(l)
        <5>1. callee[l] \in Hop /\ answer[callee[l]] \in {"openhab", "error"}
          BY <2>0, <4>2 DEF ForwardInv, TypeOK, Pipe
        <5>2. QED
          BY <2>0, <3>2, <4>2, <5>1 DEF ForwardInv, Unanswered, Given, Pipe
      <4>3. CASE OpenhabAnswers(l)
        BY <2>0, <3>2, <4>3 DEF ForwardInv, Unanswered, Given, OpenhabAnswers, End
      <4>4. CASE \/ Looked(l) \/ Forward(l) \/ Swallow(l) \/ PipeEnd(l) \/ PipeBreak(l)
                 \/ FirstError(l) \/ Timeout(l) \/ GiveUp(l) \/ Clear(l)
        BY <2>0, <3>2, <4>4 DEF Looked, Forward, Swallow, Hang, PipeEnd, PipeBreak,
           FirstError, Refresh, Timeout, GiveUp, Clear, End, chain
      <4>5. QED
        BY <2>4, <4>1, <4>2, <4>3, <4>4
    <3>3. QED
      BY <2>3, <3>1, <3>2
  <2>5. ASSUME Environment \/ UNCHANGED vars \/ \E n \in Node : Crash(n)
        PROVE  Promise!RNext \/ UNCHANGED <<given > 0, Reply>>
    <3>1. UNCHANGED given /\ answer'[First] = answer[First]
      BY <2>0, <2>5 DEF Environment, Crash, vars, chain
    <3>2. QED
      BY <2>3, <3>1
  <2>6. QED
    BY <2>1, <2>2, <2>4, <2>5 DEF Next, Handle
<1>3. QED
  BY <1>1, <1>2, ForwardCorrect, PTL DEF Spec, ImplementsClientRequest, Promise!RSpec
=============================================================================
