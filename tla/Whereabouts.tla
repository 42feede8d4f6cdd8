---------------------------- MODULE Whereabouts ----------------------------
(***************************************************************************)
(* What a node's lookup of an openHAB promises the middleware behind it:   *)
(* once the openHAB's place has not changed for a while a lookup finds it, *)
(* on every node, or says "offline" when Redis fails.  Before that it may  *)
(* say anything.  ConnectionCache implements this; RequestForwarding is    *)
(* built on it.                                                            *)
(***************************************************************************)
CONSTANTS Node, Offline, Lookup

ASSUME PlaceAssumption == Offline \notin Node

VARIABLES
    place,    \* the node the connection key names
    settled,  \* no cache remembers an earlier place
    state,    \* where each lookup is
    found     \* what it has found

place_vars == <<place, settled>>
whereabouts == <<place, settled, state, found>>

Place == Node \cup {Offline}

WInit ==
    /\ place = Offline /\ settled = TRUE
    /\ state = [l \in Lookup |-> "idle"]
    /\ found = [l \in Lookup |-> Offline]

\* The key changes, or is written again.
Move ==
    /\ place' \in Place /\ settled' = FALSE
    /\ UNCHANGED <<state, found>>

Settle ==
    /\ ~settled /\ settled' = TRUE
    /\ UNCHANGED <<place, state, found>>

Ask(l) ==
    /\ state[l] = "idle" /\ state' = [state EXCEPT ![l] = "looking"]
    /\ UNCHANGED <<place_vars, found>>

\* From the cache, or from Redis.
Find(l) ==
    /\ state[l] # "found" /\ state' = [state EXCEPT ![l] = "found"]
    /\ found' \in {[found EXCEPT ![l] = p] : p \in IF settled THEN {place} ELSE Place}
    /\ UNCHANGED place_vars

FindError(l) ==
    /\ state[l] # "found" /\ state' = [state EXCEPT ![l] = "found"]
    /\ found' = [found EXCEPT ![l] = Offline]
    /\ UNCHANGED place_vars

\* What was found proved wrong: Redis is asked again.
AskAgain(l) ==
    /\ state[l] = "found" /\ state' = [state EXCEPT ![l] = "looking"]
    /\ found' = [found EXCEPT ![l] = Offline]
    /\ UNCHANGED place_vars

\* The requests in S are over, all those of a process that ends at once.
Forget(S) ==
    /\ state' = [l \in Lookup |-> IF l \in S THEN "idle" ELSE state[l]]
    /\ found' = [l \in Lookup |-> IF l \in S THEN Offline ELSE found[l]]
    /\ UNCHANGED place_vars

WNext ==
    \/ Move \/ Settle
    \/ \E l \in Lookup : Ask(l) \/ Find(l) \/ FindError(l) \/ AskAgain(l)
    \/ \E S \in SUBSET Lookup : Forget(S)

WSpec == WInit /\ [][WNext]_whereabouts
=============================================================================
