------------------------------ MODULE Messages ------------------------------
(***************************************************************************)
(* What an openHAB does over its socket besides answering requests: it     *)
(* notifies users (Notifications) and has paths of its own reached from    *)
(* outside (Webhooks).  The two share no state.                            *)
(***************************************************************************)
EXTENDS Notifications

CONSTANTS Path, Uuid, Serving, Ttl, Delay

ASSUME MessagesAssumption ==
    /\ Ttl \in Nat /\ Delay \in Nat
    /\ None \notin Uuid \cup (Openhab \X Path)

VARIABLES openhabs, hooks, given, promised, call

W == INSTANCE Webhooks WITH Request <- Serving, req <- call

KeptAlive == W!KeptAlive
GoneForGood == W!GoneForGood
=============================================================================
