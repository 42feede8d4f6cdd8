--------------------------- MODULE ClientRequest ---------------------------
(***************************************************************************)
(* What the cloud promises a client about one request to its openHAB,      *)
(* however many nodes the request passes: one answer, and an answer of the *)
(* openHAB only if the openHAB was given the request.                      *)
(***************************************************************************)
VARIABLES
    given,  \* the openHAB has been given the request
    reply   \* what the client was answered: "none", "openhab", or "error"

RInit == ~given /\ reply = "none"

\* The request, or a repetition of it, reaches the openHAB.
Give == given' = TRUE /\ UNCHANGED reply

ReplyOpenhab == given /\ reply = "none" /\ reply' = "openhab" /\ UNCHANGED given

\* "openHAB is offline", "Bad Gateway".
ReplyError == reply = "none" /\ reply' = "error" /\ UNCHANGED given

\* The client sends its next request.
NextRequest == ~given' /\ reply' = "none"

RNext == Give \/ ReplyOpenhab \/ ReplyError \/ NextRequest

RSpec == RInit /\ [][RNext]_<<given, reply>>
=============================================================================
