----------------------------- MODULE MCMessages -----------------------------
\* Notifications and Webhooks share no state, so one is explored while the other rests.
EXTENDS Messages, TLC

VARIABLE explored

wvars == <<openhabs, hooks, given, promised, call>>

AllInit == Init /\ W!Init /\ explored \in {"notifications", "webhooks"}

\* Bounds: the stranger's openHAB stays, and one notification at most is to all - two of
\* them only read what they share.
Bounded == "h2" \in homes /\ Cardinality({r \in Request : Several(r)}) <= 1

AllNext ==
    /\ \/ explored = "notifications" /\ Next /\ Bounded' /\ UNCHANGED wvars
       \/ explored = "webhooks" /\ W!Next /\ UNCHANGED vars
    /\ UNCHANGED explored

AllSpec == AllInit /\ [][AllNext]_<<vars, wvars, explored>>

\* One account with both users; the other openHAB is a stranger to them.
MCHome == [u \in User |-> "h1"]

Alike == Permutations(Request)
====
