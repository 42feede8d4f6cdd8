--------------------------- MODULE MCCredentials ----------------------------
\* Passwords and Grants share no state, so one is explored while the other rests.
EXTENDS Credentials, TLC

VARIABLE explored

gvars == <<users, openhabs, grants, tokens, req>>

AllInit == Init /\ G!Init /\ explored \in {"passwords", "grants"}

AllNext ==
    /\ \/ explored = "passwords" /\ Next /\ UNCHANGED gvars
       \/ explored = "grants" /\ G!Next /\ UNCHANGED vars
    /\ UNCHANGED explored

AllSpec == AllInit /\ [][AllNext]_<<vars, gvars, explored>>

Alike == Permutations(Password) \cup Permutations(Call)
====
