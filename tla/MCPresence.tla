----------------------------- MODULE MCPresence -----------------------------
\* Presence with two sockets of the openHAB and a stranger's.
EXTENDS Presence
====
