------------------------------- MODULE Leases -------------------------------
(***************************************************************************)
(* The keys in Redis that are written with NX and EX besides those of      *)
(* connections: the block of a uuid (Presence) and the lock of a job       *)
(* (JobLock).  They are different keys and share nothing.                  *)
(***************************************************************************)
EXTENDS Presence

CONSTANTS Run, LockTime, JobTime, MaxTime

ASSUME JobAssumption ==
    /\ LockTime \in Nat \ {0} /\ JobTime \in Nat \ {0} /\ MaxTime \in Nat

VARIABLES now, lease, job, spent, stamp, saved, late

J == INSTANCE JobLock

JobInv == J!JobInv
RunsApart == J!TypeOK /\ J!RunsApart
StatsForward == J!StatsForward
=============================================================================
