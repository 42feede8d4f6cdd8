----------------------------- MODULE MCJobLock -----------------------------
(* Up to three runs of the statistics job at a time, any of which may take  *)
(* longer than the lock; no openHAB connects.                               *)
EXTENDS Leases

CONSTANTS r1, r2, r3

JobSpec ==
    /\ Init /\ J!Init
    /\ [][J!Next /\ UNCHANGED vars]_<<vars, now, lease, job, spent, stamp, saved, late>>
=============================================================================
