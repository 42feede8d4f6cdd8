------------------------------ MODULE JobLock ------------------------------
(***************************************************************************)
(* A background job under the lock of BaseJob.run (jobs/base-job.ts), with *)
(* the one job there is, StatsJob (jobs/stats-job.ts).  Every node starts  *)
(* it by its own clock (jobs/job-scheduler.ts); nobody waits for a run     *)
(* that is still going on, and nobody renews or deletes the lock: it runs  *)
(* out, also under a run that takes longer.                                *)
(*                                                                         *)
(* Operators named Bug... are not part of the model: each is a definition  *)
(* with one mistake, to show that a property would notice it.              *)
(***************************************************************************)
EXTENDS Naturals

CONSTANTS
    Run,       \* runs of the job that may be in progress, on any nodes
    LockTime,  \* lockTimeoutSeconds
    JobTime,   \* bound: the time from the SET to the end of execute
    MaxTime    \* bound: the clock

VARIABLES
    now,    \* the time
    lease,  \* Redis: ticks until jobs:<name> expires, 0 without the key
    job,    \* where each run is
    spent,  \* ticks since its SET
    stamp,  \* the timestamp of the statistics it collected
    saved,  \* Redis: last5MinStatTimestamp
    late    \* history: it was saved by a run that had outlived its lock

vars == <<now, lease, job, spent, stamp, saved, late>>

TypeOK ==
    /\ now \in 0..MaxTime
    /\ lease \in 0..LockTime
    /\ job \in [Run -> {"idle", "collecting", "saving"}]
    /\ spent \in [Run -> 0..JobTime]
    /\ stamp \in [Run -> 0..MaxTime]
    /\ saved \in 0..MaxTime
    /\ late \in BOOLEAN

Init ==
    /\ now = 0 /\ lease = 0 /\ saved = 0 /\ late = FALSE
    /\ job = [r \in Run |-> "idle"]
    /\ spent = [r \in Run |-> 0]
    /\ stamp = [r \in Run |-> 0]

-----------------------------------------------------------------------------
\* Run r has been in progress for as long as its lock lasts.
Outlived(r) == spent[r] >= LockTime

BugWithoutNX == TRUE

\* SET NX writes when there is no key.
Free == lease = 0

\* A clock fires and Redis executes the SET.  A run that does not get the lock
\* changes nothing; one that gets no reply fails.
Start(r) ==
    /\ job[r] = "idle" /\ Free
    /\ lease' = LockTime
    /\ job' = [job EXCEPT ![r] = "collecting"]
    /\ spent' = [spent EXCEPT ![r] = 0]
    /\ UNCHANGED <<now, stamp, saved, late>>

\* collectStats: all counts are there.
Collect(r) ==
    /\ job[r] = "collecting"
    /\ job' = [job EXCEPT ![r] = "saving"]
    /\ stamp' = [stamp EXCEPT ![r] = now]
    /\ UNCHANGED <<now, lease, spent, saved, late>>

\* saveStats: Redis executes the EXEC.
Save(r) ==
    /\ job[r] = "saving"
    /\ job' = [job EXCEPT ![r] = "idle"]
    /\ spent' = [spent EXCEPT ![r] = 0]
    /\ saved' = stamp[r]
    /\ late' = Outlived(r)
    /\ UNCHANGED <<now, lease, stamp>>

\* A count failed, the EXEC was aborted (the client it is sent on may watch a
\* connection lock), or the process ended.  The lock stays.
Fail(r) ==
    /\ job[r] # "idle"
    /\ job' = [job EXCEPT ![r] = "idle"]
    /\ spent' = [spent EXCEPT ![r] = 0]
    /\ UNCHANGED <<now, lease, stamp, saved, late>>

Tick ==
    /\ now < MaxTime
    /\ \A r \in Run : job[r] # "idle" => spent[r] < JobTime
    /\ now' = now + 1
    /\ lease' = IF lease > 0 THEN lease - 1 ELSE 0
    /\ spent' = [r \in Run |-> IF job[r] = "idle" THEN 0 ELSE spent[r] + 1]
    /\ UNCHANGED <<job, stamp, saved, late>>

Next == Tick \/ \E r \in Run : Start(r) \/ Collect(r) \/ Save(r) \/ Fail(r)

Spec == Init /\ [][Next]_vars

-----------------------------------------------------------------------------
(* Properties.                                                             *)

\* Runs that overlap got the lock at least LockTime apart: two of them are in
\* progress only if the older one has outlived its lock.  ("Only one instance
\* across the cluster can run the job at a time" is more than the code gives.)
RunsApart ==
    \A r, s \in Run :
        job[r] # "idle" /\ job[s] # "idle" /\ r # s =>
            spent[r] >= spent[s] + LockTime \/ spent[s] >= spent[r] + LockTime

\* The saved statistics are replaced by older ones only if the run that saved
\* them, or the one that replaces them, had outlived its lock.
StatsForward == [][saved' < saved => late \/ late']_vars

\* The key is there until a run has outlived it, however many took it since.
LeaseCovers == \A r \in Run : job[r] # "idle" => lease + spent[r] >= LockTime

\* Statistics are not of the future, and those of a run within its lock are newer
\* than what another such run has saved.
StampsOrdered ==
    /\ saved <= now
    /\ \A r \in Run : stamp[r] <= now
    /\ \A r \in Run : job[r] = "saving" /\ ~Outlived(r) => saved <= stamp[r] \/ late

\* The inductive invariant.
JobInv == TypeOK /\ LeaseCovers /\ RunsApart /\ StampsOrdered
=============================================================================
