----------------------------- MODULE UsageMonitor -----------------------------
(***************************************************************************)
(* The SLURM usage monitor: every poll lists the jobs SLURM's accounting   *)
(* database shows for a window of time and replaces the usage row of each. *)
(* SLURM commits a finished job some time after its end, calls fail, the   *)
(* poll's deadline may pass half way, and a restart forgets where the last *)
(* poll stopped.  Amounts are in hours: raw is billing times duration.     *)
(***************************************************************************)
EXTENDS Naturals, Sequences, FiniteSets, FiniteSetsExt, TLC

CONSTANTS
    Loads,          \* the workloads of an instance
    Allocations,    \* the allocations of the cluster, as listed: id, name
    ClusterUsers,   \* local user name -> user, of the accounts known to the core
    Resources,      \* the partitions known as resources
    Rate            \* time -> rate in force at that time, 0 when none is

ASSUME LagCovered == \A l \in Loads : l.lag <= l.overlap

VARIABLES
    load,           \* the workload of this behaviour
    now,
    committed,      \* job -> when its record reached the accounting database, 0 before (external)
    lastMonitorTime,
    todo,           \* job records of the poll under way that are still to be recorded
    cur,            \* the replacement under way: the row there is, whether its deletion was called, the new row
    usages,         \* compute_allocation_usages: row id -> row
    faults, restarts

monitorVars == <<load, now, committed, lastMonitorTime, todo, cur, usages, faults, restarts>>

JobInfo == load.jobs            \* job id -> account, user, partition, start, end, billing
Overlap == load.overlap         \* look-back of a poll
Lag == load.lag                 \* longest time SLURM takes to commit a finished job
MaxTime == load.maxTime
Faulty == load.faulty           \* what may fail: "list", "lookup", "delete", "create", "deadline"
MaxFaults == load.maxFaults
MaxRestarts == load.maxRestarts

Jobs == DOMAIN JobInfo
Idle == [job |-> 0]
Polling == todo # {} \/ cur # Idle
RowsOf(j) == {i \in DOMAIN usages : usages[i].job = j}

Fails(what) == what \in Faulty /\ faults < MaxFaults /\ faults' = faults + 1
Succeeds == UNCHANGED faults

-----------------------------------------------------------------------------
(* The clock and SLURM's accounting database. *)

Tick ==
    /\ now < MaxTime
    /\ \A j \in Jobs : committed[j] = 0 => now < JobInfo[j].end + Lag
    /\ now' = now + 1
    /\ UNCHANGED <<committed, lastMonitorTime, todo, cur, usages, faults, restarts>>

JobEnds(j) ==
    /\ committed[j] = 0 /\ JobInfo[j].end <= now
    /\ committed' = [committed EXCEPT ![j] = now]
    /\ UNCHANGED <<now, lastMonitorTime, todo, cur, usages, faults, restarts>>

\* A job whose end is not committed is listed without an end.
ListJobs(from, to) ==
    {[id |-> j, end |-> IF committed[j] = 0 THEN 0 ELSE JobInfo[j].end] :
        j \in {x \in Jobs : /\ JobInfo[x].start <= to
                            /\ committed[x] # 0 => JobInfo[x].end >= from}}

-----------------------------------------------------------------------------
(* The poll.  The end of the window is remembered as soon as the jobs are  *)
(* listed, before any of them is recorded.                                 *)

windowStart == IF lastMonitorTime > Overlap THEN lastMonitorTime - Overlap ELSE 1

poll ==
    /\ ~Polling
    /\ todo' = ListJobs(windowStart, now)
    /\ lastMonitorTime' = now
    /\ Succeeds
    /\ UNCHANGED <<now, committed, cur, usages, restarts>>

\* Mutant of the next one: the window moves on although nothing was listed.
pollSkips ==
    ~Polling /\ Fails("list") /\ lastMonitorTime' = now
    /\ UNCHANGED <<now, committed, todo, cur, usages, restarts>>

\* The cluster, the allocations or the jobs could not be read.
pollFails ==
    ~Polling /\ Fails("list") /\ UNCHANGED <<now, committed, lastMonitorTime, todo, cur, usages, restarts>>

\* The deadline of the poll passed: every call after it fails.
pollExpires ==
    /\ Polling /\ Fails("deadline")
    /\ todo' = {} /\ cur' = Idle
    /\ UNCHANGED <<now, committed, lastMonitorTime, usages, restarts>>

-----------------------------------------------------------------------------
(* Recording a job. *)

Matching(job) == SelectSeq(Allocations, LAMBDA a : a.name = JobInfo[job.id].account)
Duration(job) == IF job.end > JobInfo[job.id].start THEN job.end - JobInfo[job.id].start ELSE 0

Charged(job) ==
    /\ Matching(job) # <<>>
    /\ JobInfo[job.id].user \in DOMAIN ClusterUsers
    /\ JobInfo[job.id].partition \in Resources
    /\ Duration(job) > 0
    /\ JobInfo[job.id].billing > 0
    /\ Rate[job.end] > 0

usageModel(job) ==
    LET raw == JobInfo[job.id].billing * Duration(job)
    IN [alloc |-> Head(Matching(job)).id, raw |-> raw, su |-> raw * Rate[job.end], time |-> now,
        user |-> ClusterUsers[JobInfo[job.id].user], job |-> job.id, resource |-> JobInfo[job.id].partition]

\* The row is found by allocation and job id; with two of them it is either.
FindByComputeAllocationIDAndJobID(a, j) ==
    LET rows == {i \in RowsOf(j) : usages[i].alloc = a} IN IF rows = {} THEN {0} ELSE rows

recordJob(job) ==
    /\ cur = Idle /\ job \in todo /\ Charged(job)
    /\ todo' = todo \ {job}
    /\ \E existing \in FindByComputeAllocationIDAndJobID(Head(Matching(job)).id, job.id) :
           cur' = [job |-> job.id, existing |-> existing, deleted |-> FALSE, row |-> usageModel(job)]
    /\ Succeeds
    /\ UNCHANGED <<now, committed, lastMonitorTime, usages, restarts>>

\* One lookup without an answer, or one check that says no, skips this job only.
skipJob(job) ==
    /\ cur = Idle /\ job \in todo
    /\ \/ ~Charged(job) /\ Succeeds
       \/ Charged(job) /\ Fails("lookup")
    /\ todo' = todo \ {job}
    /\ UNCHANGED <<now, committed, lastMonitorTime, cur, usages, restarts>>

\* Neither the result of the deletion nor that of the creation is looked at.
DeleteComputeAllocationUsage ==
    /\ cur # Idle /\ cur.existing # 0 /\ ~cur.deleted
    /\ \/ Succeeds /\ usages' = [i \in DOMAIN usages \ {cur.existing} |-> usages[i]]
       \/ Fails("delete") /\ UNCHANGED usages
    /\ cur' = [cur EXCEPT !.deleted = TRUE]
    /\ UNCHANGED <<now, committed, lastMonitorTime, todo, restarts>>

CreateComputeAllocationUsage ==
    /\ cur # Idle /\ (cur.existing = 0 \/ cur.deleted)
    /\ \/ Succeeds /\ usages' = (Min(1..(Cardinality(DOMAIN usages) + 1) \ DOMAIN usages) :> cur.row) @@ usages
       \/ Fails("create") /\ UNCHANGED usages
    /\ cur' = Idle
    /\ UNCHANGED <<now, committed, lastMonitorTime, todo, restarts>>

-----------------------------------------------------------------------------
(* A new process starts with the whole of time as its window. *)

NewSlurmMonitor == lastMonitorTime' = 1 /\ todo' = {} /\ cur' = Idle

Restart ==
    /\ restarts < MaxRestarts /\ restarts' = restarts + 1
    /\ NewSlurmMonitor
    /\ UNCHANGED <<now, committed, usages, faults>>

Init ==
    /\ load \in Loads
    /\ now = 1 /\ committed = [j \in Jobs |-> 0]
    /\ lastMonitorTime = 1 /\ todo = {} /\ cur = Idle
    /\ usages = <<>> /\ faults = 0 /\ restarts = 0

\* The monitor's loop: one poll after the other.
StartMonitor ==
    \/ poll \/ pollFails \/ pollExpires
    \/ \E job \in todo : recordJob(job) \/ skipJob(job)
    \/ DeleteComputeAllocationUsage \/ CreateComputeAllocationUsage

Next == (Tick \/ (\E j \in Jobs : JobEnds(j)) \/ StartMonitor \/ Restart) /\ UNCHANGED load

-----------------------------------------------------------------------------
(* Properties *)

Chargeable(j) == Charged([id |-> j, end |-> JobInfo[j].end])
CaughtUpOn(j) ==
    /\ Cardinality(RowsOf(j)) = 1
    /\ \A i \in RowsOf(j) : usages[i].su = JobInfo[j].billing * (JobInfo[j].end - JobInfo[j].start) * Rate[JobInfo[j].end]

\* Between polls, a chargeable job whose record reached SLURM's database
\* before the last poll is charged once, in full: however late the record
\* came, whichever polls failed and whenever the monitor restarted (poll and
\* recordJob, smonitor.go), as long as every row that is called for is written.
CaughtUp ==
    ~Polling /\ Faulty \subseteq {"list"} => \A j \in Jobs : (Chargeable(j) /\ committed[j] \in 1..(lastMonitorTime - 1)) => CaughtUpOn(j)

=============================================================================
