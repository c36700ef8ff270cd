--------------------------- MODULE SlurmAssociations ---------------------------
(***************************************************************************)
(* Access to the clusters: core changes publish events on the in-memory    *)
(* bus, the SLURM subscribers turn each into SLURM calls, and a periodic   *)
(* sweep compares the clusters with the allocations.  Events arrive in any *)
(* order, calls fail, and a restart loses what is in memory.               *)
(* An association is keyed by cluster, account, user and partition; the    *)
(* account-level record has no user and no partition.                      *)
(***************************************************************************)
EXTENDS Naturals, FiniteSets

CONSTANTS
    Clusters, Users, Allocs, ClusterOf,
    Loads           \* the workloads of an instance

VARIABLES
    load,       \* the workload of this behaviour
    core,       \* alloc, member, account (of a user on a cluster), override, mapped
    moves,      \* core changes so far
    bus,        \* events published whose subscriber has not started
    tasks,      \* subscribers under way: the SLURM calls they still make
    slurm,      \* associations of the clusters, with their limits (external)
    accounts,   \* SLURM accounts (external)
    sweep,      \* the reconciler
    held,       \* associations called for since the sweep began
    faults, restarts

vars == <<load, core, moves, bus, tasks, slurm, accounts, sweep, held, faults, restarts>>

Core0 == load.core              \* the core rows at the start
Slurm0 == load.slurm            \* the associations at the start
Moves == load.moves             \* core changes that may happen: what, id, to
MaxMoves == load.maxMoves
MaxFaults == load.maxFaults
MaxRestarts == load.maxRestarts

None == "none"
Members == Allocs \X Users
AccountLevel(a) == <<ClusterOf[a], a, None, None>>

Idle == [pc |-> "idle", cluster |-> None, clusters |-> {}, users |-> {}, ready |-> {}, existing |-> <<>>,
         desired |-> {}, members |-> {}, writes |-> {}, stale |-> {}]

-----------------------------------------------------------------------------
(* What the allocations call for. *)

activeAllocation(a) == core.alloc[a] = "ACTIVE"
Provisioned(c) == core.account[c] \in {"fresh", "ready"}

\* A zero override leaves the member with the limits of the allocation.
limitsFor(m) == IF core.override[m] > 0 THEN {core.override[m]} ELSE {}

Ok(records) == [ok |-> TRUE, records |-> records]
Failed == [ok |-> FALSE, records |-> {}]

RecordsOf(m) ==
    {[key |-> <<ClusterOf[m[1]], m[1], m[2], r>>, limits |-> limitsFor(m)] : r \in core.mapped[m[1]]}

\* Mutant of the next one: associations are built before the account exists.
DesiredAnyAccount(m) ==
    IF core.alloc[m[1]] = None THEN Failed
    ELSE IF ~activeAllocation(m[1]) THEN Ok({})
    ELSE IF core.account[ClusterOf[m[1]], m[2]] = None THEN Failed
    ELSE Ok(RecordsOf(m))

desiredAssociationsForMembership(m) ==
    IF core.alloc[m[1]] = None THEN Failed
    ELSE IF ~activeAllocation(m[1]) THEN Ok({})
    ELSE IF ~Provisioned(<<ClusterOf[m[1]], m[2]>>) THEN Failed
    ELSE Ok(RecordsOf(m))

\* What every member whose account is in place should have.
Wanted ==
    UNION {desiredAssociationsForMembership(m).records : m \in {n \in Members : core.member[n] = "ACTIVE"}}
Entitled == {r.key : r \in Wanted}

-----------------------------------------------------------------------------
(* slurmrestd, as the client uses it. *)

\* An empty field of the filter matches every value.
query(cluster, account, user) ==
    {k \in DOMAIN slurm : k[1] = cluster /\ k[2] = account /\ user \in {None, k[3]}}

Holds(keys) == [k \in DOMAIN slurm \ keys |-> slurm[k]]

\* An upsert is last write wins; without its account it is a silent no-op,
\* which the read back reports as an error.
UpsertAssociation(r) ==
    slurm' = IF r.key[2] \in accounts /\ (r.key[3] = None \/ AccountLevel(r.key[2]) \in DOMAIN slurm)
                THEN [k \in DOMAIN slurm \cup {r.key} |-> IF k = r.key THEN r.limits ELSE slurm[k]] ELSE slurm

DeleteAssociation(keys) == slurm' = Holds(keys)

\* The account and its account-level record, in one call.
CreateAccount(a) ==
    /\ accounts' = accounts \cup {a}
    /\ slurm' = [k \in DOMAIN slurm \cup {AccountLevel(a)} |-> IF k \in DOMAIN slurm THEN slurm[k] ELSE {}]

ListAssociations(cluster) == [k \in {j \in DOMAIN slurm : j[1] = cluster} |-> slurm[k]]

-----------------------------------------------------------------------------
(* The bus and its subscribers. *)

Init ==
    /\ load \in Loads
    /\ core = Core0
    /\ moves = 0
    /\ bus = {}
    /\ tasks = {}
    /\ slurm = Slurm0
    /\ accounts = {k[2] : k \in DOMAIN Slurm0}
    /\ sweep = Idle
    /\ held = {}
    /\ faults = 0 /\ restarts = 0

Change(mv) ==
    /\ moves < MaxMoves
    /\ core[mv.what][mv.id] # mv.to
    /\ mv.what = "member" => core.alloc[mv.id[1]] # None
    /\ mv.what = "override" => core.member[mv.id] # None
    /\ core' = [t \in DOMAIN core |->
                  CASE t = mv.what -> [core[t] EXCEPT ![mv.id] = mv.to]
                    [] mv.what = "alloc" /\ mv.to = None /\ t = "member" ->
                          [m \in Members |-> IF m[1] = mv.id THEN None ELSE core.member[m]]
                    [] OTHER -> core[t]]
    /\ moves' = moves + 1

\* A core operation commits, then publishes its record on the bus; an account
\* landing on its cluster has no event.
Publish(mv) ==
    /\ Change(mv)
    /\ bus' = IF mv.what = "account" THEN bus
              ELSE bus \cup {[n |-> moves', what |-> mv.what, id |-> mv.id, to |-> mv.to, from |-> core[mv.what][mv.id]]}
    /\ UNCHANGED <<tasks, slurm, accounts, sweep, faults, restarts>>

Upserts(m) == {[call |-> "upsert", arg |-> r] : r \in desiredAssociationsForMembership(m).records}
removeAssociationsForMembership(m) ==
    IF core.alloc[m[1]] = None \/ core.account[ClusterOf[m[1]], m[2]] = None THEN {}
    ELSE {[call |-> "delete", arg |-> m]}
removeAssociationsForAllocation(a) == {[call |-> "delete", arg |-> <<a, None>>]}
restoreAssociationsForAllocation(a) ==
    UNION {Upserts(m) : m \in {n \in Members : n[1] = a /\ core.member[n] = "ACTIVE"}}

\* The eight subscribers, by what the event says happened.
ComputeAllocationCreation(e) == {[call |-> "account", arg |-> e.id]}
ComputeAllocationDeletion(e) == removeAssociationsForAllocation(e.id)
ComputeAllocationUpdate(e) ==
    IF e.to = "ACTIVE" THEN restoreAssociationsForAllocation(e.id) ELSE removeAssociationsForAllocation(e.id)
MembershipCreation(e) == Upserts(e.id)
MembershipDeletion(e) == removeAssociationsForMembership(e.id)
MembershipUpdate(e) ==
    IF e.to = "ACTIVE" THEN Upserts(e.id) ELSE removeAssociationsForMembership(e.id)
ResourceOverrideCreation(e) == IF core.member[e.id] = None THEN {} ELSE Upserts(e.id)
ResourceMappingCreation(e) ==
    IF core.alloc[e.id] = None THEN {}
    ELSE {[call |-> "upsert", arg |-> [key |-> AccountLevel(e.id), limits |-> e.to \ e.from]]}

RegisterSubscribers(e) ==
    CASE e.what = "alloc"    -> IF e.from = None THEN ComputeAllocationCreation(e)
                                ELSE IF e.to = None THEN ComputeAllocationDeletion(e)
                                ELSE ComputeAllocationUpdate(e)
      [] e.what = "member"   -> IF e.from = None THEN MembershipCreation(e)
                                ELSE IF e.to = None THEN MembershipDeletion(e)
                                ELSE MembershipUpdate(e)
      [] e.what = "override" -> ResourceOverrideCreation(e)
      [] e.what = "mapped"   -> ResourceMappingCreation(e)

\* The subscriber's goroutine starts: it reads the core and decides its calls.
safeDispatch(e) ==
    /\ e \in bus
    /\ bus' = bus \ {e}
    /\ LET calls == RegisterSubscribers(e)
       IN tasks' = IF calls = {} THEN tasks ELSE tasks \cup {[n |-> e.n, what |-> e.what, calls |-> calls]}
    /\ UNCHANGED <<core, moves, slurm, accounts, sweep, faults, restarts>>

Left(t, gone) ==
    tasks' = (tasks \ {t}) \cup (IF t.calls = gone THEN {} ELSE {[t EXCEPT !.calls = @ \ gone]})

Perform(t, c) ==
    /\ t \in tasks /\ c \in t.calls
    /\ CASE c.call = "account" -> CreateAccount(c.arg)
         [] c.call = "upsert"  -> UpsertAssociation(c.arg) /\ UNCHANGED accounts
         [] c.call = "delete"  -> DeleteAssociation(query(ClusterOf[c.arg[1]], c.arg[1], c.arg[2])) /\ UNCHANGED accounts
    /\ Left(t, {c})
    /\ UNCHANGED <<core, moves, bus, sweep, faults, restarts>>

\* A failed call ends the subscriber, except that restoring an allocation goes
\* on with its next member.
PerformFails(t, c) ==
    /\ t \in tasks /\ c \in t.calls
    /\ faults < MaxFaults
    /\ faults' = faults + 1
    /\ Left(t, IF t.what = "alloc" THEN {c} ELSE t.calls)
    /\ UNCHANGED <<core, moves, bus, slurm, accounts, sweep, restarts>>

\* Nothing of the bus, the subscribers or the sweep outlives the process.
Restart ==
    /\ restarts < MaxRestarts
    /\ restarts' = restarts + 1
    /\ bus' = {} /\ tasks' = {} /\ sweep' = Idle
    /\ UNCHANGED <<core, moves, slurm, accounts, faults>>

-----------------------------------------------------------------------------
(* The sweep. *)

sweepVars == <<core, moves, bus, tasks, accounts, restarts>>

reconcile ==
    /\ sweep.pc = "idle"
    /\ sweep' = [Idle EXCEPT !.pc = "cluster", !.clusters = Clusters]
    /\ UNCHANGED <<sweepVars, slurm, faults>>

\* Cluster by cluster: first its provisioned accounts.
ListComputeClusterUsersByCluster(k) ==
    /\ sweep.pc = "cluster" /\ k \in sweep.clusters
    /\ sweep' = [Idle EXCEPT !.pc = "read", !.cluster = k, !.clusters = sweep.clusters \ {k},
                             !.users = {u \in Users : Provisioned(<<k, u>>)},
                             !.ready = {u \in Users : core.account[k, u] = "ready"}]
    /\ UNCHANGED <<sweepVars, slurm, faults>>

\* A failed read leaves nothing to compare with, and nothing to prune.
existingAssociations ==
    /\ sweep.pc = "read"
    /\ \/ sweep' = [sweep EXCEPT !.pc = "user", !.existing = ListAssociations(sweep.cluster)] /\ UNCHANGED faults
       \/ /\ faults < MaxFaults
          /\ faults' = faults + 1
          /\ sweep' = [sweep EXCEPT !.pc = "user"]
    /\ UNCHANGED <<sweepVars, slurm>>

ListAllocationsForUser(u) ==
    /\ sweep.pc = "user" /\ u \in sweep.users
    /\ sweep' = [sweep EXCEPT !.pc = "member", !.users = @ \ {u},
                              !.members = {m \in Members : m[2] = u /\ core.member[m] = "ACTIVE"}]
    /\ UNCHANGED <<sweepVars, slurm, faults>>

Key(k) == <<k[2], k[3], k[4]>>      \* assocKey has no cluster
sameLimits(r) == \E k \in DOMAIN sweep.existing : Key(k) = Key(r.key) /\ sweep.existing[k] = r.limits

\* Everything the member should have is desired; it is written once the grace
\* of the account is over.  A member that cannot be resolved ends the cluster.
readyForAssociation(m) ==
    LET got == desiredAssociationsForMembership(m) IN
    sweep' = IF ~got.ok THEN [sweep EXCEPT !.pc = "cluster"]
             ELSE [sweep EXCEPT !.members = @ \ {m},
                    !.desired = @ \cup {Key(r.key) : r \in got.records},
                    !.writes = IF m[2] \in sweep.ready THEN {r \in got.records : ~sameLimits(r)} ELSE {}]

reconcileCluster(m) ==
    /\ sweep.pc = "member" /\ sweep.writes = {} /\ m \in sweep.members
    /\ readyForAssociation(m)
    /\ UNCHANGED <<sweepVars, slurm, faults>>

\* A failed write is logged; the next sweep tries again.
reconcileWrites(r) ==
    /\ sweep.pc = "member" /\ r \in sweep.writes
    /\ \/ UpsertAssociation(r) /\ UNCHANGED faults
       \/ faults < MaxFaults /\ faults' = faults + 1 /\ UNCHANGED slurm
    /\ sweep' = [sweep EXCEPT !.writes = @ \ {r}]
    /\ UNCHANGED sweepVars

NextUser ==
    /\ sweep.pc = "member" /\ sweep.writes = {} /\ sweep.members = {}
    /\ sweep' = [sweep EXCEPT !.pc = "user"]
    /\ UNCHANGED <<sweepVars, slurm, faults>>

managedAccounts(k) == {a \in Allocs : ClusterOf[a] = k /\ core.alloc[a] # None}

\* Mutants of the next one: without the managed test; without removals.
pruneUnmanaged ==
    IF sweep.desired = {} THEN {}
    ELSE {k \in DOMAIN sweep.existing : k[3] # None /\ Key(k) \notin sweep.desired}
pruneNothing == {}

\* An empty desired set is taken for a failed lookup: nothing is removed.
pruneStaleAssociations ==
    IF sweep.desired = {} THEN {}
    ELSE {k \in DOMAIN sweep.existing :
            k[3] # None /\ k[2] \in managedAccounts(sweep.cluster) /\ Key(k) \notin sweep.desired}

ListComputeAllocationsByCluster ==
    /\ sweep.pc = "user" /\ sweep.users = {}
    /\ sweep' = [sweep EXCEPT !.pc = "prune", !.stale = pruneStaleAssociations]
    /\ UNCHANGED <<sweepVars, slurm, faults>>

RemoveStale(k) ==
    /\ sweep.pc = "prune" /\ k \in sweep.stale
    /\ \/ DeleteAssociation({k}) /\ UNCHANGED faults
       \/ faults < MaxFaults /\ faults' = faults + 1 /\ UNCHANGED slurm
    /\ sweep' = [sweep EXCEPT !.stale = @ \ {k}]
    /\ UNCHANGED sweepVars

EndCluster ==
    /\ sweep.pc = "prune" /\ sweep.stale = {}
    /\ sweep' = [Idle EXCEPT !.pc = "cluster", !.clusters = sweep.clusters]
    /\ UNCHANGED <<sweepVars, slurm, faults>>

EndSweep ==
    /\ sweep.pc = "cluster" /\ sweep.clusters = {}
    /\ sweep' = Idle
    /\ UNCHANGED <<sweepVars, slurm, faults>>

StartReconciler ==
    \/ reconcile
    \/ \E k \in Clusters : ListComputeClusterUsersByCluster(k)
    \/ existingAssociations
    \/ \E u \in Users : ListAllocationsForUser(u)
    \/ \E m \in sweep.members : reconcileCluster(m)
    \/ \E r \in sweep.writes : reconcileWrites(r)
    \/ NextUser
    \/ ListComputeAllocationsByCluster
    \/ \E k \in sweep.stale : RemoveStale(k)
    \/ EndCluster
    \/ EndSweep

\* The grace of an account runs out.
GraceEnds(c) ==
    /\ core.account[c] = "fresh"
    /\ core' = [core EXCEPT !.account[c] = "ready"]
    /\ UNCHANGED <<moves, bus, tasks, slurm, accounts, sweep, faults, restarts>>

Serve == \E t \in tasks : \E c \in t.calls : Perform(t, c)
Dispatch == \E e \in bus : safeDispatch(e)
Elapse == \E c \in Clusters \X Users : GraceEnds(c)

Step ==
    \/ \E mv \in Moves : Publish(mv)
    \/ Dispatch
    \/ Serve
    \/ \E t \in tasks : \E c \in t.calls : PerformFails(t, c)
    \/ Restart
    \/ StartReconciler
    \/ Elapse

Watched(A) == A /\ UNCHANGED load /\ held' = IF sweep.pc = "idle" THEN Entitled' ELSE held \cap Entitled'
Next == Watched(Step)

\* The ticker keeps sweeping; goroutines and time go on.
Spec == Init /\ [][Next]_vars
LiveSpec ==
    /\ Spec
    /\ WF_vars(Watched(StartReconciler))
    /\ WF_vars(Watched(Dispatch))
    /\ WF_vars(Watched(Serve))
    /\ WF_vars(Watched(Elapse))

-----------------------------------------------------------------------------
(* Properties. *)

\* A sweep leaves what was called for from its beginning to its end alone, and
\* never touches accounts Custos does not manage or an account-level record
\* (pruneStaleAssociations), whatever happens while it runs.
SweepKeepsAccess ==
    [][sweep.pc = "prune" /\ sweep'.stale # sweep.stale =>
         \A k \in DOMAIN slurm \ DOMAIN slurm' : k \notin held /\ k[2] \in Allocs /\ k[3] # None]_vars

\* Members have exactly the associations, with the limits, that are called for.
Agrees ==
    /\ \A r \in Wanted : core.account[r.key[1], r.key[3]] = "ready" => r.key \in DOMAIN slurm /\ slurm[r.key] = r.limits
    /\ \A k \in DOMAIN slurm : k[2] \in Allocs /\ k[3] # None => k \in Entitled

\* Once the core is quiet the clusters come to agree with it for good, whatever
\* events were lost or reordered and whatever calls failed (StartReconciler): for
\* the workloads that say so, because some changes have only their event.
Converges == load.heals => <>[]Agrees
=============================================================================
