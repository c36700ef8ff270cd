------------------------- MODULE ClusterAccessProofs -------------------------
(***************************************************************************)
(* What holds of access to the clusters whatever events, calls and runs    *)
(* come between each other, proved for any clusters, allocations, users    *)
(* and workloads, and any number of failures and restarts.                 *)
(*                                                                         *)
(* A sweep reads its lists one after the other while the core changes.     *)
(* WInv says what its lists have in common with what has been called for   *)
(* since it began.  NInv adds that every association that is there, or     *)
(* that a subscriber or the sweep is about to write, is of an account that *)
(* has landed.                                                             *)
(***************************************************************************)
EXTENDS Comanage, TLAPS

-----------------------------------------------------------------------------
(* The sweep. *)

\* The sweep has its fields.
Sweeping(s) ==
    s = [pc |-> s.pc, cluster |-> s.cluster, clusters |-> s.clusters, users |-> s.users, ready |-> s.ready,
         existing |-> s.existing, desired |-> s.desired, members |-> s.members, writes |-> s.writes, stale |-> s.stale]

\* The member of an association.
MemberOf(k) == <<k[2], k[3]>>

\* What has been called for since the sweep began is still ahead of it, or desired.
Ahead(k, s) ==
    \/ k[3] \in s.users
    \/ s.pc = "member" /\ MemberOf(k) \in s.members
    \/ Key(k) \in s.desired

\* What is read of a cluster is of that cluster, and what is to be removed is neither
\* called for nor somebody else's.
SweepOK(s, hold) ==
    /\ s.pc \in {"read", "user", "member"} => \A k \in hold : k[1] = s.cluster => Ahead(k, s)
    /\ s.pc \in {"read", "user", "member"} => \A k \in DOMAIN s.existing : k[1] = s.cluster
    /\ s.pc = "prune" => \A k \in s.stale : k \notin hold /\ k[2] \in Allocs /\ k[3] # None

WInv == Sweeping(sweep) /\ held \subseteq Entitled /\ SweepOK(sweep, held)

\* An association that is called for names an active member of an active allocation
\* whose account has landed.
LEMMA EntitledFacts ==
    ASSUME NEW k \in Entitled
    PROVE  /\ k = <<ClusterOf[k[2]], k[2], k[3], k[4]>> /\ MemberOf(k) \in Members /\ core.member[MemberOf(k)] = "ACTIVE"
           /\ k[2] \in Allocs /\ k[3] \in Users /\ core.alloc[k[2]] = "ACTIVE"
           /\ Provisioned(<<k[1], k[3]>>) /\ k[4] \in core.mapped[k[2]]
<1>1. PICK m \in Members : core.member[m] = "ACTIVE" /\ \E r \in desiredAssociationsForMembership(m).records : k = r.key
  BY Zenon DEF Entitled, Wanted
<1>2. PICK r \in desiredAssociationsForMembership(m).records : k = r.key
  BY <1>1, Zenon
<1>3. /\ core.alloc[m[1]] = "ACTIVE" /\ Provisioned(<<ClusterOf[m[1]], m[2]>>) /\ r \in RecordsOf(m)
  BY <1>2 DEF desiredAssociationsForMembership, Failed, Ok, activeAllocation
<1>4. PICK x \in core.mapped[m[1]] : r = [key |-> <<ClusterOf[m[1]], m[1], m[2], x>>, limits |-> limitsFor(m)]
  BY <1>3, Zenon DEF RecordsOf
<1>5. k = <<ClusterOf[m[1]], m[1], m[2], x>>
  BY <1>2, <1>4
<1>6. m = <<m[1], m[2]>> /\ m[1] \in Allocs /\ m[2] \in Users
  BY DEF Members
<1>7. k[1] = ClusterOf[m[1]] /\ k[2] = m[1] /\ k[3] = m[2] /\ k[4] = x
  BY <1>5
<1> QED
  BY <1>1, <1>3, <1>5, <1>6, <1>7, Zenon DEF MemberOf

\* A member that is resolved while something is called for has that among its records.
LEMMA EntitledIsDesired ==
    ASSUME NEW k \in Entitled
    PROVE  /\ desiredAssociationsForMembership(MemberOf(k)).ok
           /\ \E r \in desiredAssociationsForMembership(MemberOf(k)).records : r.key = k
<1>1. /\ k = <<ClusterOf[k[2]], k[2], k[3], k[4]>> /\ core.alloc[k[2]] = "ACTIVE"
      /\ Provisioned(<<ClusterOf[k[2]], k[3]>>) /\ k[4] \in core.mapped[k[2]]
  <2>1. k = <<ClusterOf[k[2]], k[2], k[3], k[4]>>
    BY EntitledFacts, Zenon
  <2>2. k[1] = ClusterOf[k[2]]
    BY <2>1
  <2> QED
    BY <2>1, <2>2, EntitledFacts, Zenon
<1>2. MemberOf(k)[1] = k[2] /\ MemberOf(k)[2] = k[3]
  BY DEF MemberOf
<1>3. desiredAssociationsForMembership(MemberOf(k)) = Ok(RecordsOf(MemberOf(k)))
  BY <1>1, <1>2 DEF desiredAssociationsForMembership, activeAllocation, None
<1>4. [key |-> k, limits |-> limitsFor(MemberOf(k))] \in RecordsOf(MemberOf(k))
  BY <1>1, <1>2, Zenon DEF RecordsOf
<1> QED
  BY <1>3, <1>4 DEF Ok

\* The core says what is called for.
LEMMA SameCore ==
    ASSUME UNCHANGED core
    PROVE  Entitled' = Entitled
<1>1. ASSUME NEW m PROVE desiredAssociationsForMembership(m)' = desiredAssociationsForMembership(m)
  BY Zenon DEF desiredAssociationsForMembership, activeAllocation, Provisioned, RecordsOf, limitsFor, Ok, Failed
<1>2. Wanted' = Wanted
  BY <1>1 DEF Wanted
<1> QED
  BY <1>2, Zenon DEF Entitled

\* A step leaves the sweep alone, ends it with the process, or is its own, which does
\* not change the core.
LEMMA SweepFrame ==
    ASSUME AccessNext
    PROVE  /\ held' = IF sweep.pc = "idle" THEN Entitled' ELSE held \cap Entitled'
           /\ \/ UNCHANGED sweep
              \/ sweep' = Idle /\ UNCHANGED slurm
              \/ StartReconciler /\ UNCHANGED core /\ Entitled' = Entitled
<1>1. held' = (IF sweep.pc = "idle" THEN Entitled' ELSE held \cap Entitled') /\ (ConnectorStep \/ Beside(RowStep))
  BY Zenon DEF AccessNext, Watched
<1>3. CASE Beside(RowStep)
  BY <1>1, <1>3, Zenon DEF Beside
<1>4. CASE Restart
  BY <1>1, <1>4, Zenon DEF Restart
<1>5. CASE Step
  <2>1. ASSUME NEW mv \in Moves, Publish(mv) PROVE UNCHANGED sweep
    BY <2>1, Zenon DEF Publish
  <2>2. ASSUME Dispatch \/ Serve \/ Elapse PROVE UNCHANGED sweep
    BY <2>2, Zenon DEF Dispatch, Serve, Elapse, safeDispatch, Perform, GraceEnds
  <2>3. ASSUME NEW t \in tasks, NEW c \in t.calls, PerformFails(t, c) PROVE UNCHANGED sweep
    BY <2>3, Zenon DEF PerformFails
  <2>4. ASSUME StartReconciler PROVE UNCHANGED core
    BY <2>4, Zenon DEF StartReconciler, reconcile, ListComputeClusterUsersByCluster, existingAssociations,
       ListAllocationsForUser, reconcileCluster, reconcileWrites, NextUser, ListComputeAllocationsByCluster,
       RemoveStale, EndCluster, EndSweep, sweepVars
  <2> QED
    BY <1>1, <1>4, <1>5, <2>1, <2>2, <2>3, <2>4, SameCore, Zenon DEF Step
<1> QED
  BY <1>1, <1>3, <1>4, <1>5, Zenon DEF ConnectorStep

\* Each step of the sweep keeps what is called for ahead of it or desired.
LEMMA SweepKept ==
    ASSUME WInv, StartReconciler, NEW hold, hold \subseteq Entitled, sweep.pc # "idle" => hold \subseteq held
    PROVE  Sweeping(sweep') /\ SweepOK(sweep', hold)
<1>1. Sweeping(sweep) /\ SweepOK(sweep, held)
  BY DEF WInv
<1>2. CASE reconcile \/ EndCluster \/ EndSweep
  <2>1. CASE reconcile \/ EndCluster
    <3>1. PICK ks : sweep' = [Idle EXCEPT !.pc = "cluster", !.clusters = ks]
      BY <2>1, Zenon DEF reconcile, EndCluster
    <3> QED
      BY <3>1, Zenon DEF Idle, Sweeping, SweepOK
  <2>2. CASE EndSweep
    BY <2>2 DEF EndSweep, Idle, Sweeping, SweepOK
  <2> QED
    BY <1>2, <2>1, <2>2
<1>3. ASSUME NEW c \in Clusters, ListComputeClusterUsersByCluster(c) PROVE Sweeping(sweep') /\ SweepOK(sweep', hold)
  <2>1. sweep' = [Idle EXCEPT !.pc = "read", !.cluster = c, !.clusters = sweep.clusters \ {c},
                              !.users = {u \in Users : Provisioned(<<c, u>>)},
                              !.ready = {u \in Users : core.account[c, u] = "ready"}]
    BY <1>3, Zenon DEF ListComputeClusterUsersByCluster
  <2>2. Sweeping(sweep') /\ sweep'.pc = "read" /\ sweep'.cluster = c /\ sweep'.existing = <<>>
        /\ sweep'.users = {u \in Users : Provisioned(<<c, u>>)}
    BY <2>1 DEF Idle, Sweeping
  <2>3. \A k \in hold : k[1] = c => k[3] \in sweep'.users
    BY <2>2, EntitledFacts, Zenon
  <2>4. DOMAIN sweep'.existing = {}
    BY <2>2
  <2> QED
    BY <2>2, <2>3, <2>4 DEF SweepOK, Ahead
<1>4. CASE existingAssociations
  <2>1. sweep.pc = "read" /\ hold \subseteq held
    BY <1>4 DEF existingAssociations
  <2>2. PICK ex : sweep' = [sweep EXCEPT !.pc = "user", !.existing = ex] /\ \A k \in DOMAIN ex : k[1] = sweep.cluster
    <3>1. CASE sweep' = [sweep EXCEPT !.pc = "user", !.existing = ListAssociations(sweep.cluster)]
      <4>1. \A k \in DOMAIN ListAssociations(sweep.cluster) : k[1] = sweep.cluster
        BY DEF ListAssociations
      <4> QED
        BY <3>1, <4>1, Zenon
    <3>2. CASE sweep' = [sweep EXCEPT !.pc = "user"]
      <4>1. sweep' = [sweep EXCEPT !.pc = "user", !.existing = sweep.existing]
        BY <1>1, <3>2, Zenon DEF Sweeping
      <4> QED
        BY <1>1, <2>1, <4>1, Zenon DEF SweepOK
    <3> QED
      BY <1>4, <3>1, <3>2, Zenon DEF existingAssociations
  <2>3. /\ Sweeping(sweep') /\ sweep'.pc = "user" /\ sweep'.cluster = sweep.cluster /\ sweep'.users = sweep.users
        /\ sweep'.desired = sweep.desired /\ sweep'.existing = ex
    BY <1>1, <2>2, Zenon DEF Sweeping
  <2>4. \A k \in hold : k[1] = sweep.cluster => k[3] \in sweep.users \/ Key(k) \in sweep.desired
    BY <1>1, <2>1 DEF SweepOK, Ahead
  <2> QED
    BY <2>2, <2>3, <2>4 DEF SweepOK, Ahead
<1>5. ASSUME NEW u \in Users, ListAllocationsForUser(u) PROVE Sweeping(sweep') /\ SweepOK(sweep', hold)
  <2>1. /\ sweep.pc = "user" /\ hold \subseteq held
        /\ sweep' = [sweep EXCEPT !.pc = "member", !.users = @ \ {u},
                                  !.members = {m \in Members : m[2] = u /\ core.member[m] = "ACTIVE"}]
    BY <1>5 DEF ListAllocationsForUser
  <2>2. /\ Sweeping(sweep') /\ sweep'.pc = "member" /\ sweep'.cluster = sweep.cluster /\ sweep'.users = sweep.users \ {u}
        /\ sweep'.members = {m \in Members : m[2] = u /\ core.member[m] = "ACTIVE"}
        /\ sweep'.desired = sweep.desired /\ sweep'.existing = sweep.existing
    BY <1>1, <2>1, Zenon DEF Sweeping
  <2>3. ASSUME NEW k \in hold, k[1] = sweep.cluster PROVE Ahead(k, sweep')
    <3>1. k[3] \in sweep.users \/ Key(k) \in sweep.desired
      BY <1>1, <2>1, <2>3 DEF SweepOK, Ahead
    <3>2. k[3] = u => MemberOf(k) \in sweep'.members
      <4>1. MemberOf(k)[2] = k[3] /\ MemberOf(k) \in Members /\ core.member[MemberOf(k)] = "ACTIVE"
        BY EntitledFacts, Zenon DEF MemberOf
      <4> QED
        BY <2>2, <4>1, Zenon
    <3> QED
      BY <2>2, <3>1, <3>2, Zenon DEF Ahead
  <2> QED
    BY <1>1, <2>1, <2>2, <2>3, Zenon DEF SweepOK
<1>6. ASSUME NEW m \in sweep.members, reconcileCluster(m) PROVE Sweeping(sweep') /\ SweepOK(sweep', hold)
  <2>1. sweep.pc = "member" /\ hold \subseteq held /\ readyForAssociation(m)
    BY <1>6 DEF reconcileCluster
  <2> DEFINE got == desiredAssociationsForMembership(m)
  <2>2. CASE ~got.ok
    <3>1. sweep' = [sweep EXCEPT !.pc = "cluster"]
      BY <2>1, <2>2, Zenon DEF readyForAssociation
    <3> QED
      BY <1>1, <3>1 DEF Sweeping, SweepOK
  <2>3. CASE got.ok
    <3>1. PICK ws : sweep' = [sweep EXCEPT !.members = @ \ {m}, !.desired = @ \cup {Key(r.key) : r \in got.records}, !.writes = ws]
      BY <2>1, <2>3, Zenon DEF readyForAssociation
    <3>2. /\ Sweeping(sweep') /\ sweep'.pc = "member" /\ sweep'.cluster = sweep.cluster /\ sweep'.users = sweep.users
          /\ sweep'.members = sweep.members \ {m} /\ sweep'.existing = sweep.existing
          /\ sweep'.desired = sweep.desired \cup {Key(r.key) : r \in got.records}
      BY <1>1, <2>1, <3>1, Zenon DEF Sweeping
    <3>3. ASSUME NEW k \in hold, k[1] = sweep.cluster PROVE Ahead(k, sweep')
      <4>1. k[3] \in sweep.users \/ MemberOf(k) \in sweep.members \/ Key(k) \in sweep.desired
        BY <1>1, <2>1, <3>3 DEF SweepOK, Ahead
      <4>2. MemberOf(k) = m => Key(k) \in sweep'.desired
        BY <3>2, EntitledIsDesired, Zenon
      <4> QED
        BY <3>2, <4>1, <4>2, Zenon DEF Ahead
    <3> QED
      BY <1>1, <2>1, <3>2, <3>3 DEF SweepOK
  <2> QED
    BY <2>2, <2>3
<1>7. ASSUME NEW r \in sweep.writes, reconcileWrites(r) PROVE Sweeping(sweep') /\ SweepOK(sweep', hold)
  <2>1. sweep.pc = "member" /\ hold \subseteq held /\ sweep' = [sweep EXCEPT !.writes = @ \ {r}]
    BY <1>7 DEF reconcileWrites
  <2>2. /\ Sweeping(sweep') /\ sweep'.pc = "member" /\ sweep'.cluster = sweep.cluster /\ sweep'.users = sweep.users
        /\ sweep'.members = sweep.members /\ sweep'.existing = sweep.existing /\ sweep'.desired = sweep.desired
    BY <1>1, <2>1 DEF Sweeping
  <2> QED
    BY <1>1, <2>1, <2>2 DEF SweepOK, Ahead
<1>8. CASE NextUser
  <2>1. sweep.pc = "member" /\ hold \subseteq held /\ sweep.members = {} /\ sweep' = [sweep EXCEPT !.pc = "user"]
    BY <1>8 DEF NextUser
  <2>2. /\ Sweeping(sweep') /\ sweep'.pc = "user" /\ sweep'.cluster = sweep.cluster /\ sweep'.users = sweep.users
        /\ sweep'.existing = sweep.existing /\ sweep'.desired = sweep.desired
    BY <1>1, <2>1 DEF Sweeping
  <2> QED
    BY <1>1, <2>1, <2>2 DEF SweepOK, Ahead
<1>9. CASE ListComputeAllocationsByCluster
  <2>1. /\ sweep.pc = "user" /\ sweep.users = {} /\ hold \subseteq held
        /\ sweep' = [sweep EXCEPT !.pc = "prune", !.stale = pruneStaleAssociations]
    BY <1>9 DEF ListComputeAllocationsByCluster
  <2>2. Sweeping(sweep') /\ sweep'.pc = "prune" /\ sweep'.stale = pruneStaleAssociations
    BY <1>1, <2>1, Zenon DEF Sweeping
  <2>3. ASSUME NEW k \in pruneStaleAssociations PROVE k \notin hold /\ k[2] \in Allocs /\ k[3] # None
    <3>1. k \in DOMAIN sweep.existing /\ k[3] # None /\ k[2] \in Allocs /\ Key(k) \notin sweep.desired
      BY <2>3 DEF pruneStaleAssociations, managedAccounts
    <3>2. k[1] = sweep.cluster
      BY <1>1, <2>1, <3>1 DEF SweepOK
    <3> QED
      BY <1>1, <2>1, <3>1, <3>2 DEF SweepOK, Ahead
  <2> QED
    BY <2>2, <2>3 DEF SweepOK
<1>10. ASSUME NEW k \in sweep.stale, RemoveStale(k) PROVE Sweeping(sweep') /\ SweepOK(sweep', hold)
  <2>1. sweep.pc = "prune" /\ hold \subseteq held /\ sweep' = [sweep EXCEPT !.stale = @ \ {k}]
    BY <1>10 DEF RemoveStale
  <2>2. Sweeping(sweep') /\ sweep'.pc = "prune" /\ sweep'.stale = sweep.stale \ {k}
    BY <1>1, <2>1 DEF Sweeping
  <2> QED
    BY <1>1, <2>1, <2>2 DEF SweepOK
<1> QED
  BY <1>2, <1>3, <1>4, <1>5, <1>6, <1>7, <1>8, <1>9, <1>10, Zenon DEF StartReconciler

LEMMA InitWInv == AccessInit => WInv
  BY DEF AccessInit, Init, WInv, Sweeping, SweepOK, Idle

LEMMA WInvStep == WInv /\ [AccessNext]_avars => WInv'
<1> SUFFICES ASSUME WInv, [AccessNext]_avars PROVE WInv'
  OBVIOUS
<1>1. CASE AccessNext
  <2>1. held' \subseteq Entitled' /\ (sweep.pc # "idle" => held' \subseteq held)
    BY <1>1, SweepFrame, Zenon
  <2>2. CASE UNCHANGED sweep
    <3>1. Sweeping(sweep') /\ SweepOK(sweep, held)
      BY <2>2, Zenon DEF WInv
    <3>2. SweepOK(sweep', held')
      BY <2>1, <2>2, <3>1 DEF SweepOK
    <3> QED
      BY <2>1, <3>1, <3>2, Zenon DEF WInv
  <2>3. CASE sweep' = Idle
    BY <2>1, <2>3 DEF WInv, Sweeping, SweepOK, Idle
  <2>4. CASE StartReconciler /\ Entitled' = Entitled
    <3>1. Sweeping(sweep') /\ SweepOK(sweep', held')
      BY <2>1, <2>4, SweepKept, Zenon
    <3> QED
      BY <2>1, <3>1, Zenon DEF WInv
  <2> QED
    BY <1>1, <2>2, <2>3, <2>4, SweepFrame, Zenon
<1>2. CASE UNCHANGED avars
  <2>1. UNCHANGED <<core, sweep, held>>
    BY <1>2, Zenon DEF avars, vars
  <2>2. Entitled' = Entitled
    BY <2>1, SameCore, Zenon
  <2> QED
    BY <2>1, <2>2, Zenon DEF WInv
<1> QED
  BY <1>1, <1>2, Zenon

\* Whatever happens while a sweep runs, it removes no association that was called for
\* from its beginning on, no account-level record, and nothing of an account that is
\* not an allocation's (pruneStaleAssociations), although each of its lists is older
\* than what it is compared with.
THEOREM SweepsKeepAccess == AccessSpec => SweepKeepsAccess
<1>1. ASSUME WInv, [AccessNext]_avars, sweep.pc = "prune", sweep'.stale # sweep.stale, NEW k \in DOMAIN slurm \ DOMAIN slurm'
      PROVE  k \notin held /\ k[2] \in Allocs /\ k[3] # None
  <2>1. ~UNCHANGED sweep
    BY <1>1, Zenon
  <2>2. AccessNext /\ ~UNCHANGED slurm
    BY <1>1, <2>1, Zenon DEF avars, vars
  <2>3. StartReconciler
    BY <2>1, <2>2, SweepFrame, Zenon
  <2>4. PICK j \in sweep.stale : RemoveStale(j)
    BY <1>1, <2>2, <2>3 DEF StartReconciler, reconcile, ListComputeClusterUsersByCluster, existingAssociations,
       ListAllocationsForUser, reconcileCluster, reconcileWrites, NextUser, ListComputeAllocationsByCluster,
       EndCluster, EndSweep
  <2>5. k = j
    BY <1>1, <2>2, <2>4 DEF RemoveStale, DeleteAssociation, Holds
  <2> QED
    BY <1>1, <2>4, <2>5 DEF WInv, SweepOK
<1>2. WInv /\ [AccessNext]_avars =>
        [sweep.pc = "prune" /\ sweep'.stale # sweep.stale =>
            \A k \in DOMAIN slurm \ DOMAIN slurm' : k \notin held /\ k[2] \in Allocs /\ k[3] # None]_vars
  BY <1>1, Zenon
<1> QED
  BY <1>2, InitWInv, WInvStep, PTL DEF AccessSpec, SweepKeepsAccess

-----------------------------------------------------------------------------
(* Access follows the account. *)

\* The account of an association's user has landed.
Granted(k) == k[3] \in Users /\ k[2] \in Allocs => k[1] \in Clusters /\ Provisioned(<<k[1], k[3]>>)

\* What the subscribers will call, and for which events they are there.
CallOK(c) == c.call \in {"account", "upsert", "delete"} /\ (c.call = "upsert" => Granted(c.arg.key))
TaskOK(t) == "calls" \in DOMAIN t /\ \A c \in t.calls : CallOK(c)

CoreOK ==
    /\ load \in Loads /\ DOMAIN core = {"alloc", "member", "account", "override", "mapped"}
    /\ DOMAIN core.account = Clusters \X Users
    /\ \A e \in bus : e.what \in {"alloc", "member", "override", "mapped"}

\* Every association that is there, or that somebody is about to write.
AllGranted ==
    /\ \A k \in DOMAIN slurm : Granted(k)
    /\ \A t \in tasks : TaskOK(t)
    /\ \A r \in sweep.writes : Granted(r.key)

NInv == WInv /\ CoreOK /\ (RowsStay => AllGranted)

\* An account-level record is nobody's.
LEMMA LevelGranted == \A a : Granted(AccountLevel(a))
  BY LoadsAssumption, Zenon DEF Granted, AccountLevel

\* What is built for a member is for one whose account has landed.
LEMMA RecordsGranted ==
    ASSUME NEW m, NEW r \in desiredAssociationsForMembership(m).records
    PROVE  Granted(r.key)
<1>1. Provisioned(<<ClusterOf[m[1]], m[2]>>) /\ r \in RecordsOf(m)
  BY DEF desiredAssociationsForMembership, Failed, Ok
<1>2. PICK x : r = [key |-> <<ClusterOf[m[1]], m[1], m[2], x>>, limits |-> limitsFor(m)]
  BY <1>1, Zenon DEF RecordsOf
<1>3. r.key[1] = ClusterOf[m[1]] /\ r.key[2] = m[1] /\ r.key[3] = m[2]
  BY <1>2
<1>4. m[1] \in Allocs => ClusterOf[m[1]] \in Clusters
  BY LoadsAssumption, Zenon
<1> QED
  BY <1>1, <1>3, <1>4, Zenon DEF Granted

\* What a subscriber decides to call.
LEMMA SubscribersGranted ==
    ASSUME CoreOK, NEW e \in bus, NEW c \in RegisterSubscribers(e)
    PROVE  CallOK(c)
<1>1. ASSUME NEW m, c \in Upserts(m) PROVE CallOK(c)
  <2>1. PICK r \in desiredAssociationsForMembership(m).records : c = [call |-> "upsert", arg |-> r]
    BY <1>1, Zenon DEF Upserts
  <2>2. c.call = "upsert" /\ c.arg = r
    BY <2>1
  <2> QED
    BY <2>2, RecordsGranted DEF CallOK
<1>2. ASSUME NEW a, c = [call |-> "account", arg |-> a] \/ c = [call |-> "delete", arg |-> a] PROVE CallOK(c)
  BY <1>2 DEF CallOK
<1>3. ASSUME NEW a, NEW ls, c = [call |-> "upsert", arg |-> [key |-> AccountLevel(a), limits |-> ls]] PROVE CallOK(c)
  <2>1. c.call = "upsert" /\ c.arg.key = AccountLevel(a)
    BY <1>3
  <2> QED
    BY <2>1, LevelGranted DEF CallOK
<1>4. CASE e.what = "alloc"
  <2>1. \/ c \in ComputeAllocationCreation(e) \/ c \in removeAssociationsForAllocation(e.id)
        \/ c \in restoreAssociationsForAllocation(e.id)
    BY <1>4 DEF RegisterSubscribers, ComputeAllocationDeletion, ComputeAllocationUpdate
  <2> QED
    BY <1>1, <1>2, <2>1, Zenon DEF ComputeAllocationCreation, removeAssociationsForAllocation, restoreAssociationsForAllocation
<1>5. CASE e.what = "member"
  <2>1. c \in Upserts(e.id) \/ c \in removeAssociationsForMembership(e.id)
    BY <1>5 DEF RegisterSubscribers, MembershipCreation, MembershipDeletion, MembershipUpdate
  <2>2. c \in removeAssociationsForMembership(e.id) => c = [call |-> "delete", arg |-> e.id]
    BY Zenon DEF removeAssociationsForMembership
  <2> QED
    BY <1>1, <1>2, <2>1, <2>2, Zenon
<1>6. CASE e.what = "override"
  <2>1. c \in Upserts(e.id)
    BY <1>6 DEF RegisterSubscribers, ResourceOverrideCreation
  <2> QED
    BY <1>1, <2>1, Zenon
<1>7. CASE e.what = "mapped"
  <2>1. c = [call |-> "upsert", arg |-> [key |-> AccountLevel(e.id), limits |-> e.to \ e.from]]
    BY <1>7 DEF RegisterSubscribers, ResourceMappingCreation
  <2> QED
    BY <1>3, <2>1, Zenon
<1> QED
  BY <1>4, <1>5, <1>6, <1>7, Zenon DEF CoreOK

\* What landed stays: no step takes an account back.
LEMMA AccountsStay ==
    ASSUME CoreOK, AccessNext
    PROVE  /\ CoreOK'
           /\ RowsStay => \A c \in Clusters \X Users : Provisioned(c) => Provisioned(c)'
<1>1. load' = load /\ (RowsStay' <=> RowsStay)
  BY Zenon DEF AccessNext, Watched, RowsStay, Moves, Rows
<1>2. DOMAIN core = {"alloc", "member", "account", "override", "mapped"} /\ DOMAIN core.account = Clusters \X Users
  BY Zenon DEF CoreOK
<1> DEFINE Kept == /\ DOMAIN core' = DOMAIN core /\ DOMAIN core'.account = Clusters \X Users
                   /\ RowsStay => \A c \in Clusters \X Users : Provisioned(c) => Provisioned(c)'
<1>3. ASSUME NEW mv \in Moves, Publish(mv)
      PROVE  Kept /\ \A e \in bus' : e \in bus \/ e.what \in {"alloc", "member", "override", "mapped"}
  <2>1. mv.what \in DOMAIN core
    BY <1>2, LoadsAssumption, Zenon DEF Moves, CoreOK
  <2>2. \A e \in bus' : e \in bus \/ e.what \in {"alloc", "member", "override", "mapped"}
    <3>1. CASE mv.what = "account"
      BY <1>3, <3>1, Zenon DEF Publish
    <3>2. CASE mv.what # "account"
      BY <1>2, <1>3, <2>1, <3>2 DEF Publish
    <3> QED
      BY <3>1, <3>2, Zenon
  <2>3. DOMAIN core' = DOMAIN core
    BY <1>3, Zenon DEF Publish, Change
  <2>4. core'.account = IF mv.what = "account" THEN [core.account EXCEPT ![mv.id] = mv.to] ELSE core.account
    BY <1>2, <1>3 DEF Publish, Change
  <2>5. ASSUME RowsStay, NEW c \in Clusters \X Users, Provisioned(c) PROVE Provisioned(c)'
    BY <1>2, <2>4, <2>5 DEF Provisioned, RowsStay
  <2> QED
    BY <1>2, <2>2, <2>3, <2>4, <2>5
<1>4. ASSUME NEW c \in Clusters \X Users, GraceEnds(c) PROVE Kept
  <2>1. core' = [core EXCEPT !.account[c] = "ready"]
    BY <1>4, Zenon DEF GraceEnds
  <2> QED
    BY <1>2, <2>1 DEF Provisioned
<1>5. ASSUME UNCHANGED core PROVE Kept
  BY <1>2, <1>5, Zenon DEF Provisioned
<1>6. CASE Beside(RowStep)
  <2>1. ASSUME NEW u \in Users, NEW v, SetAccount(u, v), v = "fresh" \/ Account(u) = None PROVE Kept
    <3>1. core' = [core EXCEPT !.account[<<CustosClusterID, u>>] = v] /\ <<CustosClusterID, u>> \in Clusters \X Users
      BY <2>1, LoadsAssumption, Zenon DEF SetAccount
    <3>2. Account(u) = None => ~Provisioned(<<CustosClusterID, u>>)
      BY DEF Account, Provisioned, None
    <3> QED
      BY <1>2, <2>1, <3>1, <3>2 DEF Provisioned
  <2>2. ASSUME NEW u \in Users, DeleteComputeClusterUser(u) PROVE Kept
    <3>1. core' = [core EXCEPT !.account[<<CustosClusterID, u>>] = None] /\ <<CustosClusterID, u>> \in Clusters \X Users
      BY <2>2, LoadsAssumption, Zenon DEF DeleteComputeClusterUser, SetAccount
    <3>2. Rows(u) \in Nat
      <4>1. load.names \in [Users -> Seq(STRING)]
        BY LoadsAssumption, Zenon DEF CoreOK
      <4>2. load.names[u] \in Seq(STRING)
        BY <4>1
      <4> QED
        BY <4>2 DEF Rows
    <3>3. ~(Rows(u) <= 1)
      BY <2>2, <3>2 DEF DeleteComputeClusterUser
    <3>4. ~RowsStay
      BY <3>3, Zenon DEF RowsStay
    <3> QED
      BY <1>2, <3>1, <3>4
  <2>3. ASSUME NEW r \in Ids, MarkComputeClusterUserProvisioned(r) PROVE Kept
    <3>1. r[1] \in Users
      BY DEF Ids
    <3>2. UNCHANGED core \/ SetAccount(r[1], "fresh")
      BY <2>3, Zenon DEF MarkComputeClusterUserProvisioned
    <3> QED
      BY <1>5, <2>1, <3>1, <3>2, Zenon
  <2>4. ASSUME NEW u \in Users, CreateComputeClusterUser(u) PROVE Kept
    BY <2>1, <2>4, Zenon DEF CreateComputeClusterUser
  <2>5. ASSUME NEW u \in Users, LinkSub(u) \/ AssignIdentifiers(u) PROVE Kept
    BY <1>5, <2>5, Zenon DEF LinkSub, AssignIdentifiers
  <2>6. Kept
    BY <1>5, <1>6, <2>2, <2>3, <2>4, <2>5, Zenon DEF Beside, RowStep, Provision
  <2>7. UNCHANGED bus
    BY <1>6, Zenon DEF Beside
  <2> QED
    BY <1>1, <1>2, <2>6, <2>7, Zenon DEF CoreOK
<1>7. CASE Restart
  BY <1>1, <1>2, <1>5, <1>7, Zenon DEF Restart, CoreOK
<1>8. CASE Step
  <2>1. ASSUME Dispatch \/ Serve \/ StartReconciler PROVE UNCHANGED core /\ bus' \subseteq bus
    BY <2>1, Zenon DEF Dispatch, Serve, safeDispatch, Perform, StartReconciler, reconcile, ListComputeClusterUsersByCluster,
       existingAssociations, ListAllocationsForUser, reconcileCluster, reconcileWrites, NextUser,
       ListComputeAllocationsByCluster, RemoveStale, EndCluster, EndSweep, sweepVars
  <2>2. ASSUME NEW t \in tasks, NEW c \in t.calls, PerformFails(t, c) PROVE UNCHANGED <<core, bus>>
    BY <2>2, Zenon DEF PerformFails
  <2>3. ASSUME Elapse PROVE UNCHANGED bus
    BY <2>3, Zenon DEF Elapse, GraceEnds
  <2>4. Kept /\ \A e \in bus' : e \in bus \/ e.what \in {"alloc", "member", "override", "mapped"}
    <3>1. CASE \E mv \in Moves : Publish(mv)
      BY <1>3, <3>1, Zenon
    <3>2. CASE Dispatch \/ Serve \/ StartReconciler
      BY <1>5, <2>1, <3>2, Zenon
    <3>3. CASE \E t \in tasks : \E c \in t.calls : PerformFails(t, c)
      BY <1>5, <2>2, <3>3, Zenon
    <3>4. CASE Elapse
      BY <1>4, <2>3, <3>4, Zenon DEF Elapse
    <3>5. CASE Restart
      BY <1>5, <3>5, Zenon DEF Restart
    <3> QED
      BY <1>8, <3>1, <3>2, <3>3, <3>4, <3>5, Zenon DEF Step
  <2> QED
    BY <1>1, <1>2, <2>4, Zenon DEF CoreOK
<1> QED
  BY <1>6, <1>7, <1>8, Zenon DEF AccessNext, Watched, ConnectorStep

\* Whatever a step writes, or plans to write, is for accounts that have landed before it.
LEMMA WritesGranted ==
    ASSUME WInv, CoreOK, AllGranted, AccessNext
    PROVE  /\ \A k \in DOMAIN slurm' : Granted(k)
           /\ \A t \in tasks' : TaskOK(t)
           /\ \A r \in sweep'.writes : Granted(r.key)
<1>1. /\ \A k \in DOMAIN slurm : Granted(k)
      /\ \A t \in tasks : TaskOK(t)
      /\ \A r \in sweep.writes : Granted(r.key)
  BY Zenon DEF AllGranted
<1>2. ASSUME NEW r, Granted(r.key), UpsertAssociation(r) PROVE \A k \in DOMAIN slurm' : Granted(k)
  <2>1. DOMAIN slurm' \subseteq DOMAIN slurm \cup {r.key}
    BY <1>2 DEF UpsertAssociation
  <2> QED
    BY <1>1, <1>2, <2>1, Zenon
<1>3. ASSUME NEW ks, DeleteAssociation(ks) PROVE \A k \in DOMAIN slurm' : Granted(k)
  <2>1. DOMAIN slurm' \subseteq DOMAIN slurm
    BY <1>3 DEF DeleteAssociation, Holds
  <2> QED
    BY <1>1, <2>1, Zenon
<1>4. ASSUME NEW t \in tasks, NEW gone, Left(t, gone) PROVE \A u \in tasks' : TaskOK(u)
  <2>1. TaskOK(t)
    BY <1>1, Zenon
  <2>2. TaskOK([t EXCEPT !.calls = @ \ gone])
    <3>1. /\ [t EXCEPT !.calls = @ \ gone].calls = t.calls \ gone
          /\ DOMAIN [t EXCEPT !.calls = @ \ gone] = DOMAIN t
      BY <2>1 DEF TaskOK
    <3> QED
      BY <2>1, <3>1, Zenon DEF TaskOK
  <2>3. \A u \in tasks' : u \in tasks \/ u = [t EXCEPT !.calls = @ \ gone]
    BY <1>4, Zenon DEF Left
  <2> QED
    BY <1>1, <2>2, <2>3, Zenon
<1>5. ASSUME UNCHANGED <<tasks, slurm>>, sweep' = Idle \/ UNCHANGED sweep
      PROVE  /\ \A k \in DOMAIN slurm' : Granted(k)
             /\ \A t \in tasks' : TaskOK(t)
             /\ \A r \in sweep'.writes : Granted(r.key)
  <2>1. Idle.writes = {}
    BY DEF Idle
  <2> QED
    BY <1>1, <1>5, <2>1, Zenon
<1>6. CASE Beside(RowStep)
  BY <1>5, <1>6, Zenon DEF Beside
<1>7. CASE Restart
  <2>1. tasks' = {} /\ sweep' = Idle /\ UNCHANGED slurm /\ Idle.writes = {}
    BY <1>7 DEF Restart, Idle
  <2> QED
    BY <1>1, <2>1, Zenon
<1>8. ASSUME NEW mv \in Moves, Publish(mv) PROVE UNCHANGED <<tasks, slurm, sweep>>
  BY <1>8, Zenon DEF Publish
<1>9. CASE Dispatch
  <2>1. PICK e \in bus : safeDispatch(e)
    BY <1>9, Zenon DEF Dispatch
  <2> DEFINE t == [n |-> e.n, what |-> e.what, calls |-> RegisterSubscribers(e)]
  <2>2. UNCHANGED <<slurm, sweep>> /\ \A u \in tasks' : u \in tasks \/ u = t
    BY <2>1, Zenon DEF safeDispatch
  <2>3. "calls" \in DOMAIN t /\ t.calls = RegisterSubscribers(e)
    OBVIOUS
  <2>4. TaskOK(t)
    BY <2>3, SubscribersGranted, Zenon DEF TaskOK
  <2> HIDE DEF t
  <2> QED
    BY <1>1, <2>2, <2>4, Zenon
<1>10. ASSUME NEW t \in tasks, NEW c \in t.calls, Perform(t, c)
       PROVE  (\A k \in DOMAIN slurm' : Granted(k)) /\ (\A u \in tasks' : TaskOK(u)) /\ UNCHANGED sweep
  <2>1. CallOK(c)
    BY <1>1, Zenon DEF TaskOK
  <2>2. Left(t, {c}) /\ UNCHANGED sweep
    BY <1>10, Zenon DEF Perform
  <2>3. \A k \in DOMAIN slurm' : Granted(k)
    <3>1. CASE c.call = "account"
      <4>1. CreateAccount(c.arg)
        BY <1>10, <3>1 DEF Perform
      <4>2. DOMAIN slurm' = DOMAIN slurm \cup {AccountLevel(c.arg)}
        BY <4>1, Zenon DEF CreateAccount
      <4> QED
        BY <1>1, <4>2, LevelGranted, Zenon
    <3>2. CASE c.call = "upsert"
      <4>1. UpsertAssociation(c.arg)
        BY <1>10, <3>2 DEF Perform
      <4> QED
        BY <1>2, <2>1, <3>2, <4>1, Zenon DEF CallOK
    <3>3. CASE c.call = "delete"
      <4>1. \E ks : DeleteAssociation(ks)
        BY <1>10, <3>3 DEF Perform
      <4> QED
        BY <1>3, <4>1, Zenon
    <3> QED
      BY <2>1, <3>1, <3>2, <3>3, Zenon DEF CallOK
  <2> QED
    BY <1>4, <2>2, <2>3, Zenon
<1>11. ASSUME NEW t \in tasks, NEW c \in t.calls, PerformFails(t, c)
       PROVE  UNCHANGED <<slurm, sweep>> /\ \A u \in tasks' : TaskOK(u)
  BY <1>4, <1>11, Zenon DEF PerformFails
<1>12. CASE Elapse
  BY <1>5, <1>12, Zenon DEF Elapse, GraceEnds
<1>13. CASE StartReconciler
  <2>1. UNCHANGED tasks
    BY <1>13, Zenon DEF StartReconciler, reconcile, ListComputeClusterUsersByCluster, existingAssociations,
       ListAllocationsForUser, reconcileCluster, reconcileWrites, NextUser, ListComputeAllocationsByCluster,
       RemoveStale, EndCluster, EndSweep, sweepVars
  <2>2. Sweeping(sweep)
    BY Zenon DEF WInv
  <2>3. ASSUME reconcile \/ (\E c \in Clusters : ListComputeClusterUsersByCluster(c)) \/ EndCluster \/ EndSweep
        PROVE  sweep'.writes = {} /\ UNCHANGED slurm
    <3>1. UNCHANGED slurm
      BY <2>3, Zenon DEF reconcile, ListComputeClusterUsersByCluster, EndCluster, EndSweep
    <3>2. CASE reconcile \/ EndCluster
      BY <3>2, Zenon DEF reconcile, EndCluster, Idle
    <3>3. ASSUME NEW c \in Clusters, ListComputeClusterUsersByCluster(c) PROVE sweep'.writes = {}
      BY <3>3 DEF ListComputeClusterUsersByCluster, Idle
    <3>4. CASE EndSweep
      BY <3>4 DEF EndSweep, Idle
    <3> QED
      BY <2>3, <3>1, <3>2, <3>3, <3>4, Zenon
  <2>4. ASSUME existingAssociations \/ (\E u \in Users : ListAllocationsForUser(u)) \/ NextUser \/ ListComputeAllocationsByCluster
        PROVE  sweep'.writes = sweep.writes /\ UNCHANGED slurm
    BY <2>2, <2>4, Zenon DEF existingAssociations, ListAllocationsForUser, NextUser, ListComputeAllocationsByCluster, Sweeping
  <2>5. ASSUME NEW m \in sweep.members, reconcileCluster(m)
        PROVE  UNCHANGED slurm /\ \A r \in sweep'.writes : Granted(r.key)
    <3>1. readyForAssociation(m) /\ sweep.writes = {} /\ UNCHANGED slurm
      BY <2>5, Zenon DEF reconcileCluster
    <3>2. sweep'.writes \subseteq desiredAssociationsForMembership(m).records
      BY <2>2, <3>1 DEF readyForAssociation, Sweeping
    <3> QED
      BY <3>1, <3>2, RecordsGranted, Zenon
  <2>6. ASSUME NEW r \in sweep.writes, reconcileWrites(r)
        PROVE  sweep'.writes \subseteq sweep.writes /\ \A k \in DOMAIN slurm' : Granted(k)
    <3>1. (UpsertAssociation(r) \/ UNCHANGED slurm) /\ sweep' = [sweep EXCEPT !.writes = @ \ {r}]
      BY <2>6, Zenon DEF reconcileWrites
    <3>2. sweep'.writes \subseteq sweep.writes
      BY <2>2, <3>1 DEF Sweeping
    <3> QED
      BY <1>1, <1>2, <3>1, <3>2, Zenon
  <2>7. ASSUME NEW k \in sweep.stale, RemoveStale(k)
        PROVE  sweep'.writes = sweep.writes /\ \A j \in DOMAIN slurm' : Granted(j)
    <3>1. (DeleteAssociation({k}) \/ UNCHANGED slurm) /\ sweep' = [sweep EXCEPT !.stale = @ \ {k}]
      BY <2>7, Zenon DEF RemoveStale
    <3>2. sweep'.writes = sweep.writes
      BY <2>2, <3>1 DEF Sweeping
    <3> QED
      BY <1>1, <1>3, <3>1, <3>2, Zenon
  <2>8. (\A k \in DOMAIN slurm' : Granted(k)) /\ \A r \in sweep'.writes : Granted(r.key)
    BY <1>1, <1>13, <2>3, <2>4, <2>5, <2>6, <2>7, Zenon DEF StartReconciler
  <2> QED
    BY <1>1, <2>1, <2>8, Zenon
<1>14. CASE Step
  BY <1>1, <1>5, <1>7, <1>8, <1>9, <1>10, <1>11, <1>12, <1>13, <1>14, Zenon DEF Step, Serve
<1> QED
  BY <1>6, <1>7, <1>14, Zenon DEF AccessNext, Watched, ConnectorStep

LEMMA InitNInv == AccessInit => NInv
<1> SUFFICES ASSUME AccessInit PROVE NInv
  OBVIOUS
<1>1. load \in Loads /\ core = load.core /\ bus = {} /\ tasks = {} /\ slurm = load.slurm /\ sweep.writes = {}
  BY DEF AccessInit, Init, Core0, Slurm0, Idle
<1>2. CoreOK
  BY <1>1, LoadsAssumption, Zenon DEF CoreOK
<1>3. ASSUME NEW k \in DOMAIN slurm PROVE Granted(k)
  BY <1>1, <1>3, LoadsAssumption, Zenon DEF Granted, Provisioned
<1> QED
  BY <1>1, <1>2, <1>3, InitWInv, Zenon DEF NInv, AllGranted

LEMMA NInvStep == NInv /\ [AccessNext]_avars => NInv'
<1> SUFFICES ASSUME NInv, [AccessNext]_avars PROVE NInv'
  OBVIOUS
<1>1. WInv' /\ WInv /\ CoreOK
  BY WInvStep, Zenon DEF NInv
<1>2. CASE AccessNext
  <2>1. RowsStay' <=> RowsStay
    BY <1>2, Zenon DEF AccessNext, Watched, RowsStay, Moves, Rows
  <2>2. ASSUME RowsStay, NEW k, Granted(k) PROVE Granted(k)'
    <3>1. \A c \in Clusters \X Users : Provisioned(c) => Provisioned(c)'
      BY <1>1, <1>2, <2>2, AccountsStay, Zenon
    <3>2. k[3] \in Users /\ k[1] \in Clusters => <<k[1], k[3]>> \in Clusters \X Users
      OBVIOUS
    <3> QED
      BY <2>2, <3>1, <3>2, Zenon DEF Granted
  <2>3. ASSUME RowsStay PROVE AllGranted'
    <3>1. AllGranted
      BY <2>3, Zenon DEF NInv
    <3>2. /\ \A k \in DOMAIN slurm' : Granted(k)
          /\ \A t \in tasks' : TaskOK(t)
          /\ \A r \in sweep'.writes : Granted(r.key)
      BY <1>1, <1>2, <3>1, WritesGranted, Zenon
    <3>3. ASSUME NEW c, CallOK(c) PROVE CallOK(c)'
      BY <2>2, <2>3, <3>3, Zenon DEF CallOK
    <3>4. ASSUME NEW t, TaskOK(t) PROVE TaskOK(t)'
      BY <3>3, <3>4, Zenon DEF TaskOK
    <3> QED
      BY <2>2, <2>3, <3>2, <3>4, Zenon DEF AllGranted
  <2> QED
    BY <1>1, <1>2, <2>1, <2>3, AccountsStay, Zenon DEF NInv
<1>3. CASE UNCHANGED avars
  <2>1. UNCHANGED <<load, core, bus, tasks, slurm, sweep>>
    BY <1>3, Zenon DEF avars, vars
  <2>2. CoreOK' /\ (RowsStay' <=> RowsStay)
    BY <1>1, <2>1, Zenon DEF CoreOK, RowsStay, Moves, Rows
  <2>3. AllGranted => AllGranted'
    BY <2>1, Zenon DEF AllGranted, TaskOK, CallOK, Granted, Provisioned
  <2> QED
    BY <1>1, <2>2, <2>3, Zenon DEF NInv
<1> QED
  BY <1>2, <1>3, Zenon

\* Nobody gets access to a cluster before the account is there, from the subscribers or
\* from the sweep, however events, calls, failures and restarts come between each other
\* (errNotProvisioned): as long as no account is taken back.
THEOREM AccessNeedsAnAccount == AccessSpec => []NoAccessBeforeAccount
<1>1. NInv => NoAccessBeforeAccount
  BY Zenon DEF NInv, AllGranted, Granted, NoAccessBeforeAccount
<1> QED
  BY <1>1, InitNInv, NInvStep, PTL DEF AccessSpec
=============================================================================
