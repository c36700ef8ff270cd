------------------------------- MODULE Analytics -------------------------------
(***************************************************************************)
(* The analytics connector: membership-scoped views over the usage rows    *)
(* the monitor writes.  A usage summary is put together from one query     *)
(* after the other, while the monitor replaces rows and memberships        *)
(* change.                                                                 *)
(***************************************************************************)
EXTENDS UsageMonitor, SequencesExt

CONSTANTS
    Users, Projects, ProjectOf,     \* allocation -> its project
    StartDay,                       \* allocation -> day it starts
    DayLength,
    maxDailyBuckets, defaultJobsLimit, maxJobsLimit,
    Roles,                          \* project roles handed out
    Statuses                        \* membership statuses

VARIABLES
    role,           \* project_memberships: project, user -> role, "" without a row
    member,         \* compute_allocation_memberships: allocation, user -> status
    req,            \* the usage summary being put together
    changes

vars == <<monitorVars, role, member, req, changes>>

Allocs == DOMAIN ProjectOf
Managing == {"PI", "CO_PI", "ALLOCATION_MANAGER"}
NoRequest == [pc |-> "none"]
Day(t) == t \div DayLength
Sum(rows, field) == MapThenSumSet(LAMBDA i : usages[i][field], rows)

-----------------------------------------------------------------------------
(* The store: one query each. *)

UsagesOf(a) == {i \in DOMAIN usages : usages[i].alloc = a}

IsActiveMember(a, u) == member[a, u] = "ACTIVE"
ProjectRole(p, u) == role[p, u]

ProjectsForUser(u) ==
    {p \in Projects : role[p, u] # "" \/ \E a \in Allocs : ProjectOf[a] = p /\ member[a, u] = "ACTIVE"}
AllocationsForProjects(ps, u) ==
    {a \in Allocs : /\ ProjectOf[a] \in ps
                    /\ role[ProjectOf[a], u] \in Managing \/ member[a, u] = "ACTIVE"}

TotalUsed(a) == Sum(UsagesOf(a), "su")
DailyUsage(a) ==
    LET days == {Day(usages[i].time) : i \in UsagesOf(a)}
    IN [d \in days |-> Sum({i \in UsagesOf(a) : Day(usages[i].time) = d}, "su")]
ResourceUsage(a, caller) ==
    [r \in {usages[i].resource : i \in UsagesOf(a)} \cap Resources |->
        LET rows == {i \in UsagesOf(a) : usages[i].resource = r}
        IN [used |-> Sum(rows, "su"), native |-> Sum(rows, "raw"),
            byCaller |-> Sum({i \in rows : usages[i].user = caller}, "su")]]
MemberUsage(a) ==
    [u \in {usages[i].user : i \in UsagesOf(a)} \cap Users |->
        Sum({i \in UsagesOf(a) : usages[i].user = u}, "su")]

\* Newest first; rows of the same time by their id.
JobsOf(a, mine, caller) ==
    SetToSortSeq({i \in UsagesOf(a) : mine => usages[i].user = caller},
                 LAMBDA i, k : \/ usages[i].time > usages[k].time
                               \/ (usages[i].time = usages[k].time /\ i < k))
Page(s, limit, offset) == SubSeq(s, offset + 1, IF offset + limit < Len(s) THEN offset + limit ELSE Len(s))

-----------------------------------------------------------------------------
(* The service. *)

\* The series runs from the first day of the allocation to today, and is cut
\* when it would be longer than the cap.
FirstBucket(start, today) ==
    LET first == IF start > today THEN today ELSE start
    IN IF today - first > maxDailyBuckets THEN today - (maxDailyBuckets - 1) ELSE first

\* Mutant of the next one: the series ends yesterday.
BucketsBeforeToday(start, today, rows) ==
    [d \in FirstBucket(start, today)..(today - 1) |-> IF d \in DOMAIN rows THEN rows[d] ELSE 0]

buildDailyBuckets(start, today, rows) ==
    [d \in FirstBucket(start, today)..today |-> IF d \in DOMAIN rows THEN rows[d] ELSE 0]

AllocationJobsPage(a, caller, mine, limit, offset) ==
    LET size == IF limit <= 0 THEN defaultJobsLimit ELSE IF limit > maxJobsLimit THEN maxJobsLimit ELSE limit
        all  == JobsOf(a, mine, caller)
    IN [jobs |-> Page(all, size, IF offset < 0 THEN 0 ELSE offset), total |-> Len(all)]

AnalyticsContexts(u) ==
    {[project |-> p, role |-> IF role[p, u] # "" THEN role[p, u] ELSE "MEMBER",
      allocations |-> {a \in AllocationsForProjects(ProjectsForUser(u), u) : ProjectOf[a] = p}] :
        p \in ProjectsForUser(u)}

-----------------------------------------------------------------------------
(* The handlers.  Of the summary every query is a step of its own. *)

\* Mutant of the next one: members are treated as managers.
AccessForAll(a, u) ==
    [canManage |-> TRUE, hasAccess |-> ProjectRole(ProjectOf[a], u) \in Managing \/ IsActiveMember(a, u)]

allocationAccess(a, u) ==
    IF ProjectRole(ProjectOf[a], u) \in Managing THEN [canManage |-> TRUE, hasAccess |-> TRUE]
    ELSE [canManage |-> FALSE, hasAccess |-> IsActiveMember(a, u)]

getCallerAnalyticsContexts(u) == AnalyticsContexts(u)

\* None stands for the 404 that a caller without access gets.
None == [jobs |-> <<>>, total |-> 0]
getAllocationJobs(a, u, mine, limit, offset) ==
    LET access == allocationAccess(a, u)
    IN IF ~access.hasAccess THEN None
       ELSE AllocationJobsPage(a, u, ~access.canManage \/ mine, limit, offset)

getAllocationUsageSummary(u, a) ==
    /\ req = NoRequest
    /\ allocationAccess(a, u).hasAccess
    /\ req' = [pc |-> "total", user |-> u, alloc |-> a, members |-> allocationAccess(a, u).canManage, quiet |-> TRUE]
    /\ UNCHANGED <<monitorVars, role, member, changes>>

Answer(pc, next, field, value) ==
    /\ req.pc = pc
    /\ req' = [req EXCEPT !.pc = next] @@ (field :> value)
    /\ UNCHANGED <<monitorVars, role, member, changes>>

AllocationUsageSummary ==
    \/ Answer("total", "daily", "used", TotalUsed(req.alloc))
    \/ Answer("daily", "resources", "daily",
              buildDailyBuckets(StartDay[req.alloc], Day(now), DailyUsage(req.alloc)))
    \/ Answer("resources", IF req.members THEN "members" ELSE "done", "byResource", ResourceUsage(req.alloc, req.user))
    \/ Answer("members", "done", "byMember", MemberUsage(req.alloc))

WriteJSON == req.pc = "done" /\ req' = NoRequest /\ UNCHANGED <<monitorVars, role, member, changes>>

-----------------------------------------------------------------------------
(* The rest of the system. *)

\* Roles and memberships change through the core.
Change ==
    /\ changes < load.maxChanges /\ changes' = changes + 1
    /\ \/ \E p \in Projects, u \in Users, r \in Roles : role' = [role EXCEPT ![<<p, u>>] = r] /\ UNCHANGED member
       \/ \E a \in Allocs, u \in Users, s \in Statuses : member' = [member EXCEPT ![<<a, u>>] = s] /\ UNCHANGED role
    /\ UNCHANGED <<monitorVars, req>>

\* A summary is quiet when no row and no day changed while it was made.
Monitor ==
    /\ Next
    /\ req' = IF req # NoRequest /\ (usages' # usages \/ Day(now') # Day(now)) THEN [req EXCEPT !.quiet = FALSE] ELSE req
    /\ UNCHANGED <<role, member, changes>>

AnalyticsInit ==
    /\ Init /\ req = NoRequest /\ changes = 0
    /\ role = [x \in Projects \X Users |-> ""]
    /\ member = [x \in Allocs \X Users |-> ""]

AnalyticsNext ==
    \/ Monitor
    \/ Change
    \/ \E u \in load.askers, a \in Allocs : getAllocationUsageSummary(u, a)
    \/ req # NoRequest /\ (AllocationUsageSummary \/ WriteJSON)

AnalyticsSpec == AnalyticsInit /\ [][AnalyticsNext]_vars

-----------------------------------------------------------------------------
(* Properties *)

\* The allocations a caller is offered are those whose usage the caller may
\* read (AllocationsForProjects, store.go, against allocationAccess, handlers.go).
Offered ==
    \A u \in Users :
        UNION {c.allocations : c \in getCallerAnalyticsContexts(u)} = {a \in Allocs : allocationAccess(a, u).hasAccess}

\* A caller is offered exactly the allocations whose usage that caller may read.
\* There, a caller who does not manage the project sees no row of anybody else,
\* and a manager misses none; read page by page the rows come once each, newest
\* first (getCallerAnalyticsContexts and getAllocationJobs, handlers.go).
PagesScoped ==
    /\ Offered
    /\ \A a \in Allocs, u \in Users, mine \in BOOLEAN :
           LET page(k)  == getAllocationJobs(a, u, mine, 1, k)
               all      == getAllocationJobs(a, u, mine, 0, 0)
               manages  == role[ProjectOf[a], u] \in Managing
               visible  == {i \in UsagesOf(a) : /\ manages \/ IsActiveMember(a, u)
                                                /\ (manages /\ ~mine) \/ usages[i].user = u}
           IN /\ all.total = Cardinality(visible)
              /\ UNION {ToSet(page(k).jobs) : k \in 0..Cardinality(visible)} = visible
              /\ \A k \in 1..(Len(all.jobs) - 1) : usages[all.jobs[k]].time >= usages[all.jobs[k + 1]].time

\* A finished summary adds up: the total is the sum over the resources, the
\* days and the members (AllocationUsageSummary, service.go).
Reconciles ==
    /\ req.used = MapThenSumSet(LAMBDA r : req.byResource[r].used, DOMAIN req.byResource)
    /\ req.used = MapThenSumSet(LAMBDA d : req.daily[d], DOMAIN req.daily)
    /\ req.members => req.used = MapThenSumSet(LAMBDA u : req.byMember[u], DOMAIN req.byMember)

\* A summary made while the rows rest adds up, and what the caller used of
\* each resource is part of it (the queries of store.go).
QuietReconciles ==
    (req.pc = "done" /\ req.quiet) =>
        /\ Reconciles
        /\ \A r \in DOMAIN req.byResource : req.byResource[r].byCaller <= req.byResource[r].used
================================================================================
