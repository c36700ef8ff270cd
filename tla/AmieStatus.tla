------------------------------ MODULE AmieStatus ------------------------------
(***************************************************************************)
(* The AMIE packets that take a project, or one person's memberships in    *)
(* it, out of service and back, call by call.  Every core call commits by  *)
(* itself; the audit rows belong to the packet's transaction and go when a *)
(* later call fails and the packet is tried again.                         *)
(***************************************************************************)
EXTENDS Naturals, FiniteSets

CONSTANTS
    Loads,          \* the workloads of an instance
    Allocs, Users, PI,
    MaxAttempts

VARIABLES
    load,                       \* the workload: body, members, joins and failures
    project, alloc, member,     \* statuses of the core rows
    diffs,                      \* compute_allocation_diffs written per allocation
    event, attempts,            \* amie_processing_events per packet
    audit,                      \* committed audit rows: <<packet, membership>>
    cur, pc,                    \* the packet being handled (0: none), and where it is
    allocsLeft, at, usersLeft,  \* the lists the handler iterates
    log,                        \* audit rows of the open transaction
    touched,                    \* memberships each packet has written, in any attempt
    failures

core == <<project, alloc, member, diffs>>
lists == <<allocsLeft, at, usersLeft>>
vars == <<load, core, event, attempts, audit, cur, pc, lists, log, touched, failures>>

Body == load.body           \* by arrival number: kind, person, and whether ProjectID is a project
Packets == DOMAIN Body
Members0 == load.members
Joins == load.joins         \* memberships an HTTP caller may create
MaxFailures == load.failures

NoRow == "none"
Pairs == Allocs \X Users

\* The status each Handle sets, and whether it sets it on the project and its
\* allocations as well as on memberships.
request_project_inactivate == [status |-> "INACTIVE", whole |-> TRUE]
request_project_reactivate == [status |-> "ACTIVE", whole |-> TRUE]
request_account_inactivate == [status |-> "INACTIVE", whole |-> FALSE]
request_account_reactivate == [status |-> "ACTIVE", whole |-> FALSE]
Handle(p) ==
    CASE Body[p].kind = "project_inactivate" -> request_project_inactivate
      [] Body[p].kind = "project_reactivate" -> request_project_reactivate
      [] Body[p].kind = "account_inactivate" -> request_account_inactivate
      [] Body[p].kind = "account_reactivate" -> request_account_reactivate
Target(p) == Handle(p).status

Init ==
    /\ load \in Loads
    /\ project = "ACTIVE"
    /\ alloc = [a \in Allocs |-> "ACTIVE"]
    /\ member = [m \in Pairs |-> IF m \in Members0 THEN "ACTIVE" ELSE NoRow]
    /\ diffs = [a \in Allocs |-> 0]
    /\ event = [p \in Packets |-> "NEW"]
    /\ attempts = [p \in Packets |-> 0]
    /\ audit = {}
    /\ cur = 0 /\ pc = "idle"
    /\ allocsLeft = {} /\ at = NoRow /\ usersLeft = {}
    /\ log = {}
    /\ touched = [p \in Packets |-> {}]
    /\ failures = 0

\* A packet not tried yet waits for the older ones; a retry comes due at its own time.
Begin(p) ==
    /\ pc = "idle"
    /\ event[p] \in {"NEW", "RETRY_SCHEDULED"}
    /\ event[p] = "NEW" => \A q \in Packets : q < p => event[q] # "NEW"
    /\ cur' = p
    /\ pc' = IF Body[p].known THEN "project" ELSE "reply"
    /\ log' = {}
    /\ UNCHANGED <<core, event, attempts, audit, lists, touched, failures>>

\* request_project_inactivate and request_project_reactivate flip the project first.
UpdateProjectStatus ==
    /\ pc = "project"
    /\ project' = IF Handle(cur).whole THEN Target(cur) ELSE project
    /\ pc' = "list"
    /\ UNCHANGED <<alloc, member, diffs, event, attempts, audit, cur, lists, log, touched, failures>>

\* Mutant of the next one: only allocations that still have to change are listed.
ListActive ==
    /\ pc = "list"
    /\ allocsLeft' = {a \in Allocs : alloc[a] # Target(cur)}
    /\ pc' = "next"
    /\ UNCHANGED <<core, event, attempts, audit, cur, at, usersLeft, log, touched, failures>>

ListComputeAllocationsByProject ==
    /\ pc = "list"
    /\ allocsLeft' = Allocs
    /\ pc' = "next"
    /\ UNCHANGED <<core, event, attempts, audit, cur, at, usersLeft, log, touched, failures>>

\* deactivateAllocations and reactivateAllocationsAndPI update each allocation
\* they listed; flipUserMemberships goes straight to its members.
FlipAllocation(a) ==
    /\ pc = "next"
    /\ a \in allocsLeft
    /\ at' = a
    /\ allocsLeft' = allocsLeft \ {a}
    /\ IF Handle(cur).whole
          THEN alloc' = [alloc EXCEPT ![a] = Target(cur)] /\ pc' = "diff"
          ELSE UNCHANGED alloc /\ pc' = "members"
    /\ UNCHANGED <<project, member, diffs, event, attempts, audit, cur, usersLeft, log, touched, failures>>

CreateComputeAllocationDiff ==
    /\ pc = "diff"
    /\ diffs' = [diffs EXCEPT ![at] = @ + 1]
    /\ pc' = "members"
    /\ UNCHANGED <<project, alloc, member, event, attempts, audit, cur, lists, log, touched, failures>>

\* Whose memberships each handler flips.
deactivateAllocations == Users
reactivateAllocationsAndPI == {PI}
flipUserMemberships(person) == {person}

Chosen(p) ==
    CASE Body[p].kind = "project_inactivate" -> deactivateAllocations
      [] Body[p].kind = "project_reactivate" -> reactivateAllocationsAndPI
      [] OTHER -> flipUserMemberships(Body[p].person)

ListMembersForAllocation ==
    /\ pc = "members"
    /\ usersLeft' = {u \in Chosen(cur) : member[at, u] # NoRow}
    /\ pc' = "member"
    /\ UNCHANGED <<core, event, attempts, audit, cur, allocsLeft, at, log, touched, failures>>

\* UpdateMembershipStatus, and the audit row in the packet's transaction.
FlipMembership(u) ==
    /\ pc = "member"
    /\ u \in usersLeft
    /\ usersLeft' = usersLeft \ {u}
    /\ member' = [member EXCEPT ![<<at, u>>] = Target(cur)]
    /\ log' = log \cup {<<at, u>>}
    /\ touched' = [touched EXCEPT ![cur] = @ \cup {<<at, u>>}]
    /\ UNCHANGED <<project, alloc, diffs, event, attempts, audit, cur, pc, allocsLeft, at, failures>>

NextAllocation ==
    /\ pc = "member" /\ usersLeft = {}
    /\ at' = NoRow
    /\ pc' = "next"
    /\ UNCHANGED <<core, event, attempts, audit, cur, allocsLeft, usersLeft, log, touched, failures>>

\* The reply, its audit row, and the commit of the packet's transaction.
Reply ==
    /\ pc \in {"next", "reply"} /\ allocsLeft = {}
    /\ event' = [event EXCEPT ![cur] = "SUCCEEDED"]
    /\ attempts' = [attempts EXCEPT ![cur] = @ + 1]
    /\ audit' = audit \cup ({cur} \X log)
    /\ cur' = 0 /\ pc' = "idle" /\ log' = {}
    /\ UNCHANGED <<core, lists, touched, failures>>

\* A call returns an error: the audit rows roll back, what the core committed stays.
Fail ==
    /\ pc # "idle"
    /\ failures < MaxFailures
    /\ failures' = failures + 1
    /\ attempts' = [attempts EXCEPT ![cur] = @ + 1]
    /\ event' = [event EXCEPT ![cur] =
                    IF attempts[cur] + 1 < MaxAttempts THEN "RETRY_SCHEDULED" ELSE "PERMANENTLY_FAILED"]
    /\ cur' = 0 /\ pc' = "idle" /\ log' = {}
    /\ allocsLeft' = {} /\ at' = NoRow /\ usersLeft' = {}
    /\ UNCHANGED <<core, audit, touched>>

\* A membership is created over HTTP; CreateComputeAllocationMembership does not
\* look at the status of the project or of the allocation.
Join(m) ==
    /\ m \in Joins
    /\ member[m] = NoRow
    /\ member' = [member EXCEPT ![m] = "ACTIVE"]
    /\ UNCHANGED <<project, alloc, diffs, event, attempts, audit, cur, pc, lists, log, touched, failures>>

Next ==
    /\ \/ \E p \in Packets : Begin(p)
       \/ UpdateProjectStatus
       \/ ListComputeAllocationsByProject
       \/ \E a \in Allocs : FlipAllocation(a)
       \/ CreateComputeAllocationDiff
       \/ ListMembersForAllocation
       \/ \E u \in Users : FlipMembership(u)
       \/ NextAllocation
       \/ Reply
       \/ Fail
       \/ \E m \in Pairs : Join(m)
    /\ UNCHANGED load

-----------------------------------------------------------------------------
(* Properties. *)

\* What a request asks of the rows under its project.
Applied(p) ==
    /\ Handle(p).whole =>
          project = Target(p) /\ \A a \in Allocs : alloc[a] = Target(p)
    /\ \A a \in Allocs, u \in Chosen(p) : member[a, u] \in {NoRow, Target(p)}

\* A packet is only answered and committed once everything it asks for is in
\* place, however many attempts failed half way (Handle and its retries), as long
\* as nobody joins over HTTP while the handler iterates the members it listed; and
\* with an audit row for every membership that any of its attempts has written.
CommitFindsApplied ==
    [][\A p \in Packets : event'[p] = "SUCCEEDED" /\ event[p] # "SUCCEEDED" =>
          /\ Joins = {} /\ Body[p].known => Applied(p)
          /\ {p} \X touched[p] \subseteq audit']_vars

=============================================================================
