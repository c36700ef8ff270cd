--------------------------- MODULE AmieProvisioning ---------------------------
(***************************************************************************)
(* The two AMIE handlers that create things, request_project_create and    *)
(* request_account_create, over the core tables they write.  Every core    *)
(* call commits by itself, so an attempt that fails leaves what its calls  *)
(* did, and the next attempt (of at most MaxAttempts, see AmiePipeline)    *)
(* starts again from the first call.                                       *)
(*                                                                         *)
(* A user is named by its e-mail address (unique in users), a project and  *)
(* its allocation by the grant number.                                     *)
(***************************************************************************)
EXTENDS Integers, FiniteSets, FiniteSetsExt

CONSTANTS
    Loads,                  \* the workloads of an instance: body, and the number of suffixes
    Persons, EmailOf,       \* AMIE global ids and the address each comes with
    Grants,
    BaseOf,                 \* posix.BuildBase of a user: the login it asks for
    MaxAttempts,
    MaxCrashes,             \* bound: attempts that leave no trace in the event row
    None

Emails == {EmailOf[g] : g \in Persons}
Roles == {"PI", "CO_PI", "ALLOCATION_MANAGER"}
Kinds == {"project", "account"}

ASSUME BodyAssumption ==
    /\ \A l \in Loads :
          /\ IsFiniteSet(DOMAIN l.body)
          /\ l.body \in [DOMAIN l.body -> [kind : Kinds, person : Persons, grant : Grants,
                                           su : Nat, role : Roles \cup {"MEMBER"}]]
          /\ l.suffixes \in Nat \ {0}
          /\ None \notin DOMAIN l.body
    /\ None \notin Emails \cup Roles /\ None \notin Nat
    /\ MaxAttempts \in Nat \ {0}
    /\ MaxCrashes \in Nat

VARIABLES
    load,       \* the workload of this behaviour
    status,     \* of each packet's processing event
    attempts,
    transient,  \* attempts that ended in a failure the handler did not cause
    acked,      \* packets AMIE holds a reply for
    crashes,
    cur, at,    \* the running handler's packet and the call it makes next
    users,      \* users, by e-mail address
    identity,   \* user_identities of source "amie": person -> user
    login,      \* compute_cluster_users: suffix of the user's login, 0 for no row
    piOf,       \* projects.project_pi_id, None for no project
    initial,    \* compute_allocations.initial_su_amount, None for no allocation
    diffs,      \* sum of new_su_amount over the allocation's diffs
    mapped,     \* grants whose allocation has its resources attached
    members,    \* compute_allocation_memberships
    role        \* project_memberships, None for no row

coreVars == <<users, identity, login, piOf, initial, diffs, mapped, members, role>>
loopVars == <<status, attempts, transient, acked, crashes, cur, at>>
vars == <<load, loopVars, coreVars>>

Body == load.body                       \* Body[p]: kind, person, grant, su and role
Packets == DOMAIN Body
MaxCollisionSuffix == load.suffixes     \* logins tried for one base

Init ==
    /\ load \in Loads
    /\ status = [p \in Packets |-> "unknown"]
    /\ attempts = [p \in Packets |-> 0]
    /\ transient = [p \in Packets |-> 0]
    /\ acked = {}
    /\ crashes = 0
    /\ cur = None
    /\ at = "idle"
    /\ users = {}
    /\ identity = [g \in Persons |-> None]
    /\ login = [u \in Emails |-> 0]
    /\ piOf = [g \in Grants |-> None]
    /\ initial = [g \in Grants |-> None]
    /\ diffs = [g \in Grants |-> 0]
    /\ mapped = {}
    /\ members = {}
    /\ role = [m \in Grants \X Emails |-> None]

-----------------------------------------------------------------------------
(* The attempt loop. *)

B == Body[cur]

ProjectPackets(g) == {p \in Packets : Body[p].kind = "project" /\ Body[p].grant = g}

\* AMIE learns the ProjectID of a grant from the reply to a project packet.  An
\* account packet may also name a ProjectID that was never created here.
Issue(p) ==
    /\ status[p] = "unknown"
    /\ LET creators == ProjectPackets(Body[p].grant)
       IN Body[p].kind = "account" => creators = {} \/ creators \cap acked # {}
    /\ status' = [status EXCEPT ![p] = "pending"]
    /\ UNCHANGED <<attempts, transient, acked, crashes, cur, at, coreVars>>

Start(p) ==
    /\ cur = None
    /\ status[p] = "pending"
    /\ cur' = p
    /\ at' = "user"
    /\ UNCHANGED <<status, attempts, transient, acked, crashes, coreVars>>

\* The attempt ends in an error: retried below MaxAttempts, else given up.
EndInError ==
    /\ attempts' = [attempts EXCEPT ![cur] = @ + 1]
    /\ status' = [status EXCEPT ![cur] =
                    IF attempts'[cur] < MaxAttempts THEN "pending" ELSE "failed"]
    /\ cur' = None
    /\ at' = "idle"
    /\ UNCHANGED <<acked, crashes, coreVars>>

\* A database or network error between two calls of the handler.
TransientFailure ==
    /\ cur # None
    /\ EndInError
    /\ transient' = [transient EXCEPT ![cur] = @ + 1]

\* The server restarts, or the failure cannot be recorded: the attempt ends and
\* the event row still says it never began.
Crash ==
    /\ cur # None
    /\ crashes < MaxCrashes
    /\ crashes' = crashes + 1
    /\ cur' = None
    /\ at' = "idle"
    /\ UNCHANGED <<status, attempts, transient, acked, coreVars>>

\* The handler goes on to the call named next, or the call returned an error.
GoTo(next) ==
    /\ at' = next
    /\ UNCHANGED <<status, attempts, transient, acked, crashes, cur>>

CallFails == EndInError /\ UNCHANGED transient

-----------------------------------------------------------------------------
(* The calls. *)

AfterUser == IF B.kind = "project" THEN "login" ELSE "lookup"

\* ensureUser / ensurePIUser: found by identity, else created by e-mail address.
EnsureUser ==
    /\ at = "user"
    /\ \/ /\ identity[B.person] # None
          /\ GoTo(AfterUser)
          /\ UNCHANGED coreVars
       \/ /\ identity[B.person] = None
          /\ EmailOf[B.person] \notin users
          /\ users' = users \cup {EmailOf[B.person]}
          /\ GoTo("identity")
          /\ UNCHANGED <<identity, login, piOf, initial, diffs, mapped, members, role>>
       \/ /\ identity[B.person] = None
          /\ EmailOf[B.person] \in users
          /\ CallFails

CreateUserIdentity ==
    /\ at = "identity"
    /\ identity' = [identity EXCEPT ![B.person] = EmailOf[B.person]]
    /\ GoTo(AfterUser)
    /\ UNCHANGED <<users, login, piOf, initial, diffs, mapped, members, role>>

User == identity[B.person]

\* GetProject and ListComputeAllocationsByProject of the account handler.
LookupProject ==
    /\ at = "lookup"
    /\ IF piOf[B.grant] # None /\ initial[B.grant] # None
          THEN GoTo("login") /\ UNCHANGED coreVars
          ELSE CallFails

\* Suffixes of u's base that no other user of the cluster has.
FreeSuffixes(u) ==
    {n \in 1..MaxCollisionSuffix :
        \A v \in Emails \ {u} : BaseOf[v] = BaseOf[u] => login[v] # n}

\* Mutant of AfterLogin: the account handler goes straight to the project role.
AfterLoginNoMembership == IF B.kind = "project" THEN "project" ELSE "role"

AfterLogin == IF B.kind = "project" THEN "project" ELSE "membership"

\* ensureComputeClusterUser and the allocator it falls back to.
EnsureClusterUser ==
    /\ at = "login"
    /\ \/ /\ login[User] # 0
          /\ GoTo(AfterLogin)
          /\ UNCHANGED coreVars
       \/ /\ login[User] = 0
          /\ FreeSuffixes(User) # {}
          /\ login' = [login EXCEPT ![User] = Min(FreeSuffixes(User))]
          /\ GoTo(AfterLogin)
          /\ UNCHANGED <<users, identity, piOf, initial, diffs, mapped, members, role>>
       \/ /\ login[User] = 0
          /\ FreeSuffixes(User) = {}
          /\ CallFails

\* Mutant of EnsureProject: the project is created without looking for it.
EnsureProjectNoLookup ==
    /\ at = "project"
    /\ IF piOf[B.grant] # None
          THEN CallFails
          ELSE /\ piOf' = [piOf EXCEPT ![B.grant] = User]
               /\ GoTo("allocation")
               /\ UNCHANGED <<users, identity, login, initial, diffs, mapped,
                              members, role>>

EnsureProject ==
    /\ at = "project"
    /\ piOf' = [piOf EXCEPT ![B.grant] = IF @ = None THEN User ELSE @]
    /\ GoTo("allocation")
    /\ UNCHANGED <<users, identity, login, initial, diffs, mapped, members, role>>

\* Mutant of EnsureAllocation: an existing allocation is returned as it is.
EnsureAllocationNoDiff ==
    /\ at = "allocation"
    /\ initial' = [initial EXCEPT ![B.grant] = IF @ = None THEN B.su ELSE @]
    /\ GoTo("mappings")
    /\ UNCHANGED <<users, identity, login, piOf, diffs, mapped, members, role>>

RecordAllocationDiff == diffs' = [diffs EXCEPT ![B.grant] = @ + B.su]

\* A first delivery creates the allocation; when there is one, the packet is
\* taken for a supplement and recorded as a diff.
EnsureAllocation ==
    /\ at = "allocation"
    /\ IF initial[B.grant] = None
          THEN /\ initial' = [initial EXCEPT ![B.grant] = B.su]
               /\ UNCHANGED diffs
          ELSE /\ RecordAllocationDiff
               /\ UNCHANGED initial
    /\ GoTo("mappings")
    /\ UNCHANGED <<users, identity, login, piOf, mapped, members, role>>

EnsureResourceMappings ==
    /\ at = "mappings"
    /\ mapped' = mapped \cup {B.grant}
    /\ GoTo("membership")
    /\ UNCHANGED <<users, identity, login, piOf, initial, diffs, members, role>>

\* ensureMembership / ensurePIMembership.
EnsureMembership ==
    /\ at = "membership"
    /\ members' = members \cup {<<B.grant, User>>}
    /\ GoTo("role")
    /\ UNCHANGED <<users, identity, login, piOf, initial, diffs, mapped, role>>

AskedRole == IF B.kind = "project" THEN "PI" ELSE B.role
HasPI(g, u) == role[<<g, u>>] = "PI"

\* EnsureProjectMembership refuses a second PI and a demotion of the PI; MEMBER
\* deletes the row.
EnsureProjectMembership ==
    /\ at = "role"
    /\ \/ /\ \/ AskedRole = "PI" /\ \E v \in Emails \ {User} : HasPI(B.grant, v)
             \/ AskedRole # "PI" /\ HasPI(B.grant, User)
          /\ CallFails
       \/ /\ AskedRole = "PI" => \A v \in Emails \ {User} : ~HasPI(B.grant, v)
          /\ AskedRole # "PI" => ~HasPI(B.grant, User)
          /\ role' = [role EXCEPT ![<<B.grant, User>>] =
                         IF AskedRole = "MEMBER" THEN None ELSE AskedRole]
          /\ GoTo("reply")
          /\ UNCHANGED <<users, identity, login, piOf, initial, diffs, mapped, members>>

\* ReplyToPacket takes effect at AMIE; its answer may still be lost.
Reply ==
    /\ at = "reply"
    /\ acked' = acked \cup {cur}
    /\ at' = "commit"
    /\ UNCHANGED <<status, attempts, transient, crashes, cur, coreVars>>

Commit ==
    /\ at = "commit"
    /\ status' = [status EXCEPT ![cur] = "succeeded"]
    /\ attempts' = [attempts EXCEPT ![cur] = @ + 1]
    /\ cur' = None
    /\ at' = "idle"
    /\ UNCHANGED <<transient, acked, crashes, coreVars>>

\* Someone else creates a user: POST /users, or a temporary account.
CreateUser(u) ==
    /\ u \notin users
    /\ users' = users \cup {u}
    /\ UNCHANGED <<loopVars, identity, login, piOf, initial, diffs, mapped, members, role>>

Next ==
    /\ \/ \E p \in Packets : Issue(p) \/ Start(p)
       \/ TransientFailure \/ Crash
       \/ EnsureUser \/ CreateUserIdentity \/ LookupProject \/ EnsureClusterUser
       \/ EnsureProject \/ EnsureAllocation \/ EnsureResourceMappings
       \/ EnsureMembership \/ EnsureProjectMembership
       \/ Reply \/ Commit
       \/ \E u \in Emails : CreateUser(u)
    /\ UNCHANGED load

Spec == Init /\ [][Next]_vars

-----------------------------------------------------------------------------
(* Properties. *)

\* The service units that packets grant, told apart by packet and number.
Units(P) == UNION {{p} \X (1 .. Body[p].su) : p \in P}
SUs(P) == Cardinality(Units(P))
Effective(g) == IF initial[g] = None THEN 0 ELSE initial[g] + diffs[g]

\* No grant is lost: the allocation's effective SUs (initial amount plus diffs)
\* cover every project packet AMIE holds a reply for, whichever attempt of
\* whichever delivery created the allocation.
GrantsCovered ==
    \A g \in Grants : SUs(ProjectPackets(g) \cap acked) <= Effective(g)

\* handler/request_project_create.go:211-215 and 309-310: the effective SUs of an
\* allocation are its initial amount plus one diff per later grant event, so
\* never more than AMIE granted.
GrantsNotExceeded ==
    \A g \in Grants :
        Effective(g) <= SUs({p \in ProjectPackets(g) : status[p] # "unknown"})

\* What a reply tells AMIE is there is there: identity, user, a login on the
\* cluster that nobody else has, and membership for an account; also project,
\* allocation with its resources and the PI's row, the only one, for a project
\* (EnsureProjectMembership only checks before it writes).
AckedIsProvisioned ==
    \A p \in acked :
        LET g == Body[p].grant
            u == identity[Body[p].person]
        IN /\ u \in users
           /\ login[u] # 0
           /\ \A v \in Emails \ {u} : login[v] = login[u] => BaseOf[v] # BaseOf[u]
           /\ <<g, u>> \in members
           /\ piOf[g] # None /\ initial[g] # None
           /\ Body[p].kind = "project" => g \in mapped /\ {v \in Emails : HasPI(g, v)} = {u}

\* The user row of the person exists without its AMIE identity: someone else has
\* the address, or an earlier attempt stopped between the two calls.
Orphaned(g) == identity[g] = None /\ EmailOf[g] \in users

\* A packet is given up only for a reason the retries cannot cure, never because
\* an earlier attempt or packet did part of its work: MaxAttempts outside
\* failures, the person's address on a user row without identity, a ProjectID
\* nobody created, a PI conflict, or no login name left.
GivenUpForAReason ==
    \A p \in Packets :
        LET b == Body[p]
            u == EmailOf[b.person]
            asked == IF b.kind = "project" THEN "PI" ELSE b.role
        IN status[p] = "failed" =>
              \/ transient[p] = MaxAttempts
              \/ Orphaned(b.person)
              \/ b.kind = "account" /\ ProjectPackets(b.grant) = {}
              \/ asked = "PI" /\ \E v \in Emails \ {u} : HasPI(b.grant, v)
              \/ asked # "PI" /\ HasPI(b.grant, u)
              \/ login[u] = 0 /\ FreeSuffixes(u) = {}

=============================================================================
