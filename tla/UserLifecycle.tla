---------------------------- MODULE UserLifecycle ----------------------------
(***************************************************************************)
(* Users, their identities and what they own, as pkg/service keeps them:   *)
(* creation, first login, profile and status updates, merge and deletion.  *)
(* An operation reads and checks on the connection pool and then writes in *)
(* a transaction of its own.  An operation whose write uses what it read   *)
(* is two actions here, and any other operation may come between them; one *)
(* whose checks the schema repeats is a single action.                     *)
(***************************************************************************)
EXTENDS FiniteSets

CONSTANTS
    Users, Persons,     \* users.id, and the global ids AMIE knows people by
    Subs, Emails,
    Callers,            \* concurrent requests
    Loads,              \* what an instance starts with and is asked for
    NewUsers,           \* users that do not exist yet
    FirstEmail,         \* the address each user is created with
    None

Statuses == {"PENDING", "ACTIVE", "INACTIVE", "SUSPENDED", "MERGED"}

\* A row of user_identities is named by its (source, external_id), which is
\* unique: a global id for source "access", a subject for source "oidc".
Identities == Persons \cup Subs

ASSUME UserAssumption ==
    /\ NewUsers \subseteq Users
    /\ FirstEmail \in [Users -> Emails]
    /\ Persons \cap Subs = {}
    /\ \A l \in Loads : l.pi \in Users \ NewUsers /\ l.coPIs \subseteq Users \ (NewUsers \cup {l.pi})
    /\ None \notin Users \cup Emails \cup Identities \cup Statuses

VARIABLES
    load,       \* what this behaviour starts with and is asked for
    status,     \* users.status; None before the row exists, "deleted" after
    email,      \* users.email
    owner,      \* user_identities.user_id, None for no row
    login,      \* compute_cluster_users: users with an account on the cluster
    member,     \* compute_allocation_memberships of one allocation
    role,       \* project_memberships of its project
    pi,         \* projects.project_pi_id of that project
    call        \* per request: what it read, until its transaction ends

Ops == load.ops     \* the operations that are asked for

tables == <<status, email, owner, login, member, role, pi>>
vars == <<load, tables, call>>

Idle == [op |-> "idle"]

Exists(u) == status[u] \in Statuses

\* Every user that exists was created for an AMIE packet, holds an account and is a
\* member; a global id may be nobody's yet.
Init ==
    /\ load \in Loads
    /\ status = [u \in Users |-> IF u \in NewUsers THEN None ELSE "PENDING"]
    /\ email = FirstEmail
    /\ \E own \in load.owners : owner = [i \in Identities |-> IF i \in Persons THEN own[i] ELSE None]
    /\ login = Users \ NewUsers
    /\ member = [u \in Users \ NewUsers |-> "ACTIVE"]
    /\ pi = load.pi
    /\ \E co \in SUBSET load.coPIs : role = [u \in {pi} \cup co |-> IF u = pi THEN "PI" ELSE "CO_PI"]
    /\ call = [c \in Callers |-> Idle]

-----------------------------------------------------------------------------
(* The stores. *)

FindByEmail(e) == {u \in Users : Exists(u) /\ email[u] = e}

FindByUserAndSource(u, source) == {i \in source : owner[i] = u}

\* Mutant of ReassignIdentities: one identity per source, as the other tables
\* drop what the survivor already has.
ReassignIdentitiesDropping(from, to) ==
    [i \in Identities |->
        IF owner[i] # from THEN owner[i]
        ELSE IF \E j \in Identities : owner[j] = to /\ (j \in Subs <=> i \in Subs)
             THEN None ELSE to]

\* UPDATE user_identities SET user_id: every row moves, none is dropped.
ReassignIdentities(from, to) == [i \in Identities |-> IF owner[i] = from THEN to ELSE owner[i]]

\* A table with at most one row per user here: the row of "from" goes if "to" has
\* one, and else moves.
MoveRow(rows, from, to) ==
    [u \in (DOMAIN rows \ {from}) \cup (IF from \in DOMAIN rows THEN {to} ELSE {}) |->
        IF u \in DOMAIN rows THEN rows[u] ELSE rows[from]]

ReassignClusterUsers(from, to) ==
    IF from \in login THEN (login \ {from}) \cup {to} ELSE login

ReassignMemberships(from, to) == MoveRow(member, from, to)

ReassignProjectMemberships(from, to) == MoveRow(role, from, to)

ReassignPI(from, to) == IF pi = from THEN to ELSE pi

-----------------------------------------------------------------------------
(* Operations that are one step: what they check, the schema checks again. *)

Reads(c, what) == call[c] = Idle /\ call' = [call EXCEPT ![c] = what]
Ends(c) == call' = [call EXCEPT ![c] = Idle]

CreateUser(u) ==
    /\ status[u] = None
    /\ FindByEmail(FirstEmail[u]) = {}
    /\ status' = [status EXCEPT ![u] = "PENDING"]
    /\ email' = [email EXCEPT ![u] = FirstEmail[u]]
    /\ UNCHANGED <<owner, login, member, role, pi, call>>

UpdateUserStatus(u, s) ==
    /\ Exists(u)
    /\ status' = [status EXCEPT ![u] = s]
    /\ UNCHANGED <<email, owner, login, member, role, pi, call>>

\* The schema keeps the row of a PI, takes identities, accounts and project roles
\* along, and leaves the allocation memberships, which do not reference users.
DeleteUser(u) ==
    /\ Exists(u)
    /\ pi # u
    /\ status' = [status EXCEPT ![u] = "deleted"]
    /\ owner' = [i \in Identities |-> IF owner[i] = u THEN None ELSE owner[i]]
    /\ login' = login \ {u}
    /\ role' = [v \in DOMAIN role \ {u} |-> role[v]]
    /\ UNCHANGED <<email, member, pi, call>>

CreateUserIdentity(i, u) ==
    /\ Exists(u)
    /\ owner[i] = None
    /\ owner' = [owner EXCEPT ![i] = u]
    /\ UNCHANGED <<status, email, login, member, role, pi, call>>

DeleteUserIdentity(i) ==
    /\ owner[i] # None
    /\ owner' = [owner EXCEPT ![i] = None]
    /\ UNCHANGED <<status, email, login, member, role, pi, call>>

-----------------------------------------------------------------------------
(* Operations that write what they read. *)

\* UpdateUser falls back to the stored status for a field left blank, and the
\* UPDATE sets every column.
UpdateUserReads(c, u, e) ==
    /\ Exists(u)
    /\ FindByEmail(e) \subseteq {u}
    /\ Reads(c, [op |-> "update", user |-> u, status |-> status[u], email |-> e])

UpdateUserWrites(c) ==
    /\ call[c].op = "update"
    /\ LET u == call[c].user
           ok == Exists(u) /\ FindByEmail(call[c].email) \subseteq {u}
       IN /\ status' = IF ok THEN [status EXCEPT ![u] = call[c].status] ELSE status
          /\ email' = IF ok THEN [email EXCEPT ![u] = call[c].email] ELSE email
    /\ Ends(c)
    /\ UNCHANGED <<owner, login, member, role, pi>>

\* UpdateUserIdentity: the row it read names the user it writes back.
UpdateUserIdentityReads(c, i) ==
    /\ owner[i] # None
    /\ Reads(c, [op |-> "identity", row |-> i, user |-> owner[i]])

UpdateUserIdentityWrites(c) ==
    /\ call[c].op = "identity"
    /\ owner' = IF owner[call[c].row] # None /\ Exists(call[c].user)
                THEN [owner EXCEPT ![call[c].row] = call[c].user] ELSE owner
    /\ Ends(c)
    /\ UNCHANGED <<status, email, login, member, role, pi>>

canBeMerged(u) == status[u] \in {"ACTIVE", "PENDING"}

MergeChecks(survivor, retiring) ==
    survivor # retiring /\ canBeMerged(survivor) /\ canBeMerged(retiring)

MergeUsersReads(c, survivor, retiring) ==
    /\ MergeChecks(survivor, retiring)
    /\ Reads(c, [op |-> "merge", user |-> survivor, retiring |-> retiring])

MergeRows(s, r) ==
    /\ owner' = ReassignIdentities(r, s)
    /\ login' = ReassignClusterUsers(r, s)
    /\ member' = ReassignMemberships(r, s)
    /\ role' = ReassignProjectMemberships(r, s)
    /\ pi' = ReassignPI(r, s)

\* Rows whose user_id is a foreign key: all but the memberships.
References(r) == r \in login \/ r \in DOMAIN role \/ pi = r \/ \E i \in Identities : owner[i] = r

\* One transaction.  It fails when the survivor's row is gone and there is a row to move to it.
MergeUsersCommits(c) ==
    LET s == call[c].user
        r == call[c].retiring
    IN /\ call[c].op = "merge"
       /\ Exists(s) \/ ~References(r)
       /\ MergeRows(s, r)
       /\ status' = IF Exists(r) THEN [status EXCEPT ![r] = "MERGED"] ELSE status
       /\ Ends(c)
       /\ UNCHANGED email

MergeUsersFails(c) ==
    /\ call[c].op = "merge"
    /\ ~Exists(call[c].user) /\ References(call[c].retiring)
    /\ Ends(c)
    /\ UNCHANGED tables

\* The first login of a user matched by its address.
linkBySubChecks(u) == FindByUserAndSource(u, Subs) = {} /\ status[u] = "PENDING"

linkBySubReads(c, s) ==
    /\ owner[s] = None
    /\ \E e \in Emails : \E u \in FindByEmail(e) :
         /\ linkBySubChecks(u)
         /\ Reads(c, [op |-> "link", user |-> u, row |-> s])

\* Mutant of linkBySubWrites: the user is activated in a transaction of its own, and
\* the binding is lost.
linkBySubWritesAnyway(c) ==
    /\ call[c].op = "link"
    /\ status' = [status EXCEPT ![call[c].user] = "ACTIVE"]
    /\ Ends(c)
    /\ UNCHANGED <<owner, email, login, member, role, pi>>

\* The binding and the activation, in one transaction.
linkBySubWrites(c) ==
    /\ call[c].op = "link"
    /\ LET u == call[c].user
           ok == Exists(u) /\ owner[call[c].row] = None
       IN /\ owner' = IF ok THEN [owner EXCEPT ![call[c].row] = u] ELSE owner
          /\ status' = IF ok THEN [status EXCEPT ![u] = "ACTIVE"] ELSE status
    /\ Ends(c)
    /\ UNCHANGED <<email, login, member, role, pi>>

-----------------------------------------------------------------------------

CallNext(c) ==
    \/ /\ "link" \in Ops
       /\ UNCHANGED tables
       /\ \E s \in Subs : linkBySubReads(c, s)
    \/ linkBySubWrites(c)
    \/ /\ "update" \in Ops
       /\ UNCHANGED tables
       /\ \E u \in Users : UpdateUserReads(c, u, email[u])
    \/ UpdateUserWrites(c)
    \/ /\ "identity" \in Ops
       /\ UNCHANGED tables
       /\ \E i \in Identities : UpdateUserIdentityReads(c, i)
    \/ UpdateUserIdentityWrites(c)
    \/ /\ "merge" \in Ops
       /\ UNCHANGED tables
       /\ \E s, r \in Users : MergeUsersReads(c, s, r)
    \/ MergeUsersCommits(c)
    \/ MergeUsersFails(c)

DirectNext ==
    \/ "create" \in Ops /\ \E u \in Users : CreateUser(u)
    \/ "status" \in Ops /\ \E u \in Users : UpdateUserStatus(u, "SUSPENDED")
    \/ "delete" \in Ops /\ \E u \in Users : DeleteUser(u)
    \/ "identities" \in Ops /\ \E i \in Persons, u \in Users : CreateUserIdentity(i, u)
    \/ "identities" \in Ops /\ \E i \in Persons : DeleteUserIdentity(i)

-----------------------------------------------------------------------------

\* Every reference leads to a user that exists or existed, or to nobody.
TypeOK ==
    /\ status \in [Users -> Statuses \cup {None, "deleted"}]
    /\ email \in [Users -> Emails]
    /\ owner \in [Identities -> Users \cup {None}]
    /\ login \subseteq Users
    /\ DOMAIN member \subseteq Users /\ DOMAIN role \subseteq Users
    /\ pi \in Users
    /\ DOMAIN call = Callers

\* No identity row is lost by a merge, an update or a login: a row goes with the
\* user it belongs to, or alone when it is deleted by name.
IdentitiesKept ==
    [][\A i \in Identities : owner[i] # None /\ owner'[i] = None =>
          \/ status'[owner[i]] = "deleted"
          \/ UNCHANGED status /\ \A j \in Identities \ {i} : owner'[j] = owner[j]]_vars

\* A project's PI is a user: neither a deletion nor a merge that lost its survivor
\* in the meantime leaves projects.project_pi_id without a row.
PIExists == Exists(pi)
=============================================================================
