-------------------------------- MODULE Access --------------------------------
(***************************************************************************)
(* Roles, privileges and the identity cache.  An administrative request    *)
(* resolves its caller (through the cache), passes the route's privilege   *)
(* check, and runs one transaction that asserts the caller's privilege     *)
(* again, checks and locks what it changes, and commits; the handler then  *)
(* empties the cache.  Statements of concurrent transactions interleave    *)
(* (READ COMMITTED), except where a row lock makes one wait.               *)
(***************************************************************************)
EXTENDS Integers, FiniteSets

CONSTANTS
    Users, Roles, Names, Privs,
    Admin,              \* the user named by the bootstrap address
    SuperRole,          \* the role row bootstrap creates; the only system role
    Callers,            \* concurrent requests
    Loads,              \* the workloads: requests asked (a subset of Requests), callers, restarts, maxTime
    TTL,                \* of the cache
    None

PrivilegesGrant == "privileges:grant"
RolesManage == "roles:manage"
SystemRoleSuperAdmin == "super_admin"
MetaPrivileges == {PrivilegesGrant, RolesManage}

ASSUME AccessAssumption ==
    /\ Admin \in Users /\ SuperRole \in Roles
    /\ MetaPrivileges \subseteq Privs /\ SystemRoleSuperAdmin \in Names
    /\ TTL \in Nat \ {0}
    /\ IsFiniteSet(Users) /\ IsFiniteSet(Callers)
    /\ \A l \in Loads : l.callers \subseteq Callers /\ l.maxTime \in Nat /\ l.restarts \in BOOLEAN

VARIABLES
    load,   \* the workload of this behaviour
    db,     \* users, roles.name, role_privileges, user_roles, user_privileges
    cache,  \* per user (subject): privileges and expiry, or None
    call,   \* per request
    clock,
    lost    \* when each user last lost each privilege

vars == <<load, db, cache, call, clock, lost>>

Idle == [at |-> "idle", locks |-> {}]

Init ==
    /\ load \in Loads
    /\ db = [users |-> Users \ {Admin}, name |-> <<>>, carries |-> <<>>,
             holds |-> {}, direct |-> {}]
    /\ cache = [u \in Users |-> None]
    /\ call = [c \in Callers |-> Idle]
    /\ clock = 0
    /\ lost = [u \in Users |-> [p \in Privs |-> 0]]

RoleIds(d) == DOMAIN d.name
Carries(d, r) == IF r \in RoleIds(d) THEN d.carries[r] ELSE {}

Without(f, x) == [y \in DOMAIN f \ {x} |-> f[y]]
With(f, x, v) == [y \in DOMAIN f \cup {x} |-> IF y = x THEN v ELSE f[y]]

-----------------------------------------------------------------------------
(* Queries. *)

FindByName(d, n) == {r \in RoleIds(d) : d.name[r] = n}

PrivilegesForUser(d, u) == UNION {d.carries[r] : r \in {r \in RoleIds(d) : <<u, r>> \in d.holds}}

ListByUser(d, u) == {p \in Privs : <<u, p>> \in d.direct}

EffectivePrivileges(d, u) == ListByUser(d, u) \cup PrivilegesForUser(d, u)

HasPrivilege(d, u, p) == p \in ListByUser(d, u) \/ p \in PrivilegesForUser(d, u)

CountRolesGrantingPrivilege(d, p) == Cardinality({r \in RoleIds(d) : p \in d.carries[r]})

CountByPrivilege(d, p) == Cardinality({u \in Users : <<u, p>> \in d.direct})

countUsersHoldingPrivilegeTx(d, p) == Cardinality({u \in Users : HasPrivilege(d, u, p)})

userHasPrivilegeOutsideTx(d, u, p, r) ==
    \/ <<u, p>> \in d.direct
    \/ \E q \in RoleIds(d) \ {r} : <<u, q>> \in d.holds /\ p \in d.carries[q]

\* Mutant of assertNotLastMetaHolderTx: another source of one key excuses the rest.
assertNotLastMetaHolderTxAny(d, u, r) ==
    \/ MetaPrivileges \cap d.carries[r] = {}
    \/ \E p \in MetaPrivileges :
         countUsersHoldingPrivilegeTx(d, p) > 1 \/ userHasPrivilegeOutsideTx(d, u, p, r)

assertNotLastMetaHolderTx(d, u, r) ==
    \A p \in MetaPrivileges \cap d.carries[r] :
        countUsersHoldingPrivilegeTx(d, p) > 1 \/ userHasPrivilegeOutsideTx(d, u, p, r)

-----------------------------------------------------------------------------
(* The service's transactions on a database d for a request o: the code's  *)
(* own checks (ok), what the schema still checks on commit, the rows       *)
(* locked with FOR UPDATE, and the database they leave.                    *)

RoleRow(o) == <<"role", o.user, o.role>>
PrivRow(o) == <<"priv", o.user, o.priv>>

GrantRoleToUser(o, d) ==
    [ok |-> o.role \in RoleIds(d) /\ <<o.user, o.role>> \notin d.holds,
     schema |-> o.role \in RoleIds(d) /\ o.user \in d.users,
     lock |-> {},
     then |-> [d EXCEPT !.holds = @ \cup {<<o.user, o.role>>}]]

RevokeRoleFromUser(o, d) ==
    [ok |-> /\ o.role \in RoleIds(d) /\ <<o.user, o.role>> \in d.holds
            /\ assertNotLastMetaHolderTx(d, o.user, o.role),
     schema |-> TRUE,
     lock |-> {RoleRow(o)},
     then |-> [d EXCEPT !.holds = @ \ {<<o.user, o.role>>}]]

CreateRole(o, d) ==
    [ok |-> FindByName(d, o.name) = {},
     schema |-> FindByName(d, o.name) = {} /\ o.role \notin RoleIds(d),
     lock |-> {},
     then |-> [d EXCEPT !.name = With(@, o.role, o.name), !.carries = With(@, o.role, {})]]

UpdateRole(o, d) ==
    [ok |-> /\ o.role \in RoleIds(d)
            /\ o.role = SuperRole => o.name = d.name[o.role],
     schema |-> o.role \in RoleIds(d) /\ FindByName(d, o.name) \subseteq {o.role},
     lock |-> {},
     then |-> [d EXCEPT !.name = With(@, o.role, o.name)]]

\* Assignments and privilege rows go with the role.
DeleteRole(o, d) ==
    [ok |-> o.role \in RoleIds(d) /\ o.role # SuperRole,
     schema |-> TRUE,
     lock |-> {},
     then |-> [d EXCEPT !.name = Without(@, o.role), !.carries = Without(@, o.role),
                        !.holds = {h \in @ : h[2] # o.role}]]

AddPrivilegeToRole(o, d) ==
    [ok |-> o.role \in RoleIds(d) /\ o.priv \notin d.carries[o.role],
     schema |-> o.role \in RoleIds(d),
     lock |-> {},
     then |-> [d EXCEPT !.carries = With(@, o.role, Carries(d, o.role) \cup {o.priv})]]

RemovePrivilegeFromRole(o, d) ==
    [ok |-> /\ o.role \in RoleIds(d) /\ o.priv \in d.carries[o.role]
            /\ o.priv \in MetaPrivileges => CountRolesGrantingPrivilege(d, o.priv) > 1,
     schema |-> o.role \in RoleIds(d),
     lock |-> {},
     then |-> [d EXCEPT !.carries = With(@, o.role, Carries(d, o.role) \ {o.priv})]]

GrantPrivilege(o, d) ==
    [ok |-> <<o.user, o.priv>> \notin d.direct,
     schema |-> o.user \in d.users,
     lock |-> {},
     then |-> [d EXCEPT !.direct = @ \cup {<<o.user, o.priv>>}]]

RevokePrivilege(o, d) ==
    [ok |-> /\ <<o.user, o.priv>> \in d.direct
            /\ o.priv = PrivilegesGrant =>
                 o.user # o.actor /\ CountByPrivilege(d, PrivilegesGrant) > 1,
     schema |-> TRUE,
     lock |-> {PrivRow(o)},
     then |-> [d EXCEPT !.direct = @ \ {<<o.user, o.priv>>}]]

Tx(o, d) ==
    CASE o.op = "grantRole"    -> GrantRoleToUser(o, d)
      [] o.op = "revokeRole"   -> RevokeRoleFromUser(o, d)
      [] o.op = "createRole"   -> CreateRole(o, d)
      [] o.op = "updateRole"   -> UpdateRole(o, d)
      [] o.op = "deleteRole"   -> DeleteRole(o, d)
      [] o.op = "addPriv"      -> AddPrivilegeToRole(o, d)
      [] o.op = "removePriv"   -> RemovePrivilegeFromRole(o, d)
      [] o.op = "grantPriv"    -> GrantPrivilege(o, d)
      [] o.op = "revokePriv"   -> RevokePrivilege(o, d)

\* The privilege that gates the route and that the transaction asserts again.
Needs(o) == IF o.op \in {"grantPriv", "revokePriv"} THEN PrivilegesGrant ELSE RolesManage

\* createRole is the one change whose handler leaves the cache alone.
Invalidates(o) == o.op # "createRole"

Requests ==
    [op : {"grantRole", "revokeRole"}, actor : Users, user : Users, role : Roles] \cup
    [op : {"grantPriv", "revokePriv"}, actor : Users, user : Users, priv : Privs] \cup
    [op : {"addPriv", "removePriv"}, actor : Users, role : Roles, priv : Privs] \cup
    [op : {"createRole", "updateRole"}, actor : Users, role : Roles, name : Names] \cup
    [op : {"deleteRole"}, actor : Users, role : Roles] \cup
    [op : {"me"}, actor : Users]

ASSUME AskedAssumption == \A l \in Loads : l.asked \subseteq Requests

-----------------------------------------------------------------------------
(* Resolving the caller. *)

At(c, step) == call[c].at = step
Moves(c, what) == call' = [call EXCEPT ![c] = what]
Leaves(c) == Moves(c, Idle)

\* identityCache.get: an expired entry is a miss, and goes.
CacheHit(u) == cache[u] # None /\ clock < cache[u].expires

RequestArrives(c, o) ==
    /\ At(c, "idle")
    /\ o.actor \in db.users
    /\ \/ /\ CacheHit(o.actor)
          /\ Moves(c, [at |-> "authorize", o |-> o, privs |-> cache[o.actor].privs, locks |-> {}])
          /\ UNCHANGED cache
       \/ /\ ~CacheHit(o.actor)
          /\ Moves(c, [at |-> "reading", o |-> o, now |-> clock, locks |-> {}])
          /\ cache' = [cache EXCEPT ![o.actor] = None]
    /\ UNCHANGED <<db, clock, lost>>

ResolverReads(c) ==
    /\ At(c, "reading")
    /\ Moves(c, [at |-> "storing", o |-> call[c].o, now |-> call[c].now,
                 privs |-> EffectivePrivileges(db, call[c].o.actor), locks |-> {}])
    /\ UNCHANGED <<db, cache, clock, lost>>

\* Mutant of ResolverStores: the entry's life starts when it is stored.
ResolverStoresLate(c) ==
    /\ At(c, "storing")
    /\ cache' = [cache EXCEPT ![call[c].o.actor] =
                    [privs |-> call[c].privs, expires |-> clock + TTL]]
    /\ Moves(c, [at |-> "authorize", o |-> call[c].o, privs |-> call[c].privs, locks |-> {}])
    /\ UNCHANGED <<db, clock, lost>>

\* identityCache.set, with the time the request came in.
ResolverStores(c) ==
    /\ At(c, "storing")
    /\ cache' = [cache EXCEPT ![call[c].o.actor] =
                    [privs |-> call[c].privs, expires |-> call[c].now + TTL]]
    /\ Moves(c, [at |-> "authorize", o |-> call[c].o, privs |-> call[c].privs, locks |-> {}])
    /\ UNCHANGED <<db, clock, lost>>

-----------------------------------------------------------------------------
(* The handler. *)

LockedByOthers(c, rows) == \E x \in Callers \ {c} : call[x].locks \cap rows # {}

Goes(c, step, locks) == Moves(c, [at |-> step, o |-> call[c].o, locks |-> locks])

\* 403 without the privilege; /me needs none.
RequirePrivilege(c) ==
    /\ At(c, "authorize")
    /\ LET o == call[c].o
       IN IF o.op = "me" THEN Goes(c, "profile", {})
          ELSE IF Needs(o) \in call[c].privs THEN Goes(c, "assert", {})
          ELSE Leaves(c)
    /\ UNCHANGED <<db, cache, clock, lost>>

\* Mutant of assertHasPrivilegeTx: a plain SELECT.
assertHasPrivilegeTxUnlocked(c) ==
    /\ At(c, "assert")
    /\ IF HasPrivilege(db, call[c].o.actor, Needs(call[c].o))
       THEN Goes(c, "check", {}) ELSE Leaves(c)
    /\ UNCHANGED <<db, cache, clock, lost>>

\* A direct grant is locked; one that comes with a role is only read.
assertHasPrivilegeTx(c) ==
    /\ At(c, "assert")
    /\ LET o == call[c].o
           row == {<<"priv", o.actor, Needs(o)>>}
       IN IF <<o.actor, Needs(o)>> \in db.direct
          THEN ~LockedByOthers(c, row) /\ Goes(c, "check", row)
          ELSE IF HasPrivilege(db, o.actor, Needs(o)) THEN Goes(c, "check", {}) ELSE Leaves(c)
    /\ UNCHANGED <<db, cache, clock, lost>>

TxChecks(c) ==
    /\ At(c, "check")
    /\ LET tx == Tx(call[c].o, db)
       IN /\ ~LockedByOthers(c, tx.lock)
          /\ IF tx.ok THEN Goes(c, "commit", call[c].locks \cup tx.lock) ELSE Leaves(c)
    /\ UNCHANGED <<db, cache, clock, lost>>

\* Deleting a row waits for whoever locked it.
Deletes(d, e) ==
    {<<"role", h[1], h[2]>> : h \in d.holds \ e.holds} \cup
    {<<"priv", h[1], h[2]>> : h \in d.direct \ e.direct}

Loses(d, e) ==
    [u \in Users |-> [p \in Privs |->
        IF HasPrivilege(d, u, p) /\ ~HasPrivilege(e, u, p) THEN clock ELSE lost[u][p]]]

TxCommits(c) ==
    /\ At(c, "commit")
    /\ LET tx == Tx(call[c].o, db)
       IN /\ tx.schema
          /\ ~LockedByOthers(c, Deletes(db, tx.then))
          /\ db' = tx.then
          /\ lost' = Loses(db, tx.then)
          /\ IF Invalidates(call[c].o) THEN Goes(c, "invalidate", {}) ELSE Leaves(c)
    /\ UNCHANGED <<cache, clock>>

\* The schema refuses, or the database aborts one of two transactions that wait for
\* each other.
TxRollsBack(c) ==
    /\ call[c].at \in {"check", "commit"}
    /\ Leaves(c)
    /\ UNCHANGED <<db, cache, clock, lost>>

InvalidateAllIdentities(c) ==
    /\ At(c, "invalidate")
    /\ cache' = [u \in Users |-> None]
    /\ Leaves(c)
    /\ UNCHANGED <<db, clock, lost>>

\* GET /me reads the effective privileges and then the roles with theirs.
ProfileReadsPrivileges(c) ==
    /\ At(c, "profile")
    /\ Moves(c, [at |-> "roles", o |-> call[c].o, locks |-> {},
                 privs |-> EffectivePrivileges(db, call[c].o.actor)])
    /\ UNCHANGED <<db, cache, clock, lost>>

ProfileReadsRoles(c) ==
    /\ At(c, "roles")
    /\ Moves(c, [at |-> "answer", o |-> call[c].o, locks |-> {}, privs |-> call[c].privs,
                 byRole |-> PrivilegesForUser(db, call[c].o.actor)])
    /\ UNCHANGED <<db, cache, clock, lost>>

ProfileAnswers(c) ==
    /\ At(c, "answer")
    /\ Leaves(c)
    /\ UNCHANGED <<db, cache, clock, lost>>

-----------------------------------------------------------------------------
(* Start-up. *)

createBootstrapUser(d) == [d EXCEPT !.users = @ \cup {Admin}]

ensureSuperAdminRoleTx(d) ==
    LET r == IF FindByName(d, SystemRoleSuperAdmin) = {} THEN SuperRole
             ELSE CHOOSE r \in RoleIds(d) : d.name[r] = SystemRoleSuperAdmin
    IN [d EXCEPT !.name = With(@, r, SystemRoleSuperAdmin), !.carries = With(@, r, Privs)]

\* The role goes to Admin unless somebody holds it.
BootstrapSuperAdmin(d) ==
    LET e == ensureSuperAdminRoleTx(createBootstrapUser(d))
        r == CHOOSE r \in RoleIds(e) : e.name[r] = SystemRoleSuperAdmin
    IN IF \E u \in Users : <<u, r>> \in e.holds THEN e
       ELSE [e EXCEPT !.holds = @ \cup {<<Admin, r>>}]

\* A restart ends every request and the cache, and runs the bootstrap, whose failure
\* does not keep the server from starting.
tryBootstrap(succeeds) ==
    /\ load.restarts \/ Admin \notin db.users
    /\ db' = IF succeeds THEN BootstrapSuperAdmin(db) ELSE db
    /\ cache' = [u \in Users |-> None]
    /\ call' = [c \in Callers |-> Idle]
    /\ UNCHANGED <<clock, lost>>

Tick ==
    /\ clock < load.maxTime
    /\ clock' = clock + 1
    /\ UNCHANGED <<db, cache, call, lost>>

RequestNext(c) ==
    \/ \E o \in load.asked : RequestArrives(c, o)
    \/ ResolverReads(c) \/ ResolverStores(c)
    \/ RequirePrivilege(c) \/ assertHasPrivilegeTx(c)
    \/ TxChecks(c) \/ TxCommits(c) \/ TxRollsBack(c) \/ InvalidateAllIdentities(c)
    \/ ProfileReadsPrivileges(c) \/ ProfileReadsRoles(c) \/ ProfileAnswers(c)

Next ==
    /\ (\E b \in BOOLEAN : tryBootstrap(b)) \/ Tick \/ \E c \in load.callers : RequestNext(c)
    /\ UNCHANGED load

Spec == Init /\ [][Next]_vars

-----------------------------------------------------------------------------
(* Properties. *)

\* A privilege that was taken away opens no route longer than the cache's TTL after
\* the change committed, even when a request that read it stores it after the cache
\* was emptied.
StaleBounded ==
    \A u \in Users : cache[u] # None =>
        \A p \in cache[u].privs \ EffectivePrivileges(db, u) :
            cache[u].expires <= lost[u][p] + TTL

\* No revocation leaves a guarded privilege without a holder: a revoked role neither of
\* the two meta-privileges, a revoked direct grant privileges:grant.  Two revocations that
\* overlap lock two different rows, so this is for requests that do not.
RevokeKeepsHolder ==
    [][Cardinality(load.callers) = 1 => \A c \in Callers : At(c, "commit") /\ call'[c].at = "invalidate" =>
         \A p \in CASE call[c].o.op = "revokeRole" -> MetaPrivileges
                   [] call[c].o.op = "revokePriv" -> {PrivilegesGrant}
                   [] OTHER                       -> {} :
            countUsersHoldingPrivilegeTx(db, p) > 0 => countUsersHoldingPrivilegeTx(db', p) > 0]_vars

\* What a role gives is only read by assertHasPrivilegeTx: it stays while the transaction
\* runs if no request takes it away meanwhile.
RolesStay ==
    Cardinality(load.callers) = 1 \/ \A o \in load.asked : o.op \notin {"revokeRole", "deleteRole", "removePriv"}

\* Whoever's change commits still holds the privilege it needed: assertHasPrivilegeTx locks the row of a
\* direct grant, so that another request that revokes it waits.
ChangedByHolder ==
    [][RolesStay => \A c \in Callers : call[c].at = "commit" /\ call'[c].at = "invalidate" =>
            HasPrivilege(db, call[c].o.actor, Needs(call[c].o))]_vars
=============================================================================
