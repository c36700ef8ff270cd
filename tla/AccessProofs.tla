----------------------------- MODULE AccessProofs -----------------------------
(***************************************************************************)
(* Proofs about Access, for every set of users, roles and privileges, any  *)
(* number of concurrent requests, any clock and any restarts: what a stale *)
(* cache may still open, and who is left to grant privileges.              *)
(***************************************************************************)
EXTENDS Access, TLAPS

Columns == {"users", "name", "carries", "holds", "direct"}

\* The tables are all there, and a role's privileges go with its row.
Tables(d) ==
    /\ DOMAIN d = Columns
    /\ DOMAIN d.carries = DOMAIN d.name
    /\ \A r \in DOMAIN d.carries : d.carries[r] \subseteq Privs

InTx == {"check", "commit"}
Guarded == {"assert", "check", "commit", "invalidate"}

\* What a request x knows at each of its steps, at time t.
Progress(x, t) ==
    /\ x.at # "idle" => x.o \in load.asked
    /\ x.at \in {"reading", "storing"} => x.now \in Nat /\ x.now <= t
    /\ x.at \in {"storing", "authorize"} => x.privs \subseteq Privs
    /\ x.at \in Guarded => x.o.op # "me"
    /\ x.at \notin InTx => x.locks = {}

AType ==
    /\ load \in Loads
    /\ Tables(db)
    /\ clock \in Nat
    /\ lost \in [Users -> [Privs -> Nat]]
    /\ \A u \in Users, p \in Privs : lost[u][p] <= clock
    /\ DOMAIN cache = Users
    /\ \A u \in Users : cache[u] # None => cache[u].privs \subseteq Privs /\ cache[u].expires \in Nat
    /\ DOMAIN call = Callers
    /\ \A c \in Callers : Progress(call[c], clock)
    /\ \A c \in Callers : call[c].at # "idle" => c \in load.callers

\* Until when user u held privilege p: now, if u holds it still.
Until(d, l, t, u, p) == IF HasPrivilege(d, u, p) THEN t ELSE l[u][p]

\* A request came in before it read a privilege, so whatever it stores, or has stored,
\* dates from a time at which the user held it.
Dated ==
    /\ \A c \in Callers : call[c].at = "storing" =>
         \A p \in call[c].privs : call[c].now <= Until(db, lost, clock, call[c].o.actor, p)
    /\ \A u \in Users : cache[u] # None =>
         \A p \in cache[u].privs : cache[u].expires <= Until(db, lost, clock, u, p) + TTL

\* The row that says user u holds privilege p.
GrantRow(u, p) == <<"priv", u, p>>

\* A direct grant that a transaction locked is in the table.
Locked == \A c \in Callers : \A u \in Users, p \in Privs : GrantRow(u, p) \in call[c].locks => <<u, p>> \in db.direct

\* What the transaction's first check found is still so: by the lock on a direct grant,
\* or because the roles stay.
Backed(x, d) == GrantRow(x.o.actor, Needs(x.o)) \in x.locks \/ Needs(x.o) \in PrivilegesForUser(d, x.o.actor)
HolderStays == RolesStay => \A c \in Callers : call[c].at \in InTx => Backed(call[c], db)

\* Nothing comes between a lone request's checks and its commit.
Checked == Cardinality(load.callers) = 1 => \A c \in Callers : call[c].at = "commit" => Tx(call[c].o, db).ok

AInv == AType /\ Dated /\ Locked /\ HolderStays /\ Checked

-----------------------------------------------------------------------------
(* The transactions on the tables. *)

\* What a request names.
LEMMA RequestFields ==
    ASSUME NEW o \in Requests
    PROVE  /\ o.actor \in Users
           /\ o.op \in {"grantRole", "revokeRole", "grantPriv", "revokePriv", "addPriv", "removePriv",
                        "createRole", "updateRole", "deleteRole", "me"}
           /\ o.op \in {"grantPriv", "revokePriv", "addPriv", "removePriv"} => o.priv \in Privs
           /\ Needs(o) \in Privs
<1>1. o.actor \in Users /\ (o.op \in {"grantPriv", "revokePriv", "addPriv", "removePriv"} => o.priv \in Privs)
  BY DEF Requests
<1>2. o.op \in {"grantRole", "revokeRole", "grantPriv", "revokePriv", "addPriv", "removePriv",
                "createRole", "updateRole", "deleteRole", "me"}
  BY DEF Requests
<1> QED
  BY <1>1, <1>2, AccessAssumption DEF Needs, MetaPrivileges

\* A transaction leaves the columns it does not name, and a role with its privileges.
LEMMA TablesKept ==
    ASSUME NEW d, Tables(d), NEW o \in Requests, o.op # "me", Tx(o, d).schema
    PROVE  Tables(Tx(o, d).then)
<1> DEFINE e == Tx(o, d).then
<1>0. DOMAIN d = Columns
  BY DEF Tables
<1>1. CASE o.op = "grantRole"
  BY <1>0, <1>1 DEF Tx, GrantRoleToUser, Tables, Columns
<1>2. CASE o.op = "revokeRole"
  BY <1>0, <1>2 DEF Tx, RevokeRoleFromUser, Tables, Columns
<1>3. CASE o.op = "createRole"
  <2>1. e = [d EXCEPT !.name = With(@, o.role, o.name), !.carries = With(@, o.role, {})]
    BY <1>3 DEF Tx, CreateRole
  <2>2. /\ e.name = With(d.name, o.role, o.name) /\ e.carries = With(d.carries, o.role, {})
        /\ e.holds = d.holds /\ e.direct = d.direct /\ e.users = d.users
        /\ DOMAIN e = Columns
    BY <1>0, <2>1 DEF Columns
  <2> QED
    BY <2>2 DEF Tables, With, Without
<1>4. CASE o.op = "updateRole"
  <2>1. e = [d EXCEPT !.name = With(@, o.role, o.name)] /\ o.role \in DOMAIN d.name
    BY <1>4, Zenon DEF Tx, UpdateRole, RoleIds
  <2>2. /\ e.name = With(d.name, o.role, o.name) /\ e.carries = d.carries
        /\ DOMAIN e = Columns
    BY <1>0, <2>1 DEF Columns
  <2> QED
    BY <2>1, <2>2 DEF Tables, With, Without
<1>5. CASE o.op = "deleteRole"
  <2>1. e = [d EXCEPT !.name = Without(@, o.role), !.carries = Without(@, o.role), !.holds = {h \in @ : h[2] # o.role}]
    BY <1>5 DEF Tx, DeleteRole
  <2>2. /\ e.name = Without(d.name, o.role) /\ e.carries = Without(d.carries, o.role)
        /\ DOMAIN e = Columns
    BY <1>0, <2>1 DEF Columns
  <2> QED
    BY <2>2 DEF Tables, With, Without
<1>6. CASE o.op \in {"addPriv", "removePriv"}
  <2>1. o.role \in DOMAIN d.name /\ o.priv \in Privs
    BY <1>6, RequestFields DEF Tx, AddPrivilegeToRole, RemovePrivilegeFromRole, RoleIds
  <2>2. PICK s \in SUBSET Privs : e = [d EXCEPT !.carries = With(@, o.role, s)]
    <3>1. Carries(d, o.role) \subseteq Privs
      BY <2>1 DEF Tables, Carries, RoleIds
    <3>2. CASE o.op = "addPriv"
      BY <2>1, <3>1, <3>2 DEF Tx, AddPrivilegeToRole
    <3>3. CASE o.op = "removePriv"
      BY <2>1, <3>1, <3>3, Zenon DEF Tx, RemovePrivilegeFromRole
    <3> QED
      BY <1>6, <3>2, <3>3
  <2>3. /\ e.carries = With(d.carries, o.role, s) /\ e.name = d.name
        /\ DOMAIN e = Columns
    BY <1>0, <2>2 DEF Columns
  <2> QED
    BY <2>1, <2>3 DEF Tables, With, Without
<1>7. CASE o.op \in {"grantPriv", "revokePriv"}
  BY <1>0, <1>7, Zenon DEF Tx, GrantPrivilege, RevokePrivilege, Tables, Columns
<1> QED
  BY <1>1, <1>2, <1>3, <1>4, <1>5, <1>6, <1>7, RequestFields

\* The bootstrap adds the super admin's row, or gives it every privilege.
LEMMA TablesBootstrapped ==
    ASSUME NEW d, Tables(d)
    PROVE  Tables(BootstrapSuperAdmin(d))
<1> DEFINE b == createBootstrapUser(d)
           e == ensureSuperAdminRoleTx(b)
           f == BootstrapSuperAdmin(d)
<1>1. /\ b.name = d.name /\ b.carries = d.carries /\ b.holds = d.holds /\ b.direct = d.direct
      /\ DOMAIN b = Columns
  BY DEF Tables, createBootstrapUser, Columns
<1>2. PICK r : e = [b EXCEPT !.name = With(@, r, SystemRoleSuperAdmin), !.carries = With(@, r, Privs)]
  BY Zenon DEF ensureSuperAdminRoleTx
<1>3. /\ e.name = With(d.name, r, SystemRoleSuperAdmin) /\ e.carries = With(d.carries, r, Privs)
      /\ DOMAIN e = Columns
  BY <1>1, <1>2 DEF Columns
<1>4. Tables(e)
  BY <1>3 DEF Tables, With, Without
<1>5. PICK h : f = e \/ f = [e EXCEPT !.holds = h]
  BY Zenon DEF BootstrapSuperAdmin
<1> QED
  BY <1>4, <1>5 DEF Tables, Columns

\* Unless a transaction is there to take it away, nobody loses what a role gives.
LEMMA RolesGrow ==
    ASSUME NEW d, Tables(d), NEW o \in Requests, Tx(o, d).schema,
           o.op \notin {"me", "revokeRole", "deleteRole", "removePriv"},
           NEW u, NEW p \in PrivilegesForUser(d, u)
    PROVE  p \in PrivilegesForUser(Tx(o, d).then, u)
<1> DEFINE e == Tx(o, d).then
<1>1. PICK r \in RoleIds(d) : <<u, r>> \in d.holds /\ p \in d.carries[r]
  BY Zenon DEF PrivilegesForUser
<1>2. r \in RoleIds(e) /\ <<u, r>> \in e.holds /\ p \in e.carries[r]
  <2>0. DOMAIN d = Columns /\ DOMAIN d.carries = DOMAIN d.name /\ r \in DOMAIN d.name
    BY <1>1 DEF Tables, RoleIds
  <2> USE <1>1, <2>0 DEF Columns, RoleIds
  <2>1. CASE o.op = "grantRole"
    BY <2>1 DEF Tx, GrantRoleToUser
  <2>2. CASE o.op = "createRole"
    <3>1. o.role # r
      BY <2>2, Zenon DEF Tx, CreateRole
    <3>2. e = [d EXCEPT !.name = With(@, o.role, o.name), !.carries = With(@, o.role, {})]
      BY <2>2 DEF Tx, CreateRole
    <3> QED
      BY <3>1, <3>2 DEF With
  <2>3. CASE o.op = "updateRole"
    <3>1. e = [d EXCEPT !.name = With(@, o.role, o.name)]
      BY <2>3 DEF Tx, UpdateRole
    <3> QED
      BY <3>1 DEF With
  <2>4. CASE o.op = "addPriv"
    <3>1. e = [d EXCEPT !.carries = With(@, o.role, Carries(d, o.role) \cup {o.priv})]
      BY <2>4 DEF Tx, AddPrivilegeToRole
    <3> QED
      BY <3>1 DEF With, Carries
  <2>5. CASE o.op \in {"grantPriv", "revokePriv"}
    BY <2>5 DEF Tx, GrantPrivilege, RevokePrivilege
  <2> QED
    BY <2>1, <2>2, <2>3, <2>4, <2>5, RequestFields
<1> QED
  BY <1>2 DEF PrivilegesForUser

\* Deleting the row of a direct grant waits for its lock.
LEMMA DeletesRow ==
    ASSUME NEW d, NEW e, NEW u, NEW p, <<u, p>> \in d.direct, <<u, p>> \notin e.direct
    PROVE  GrantRow(u, p) \in Deletes(d, e)
  BY DEF Deletes, GrantRow

-----------------------------------------------------------------------------
(* Steps. *)

ReadOnly == UNCHANGED <<db, lost>>

\* A step of a request concerns that request, and the tables only when it commits.
LEMMA RequestFrame ==
    ASSUME AType, NEW c \in load.callers, RequestNext(c)
    PROVE  /\ c \in Callers
           /\ DOMAIN call' = Callers /\ \A x \in Callers \ {c} : call'[x] = call[x]
           /\ clock' = clock
           /\ ReadOnly \/ TxCommits(c)
<1>1. c \in Callers /\ DOMAIN call = Callers
  BY AccessAssumption DEF AType
<1> USE <1>1 DEF ReadOnly, Moves, Leaves, Goes
<1>2. CASE \E o \in load.asked : RequestArrives(c, o)
  BY <1>2 DEF RequestArrives
<1>3. CASE ResolverReads(c) \/ ResolverStores(c)
  BY <1>3 DEF ResolverReads, ResolverStores
<1>4. CASE RequirePrivilege(c)
  BY <1>4 DEF RequirePrivilege
<1>5. CASE assertHasPrivilegeTx(c) \/ TxChecks(c)
  BY <1>5 DEF assertHasPrivilegeTx, TxChecks
<1>6. CASE TxCommits(c)
  BY <1>6 DEF TxCommits
<1>7. CASE TxRollsBack(c) \/ InvalidateAllIdentities(c)
  BY <1>7 DEF TxRollsBack, InvalidateAllIdentities
<1>8. CASE ProfileReadsPrivileges(c) \/ ProfileReadsRoles(c) \/ ProfileAnswers(c)
  BY <1>8 DEF ProfileReadsPrivileges, ProfileReadsRoles, ProfileAnswers
<1> QED
  BY <1>2, <1>3, <1>4, <1>5, <1>6, <1>7, <1>8 DEF RequestNext

\* What somebody holds is a privilege.
LEMMA HeldIsPrivilege ==
    ASSUME NEW d, Tables(d), NEW u
    PROVE  /\ EffectivePrivileges(d, u) \subseteq Privs
           /\ \A p : p \in EffectivePrivileges(d, u) <=> HasPrivilege(d, u, p)
  BY Zenon DEF EffectivePrivileges, ListByUser, PrivilegesForUser, HasPrivilege, Tables, RoleIds

\* Where a step leaves the request that takes it.
LEMMA StepGoes ==
    ASSUME AType, NEW c \in load.callers, RequestNext(c)
    PROVE  Progress(call'[c], clock) /\ (call'[c].at # "idle" => c \in load.callers)
<1>1. /\ c \in Callers /\ DOMAIN call = Callers /\ Progress(call[c], clock)
      /\ load \in Loads /\ clock \in Nat /\ Tables(db) /\ load.asked \subseteq Requests
  BY AccessAssumption, AskedAssumption DEF AType
<1> USE <1>1 DEF Moves, Leaves, Goes, At, Idle, Guarded, InTx
<1>2. ASSUME NEW o \in load.asked, RequestArrives(c, o) PROVE Progress(call'[c], clock)
  <2>1. o.actor \in Users
    BY RequestFields
  <2>2. CacheHit(o.actor) => cache[o.actor].privs \subseteq Privs
    BY <2>1 DEF CacheHit, AType
  <2> QED
    BY <1>2, <2>2 DEF RequestArrives, Progress
<1>3. CASE ResolverReads(c)
  <2>1. EffectivePrivileges(db, call[c].o.actor) \subseteq Privs
    BY HeldIsPrivilege
  <2> QED
    BY <1>3, <2>1 DEF ResolverReads, Progress
<1>4. CASE ResolverStores(c)
  BY <1>4 DEF ResolverStores, Progress
<1>5. CASE RequirePrivilege(c)
  <2>1. call[c].at = "authorize" /\ call[c].o \in load.asked
    BY <1>5 DEF RequirePrivilege, Progress
  <2>2. \/ call' = [call EXCEPT ![c] = Idle]
        \/ call' = [call EXCEPT ![c] = [at |-> "profile", o |-> call[c].o, locks |-> {}]]
        \/ call[c].o.op # "me" /\ call' = [call EXCEPT ![c] = [at |-> "assert", o |-> call[c].o, locks |-> {}]]
    BY <1>5 DEF RequirePrivilege
  <2> QED
    BY <2>1, <2>2 DEF Progress
<1>6. CASE assertHasPrivilegeTx(c)
  BY <1>6 DEF assertHasPrivilegeTx, Progress
<1>7. CASE TxChecks(c)
  BY <1>7 DEF TxChecks, Progress
<1>8. CASE TxCommits(c)
  BY <1>8 DEF TxCommits, Progress
<1>9. CASE TxRollsBack(c) \/ InvalidateAllIdentities(c)
  BY <1>9 DEF TxRollsBack, InvalidateAllIdentities, Progress
<1>10. CASE ProfileReadsPrivileges(c) \/ ProfileReadsRoles(c) \/ ProfileAnswers(c)
  BY <1>10 DEF ProfileReadsPrivileges, ProfileReadsRoles, ProfileAnswers, Progress
<1> QED
  BY <1>2, <1>3, <1>4, <1>5, <1>6, <1>7, <1>8, <1>9, <1>10, Zenon DEF RequestNext

\* Which step leaves a request where it is found, and which one fills the cache.
LEMMA LandsAt ==
    ASSUME AType, NEW c \in load.callers, RequestNext(c)
    PROVE  /\ call'[c].at = "storing" => ResolverReads(c)
           /\ call'[c].at = "check" => assertHasPrivilegeTx(c)
           /\ call'[c].at = "commit" => TxChecks(c)
           /\ call'[c].at = "invalidate" => TxCommits(c)
           /\ ResolverStores(c) \/ (DOMAIN cache' = Users /\ \A u \in Users : cache'[u] \in {cache[u], None})
<1>1. c \in Callers /\ DOMAIN call = Callers /\ DOMAIN cache = Users
  BY AccessAssumption DEF AType
<1> USE <1>1 DEF Moves, Leaves, Goes, Idle
<1>2. ASSUME NEW o \in load.asked, RequestArrives(c, o)
      PROVE  /\ call'[c].at \notin {"storing", "check", "commit", "invalidate"}
             /\ DOMAIN cache' = Users /\ \A u \in Users : cache'[u] \in {cache[u], None}
  BY <1>2 DEF RequestArrives
<1>3. CASE ResolverReads(c)
  BY <1>3 DEF ResolverReads
<1>4. CASE ResolverStores(c)
  BY <1>4 DEF ResolverStores
<1>5. CASE RequirePrivilege(c)
  BY <1>5 DEF RequirePrivilege
<1>6. CASE assertHasPrivilegeTx(c)
  BY <1>6 DEF assertHasPrivilegeTx
<1>7. CASE TxChecks(c)
  BY <1>7 DEF TxChecks
<1>8. CASE TxCommits(c)
  BY <1>8 DEF TxCommits
<1>9. CASE TxRollsBack(c) \/ InvalidateAllIdentities(c)
  BY <1>9 DEF TxRollsBack, InvalidateAllIdentities
<1>10. CASE ProfileReadsPrivileges(c) \/ ProfileReadsRoles(c) \/ ProfileAnswers(c)
  BY <1>10 DEF ProfileReadsPrivileges, ProfileReadsRoles, ProfileAnswers
<1> QED
  BY <1>2, <1>3, <1>4, <1>5, <1>6, <1>7, <1>8, <1>9, <1>10, Zenon DEF RequestNext

\* Nobody asks for anything, and no role is there, before the first start.
LEMMA InitAInv == Init => AInv
<1> SUFFICES ASSUME Init PROVE AInv
  OBVIOUS
<1> USE DEF Init
<1>1. Tables(db)
  BY DEF Tables, Columns
<1>2. \A c \in Callers : call[c] = Idle /\ Progress(call[c], clock)
  BY DEF Progress, Idle, Guarded, InTx
<1>3. AType
  BY <1>1, <1>2 DEF AType, Idle
<1>4. Dated /\ Locked /\ HolderStays /\ Checked
  BY <1>2 DEF Dated, Locked, HolderStays, Checked, Idle, InTx
<1> QED
  BY <1>3, <1>4 DEF AInv

\* A privilege is lost now or was lost before.
LEMMA LosesTyped ==
    ASSUME clock \in Nat, lost \in [Users -> [Privs -> Nat]], \A u \in Users, p \in Privs : lost[u][p] <= clock,
           NEW d, NEW e
    PROVE  /\ Loses(d, e) \in [Users -> [Privs -> Nat]]
           /\ \A u \in Users, p \in Privs : Loses(d, e)[u][p] <= clock
  BY DEF Loses

\* A transaction and the cache keep their types.
LEMMA NextAType == AType /\ Next => AType'
<1> SUFFICES ASSUME AType, Next PROVE AType'
  OBVIOUS
<1>1. load' = load /\ load \in Loads
  BY DEF Next, AType
<1>2. ASSUME NEW b \in BOOLEAN, tryBootstrap(b) PROVE AType'
  <2>1. Tables(db')
    BY <1>2, TablesBootstrapped DEF AType, tryBootstrap
  <2>2. \A c \in Callers : call'[c].at = "idle" /\ Progress(call[c], clock)'
    BY <1>2 DEF tryBootstrap, Progress, Idle, Guarded, InTx
  <2>3. clock' = clock /\ lost' = lost /\ DOMAIN call' = Callers /\ cache' = [u \in Users |-> None]
    BY <1>2 DEF tryBootstrap
  <2> QED
    BY <1>1, <2>1, <2>2, <2>3 DEF AType
<1>3. CASE Tick
  <2>1. clock' = clock + 1 /\ db' = db /\ cache' = cache /\ call' = call /\ lost' = lost /\ clock' \in Nat
    BY <1>3 DEF Tick, AType
  <2>2. \A c \in Callers : Progress(call[c], clock)'
    BY <1>1, <2>1 DEF AType, Progress
  <2>3. \A u \in Users, p \in Privs : lost[u][p] <= clock + 1
    BY DEF AType
  <2> QED
    BY <1>1, <2>1, <2>2, <2>3 DEF AType
<1>4. ASSUME NEW c \in load.callers, RequestNext(c) PROVE AType'
  <2>1. /\ c \in Callers /\ DOMAIN call' = Callers /\ clock' = clock
        /\ \A x \in Callers \ {c} : call'[x] = call[x]
        /\ ReadOnly \/ TxCommits(c)
    BY <1>4, RequestFrame
  <2>2. \A x \in Callers : Progress(call[x], clock)' /\ (call'[x].at # "idle" => x \in load.callers)
    BY <1>1, <1>4, <2>1, StepGoes, Zenon DEF AType, Progress
  <2>3. /\ Tables(db') /\ lost' \in [Users -> [Privs -> Nat]]
        /\ \A u \in Users, p \in Privs : lost'[u][p] <= clock
    <3>1. CASE ReadOnly
      BY <3>1 DEF ReadOnly, AType
    <3>2. CASE TxCommits(c)
      <4>1. call[c].o \in Requests /\ call[c].o.op # "me"
        BY <2>1, <3>2, AskedAssumption, Zenon DEF AType, Progress, TxCommits, At, Guarded
      <4>2. /\ Tx(call[c].o, db).schema /\ db' = Tx(call[c].o, db).then
            /\ lost' = Loses(db, Tx(call[c].o, db).then)
        BY <3>2 DEF TxCommits
      <4> QED
        BY <4>1, <4>2, TablesKept, LosesTyped, Zenon DEF AType
    <3> QED
      BY <2>1, <3>1, <3>2
  <2>4. /\ DOMAIN cache' = Users
        /\ \A u \in Users : cache'[u] # None => cache'[u].privs \subseteq Privs /\ cache'[u].expires \in Nat
    <3>1. CASE ResolverStores(c)
      <4>1. /\ call[c].privs \subseteq Privs /\ call[c].now + TTL \in Nat
        BY <2>1, <3>1, AccessAssumption DEF ResolverStores, At, AType, Progress
      <4>2. cache' = [cache EXCEPT ![call[c].o.actor] = [privs |-> call[c].privs, expires |-> call[c].now + TTL]]
        BY <3>1 DEF ResolverStores
      <4> QED
        BY <4>1, <4>2 DEF AType
    <3>2. CASE DOMAIN cache' = Users /\ \A u \in Users : cache'[u] \in {cache[u], None}
      BY <3>2 DEF AType
    <3> QED
      BY <1>4, <3>1, <3>2, LandsAt
  <2> QED
    BY <1>1, <2>1, <2>2, <2>3, <2>4 DEF AType
<1> QED
  BY <1>2, <1>3, <1>4 DEF Next

-----------------------------------------------------------------------------
(* The cache. *)

\* Every step but a restart.
Serving == Tick \/ \E c \in load.callers : RequestNext(c)

\* A privilege that is lost is lost now: the time until which it was held only grows.
LEMMA UntilGrows ==
    ASSUME AType, Next, Serving, NEW u \in Users, NEW p \in Privs
    PROVE  /\ Until(db, lost, clock, u, p) \in Nat /\ Until(db', lost', clock', u, p) \in Nat
           /\ Until(db, lost, clock, u, p) <= Until(db', lost', clock', u, p)
<1>1. clock \in Nat /\ lost[u][p] \in Nat /\ lost[u][p] <= clock /\ clock' \in Nat /\ lost'[u][p] \in Nat
  BY NextAType DEF AType
<1>2. CASE db' = db /\ lost' = lost /\ clock' >= clock
  BY <1>1, <1>2 DEF Until
<1>3. CASE lost' = Loses(db, db') /\ clock' = clock
  BY <1>1, <1>3 DEF Until, Loses
<1>4. CASE Tick
  BY <1>1, <1>2, <1>4 DEF Tick
<1>5. ASSUME NEW c \in load.callers, RequestNext(c)
      PROVE  (db' = db /\ lost' = lost /\ clock' >= clock) \/ (lost' = Loses(db, db') /\ clock' = clock)
  BY <1>1, <1>5, RequestFrame DEF ReadOnly, TxCommits
<1> QED
  BY <1>2, <1>3, <1>4, <1>5 DEF Serving

\* What is stored or being stored stays dated while the tables change under it.
LEMMA DatesStay ==
    ASSUME AType, Dated, Next, Serving
    PROVE  /\ \A c \in Callers : call[c].at = "storing" =>
                \A p \in call[c].privs : call[c].now <= Until(db', lost', clock', call[c].o.actor, p)
           /\ \A u \in Users : cache[u] # None =>
                \A p \in cache[u].privs : cache[u].expires <= Until(db', lost', clock', u, p) + TTL
<1>1. ASSUME NEW c \in Callers, call[c].at = "storing", NEW p \in call[c].privs
      PROVE  call[c].now <= Until(db', lost', clock', call[c].o.actor, p)
  <2>1. call[c].now \in Nat /\ p \in Privs /\ call[c].o.actor \in Users
    BY <1>1, AskedAssumption, RequestFields DEF AType, Progress
  <2>2. call[c].now <= Until(db, lost, clock, call[c].o.actor, p)
    BY <1>1 DEF Dated
  <2> QED
    BY <2>1, <2>2, UntilGrows
<1>2. ASSUME NEW u \in Users, cache[u] # None, NEW p \in cache[u].privs
      PROVE  cache[u].expires <= Until(db', lost', clock', u, p) + TTL
  <2>1. cache[u].expires \in Nat /\ p \in Privs /\ TTL \in Nat
    BY <1>2, AccessAssumption DEF AType
  <2>2. cache[u].expires <= Until(db, lost, clock, u, p) + TTL
    BY <1>2 DEF Dated
  <2> QED
    BY <2>1, <2>2, UntilGrows
<1> QED
  BY <1>1, <1>2

\* A resolver stores what it read with the time it came in, which was earlier.
LEMMA NextDated == AType /\ Dated /\ Next => Dated'
<1> SUFFICES ASSUME AType, Dated, Next PROVE Dated'
  OBVIOUS
<1>1. ASSUME NEW b \in BOOLEAN, tryBootstrap(b) PROVE Dated'
  BY <1>1 DEF tryBootstrap, Dated, Idle
<1>2. CASE Tick
  <2>1. cache' = cache /\ call' = call
    BY <1>2 DEF Tick
  <2> QED
    BY <1>2, <2>1, DatesStay DEF Dated, Serving
<1>3. ASSUME NEW c \in load.callers, RequestNext(c) PROVE Dated'
  <2>1. Serving
    BY <1>3 DEF Serving
  <2>2. /\ c \in Callers /\ DOMAIN call = Callers /\ clock' = clock
        /\ \A x \in Callers \ {c} : call'[x] = call[x]
    BY <1>3, RequestFrame DEF AType
  <2>3. ASSUME NEW x \in Callers, call'[x].at = "storing", NEW p \in call'[x].privs
        PROVE  call'[x].now <= Until(db', lost', clock', call'[x].o.actor, p)
    <3>1. CASE x # c
      BY <2>1, <2>2, <2>3, <3>1, DatesStay
    <3>2. CASE x = c
      <4>1. ResolverReads(c)
        BY <1>3, <2>3, <3>2, LandsAt
      <4>2. /\ call'[c].now = call[c].now /\ call'[c].o = call[c].o
            /\ call'[c].privs = EffectivePrivileges(db, call[c].o.actor) /\ db' = db /\ call[c].at = "reading"
        BY <2>2, <4>1 DEF ResolverReads, Moves, At
      <4>3. call[c].now <= clock
        BY <2>2, <4>2 DEF AType, Progress
      <4>4. HasPrivilege(db, call[c].o.actor, p)
        BY <2>3, <3>2, <4>2, HeldIsPrivilege DEF AType
      <4> QED
        BY <2>2, <3>2, <4>2, <4>3, <4>4 DEF Until
    <3> QED
      BY <3>1, <3>2
  <2>4. ASSUME NEW u \in Users, cache'[u] # None, NEW p \in cache'[u].privs
        PROVE  cache'[u].expires <= Until(db', lost', clock', u, p) + TTL
    <3>1. CASE cache'[u] = cache[u]
      BY <2>1, <2>4, <3>1, DatesStay
    <3>2. CASE cache'[u] # cache[u]
      <4>1. ResolverStores(c)
        BY <1>3, <2>4, <3>2, LandsAt
      <4>2. /\ u = call[c].o.actor /\ cache'[u] = [privs |-> call[c].privs, expires |-> call[c].now + TTL]
            /\ call[c].at = "storing"
        BY <3>2, <4>1 DEF ResolverStores, At, AType
      <4>3. call[c].now <= Until(db', lost', clock', u, p)
        BY <2>1, <2>2, <2>4, <4>2, DatesStay
      <4>4. call[c].now \in Nat /\ TTL \in Nat /\ p \in Privs
        BY <2>2, <2>4, <4>2, AccessAssumption DEF AType, Progress
      <4> QED
        BY <2>1, <4>2, <4>3, <4>4, UntilGrows
    <3> QED
      BY <3>1, <3>2
  <2> QED
    BY <2>3, <2>4 DEF Dated
<1> QED
  BY <1>1, <1>2, <1>3 DEF Next

-----------------------------------------------------------------------------
(* Transactions that run at the same time. *)

\* The steps that leave a request inside its transaction.
LEMMA InsideTx ==
    ASSUME AType, NEW c \in load.callers, RequestNext(c), call'[c].at \in InTx
    PROVE  ReadOnly /\ (assertHasPrivilegeTx(c) \/ TxChecks(c))
<1>1. assertHasPrivilegeTx(c) \/ TxChecks(c)
  BY LandsAt DEF InTx
<1>2. ReadOnly
  BY <1>1 DEF assertHasPrivilegeTx, TxChecks, ReadOnly
<1> QED
  BY <1>1, <1>2

\* What each of them leaves.
LEMMA InsideTxLeaves ==
    ASSUME AType, NEW c \in load.callers, RequestNext(c), call'[c].at \in InTx
    PROVE  /\ call'[c].o = call[c].o /\ call[c].o \in Requests /\ call[c].o.op # "me" /\ db' = db
           /\ \/ /\ call[c].at = "assert" /\ call'[c].at = "check"
                 /\ \/ /\ <<call[c].o.actor, Needs(call[c].o)>> \in db.direct
                       /\ call'[c].locks = {GrantRow(call[c].o.actor, Needs(call[c].o))}
                    \/ /\ Needs(call[c].o) \in PrivilegesForUser(db, call[c].o.actor)
                       /\ call'[c].locks = {}
              \/ /\ call[c].at = "check" /\ call'[c].at = "commit" /\ Tx(call[c].o, db).ok
                 /\ call'[c].locks = call[c].locks \cup Tx(call[c].o, db).lock
<1>1. c \in Callers /\ DOMAIN call = Callers /\ Progress(call[c], clock) /\ load.asked \subseteq Requests
  BY AccessAssumption, AskedAssumption DEF AType
<1>2. ReadOnly /\ (assertHasPrivilegeTx(c) \/ TxChecks(c))
  BY InsideTx
<1>3. CASE assertHasPrivilegeTx(c)
  <2>1. call[c].at = "assert" /\ call[c].o \in Requests /\ call[c].o.op # "me" /\ db' = db
    BY <1>1, <1>2, <1>3, Zenon DEF assertHasPrivilegeTx, At, Progress, Guarded, ReadOnly
  <2>2. Needs(call[c].o) \in Privs
    BY <2>1, RequestFields
  <2>3. CASE <<call[c].o.actor, Needs(call[c].o)>> \in db.direct
    BY <1>1, <1>3, <2>1, <2>3 DEF assertHasPrivilegeTx, Goes, Moves, GrantRow
  <2>4. CASE <<call[c].o.actor, Needs(call[c].o)>> \notin db.direct
    <3>1. HasPrivilege(db, call[c].o.actor, Needs(call[c].o))
      BY <1>1, <1>3, <2>4 DEF assertHasPrivilegeTx, Leaves, Moves, Idle, InTx
    <3>2. Needs(call[c].o) \in PrivilegesForUser(db, call[c].o.actor)
      BY <2>4, <3>1 DEF HasPrivilege, ListByUser
    <3> QED
      BY <1>1, <1>3, <2>1, <2>4, <3>1, <3>2 DEF assertHasPrivilegeTx, Goes, Moves
  <2> QED
    BY <2>3, <2>4, Zenon
<1>4. CASE TxChecks(c)
  BY <1>1, <1>2, <1>4 DEF TxChecks, At, Progress, Guarded, ReadOnly, Goes, Leaves, Moves, Idle, InTx
<1> QED
  BY <1>2, <1>3, <1>4, Zenon

\* The row of a direct grant is locked by those that found it there, and deleted by
\* nobody else.
LEMMA NextLocked == AType /\ Locked /\ Next => Locked'
<1> SUFFICES ASSUME AType, Locked, Next PROVE Locked'
  OBVIOUS
<1>1. ASSUME NEW b \in BOOLEAN, tryBootstrap(b) PROVE Locked'
  BY <1>1 DEF tryBootstrap, Locked, Idle
<1>2. CASE Tick
  BY <1>2 DEF Tick, Locked
<1>3. ASSUME NEW c \in load.callers, RequestNext(c),
             NEW x \in Callers, NEW u \in Users, NEW p \in Privs, GrantRow(u, p) \in call'[x].locks
      PROVE  <<u, p>> \in db'.direct
  <2>1. c \in Callers /\ (\A y \in Callers \ {c} : call'[y] = call[y]) /\ (ReadOnly \/ TxCommits(c))
    BY <1>3, RequestFrame
  <2>2. CASE x # c
    <3>1. GrantRow(u, p) \in call[x].locks /\ <<u, p>> \in db.direct
      BY <1>3, <2>1, <2>2 DEF Locked
    <3>2. CASE ReadOnly
      BY <3>1, <3>2 DEF ReadOnly
    <3>3. CASE TxCommits(c)
      <4>1. ~LockedByOthers(c, Deletes(db, db'))
        BY <3>3, Zenon DEF TxCommits
      <4>2. GrantRow(u, p) \notin Deletes(db, db')
        BY <2>2, <3>1, <4>1 DEF LockedByOthers
      <4> QED
        BY <3>1, <4>2, DeletesRow
    <3> QED
      BY <2>1, <3>2, <3>3
  <2>3. CASE x = c
    <3>1. call'[c].at \in InTx
      BY <1>3, <2>3, StepGoes DEF Progress
    <3>2. db' = db /\ call[c].o \in Requests /\ call[c].o.op # "me"
      BY <1>3, <3>1, InsideTxLeaves, Zenon
    <3>3. CASE /\ <<call[c].o.actor, Needs(call[c].o)>> \in db.direct
               /\ call'[c].locks = {GrantRow(call[c].o.actor, Needs(call[c].o))}
      BY <1>3, <2>3, <3>2, <3>3 DEF GrantRow
    <3>4. CASE Tx(call[c].o, db).ok /\ GrantRow(u, p) \in Tx(call[c].o, db).lock
      <4> DEFINE o == call[c].o
      <4>1. CASE o.op = "revokePriv"
        <5>1. Tx(o, db) = RevokePrivilege(o, db)
          BY <4>1 DEF Tx
        <5>2. <<o.user, o.priv>> \in db.direct /\ GrantRow(u, p) = PrivRow(o)
          BY <3>4, <5>1 DEF RevokePrivilege
        <5> QED
          BY <3>2, <5>2 DEF GrantRow, PrivRow
      <4>2. CASE o.op = "revokeRole"
        <5>1. Tx(o, db).lock = {RoleRow(o)}
          BY <4>2 DEF Tx, RevokeRoleFromUser
        <5> QED
          BY <3>4, <5>1 DEF GrantRow, RoleRow
      <4>3. CASE o.op \notin {"revokePriv", "revokeRole"}
        BY <3>2, <3>4, <4>3, RequestFields, Zenon DEF Tx, GrantRoleToUser, CreateRole, UpdateRole, DeleteRole, AddPrivilegeToRole,
           RemovePrivilegeFromRole, GrantPrivilege
      <4> QED
        BY <4>1, <4>2, <4>3
    <3>5. CASE GrantRow(u, p) \in call[c].locks
      BY <2>1, <3>2, <3>5 DEF Locked
    <3> QED
      BY <1>3, <2>3, <3>1, <3>3, <3>4, <3>5, InsideTxLeaves
  <2> QED
    BY <2>2, <2>3
<1> QED
  BY <1>1, <1>2, <1>3 DEF Next, Locked

INSTANCE FiniteSetTheorems

\* Where one request is served at a time, the one that steps is the one under way.
LEMMA LoneCaller ==
    ASSUME AType, Cardinality(load.callers) = 1, NEW c \in load.callers, NEW x \in load.callers
    PROVE  c = x
<1>1. IsFiniteSet(load.callers)
  BY AccessAssumption, FS_Subset, Zenon DEF AType
<1>2. PICK y : load.callers = {y}
  BY <1>1, FS_Singleton, Zenon
<1> QED
  BY <1>2

\* A lone request commits what it checked.
LEMMA NextChecked == AType /\ Checked /\ Next => Checked'
<1> SUFFICES ASSUME AType, Checked, Next, Cardinality(load.callers) = 1, NEW x \in Callers, call'[x].at = "commit"
             PROVE  Tx(call'[x].o, db').ok
  BY DEF Checked, Next
<1>1. ASSUME NEW b \in BOOLEAN, tryBootstrap(b) PROVE FALSE
  BY <1>1 DEF tryBootstrap, Idle
<1>2. CASE Tick
  BY <1>2 DEF Tick, Checked
<1>3. ASSUME NEW c \in load.callers, RequestNext(c) PROVE Tx(call'[x].o, db').ok
  <2>1. x = c
    BY <1>3, RequestFrame, LoneCaller, Zenon DEF AType
  <2> QED
    BY <1>3, <2>1, InsideTxLeaves, Zenon DEF InTx
<1> QED
  BY <1>1, <1>2, <1>3 DEF Next

\* Nobody takes away what assertHasPrivilegeTx found before the transaction ends.
LEMMA NextHolderStays == AType /\ HolderStays /\ Next => HolderStays'
<1> SUFFICES ASSUME AType, HolderStays, Next, RolesStay, NEW x \in Callers, call'[x].at \in InTx
             PROVE  Backed(call'[x], db')
  BY DEF HolderStays, Next, RolesStay
<1>1. ASSUME NEW b \in BOOLEAN, tryBootstrap(b) PROVE FALSE
  BY <1>1 DEF tryBootstrap, Idle, InTx
<1>2. CASE Tick
  BY <1>2 DEF Tick, HolderStays
<1>3. ASSUME NEW c \in load.callers, RequestNext(c) PROVE Backed(call'[x], db')
  <2>1. c \in Callers /\ (\A y \in Callers \ {c} : call'[y] = call[y]) /\ (ReadOnly \/ TxCommits(c))
    BY <1>3, RequestFrame
  <2>2. CASE x # c
    <3>1. call'[x] = call[x] /\ Backed(call[x], db)
      BY <2>1, <2>2 DEF HolderStays
    <3>2. CASE ReadOnly
      BY <3>1, <3>2 DEF ReadOnly
    <3>3. CASE TxCommits(c)
      <4>1. call[c].o \in load.asked /\ call[c].o \in Requests /\ call[c].o.op # "me"
        BY <2>1, <3>3, AskedAssumption, Zenon DEF TxCommits, At, AType, Progress, Guarded
      <4>2. call[c].o.op \notin {"revokeRole", "deleteRole", "removePriv"}
        <5>1. x \in load.callers
          BY <3>1 DEF AType, InTx
        <5> QED
          BY <1>3, <2>2, <4>1, <5>1, LoneCaller DEF RolesStay
      <4>3. Tables(db) /\ Tx(call[c].o, db).schema /\ db' = Tx(call[c].o, db).then
        BY <3>3 DEF TxCommits, AType
      <4> QED
        BY <3>1, <4>1, <4>2, <4>3, RolesGrow, Zenon DEF Backed
    <3> QED
      BY <2>1, <3>2, <3>3
  <2>3. CASE x = c
    BY <1>3, <2>1, <2>3, InsideTxLeaves, Zenon DEF Backed, HolderStays, InTx
  <2> QED
    BY <2>2, <2>3
<1> QED
  BY <1>1, <1>2, <1>3 DEF Next

\* Every step keeps the invariant.
LEMMA AInvInductive == AInv /\ [Next]_vars => AInv'
<1>1. ASSUME AInv, Next PROVE AInv'
  BY <1>1, NextAType, NextDated, NextLocked, NextHolderStays, NextChecked DEF AInv
<1>2. ASSUME AInv, UNCHANGED vars PROVE AInv'
  BY <1>2 DEF AInv, vars, AType, Progress, Dated, Locked, HolderStays, RolesStay, Checked
<1> QED
  BY <1>1, <1>2

LEMMA AInvariant == Spec => []AInv
<1>1. Init => AInv
  BY InitAInv
<1>2. AInv /\ [Next]_vars => AInv'
  BY AInvInductive
<1> QED
  BY <1>1, <1>2, PTL DEF Spec

-----------------------------------------------------------------------------
(* Theorems. *)

\* identityCache: a privilege that was taken away is cached no longer than the cache's
\* TTL after the transaction that took it away, whatever a resolver stores late.
THEOREM CachedNoLonger == Spec => []StaleBounded
<1>1. AInv => StaleBounded
  <2> SUFFICES ASSUME AInv, NEW u \in Users, cache[u] # None, NEW p \in cache[u].privs, p \notin EffectivePrivileges(db, u)
               PROVE  cache[u].expires <= lost[u][p] + TTL
    BY DEF StaleBounded
  <2>1. ~HasPrivilege(db, u, p)
    BY HeldIsPrivilege DEF AInv, AType
  <2>2. cache[u].expires <= Until(db, lost, clock, u, p) + TTL
    BY DEF AInv, Dated
  <2> QED
    BY <2>1, <2>2 DEF Until
<1> QED
  BY <1>1, AInvariant, PTL

\* The holders of a privilege can be counted.
LEMMA Holders ==
    ASSUME NEW d, NEW p
    PROVE  /\ countUsersHoldingPrivilegeTx(d, p) > 0 <=> \E u \in Users : HasPrivilege(d, u, p)
           /\ countUsersHoldingPrivilegeTx(d, p) > 1 =>
                \A v : \E u \in Users \ {v} : HasPrivilege(d, u, p)
           /\ CountByPrivilege(d, p) > 1 =>
                \A v : \E u \in Users \ {v} : <<u, p>> \in d.direct
<1>1. ASSUME NEW S \in SUBSET Users
      PROVE  /\ Cardinality(S) > 0 <=> S # {}
             /\ Cardinality(S) > 1 => \A v : \E u \in S : u # v
  <2>1. IsFiniteSet(S)
    BY AccessAssumption, FS_Subset, Zenon
  <2>2. Cardinality(S) \in Nat /\ (Cardinality(S) = 0 <=> S = {})
    BY <2>1, FS_CardinalityType, FS_EmptySet, Zenon
  <2>3. ASSUME NEW v, \A u \in S : u = v, S # {} PROVE Cardinality(S) = 1
    <3>1. S = {v}
      BY <2>3
    <3> QED
      BY <3>1, FS_Singleton, Zenon
  <2> QED
    BY <2>2, <2>3
<1> QED
  BY <1>1, Zenon DEF countUsersHoldingPrivilegeTx, CountByPrivilege

\* A revocation that passed its checks leaves somebody with what it guards.
LEMMA RevocationLeaves ==
    ASSUME NEW d, Tables(d), NEW o \in Requests, Tx(o, d).ok, NEW p \in MetaPrivileges,
           o.op = "revokeRole" \/ (o.op = "revokePriv" /\ p = PrivilegesGrant),
           NEW v \in Users, HasPrivilege(d, v, p)
    PROVE  \E u \in Users : HasPrivilege(Tx(o, d).then, u, p)
<1> DEFINE e == Tx(o, d).then
<1>0. DOMAIN d = Columns /\ p \in Privs /\ o.user \in Users
  BY AccessAssumption DEF Tables, Requests
<1>1. CASE o.op = "revokeRole"
  <2>1. Tx(o, d) = RevokeRoleFromUser(o, d)
    BY <1>1 DEF Tx
  <2>2. assertNotLastMetaHolderTx(d, o.user, o.role) /\ o.role \in RoleIds(d)
    BY <2>1 DEF RevokeRoleFromUser
  <2>3. /\ e.name = d.name /\ e.carries = d.carries /\ e.direct = d.direct
        /\ e.holds = d.holds \ {<<o.user, o.role>>}
    BY <1>0, <2>1 DEF RevokeRoleFromUser, Columns
  <2>4. ASSUME NEW u, HasPrivilege(d, u, p), u # o.user \/ p \notin d.carries[o.role]
        PROVE  HasPrivilege(e, u, p)
    <3>1. CASE p \in ListByUser(d, u)
      BY <2>3, <3>1 DEF HasPrivilege, ListByUser
    <3>2. CASE p \in PrivilegesForUser(d, u)
      <4>1. PICK r \in RoleIds(d) : <<u, r>> \in d.holds /\ p \in d.carries[r]
        BY <3>2, Zenon DEF PrivilegesForUser
      <4>2. <<u, r>> \in e.holds /\ r \in RoleIds(e) /\ p \in e.carries[r]
        BY <2>3, <2>4, <4>1, Zenon DEF RoleIds
      <4> QED
        BY <4>2 DEF HasPrivilege, PrivilegesForUser
    <3> QED
      BY <2>4, <3>1, <3>2 DEF HasPrivilege
  <2>5. CASE p \notin d.carries[o.role]
    BY <2>4, <2>5
  <2>6. CASE countUsersHoldingPrivilegeTx(d, p) > 1
    BY <2>4, <2>6, Holders, Zenon
  <2>7. CASE userHasPrivilegeOutsideTx(d, o.user, p, o.role)
    <3>1. CASE <<o.user, p>> \in d.direct
      BY <1>0, <2>3, <3>1 DEF HasPrivilege, ListByUser
    <3>2. CASE \E q \in RoleIds(d) \ {o.role} : <<o.user, q>> \in d.holds /\ p \in d.carries[q]
      <4>1. PICK q \in RoleIds(d) \ {o.role} : <<o.user, q>> \in d.holds /\ p \in d.carries[q]
        BY <3>2
      <4>2. <<o.user, q>> \in e.holds /\ q \in RoleIds(e) /\ p \in e.carries[q]
        BY <2>3, <4>1 DEF RoleIds
      <4> QED
        BY <1>0, <4>2 DEF HasPrivilege, PrivilegesForUser
    <3> QED
      BY <2>7, <3>1, <3>2, Zenon DEF userHasPrivilegeOutsideTx
  <2> QED
    BY <2>2, <2>5, <2>6, <2>7, Zenon DEF assertNotLastMetaHolderTx
<1>2. CASE o.op = "revokePriv" /\ p = PrivilegesGrant
  <2>1. Tx(o, d) = RevokePrivilege(o, d)
    BY <1>2 DEF Tx
  <2>2. o.priv = PrivilegesGrant => CountByPrivilege(d, PrivilegesGrant) > 1
    BY <2>1 DEF RevokePrivilege
  <2>3. /\ e.name = d.name /\ e.carries = d.carries /\ e.holds = d.holds
        /\ e.direct = d.direct \ {<<o.user, o.priv>>}
    BY <1>0, <2>1 DEF RevokePrivilege, Columns
  <2>4. CASE o.priv = PrivilegesGrant
    <3>1. PICK u \in Users \ {o.user} : <<u, p>> \in d.direct
      BY <1>2, <2>2, <2>4, Holders, Zenon
    <3>2. <<u, p>> \in e.direct
      BY <2>3, <3>1
    <3> QED
      BY <1>0, <3>1, <3>2 DEF HasPrivilege, ListByUser
  <2>5. CASE o.priv # PrivilegesGrant
    BY <1>2, <2>3, <2>5 DEF HasPrivilege, ListByUser, PrivilegesForUser, RoleIds
  <2> QED
    BY <2>4, <2>5
<1> QED
  BY <1>1, <1>2, Zenon

\* The step that invalidates the cache next is the commit of that request.
LEMMA CommitStep ==
    ASSUME AType, Next, NEW c \in Callers, At(c, "commit"), call'[c].at = "invalidate"
    PROVE  /\ TxCommits(c) /\ call[c].o \in Requests
<1>1. ASSUME NEW b \in BOOLEAN, tryBootstrap(b) PROVE FALSE
  BY <1>1 DEF tryBootstrap, Idle
<1>2. CASE Tick
  BY <1>2 DEF Tick, At
<1>3. ASSUME NEW x \in load.callers, RequestNext(x) PROVE TxCommits(c)
  <2>1. x = c /\ DOMAIN call = Callers
    BY <1>3, RequestFrame, Zenon DEF At, AType
  <2> QED
    BY <1>3, <2>1, LandsAt
<1>4. call[c].o \in Requests
  BY AskedAssumption DEF AType, Progress, At
<1> QED
  BY <1>1, <1>2, <1>3, <1>4, Zenon DEF Next

\* assertNotLastMetaHolderTx and CountByPrivilege: no revocation, of a role or of a direct
\* grant, leaves a guarded privilege without a holder, where requests do not overlap.
THEOREM RevocationsKeepAHolder == Spec => RevokeKeepsHolder
<1> DEFINE Guards(c) == CASE call[c].o.op = "revokeRole" -> MetaPrivileges
                          [] call[c].o.op = "revokePriv" -> {PrivilegesGrant}
                          [] OTHER                       -> {}
           Kept == Cardinality(load.callers) = 1 => \A c \in Callers : At(c, "commit") /\ call'[c].at = "invalidate" =>
                     \A p \in Guards(c) : countUsersHoldingPrivilegeTx(db, p) > 0 => countUsersHoldingPrivilegeTx(db', p) > 0
<1>1. ASSUME AInv, Next PROVE Kept
  <2> SUFFICES ASSUME Cardinality(load.callers) = 1, NEW c \in Callers, At(c, "commit"), call'[c].at = "invalidate",
                      NEW p \in Guards(c), countUsersHoldingPrivilegeTx(db, p) > 0
               PROVE  countUsersHoldingPrivilegeTx(db', p) > 0
    OBVIOUS
  <2>1. Tx(call[c].o, db).ok
    BY <1>1 DEF AInv, Checked, At
  <2>2. db' = Tx(call[c].o, db).then /\ call[c].o \in Requests /\ Tables(db)
    BY <1>1, CommitStep, Zenon DEF AInv, AType, TxCommits
  <2>3. /\ p \in MetaPrivileges
        /\ call[c].o.op = "revokeRole" \/ (call[c].o.op = "revokePriv" /\ p = PrivilegesGrant)
    BY DEF MetaPrivileges
  <2>4. PICK v \in Users : HasPrivilege(db, v, p)
    BY Holders
  <2>5. \E u \in Users : HasPrivilege(db', u, p)
    BY <2>1, <2>2, <2>3, <2>4, RevocationLeaves, Zenon
  <2> QED
    BY <2>5, Holders
<1>2. AInv /\ [Next]_vars => [Kept]_vars
  BY <1>1
<1> QED
  BY <1>2, AInvariant, PTL DEF Spec, RevokeKeepsHolder

\* assertHasPrivilegeTx: the privilege a change needs is still its actor's when it commits,
\* even when another request revokes direct grants at the same time.
THEOREM ChangesAreMadeByHolders == Spec => ChangedByHolder
<1> DEFINE Held == RolesStay => \A c \in Callers : call[c].at = "commit" /\ call'[c].at = "invalidate" =>
                     HasPrivilege(db, call[c].o.actor, Needs(call[c].o))
<1>1. ASSUME AInv PROVE Held
  <2> SUFFICES ASSUME RolesStay, NEW c \in Callers, call[c].at = "commit"
               PROVE  HasPrivilege(db, call[c].o.actor, Needs(call[c].o))
    OBVIOUS
  <2>1. call[c].o.actor \in Users /\ Needs(call[c].o) \in Privs
    BY <1>1, AskedAssumption, RequestFields, Zenon DEF AInv, AType, Progress
  <2>2. Backed(call[c], db)
    BY <1>1 DEF AInv, HolderStays, InTx
  <2>3. GrantRow(call[c].o.actor, Needs(call[c].o)) \in call[c].locks => <<call[c].o.actor, Needs(call[c].o)>> \in db.direct
    BY <1>1, <2>1, Zenon DEF AInv, Locked
  <2> QED
    BY <2>1, <2>2, <2>3 DEF Backed, HasPrivilege, ListByUser
<1>2. AInv /\ [Next]_vars => [Held]_vars
  BY <1>1
<1> QED
  BY <1>2, AInvariant, PTL DEF Spec, ChangedByHolder

=============================================================================
