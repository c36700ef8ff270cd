------------------------------- MODULE Comanage -------------------------------
(***************************************************************************)
(* The COmanage Identity-Provisioner beside the SLURM connector.  The      *)
(* creation of a user's row on the cluster starts a run: a chain of calls  *)
(* to the registry, each of which finds a record or creates it, that ends  *)
(* by marking the row provisioned.  From then on SlurmAssociations lets    *)
(* the user in.  A run is never repeated by itself; a row that is deleted  *)
(* and created again, maybe under another name, starts another.            *)
(*                                                                         *)
(* The registry is external.  It has one person per e-mail address, named  *)
(* here by the user with that address, and assigns a person its identifier *)
(* and its uidnumber when it is created or later.  A local username is     *)
(* never given to a second user.                                           *)
(***************************************************************************)
EXTENDS SlurmAssociations, Sequences

CONSTANT CustosClusterID        \* the cluster the connector serves

\* The rows an instance starts with are those of the schema, nobody has access yet whose
\* account has not landed, a local username stays with its user, and an account whose
\* rows an instance follows changes only with them.
ASSUME LoadsAssumption ==
    /\ None \notin Users /\ CustosClusterID \in Clusters /\ ClusterOf \in [Allocs -> Clusters]
    /\ \A l \in Loads :
         /\ DOMAIN l.core = {"alloc", "member", "account", "override", "mapped"}
         /\ DOMAIN l.core.account = Clusters \X Users
         /\ \A mv \in l.moves : mv.what \in DOMAIN l.core
         /\ \A k \in DOMAIN l.slurm : k[3] \in Users /\ k[2] \in Allocs =>
              k[1] \in Clusters /\ l.core.account[k[1], k[3]] \in {"fresh", "ready"}
         /\ l.names \in [Users -> Seq(STRING)]
         /\ \A u, v \in Users : \A i \in DOMAIN l.names[u], j \in DOMAIN l.names[v] : l.names[u][i] = l.names[v][j] => u = v
         /\ \A mv \in l.moves : \A u \in Users : mv.what = "account" /\ mv.id = <<CustosClusterID, u>> => l.names[u] = <<>>

VARIABLES
    registry,   \* people, groups, and org identities that are linked to nobody (external)
    stored,     \* users with a row of source "comanage" in user_identities
    bound,      \* users with an OIDC subject in user_identities
    gen,        \* how often the user's row was created, its ID
    runs,       \* per row: the subscriber's goroutine
    lost        \* calls that failed

cvars == <<registry, stored, bound, gen, runs, lost>>
avars == <<vars, cvars>>

Rows(u) == Len(load.names[u])     \* how often the row is created at most
Gens == UNION {1 .. Rows(u) : u \in Users}
Ids == Users \X Gens
LocalUsername(r) == load.names[r[1]][r[2]]
Account(u) == core.account[CustosClusterID, u]

Assigned == {"id", "uidnumber"}
NoAccount == [name |-> None, group |-> 0]
NoPerson == [there |-> FALSE, ids |-> {}, links |-> 0, login |-> None, account |-> NoAccount]
Over == {"none", "done", "failed"}

AccessInit ==
    /\ Init
    /\ registry = [people |-> [u \in Users |-> NoPerson], groups |-> <<>>, orphans |-> 0]
    /\ stored = {} /\ bound = load.bound
    /\ gen = [u \in Users |-> 0]
    /\ runs = [r \in Ids |-> [pc |-> "none"]]
    /\ lost = 0

-----------------------------------------------------------------------------
(* The client: what a call finds, and what it makes of the registry. *)

Person(u) == registry.people[u]
Group(g) == registry.groups[g]

FindCoPersonByEmail(u) == Person(u).there
FindIdentifierValueOnPerson(u) == "id" \in Person(u).ids
GetPersonComposite(u) == Person(u)
FindCoGroupByName(name) ==      \* the first of that name, if there is one
    {g \in DOMAIN registry.groups : Group(g).name = name /\ \A h \in 1 .. g - 1 : Group(h).name # name}
FindIdentifierOnGroup(g, type) == type \in DOMAIN Group(g).ids
FindCoGroupMember(g, u) == u \in Group(g).members
FindUnixClusterGroup(g) == Group(g).cluster

\* A person that is there already is not made twice.
CreatePerson(u, ids) ==
    [registry EXCEPT !.people[u] = IF @.there THEN @ ELSE [NoPerson EXCEPT !.there = TRUE, !.ids = ids]]
CreateOrgIdentity == [registry EXCEPT !.orphans = @ + 1]
CreateIdentifierOnOrgIdentity == registry
CreateCoOrgIdentityLink(u) == [registry EXCEPT !.people[u].links = @ + 1, !.orphans = @ - 1]
CreateCoGroup(name) ==
    [registry EXCEPT !.groups = Append(@, [name |-> name, ids |-> <<>>, members |-> {}, cluster |-> FALSE])]
CreateIdentifierOnGroup(g, type, value) ==
    [registry EXCEPT !.groups[g].ids = [t \in DOMAIN @ \cup {type} |-> IF t \in DOMAIN @ THEN @[t] ELSE value]]
CreateCoGroupMember(g, u) == [registry EXCEPT !.groups[g].members = @ \cup {u}]
CreateUnixClusterGroup(g) == [registry EXCEPT !.groups[g].cluster = TRUE]

\* Whatever the body leaves out is deleted.
UpdatePerson(u, body) == [registry EXCEPT !.people[u] = body]

-----------------------------------------------------------------------------
(* Steps of a run.  A call that fails ends it, whether it took effect or not. *)

At(r, pc) == runs[r].pc = pc
Goes(r, to) == runs' = [runs EXCEPT ![r] = to]
To(r, pc) == [runs[r] EXCEPT !.pc = pc]
Fault == lost < load.losses /\ lost' = lost + 1
Gone == [pc |-> "failed"]

Read(r, to) ==
    /\ UNCHANGED registry
    /\ \/ Goes(r, to) /\ UNCHANGED lost
       \/ Fault /\ Goes(r, Gone)

Do(r, effect, to) ==
    \/ registry' = effect /\ Goes(r, to) /\ UNCHANGED lost
    \/ Fault /\ registry' \in {registry, effect} /\ Goes(r, Gone)

\* A 5xx is retried: an attempt that took effect is repeated.
Retried(r, effect, to) == Fault /\ registry' = effect /\ Goes(r, to)

\* The subject is read once, at the start.
handleClusterUserCreate(r) ==
    /\ At(r, "queued")
    /\ Read(r, [pc |-> "stored", sub |-> r[1] \in bound, composite |-> NoPerson, group |-> 0])
    /\ UNCHANGED stored

Composed(r, pc) == [To(r, pc) EXCEPT !.composite = GetPersonComposite(r[1])]

findStoredPersonID(u) == u \in stored
findByEmailExact(u) == FindCoPersonByEmail(u)

\* By the stored ID, by e-mail, or created: a person whose identifier is not
\* assigned yet counts as absent.
lookupOrCreateCoPerson(r) ==
    /\ UNCHANGED stored
    /\ \/ At(r, "stored") /\ Read(r, IF findStoredPersonID(r[1]) THEN Composed(r, "keep") ELSE To(r, "email"))
       \/ /\ At(r, "email")
          /\ Read(r, IF findByEmailExact(r[1]) /\ FindIdentifierValueOnPerson(r[1])
                     THEN Composed(r, "keep") ELSE To(r, "post"))
       \/ /\ At(r, "post")
          /\ \E ids \in IF load.slow THEN SUBSET Assigned ELSE {Assigned} :
                LET made == CreatePerson(r[1], ids) IN
                Do(r, made, To(r, IF "id" \in made.people[r[1]].ids THEN "keep" ELSE "wait"))

\* The last of the polls decides.
waitForCreatedPersonID(r) ==
    /\ At(r, "wait")
    /\ Read(r, IF FindIdentifierValueOnPerson(r[1]) THEN Composed(r, "keep") ELSE Gone)
    /\ UNCHANGED stored

\* A failure to store is only logged.
storePersonID(r) ==
    /\ At(r, "keep")
    /\ \/ stored' = stored \cup {r[1]} /\ UNCHANGED lost
       \/ Fault /\ UNCHANGED stored
    /\ Goes(r, To(r, "composite"))
    /\ UNCHANGED registry

\* The composite is read unless the lookup read it; it must show a uidnumber.
extractIdentifier(r) ==
    /\ At(r, "composite")
    /\ LET c == IF runs[r].composite = NoPerson THEN GetPersonComposite(r[1]) ELSE runs[r].composite
       IN Read(r, IF "uidnumber" \in c.ids THEN [To(r, "link") EXCEPT !.composite = c] ELSE Gone)
    /\ UNCHANGED stored

extractOrgIdentifierValues(r) == runs[r].composite.links > 0

\* An org identity, its identifier and its link: three calls.
ensureOIDCLinkage(r) ==
    /\ UNCHANGED stored
    /\ \/ /\ At(r, "link") /\ (~runs[r].sub \/ extractOrgIdentifierValues(r))
          /\ Goes(r, To(r, "group")) /\ UNCHANGED <<registry, lost>>
       \/ /\ At(r, "link") /\ runs[r].sub /\ ~extractOrgIdentifierValues(r)
          /\ \/ Do(r, CreateOrgIdentity, To(r, "subject"))
             \/ Retried(r, [CreateOrgIdentity EXCEPT !.orphans = @ + 1], To(r, "subject"))
       \/ At(r, "subject") /\ Do(r, CreateIdentifierOnOrgIdentity, To(r, "attach"))
       \/ At(r, "attach") /\ Do(r, CreateCoOrgIdentityLink(r[1]), To(r, "group"))

findOrCreateCoGroup(r) ==
    /\ UNCHANGED stored
    /\ \/ At(r, "group") /\ FindCoGroupByName(LocalUsername(r)) = {} /\ Read(r, To(r, "new group"))
       \/ /\ At(r, "group")
          /\ \E g \in FindCoGroupByName(LocalUsername(r)) : Read(r, [To(r, "uid") EXCEPT !.group = g])
       \/ /\ At(r, "new group")
          /\ LET made == CreateCoGroup(LocalUsername(r))
                 n == Len(made.groups)
             IN \/ Do(r, made, [To(r, "uid") EXCEPT !.group = n])
                \/ Retried(r, [made EXCEPT !.groups = Append(@, @[n])], [To(r, "uid") EXCEPT !.group = n + 1])

\* A record of the group is found, or else created.
Making == [uid |-> "new uid", gidnumber |-> "new gidnumber", member |-> "new member", cluster |-> "new cluster"]
FindOrCreate(r, pc, found, effect, next) ==
    /\ UNCHANGED stored
    /\ \/ At(r, pc) /\ Read(r, To(r, IF found THEN next ELSE Making[pc]))
       \/ At(r, Making[pc]) /\ Do(r, effect, To(r, next))

findOrCreateIdentifier(r, type, value, next) ==
    LET g == runs[r].group IN
    FindOrCreate(r, type, FindIdentifierOnGroup(g, type), CreateIdentifierOnGroup(g, type, value), next)

findOrCreateCoGroupMember(r) ==
    LET g == runs[r].group IN
    FindOrCreate(r, "member", FindCoGroupMember(g, r[1]), CreateCoGroupMember(g, r[1]), "cluster")

\* Mutant of the next one: any error is taken for a group that is attached.
AttachedAnyway(r) ==
    LET g == runs[r].group IN
    \/ FindOrCreate(r, "cluster", FindUnixClusterGroup(g), CreateUnixClusterGroup(g), "fetch")
    \/ At(r, "new cluster") /\ Fault /\ Goes(r, To(r, "fetch")) /\ UNCHANGED <<registry, stored>>

\* A GET that fails is followed by the POST; a POST that answers 500 by another
\* GET, which shows whether the group is attached; a 4xx is taken for attached.
findOrCreateUnixClusterGroup(r) ==
    LET g == runs[r].group IN
    \/ FindOrCreate(r, "cluster", FindUnixClusterGroup(g), CreateUnixClusterGroup(g), "fetch")
    \/ /\ At(r, "cluster") /\ Fault /\ Goes(r, To(r, "new cluster"))
       /\ UNCHANGED <<registry, stored>>
    \/ /\ At(r, "new cluster")
       /\ \/ Retried(r, CreateUnixClusterGroup(g), To(r, "fetch"))
          \/ load.refuses /\ Retried(r, registry, To(r, "fetch"))
       /\ UNCHANGED stored

\* Mutant of the next one: the composite of the lookup serves again.
RefetchNothing(r) == At(r, "fetch") /\ Read(r, To(r, "put")) /\ UNCHANGED stored

getPersonComposite(r) == At(r, "fetch") /\ Read(r, Composed(r, "put")) /\ UNCHANGED stored

\* Everything else goes back as it was read.
mergeUnixClusterAccount(composite, block) == [composite EXCEPT !.account = block]
mergeLoginIdentifier(composite, username) == [composite EXCEPT !.login = username]

updatePerson(r) ==
    LET name == LocalUsername(r)
        merged == mergeUnixClusterAccount(runs[r].composite, [name |-> name, group |-> runs[r].group])
    IN /\ At(r, "put")
       /\ Do(r, UpdatePerson(r[1], mergeLoginIdentifier(merged, name)), To(r, "mark"))
       /\ UNCHANGED stored

ensurePOSIXAccountImpl(r) ==
    \/ handleClusterUserCreate(r)
    \/ lookupOrCreateCoPerson(r)
    \/ waitForCreatedPersonID(r)
    \/ storePersonID(r)
    \/ extractIdentifier(r)
    \/ ensureOIDCLinkage(r)
    \/ findOrCreateCoGroup(r)
    \/ findOrCreateIdentifier(r, "uid", LocalUsername(r), "gidnumber")
    \/ findOrCreateIdentifier(r, "gidnumber", r[1], "member")
    \/ findOrCreateCoGroupMember(r)
    \/ findOrCreateUnixClusterGroup(r)
    \/ getPersonComposite(r)
    \/ updatePerson(r)

-----------------------------------------------------------------------------
(* Rows of the cluster, and the whole. *)

SetAccount(u, to) == core' = [core EXCEPT !.account[<<CustosClusterID, u>>] = to]

\* Mutant of the next one: the row is left as it is.
MarkNothing(r) ==
    /\ At(r, "mark") /\ Goes(r, [pc |-> "done"])
    /\ UNCHANGED <<core, registry, stored, bound, gen, lost>>

\* The row of the run, if it still exists; a failure is only logged.
MarkComputeClusterUserProvisioned(r) ==
    /\ At(r, "mark")
    /\ \/ /\ IF gen[r[1]] = r[2] /\ Account(r[1]) # None THEN SetAccount(r[1], "fresh") ELSE UNCHANGED core
          /\ UNCHANGED lost
       \/ Fault /\ UNCHANGED core
    /\ Goes(r, [pc |-> "done"])
    /\ UNCHANGED <<registry, stored, bound, gen>>

\* One row per user; the event is published after the commit.
CreateComputeClusterUser(u) ==
    /\ Account(u) = None /\ gen[u] < Rows(u)
    /\ load.overlaps \/ \A g \in Gens : runs[<<u, g>>].pc \in Over
    /\ SetAccount(u, "pending")
    /\ gen' = [gen EXCEPT ![u] = @ + 1]
    /\ Goes(<<u, gen[u] + 1>>, [pc |-> "queued"])
    /\ UNCHANGED <<registry, stored, bound, lost>>

\* Nobody subscribes to the deletion.
DeleteComputeClusterUser(u) ==
    /\ Account(u) # None /\ gen[u] \in 1 .. Rows(u) - 1
    /\ SetAccount(u, None)
    /\ UNCHANGED cvars

\* The user logs in for the first time.
LinkSub(u) ==
    /\ u \in load.logs \ bound /\ bound' = bound \cup {u}
    /\ UNCHANGED <<core, registry, stored, gen, runs, lost>>

\* The registry assigns what a person has not got yet.
AssignIdentifiers(u) ==
    /\ Person(u).there /\ Person(u).ids # Assigned
    /\ registry' = [registry EXCEPT !.people[u].ids = Assigned]
    /\ UNCHANGED <<core, stored, bound, gen, runs, lost>>

Provision == \E r \in Ids :
    \/ ensurePOSIXAccountImpl(r) /\ UNCHANGED <<core, bound, gen>>
    \/ MarkComputeClusterUserProvisioned(r)

RowStep ==
    \/ Provision
    \/ \E u \in Users :
          CreateComputeClusterUser(u) \/ DeleteComputeClusterUser(u) \/ LinkSub(u) \/ AssignIdentifiers(u)

\* A restart also ends the runs.
Killed(r) == IF runs[r].pc \in Over THEN runs[r] ELSE Gone
ConnectorStep ==
    /\ IF load.slurmOn THEN Step ELSE Restart
    /\ runs' = IF restarts' = restarts THEN runs ELSE [r \in Ids |-> Killed(r)]
    /\ UNCHANGED <<registry, stored, bound, gen, lost>>

Beside(A) == A /\ UNCHANGED <<moves, bus, tasks, slurm, accounts, sweep, faults, restarts>>
AccessNext == Watched(ConnectorStep \/ Beside(RowStep))

\* As in LiveSpec; a run's goroutine goes on too.
AccessFairness ==
    /\ WF_vars(load.slurmOn /\ Watched(StartReconciler))
    /\ WF_vars(load.slurmOn /\ Watched(Dispatch))
    /\ WF_vars(load.slurmOn /\ Watched(Serve))
    /\ WF_vars(load.slurmOn /\ Watched(Elapse))
    /\ WF_avars(Watched(Beside(Provision)))

AccessSpec == AccessInit /\ [][AccessNext]_avars /\ AccessFairness

-----------------------------------------------------------------------------
(* Properties. *)

\* No account is taken back, by a change of the core or with its row.
RowsStay ==
    /\ \A mv \in Moves : mv.what = "account" => mv.to \in {"fresh", "ready"}
    /\ \A u \in Users : Rows(u) <= 1

\* No member has an association on a cluster where the account has not landed
\* (errNotProvisioned), whichever of the subscribers and the sweep wrote it: as long as
\* no account is taken back, because nobody subscribes to that.
NoAccessBeforeAccount ==
    RowsStay => \A k \in DOMAIN slurm : k[3] \in Users /\ k[2] \in Allocs => Provisioned(<<k[1], k[3]>>)

\* A cluster account in the registry is one the directory can export: its
\* primary group has the account's name, the person's uidnumber for gidnumber and
\* the person as a member, and is attached to the cluster
\* (ensurePOSIXAccountImpl), whatever calls failed and however runs overlap.  A
\* row marked provisioned has such an account, under the row's name, and the
\* user's subject linked once to the person if it was known when the run began
\* (MarkComputeClusterUserProvisioned comes last), unless runs overlap.
AccountComplete ==
    \A u \in Users :
        /\ Person(u).account # NoAccount =>
              LET name == Person(u).account.name
                  g == Group(Person(u).account.group)
              IN /\ g.name = name /\ Person(u).login = name
                 /\ g.ids = [uid |-> name, gidnumber |-> u]
                 /\ u \in g.members
                 /\ g.cluster \/ load.refuses
        /\ ~load.overlaps /\ gen[u] > 0 /\ Provisioned(<<CustosClusterID, u>>) =>
              Person(u).account.name = LocalUsername(<<u, gen[u]>>) /\ (u \in load.bound => Person(u).links = 1)

\* The full replacement of a person never drops what another call added to it:
\* neither a link nor an identifier (updatePerson).
NothingWiped ==
    [][~load.overlaps => \A u \in Users :
          Person(u).links <= Person(u)'.links /\ Person(u).ids \subseteq Person(u)'.ids]_avars

\* Where no call fails and nothing restarts, a row that is created is marked
\* provisioned, without any retry of the event.
AccountLands == load.calm => \A u \in Users : Account(u) = "pending" ~> Provisioned(<<CustosClusterID, u>>)
=============================================================================
