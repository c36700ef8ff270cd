-------------------------------- MODULE Projects --------------------------------
(***************************************************************************)
(* Projects and their governance roles, compute allocations, memberships   *)
(* and per-resource overrides: stores, service operations, HTTP handlers   *)
(* and the policies that scope a read to the caller.  A request names its  *)
(* caller and says whether the caller holds the read privilege; the        *)
(* filter q stands for the set of names its pattern matches.               *)
(***************************************************************************)
EXTENDS Records

-----------------------------------------------------------------------------
(* Projects. *)

FindProject(id) == Found(db.projects, id)
FindProjectByOriginatedID(orig) == RowsWhere("projects", "orig", orig)
FindByPI(u) == RowsWhere("projects", "pi", u)
CreateProjectRow(id, row) == Insert("projects", id, row)
UpdateProjectRow(id, row) == Update("projects", id, row, row)
\* Mutant of the next one: the row that was read is written back.
UpdateWholeRow(id, row) == Update("projects", id, row, row)
UpdateStatusColumn(id, row) == Update("projects", id, [status |-> row.status], row)
DeleteProjectRow(id) == Delete("projects", id)

\* One page of the rows that match every filter given, and how many match.
Page(ids, in) ==
    LET n == Max({0, Min({Clamp(in.limit), Cardinality(ids) - Max({in.offset, 0})})}) IN
    {[items |-> s, total |-> Cardinality(ids)] : s \in kSubset(n, ids)}
ProjectMatches(i, in) ==
    /\ in.pi = None \/ db.projects[i].pi = in.pi
    /\ in.status = None \/ db.projects[i].status = in.status
    /\ in.q = None \/ {db.projects[i].title, db.projects[i].orig} \cap in.q # {}
ListProjectRows(in) == Page({i \in DOMAIN db.projects : ProjectMatches(i, in)}, in)

\* The PI is joined from users; blank when that row is gone.
WithPI(i) == [id |-> i, project |-> db.projects[i], pi |-> IF Known("users", db.projects[i].pi) THEN db.projects[i].pi ELSE None]
FindByIDWithPI(id) == IF Known("projects", id) THEN Ok(WithPI(id)) ELSE Err(ErrNotFound)
ListWithPI(in) == {[p EXCEPT !.items = {WithPI(i) : i \in @}] : p \in ListProjectRows(in)}

ActiveIn(i, u) == db.memberships[i].user = u /\ db.memberships[i].status = "ACTIVE"
OnAllocationOf(p, u) == \E i \in DOMAIN db.memberships :
    ActiveIn(i, u) /\ \E a \in DOMAIN db.allocs : db.memberships[i].alloc = a /\ db.allocs[a].project = p

IsParticipantRow(p, u) == Known("projectMemberships", <<p, u>>) \/ OnAllocationOf(p, u)
ListWithPIForParticipant(u) ==
    {WithPI(p) : p \in {q \in DOMAIN db.projects : Known("projectMemberships", <<q, u>>) \/ OnAllocationOf(q, u)}}

CreateProject(in) ==
    IF in.title = None \/ in.pi = None THEN Err(ErrInvalidInput)
    ELSE IF ~Known("users", in.pi) THEN Err(ErrInvalidInput)
    ELSE IF in.orig # None /\ FindProjectByOriginatedID(in.orig) # {} THEN Err(ErrAlreadyExists)
    ELSE CreateProjectRow(in.id, [orig |-> in.orig, title |-> in.title, pi |-> in.pi, status |-> Or(in.status, "ACTIVE")])
GetProject(in) == FindProject(in.id)
GetProjectByOriginatedID(in) == Row("projects", FindProjectByOriginatedID(in.orig))
ListProjectsByPI(in) == Ok(FindByPI(in.pi))
ListProjects(in) == {Ok(page) : page \in ListProjectRows(in)}
GetProjectWithPI(in) == FindByIDWithPI(in.id)
ListProjectsWithPI(in) == {Ok(page) : page \in ListWithPI(in)}
ListProjectsForParticipant(in) == Required({in.caller}, Ok(ListWithPIForParticipant(in.caller)))
IsProjectParticipant(in) == Required({in.id, in.caller}, Ok(IsParticipantRow(in.id, in.caller)))
UpdateProject(in) ==
    IF ~Known("projects", in.id) THEN Err(ErrNotFound)
    ELSE LET old == db.projects[in.id] IN
         UpdateProjectRow(in.id, [orig |-> Or(in.orig, old.orig), title |-> Or(in.title, old.title),
                                  pi |-> Or(in.pi, old.pi), status |-> Or(in.status, old.status)])
UpdateProjectStatus(in) ==
    IF in.status = None THEN Err(ErrInvalidInput)
    ELSE IF ~Known("projects", in.id) THEN Err(ErrNotFound)
    ELSE UpdateStatusColumn(in.id, [db.projects[in.id] EXCEPT !.status = in.status])
DeleteProject(in) == IF ~Known("projects", in.id) THEN Err(ErrNotFound) ELSE DeleteProjectRow(in.id)

-----------------------------------------------------------------------------
(* Governance roles: the row of (project, user).  No events. *)

GovernanceRoles == {"PI", "CO_PI", "ALLOCATION_MANAGER"}
IsGovernanceRole(role) == role \in GovernanceRoles
normalizeProjectRole(raw) == IF raw \in GovernanceRoles THEN raw ELSE None

FindRole(p, u) == IF Known("projectMemberships", <<p, u>>) THEN db.projectMemberships[<<p, u>>].role ELSE None
FindRolesByProject(p) == RowsWhere("projectMemberships", "project", p)
FindPIByProject(p) == RowsWherePair("projectMemberships", "project", p, "role", "PI")
CreateRoleRow(p, u, role) == Silent(Insert("projectMemberships", <<p, u>>, [project |-> p, user |-> u, role |-> role]))
UpdateRole(p, u, role) == Silent(Update("projectMemberships", <<p, u>>, [role |-> role], None))
DeleteRoleRow(p, u) == DeleteUnread("projectMemberships", <<p, u>>)

ErrPIChange == "ErrPIChange"

EnsureProjectMembership(in) ==
    LET existing == FindRole(in.project, in.user)  pr == normalizeProjectRole(in.role) IN
    IF None \in {in.project, in.user} THEN Err(ErrInvalidInput)
    ELSE IF in.role \in {"MEMBER", None}
         THEN CASE existing = None -> Noop
                [] existing = "PI" -> Err(ErrPIChange)
                [] OTHER           -> DeleteRoleRow(in.project, in.user)
    ELSE IF pr = None THEN Err(ErrInvalidInput)
    ELSE IF \/ pr = "PI" /\ FindPIByProject(in.project) \ {<<in.project, in.user>>} # {}
            \/ existing = "PI" /\ pr # "PI" THEN Err(ErrPIChange)
    ELSE CASE existing = pr             -> Noop
           [] existing \notin {pr, None} -> UpdateRole(in.project, in.user, pr)
           [] existing = None           -> CreateRoleRow(in.project, in.user, pr)
ProjectRoleForUser(p, u) == FindRole(p, u)
ListProjectMemberships(in) == Required({in.project}, Ok(FindRolesByProject(in.project)))

-----------------------------------------------------------------------------
(* Compute allocations. *)

FindAllocation(id) == Found(db.allocs, id)
FindByProject(p) == RowsWhere("allocs", "project", p)
FindByCluster(k) == RowsWhere("allocs", "cluster", k)
CreateAllocationRow(id, row) == Insert("allocs", id, row)
UpdateAllocationRow(id, row) == Update("allocs", id, row, row)
DeleteAllocationRow(id) == Delete("allocs", id)
FindByParticipant(u) ==
    {a \in DOMAIN db.allocs : \/ \E i \in DOMAIN db.memberships : db.memberships[i].alloc = a /\ ActiveIn(i, u)
                              \/ IsGovernanceRole(FindRole(db.allocs[a].project, u))}
ListAllocationRows(in) ==
    Page({a \in DOMAIN db.allocs : /\ in.project = None \/ db.allocs[a].project = in.project
                                   /\ in.status = None \/ db.allocs[a].status = in.status
                                   /\ in.q = None \/ db.allocs[a].name \in in.q}, in)

ListComputeAllocations(in) == {Ok(page) : page \in ListAllocationRows(in)}
ListComputeAllocationsForParticipant(in) == Required({in.caller}, Ok(FindByParticipant(in.caller)))
CreateComputeAllocation(in) ==
    IF None \in {in.name, in.project, in.cluster} THEN Err(ErrInvalidInput)
    ELSE IF ~Known("projects", in.project) \/ ~Known("clusters", in.cluster) THEN Err(ErrInvalidInput)
    ELSE CreateAllocationRow(in.id, [project |-> in.project, cluster |-> in.cluster, name |-> in.name,
                                     status |-> Or(in.status, "ACTIVE")])
GetComputeAllocation(in) == FindAllocation(in.id)
ListComputeAllocationsByProject(in) == Ok(FindByProject(in.project))
ListComputeAllocationsByCluster(in) == Ok(FindByCluster(in.cluster))
UpdateComputeAllocation(in) ==
    Required({in.id}, UpdateAllocationRow(in.id,
        [project |-> in.project, cluster |-> in.cluster, name |-> in.name, status |-> in.status]))
DeleteComputeAllocation(in) == IF ~Known("allocs", in.id) THEN Err(ErrNotFound) ELSE DeleteAllocationRow(in.id)

-----------------------------------------------------------------------------
(* Memberships.  A user can be deleted under them: their user_id is no foreign key. *)

FindMembership(id) == Found(db.memberships, id)
FindMembershipByPair(a, u) == RowsWherePair("memberships", "alloc", a, "user", u)
FindMembershipsByAllocation(a) == RowsWhere("memberships", "alloc", a)
FindMembershipsByUser(u) == RowsWhere("memberships", "user", u)
CreateMembershipRow(id, row) == Insert("memberships", id, row)
UpdateAnnouncingOld(id, row) == Update("memberships", id, row, db.memberships[id])
UpdateMembershipRow(id, row) == Update("memberships", id, row, row)
DeleteMembershipRow(id) == Delete("memberships", id)

\* Rows joined with their user, and the user's role on the project; a user that is gone is not listed.
MemberOf(i, p) == [id |-> i, user |-> db.memberships[i].user, alloc |-> db.memberships[i].alloc,
                   status |-> db.memberships[i].status, role |-> Or(FindRole(p, db.memberships[i].user), "MEMBER")]
FindByAllocationWithUser(a) ==
    {MemberOf(i, db.allocs[a].project) : i \in {j \in FindMembershipsByAllocation(a) : Known("users", db.memberships[j].user)}}
FindByProjectWithUser(p) ==
    {MemberOf(i, p) : i \in {j \in DOMAIN db.memberships : /\ db.allocs[db.memberships[j].alloc].project = p
                                                          /\ Known("users", db.memberships[j].user)}}

CreateComputeAllocationMembership(in) ==
    IF None \in {in.alloc, in.user} THEN Err(ErrInvalidInput)
    ELSE IF ~Known("allocs", in.alloc) \/ ~Known("users", in.user) THEN Err(ErrInvalidInput)
    ELSE IF FindMembershipByPair(in.alloc, in.user) # {} THEN Err(ErrAlreadyExists)
    ELSE CreateMembershipRow(in.id, [alloc |-> in.alloc, user |-> in.user, end |-> in.end, status |-> Or(in.status, "ACTIVE")])
GetComputeAllocationMembership(in) == FindMembership(in.id)
IsAllocationMember(a, u) == \E i \in FindMembershipByPair(a, u) : db.memberships[i].status = "ACTIVE"
ListMembersForAllocation(in) == Required({in.alloc}, Ok(FindByAllocationWithUser(in.alloc)))
ListMembersForProject(in) == Required({in.project}, Ok(FindByProjectWithUser(in.project)))
ListAllocationsForUser(in) == Required({in.user}, Ok(FindMembershipsByUser(in.user)))
UpdateComputeAllocationMembership(in) ==
    IF ~Known("memberships", in.id) THEN Err(ErrNotFound)
    ELSE LET old == db.memberships[in.id] IN
         UpdateMembershipRow(in.id, [alloc |-> Or(in.alloc, old.alloc), user |-> Or(in.user, old.user),
                                     end |-> Or(in.end, old.end), status |-> Or(in.status, old.status)])
UpdateMembershipStatus(in) ==
    IF in.status = None THEN Err(ErrInvalidInput)
    ELSE IF ~Known("memberships", in.id) THEN Err(ErrNotFound)
    ELSE UpdateMembershipRow(in.id, [db.memberships[in.id] EXCEPT !.status = in.status])
DeleteComputeAllocationMembership(in) ==
    IF ~Known("memberships", in.id) THEN Err(ErrNotFound) ELSE DeleteMembershipRow(in.id)

DeleteUser(in) == IF ~Known("users", in.id) THEN Err(ErrNotFound) ELSE Delete("users", in.id)

-----------------------------------------------------------------------------
(* Per-resource overrides of a membership. *)

FindOverride(id) == Found(db.overrides, id)
FindOverrideByPair(m, r) == RowsWherePair("overrides", "membership", m, "resource", r)
FindOverridesByMembership(m) == RowsWhere("overrides", "membership", m)
FindOverridesByResource(r) == RowsWhere("overrides", "resource", r)
CreateOverrideRow(id, row) == Insert("overrides", id, row)
UpdateOverrideRow(id, row) == Update("overrides", id, row, row)
DeleteOverrideRow(id) == Delete("overrides", id)

CreateOverride(in) ==
    IF None \in {in.membership, in.resource} \/ in.amount < 0 THEN Err(ErrInvalidInput)
    ELSE IF ~Known("memberships", in.membership) \/ ~Known("resources", in.resource) THEN Err(ErrInvalidInput)
    ELSE IF FindOverrideByPair(in.membership, in.resource) # {} THEN Err(ErrAlreadyExists)
    ELSE CreateOverrideRow(in.id, [membership |-> in.membership, resource |-> in.resource, amount |-> in.amount])
GetOverride(in) == FindOverride(in.id)
GetOverrideByPair(in) == Required({in.membership, in.resource}, Row("overrides", FindOverrideByPair(in.membership, in.resource)))
ListOverridesForMembership(in) == Required({in.membership}, Ok(FindOverridesByMembership(in.membership)))
ListOverridesForResource(in) == Required({in.resource}, Ok(FindOverridesByResource(in.resource)))
UpdateOverride(in) ==
    IF in.id = None \/ in.amount < 0 THEN Err(ErrInvalidInput)
    ELSE IF ~Known("overrides", in.id) THEN Err(ErrNotFound)
    ELSE LET old == db.overrides[in.id] IN
         UpdateOverrideRow(in.id, [membership |-> Or(in.membership, old.membership),
                                   resource |-> Or(in.resource, old.resource), amount |-> in.amount])
DeleteOverride(in) == IF ~Known("overrides", in.id) THEN Err(ErrNotFound) ELSE DeleteOverrideRow(in.id)

-----------------------------------------------------------------------------
(* Handlers.  A scoped read answers its policy's refusal, or reads. *)

canReadAllocation(in) ==
    IF in.caller = None THEN 401
    ELSE IF in.priv THEN 200
    ELSE IF /\ Known("allocs", in.id)
            /\ \/ IsGovernanceRole(ProjectRoleForUser(db.allocs[in.id].project, in.caller))
               \/ IsAllocationMember(in.id, in.caller) THEN 200
    ELSE 404
canReadProject(in) ==
    IF in.caller = None THEN 401 ELSE IF in.priv \/ IsProjectParticipant(in) = Ok(TRUE) THEN 200 ELSE 404
Scoped(code, answers) == IF code = 200 THEN answers ELSE {[code |-> code, val |-> None]}
requireCaller(in) == IF in.caller = None THEN 401 ELSE 200

createProject(in) == Body(in, CreateProject(in))
getProject(in) == Scoped(canReadProject(in), Answers({GetProjectWithPI(in)}))
updateProjectStatus(in) == <<DecodeJSON(in, UpdateProjectStatus(in)), 200>>
listProjects(in) ==
    Scoped(requireCaller(in), Answers(IF in.priv THEN ListProjectsWithPI(in)
        ELSE LET r == ListProjectsForParticipant(in) IN {[r EXCEPT !.val = [items |-> @, total |-> Cardinality(@)]]}))

\* One row per user, taken from one of its memberships, with the allocations of all of them.
Collapse(rows) ==
    LET of == {m.user : m \in rows} IN
    {{[user |-> u, role |-> base[u].role, status |-> base[u].status, allocs |-> {m.alloc : m \in {n \in rows : n.user = u}}] :
        u \in of} : base \in {f \in [of -> rows] : \A u \in of : f[u].user = u}}
listProjectMembers(in) == Answers(LET r == ListMembersForProject(in) IN {[r EXCEPT !.val = members] : members \in Collapse(r.val)})
createComputeAllocation(in) == Body(in, CreateComputeAllocation(in))
getComputeAllocation(in) == Scoped(canReadAllocation(in), Answers({GetComputeAllocation(in)}))
listComputeAllocations(in) ==
    Scoped(requireCaller(in), Answers(IF in.priv THEN ListComputeAllocations(in)
        ELSE LET r == ListComputeAllocationsForParticipant(in) IN {[r EXCEPT !.val = [items |-> @, total |-> Cardinality(@)]]}))
createComputeAllocationMembership(in) == Body(in, CreateComputeAllocationMembership(in))
getComputeAllocationMembership(in) == Answers({GetComputeAllocationMembership(in)})
updateComputeAllocationMembership(in) == <<DecodeJSON(in, UpdateComputeAllocationMembership(in)), 200>>
updateMembershipStatus(in) == <<DecodeJSON(in, UpdateMembershipStatus(in)), 200>>
deleteComputeAllocationMembership(in) == <<DeleteComputeAllocationMembership(in), 204>>
listMembersForAllocation(in) == Scoped(canReadAllocation(in), Answers({ListMembersForAllocation([in EXCEPT !.alloc = in.id])}))
listAllocationsForUser(in) == Answers({ListAllocationsForUser(in)})
createOverride(in) == Body(in, CreateOverride(in))
getOverride(in) == Answers({GetOverride(in)})
updateOverride(in) == <<DecodeJSON(in, UpdateOverride(in)), 200>>
deleteOverride(in) == <<DeleteOverride(in), 204>>
listOverridesForMembership(in) == Answers({ListOverridesForMembership(in)})
listOverridesForResource(in) == Answers({ListOverridesForResource(in)})

\* The writes: through HTTP, and by the Go callers of the service that no route reaches.
Handle(in) ==
    CASE in.op = "createProject"          -> createProject(in)
      [] in.op = "updateProjectStatus"    -> updateProjectStatus(in)
      [] in.op = "createAllocation"       -> createComputeAllocation(in)
      [] in.op = "createMembership"       -> createComputeAllocationMembership(in)
      [] in.op = "updateMembership"       -> updateComputeAllocationMembership(in)
      [] in.op = "updateMembershipStatus" -> updateMembershipStatus(in)
      [] in.op = "deleteMembership"       -> deleteComputeAllocationMembership(in)
      [] in.op = "createOverride"         -> createOverride(in)
      [] in.op = "updateOverride"         -> updateOverride(in)
      [] in.op = "deleteOverride"         -> deleteOverride(in)
      [] in.op = "ensureRole"             -> <<EnsureProjectMembership(in), 200>>
      [] in.op = "updateProject"          -> <<UpdateProject(in), 200>>
      [] in.op = "deleteProject"          -> <<DeleteProject(in), 200>>
      [] in.op = "updateAllocation"       -> <<UpdateComputeAllocation(in), 200>>
      [] in.op = "deleteAllocation"       -> <<DeleteComputeAllocation(in), 200>>
      [] in.op = "deleteUser"             -> <<DeleteUser(in), 200>>

-----------------------------------------------------------------------------
(* Properties. *)

Ask == [api |-> "projects", op |-> None, body |-> "ok", id |-> None, caller |-> None, priv |-> FALSE, orig |-> None, title |-> None,
        pi |-> None, status |-> None, q |-> None, limit |-> 0, offset |-> 0, project |-> None, cluster |-> None,
        name |-> None, user |-> None, role |-> None, alloc |-> None, end |-> None, membership |-> None,
        resource |-> None, amount |-> 0]
Value(answers) == (CHOOSE a \in answers : TRUE).val
Code(answers) == (CHOOSE a \in answers : TRUE).code
By(u, id) == [Ask EXCEPT !.caller = u, !.id = id]

\* Projects, allocations and memberships hold the roles and statuses the service writes.
TypeOK ==
    /\ \A i \in DOMAIN db.projectMemberships : db.projectMemberships[i].role \in GovernanceRoles
    /\ \A t \in {"projects", "allocs", "memberships"} : \A i \in DOMAIN db[t] : db[t][i].status \in {"ACTIVE", "INACTIVE"}

\* What a caller without the read privilege is listed is exactly what that caller can fetch one by one
\* (the list is one SQL query, the policy of the single read is Go code), and whoever may read an
\* allocation may read its project.
ScopesAgree ==
    \A u \in DOMAIN db.users :
        /\ Value(listComputeAllocations(By(u, None))).items = {a \in DOMAIN db.allocs : Code(getComputeAllocation(By(u, a))) = 200}
        /\ {v.id : v \in Value(listProjects(By(u, None))).items} = {p \in DOMAIN db.projects : Code(getProject(By(u, p))) = 200}
        /\ \A a \in DOMAIN db.allocs : canReadAllocation(By(u, a)) = 200 => canReadProject(By(u, db.allocs[a].project)) = 200

\* What one read tells another does not contradict: a project with and without its PI, by its PI and by
\* the ID of its origin; roles listed and asked for; memberships by ID and by user; overrides by ID, by
\* membership, by resource and by pair.
ReadsAgree ==
    /\ \A u \in DOMAIN db.users : \A page \in ListProjects([Ask EXCEPT !.pi = u]) :
          page.val.total = Cardinality(ListProjectsByPI([Ask EXCEPT !.pi = u]).val)
    /\ \A p \in DOMAIN db.projects :
          LET row == GetProject([Ask EXCEPT !.id = p]).val IN
          /\ GetProjectWithPI([Ask EXCEPT !.id = p]).val = [id |-> p, project |-> row, pi |-> row.pi]
          /\ p \in ListProjectsByPI([Ask EXCEPT !.pi = row.pi]).val
          /\ row.orig # None => GetProjectByOriginatedID([Ask EXCEPT !.orig = row.orig]).val.orig = row.orig
          /\ \A u \in DOMAIN db.users :
                ProjectRoleForUser(p, u) # None <=> <<p, u>> \in ListProjectMemberships([Ask EXCEPT !.project = p]).val
    /\ \A m \in DOMAIN db.memberships :
          LET row == Value(getComputeAllocationMembership([Ask EXCEPT !.id = m])) IN
          m \in Value(listAllocationsForUser([Ask EXCEPT !.user = row.user]))
    /\ \A m \in DOMAIN db.memberships, r \in DOMAIN db.resources :
          LET both == Value(listOverridesForMembership([Ask EXCEPT !.membership = m]))
                      \cap Value(listOverridesForResource([Ask EXCEPT !.resource = r]))
              pair == GetOverrideByPair([Ask EXCEPT !.membership = m, !.resource = r])
          IN IF both = {} THEN pair.err = ErrNotFound
             ELSE \A i \in both : pair.val = Value(getOverride([Ask EXCEPT !.id = i]))

\* listProjectMembers: the members of a project are the members its allocations list, each user once,
\* with one role and with every allocation that lists the user, whichever row the handler keeps.
MembersAgree ==
    \A p \in DOMAIN db.projects : \A answer \in listProjectMembers([Ask EXCEPT !.project = p]) :
        LET listed == UNION {Value(listMembersForAllocation([By(None, a) EXCEPT !.caller = p, !.priv = TRUE])) : a \in FindByProject(p)} IN
        /\ \A x, y \in answer.val : x.user = y.user => x = y
        /\ {x.user : x \in answer.val} = {m.user : m \in listed}
        /\ \A x \in answer.val : /\ x.allocs = {m.alloc : m \in {n \in listed : n.user = x.user}}
                                 /\ \A m \in listed : m.user = x.user => m.role = x.role

\* UpdateProjectStatus: "Other fields are preserved", whatever another request wrote since the row was read.
ProjectStatusPreserves ==
    [][\A c \in Callers : InTx(c) /\ call'[c] # call[c] /\ call[c].op = "updateProjectStatus" =>
          \A p \in DOMAIN db.projects : [db'.projects[p] EXCEPT !.status = db.projects[p].status] = db.projects[p]]_<<db, mirror, call>>
================================================================================
