-------------------------------- MODULE MCCore ---------------------------------
(***************************************************************************)
(* A small server and the workloads it is checked under.                   *)
(***************************************************************************)
EXTENDS Core, TLC

CONSTANTS n1, k1, u1, u2, a1, a2, p1, p2, r1, m1, m2, o1, c1, c2

\* One organization, cluster, resource and project at the start, and two users.
AllocRow == [project |-> p1, cluster |-> k1, name |-> 1, status |-> "ACTIVE"]
Bare ==
    [organizations |-> "home" :> [orig |-> None, name |-> 0], users |-> [u \in {u1, u2} |-> [org |-> "home"]],
     clusters |-> k1 :> [name |-> 1], clusterUsers |-> Empty,
     projects |-> p1 :> [orig |-> None, title |-> "t", pi |-> u1, status |-> "ACTIVE"],
     projectMemberships |-> Empty, allocs |-> Empty, resources |-> Empty, mappings |-> Empty, rates |-> Empty,
     memberships |-> Empty, usages |-> Empty, overrides |-> Empty]
Allocated == [Bare EXCEPT !.allocs = a1 :> AllocRow @@ a2 :> AllocRow]
Resourced == [Allocated EXCEPT !.resources = r1 :> [name |-> 1, type |-> "cpu", cluster |-> k1]]

Load(api, tables, asked) ==
    [api |-> api, tables |-> tables, asked |-> asked, callers |-> {c1}, faults |-> FALSE,
     blind |-> FALSE, generated |-> FALSE, logs |-> FALSE]

-----------------------------------------------------------------------------
(* The catalog. *)

Op(op, id) == [C!Ask EXCEPT !.op = op, !.id = id]
Org(id, orig, name) == [Op("createOrganization", id) EXCEPT !.orig = orig, !.name = name]
Cluster(id, name) == [Op("createCluster", id) EXCEPT !.name = name]
Maps(id, k, u, l) == [Op("createClusterUser", id) EXCEPT !.cluster = k, !.user = u, !.local = l]
Resource(id, k) == [Op("createResource", id) EXCEPT !.name = 1, !.type = "cpu", !.cluster = k]
Attach(id, a, r, n) == [Op("attach", id) EXCEPT !.alloc = a, !.resource = r, !.amount = n]
Rate(id, r, s, e) == [Op("createRate", id) EXCEPT !.resource = r, !.rate = 1, !.start = s, !.end = e]
Usage(id, a, r, u) == [Op("createUsage", id) EXCEPT !.alloc = a, !.resource = r, !.user = u, !.su = 1, !.job = id]

AskDirectory ==
    {Org("o1", "x", 1), Org("o2", "x", 2), Org("o2", None, 1), Org("o1", None, None), Op("deleteOrganization", "o1"), Op("deleteOrganization", "home"),
     Cluster("k2", 2), Cluster("k3", 2), Cluster("k2", None), Op("deleteCluster", "k2"), Op("deleteCluster", k1),
     Maps("m1", k1, u1, "l1"), Maps("m2", "k2", u1, "l1"), Maps("m3", k1, u2, "l1"), Maps("m3", k1, None, "l1"), Maps("m3", "k9", u2, "l1"),
     [Op("updateClusterUser", "m1") EXCEPT !.local = "l2"], [Op("updateClusterUser", "m3") EXCEPT !.user = u1],
     [Op("updateClusterUser", "m1") EXCEPT !.body = "bad"], Op("deleteClusterUser", "m1"), Op("deleteClusterUser", "m2"),
     Resource("r1", k1), Op("deleteResource", "r1"), Attach("p1", a1, "r1", 2),
     [Op("updateMapping", None) EXCEPT !.alloc = a1, !.resource = "r1", !.amount = 5],
     [Op("detach", None) EXCEPT !.alloc = a1, !.resource = "r1"]}

AskAccounting ==
    {[Op("updateCluster", k1) EXCEPT !.name = 3], [Op("updateOrganization", "o1") EXCEPT !.name = 1],
     [Op("updateResource", "r1") EXCEPT !.name = 2, !.cluster = k1],
     Resource("r1", k1), Resource("r1", "k9"), Op("deleteResource", "r1"),
     Attach("p1", a1, "r1", 2), Attach("p2", a2, "r1", 3), Attach("p2", a2, "r1", -1), Attach("p1", a2, None, 1),
     [Op("updateMapping", None) EXCEPT !.alloc = a1, !.resource = "r1", !.amount = 5],
     [Op("detach", None) EXCEPT !.alloc = a1, !.resource = "r1"],
     Rate("t1", "r1", 1, 3), Rate("t2", "r1", 3, 4), Rate("t2", "r1", 3, 3), Op("deleteRate", "t1"),
     [Op("updateRate", "t2") EXCEPT !.rate = 2, !.start = 2, !.end = 4], [Op("updateRate", "t2") EXCEPT !.start = 2, !.end = 1],
     Usage("g1", a1, "r1", u1), Usage("g2", "a9", None, u1), Op("deleteUsage", "g1")}

AskTotals == {Usage(g, a, None, u) : g \in {"g1", "g2", "g3"}, a \in {a1, a2}, u \in {u1, u2}}
             \cup {Op("deleteUsage", g) : g \in {"g1", "g2", "g3"}} \cup {Org("o1", None, 1), Op("deleteOrganization", "o1")}

AskMapping == {Maps("new", k1, u, l) : u \in {u1, u2}, l \in {"l1", "l2"}}
              \cup {Op("deleteClusterUser", n1), Op("markProvisioned", n1)}

-----------------------------------------------------------------------------
(* Projects. *)

Do(op, id) == [P!Ask EXCEPT !.op = op, !.id = id]
Project(id, pi, orig) == [Do("createProject", id) EXCEPT !.title = "t", !.pi = pi, !.orig = orig]
Alloc(id, p) == [Do("createAllocation", id) EXCEPT !.name = 1, !.project = p, !.cluster = k1]
Member(id, a, u) == [Do("createMembership", id) EXCEPT !.alloc = a, !.user = u]
Status(op, id, s) == [Do(op, id) EXCEPT !.status = s]
Role(p, u, role) == [Do("ensureRole", None) EXCEPT !.project = p, !.user = u, !.role = role]
Over(id, m) == [Do("createOverride", id) EXCEPT !.membership = m, !.resource = r1, !.amount = 1]

AskGoverned ==
    {Project(p2, u2, "x"), Project(p2, None, "x"), Project(p2, "u3", "x"), Do("deleteProject", p2), Do("deleteProject", p1),
     Status("updateProjectStatus", p1, "INACTIVE"), Status("updateProjectStatus", p1, None), Status("updateProjectStatus", p2, "ACTIVE"),
     [Do("updateProject", p1) EXCEPT !.pi = u2],
     Role(p1, u1, "PI"), Role(p1, u2, "PI"), Role(p1, u2, "CO_PI"), Role(p1, u1, "MEMBER"), Role(p1, u2, "MEMBER"),
     Role(p1, u1, "BOSS"), Role(p1, None, "PI"), Role(p2, u2, "ALLOCATION_MANAGER"),
     Alloc(a1, p1), Alloc(a1, p2), Alloc(a2, None), Do("deleteAllocation", a1),
     Member(m1, a1, u2), Member(m2, a1, "u3"), Status("updateMembershipStatus", m1, "INACTIVE"),
     Do("deleteUser", u2), Do("deleteUser", u1)}

AskMembers ==
    {Member(m1, a1, u2), Member(m2, a2, u2), Member(m2, a1, u2), Member(m2, a1, u1), Role(p1, u2, "CO_PI"), Role(p1, u2, "MEMBER"),
     Status("updateMembershipStatus", m1, "INACTIVE"), Status("updateMembershipStatus", m1, None), Status("updateMembershipStatus", m2, "ACTIVE"),
     [Do("updateMembership", m1) EXCEPT !.alloc = a2], [Do("updateMembership", m1) EXCEPT !.body = "bad"],
     Do("deleteMembership", m1), Do("deleteMembership", m2),
     [Do("updateAllocation", a1) EXCEPT !.name = 1, !.project = p1, !.cluster = k1, !.status = "INACTIVE"], Do("deleteAllocation", a2),
     Over(o1, m1), [Over(o1, m2) EXCEPT !.amount = -1], Over(o1, None), [Do("updateOverride", o1) EXCEPT !.amount = 2],
     [Do("updateOverride", o1) EXCEPT !.membership = m2], Do("deleteOverride", o1), Do("deleteUser", u2)}

AskStatus ==
    {Status("updateProjectStatus", p1, "INACTIVE"),
     [Do("updateProject", p1) EXCEPT !.title = "s"], [Do("updateProject", p1) EXCEPT !.pi = u2], Do("deleteProject", p1),
     Project(p1, u1, None)}

\* Both APIs: what hangs on a resource, a membership and an allocation goes with them.
AskBoth ==
    {Op("deleteResource", r1), Resource(r1, k1), Attach("x1", a1, r1, 2), [Op("detach", None) EXCEPT !.alloc = a1, !.resource = r1],
     Maps("y1", k1, u2, "l1"), Op("deleteClusterUser", "y1"), Op("deleteCluster", k1), Cluster(k1, 1),
     Member(m1, a1, u2), Do("deleteMembership", m1), Over(o1, m1), Do("deleteOverride", o1),
     Do("deleteAllocation", a1), Do("deleteAllocation", a2), Alloc(a1, p1), Do("deleteUser", u2)}

-----------------------------------------------------------------------------
(* Change requests. *)

Blank == [op |-> None, body |-> "ok", id |-> None, alloc |-> None, by |-> None, want |-> 0,
          status |-> None, ts |-> None, event |-> None, row |-> None]
Ask(op, id) == [Blank EXCEPT !.op = op, !.id = id]
Create(i, st) == [Ask("create", i) EXCEPT !.alloc = a1, !.by = u1, !.want = 5, !.status = st]
Put(i, st, w) == [Ask("update", i) EXCEPT !.status = st, !.want = w]

Lifecycle ==
    {Create(i, None) : i \in Ids} \cup {Ask("delete", i) : i \in Ids}
    \cup {Put(i, st, 5) : i \in Ids, st \in {None, "APPROVED", "REJECTED"}}
Logs == {[Ask("createEvent", "q1") EXCEPT !.event = "NOTE"], [Ask("deleteEvent", None) EXCEPT !.row = 1],
         [Ask("createDiff", None) EXCEPT !.alloc = a1, !.status = "ACTIVE"],
         [Ask("deleteDiff", None) EXCEPT !.row = 1]}
Refused == {[Create("q1", None) EXCEPT !.by = None], [Create("q1", None) EXCEPT !.body = "bad"],
            [Ask("createEvent", "q1") EXCEPT !.event = None], Ask("createDiff", None),
            [Put("q1", None, 5) EXCEPT !.alloc = "unknown"]}

-----------------------------------------------------------------------------
MCLoads ==
    {Load("catalog", Allocated, AskDirectory),
     [Load("catalog", Allocated, AskAccounting) EXCEPT !.blind = TRUE],
     [Load("catalog", Allocated, AskTotals) EXCEPT !.faults = TRUE],
     [Load("catalog", Allocated, AskMapping) EXCEPT !.callers = {c1, c2}, !.generated = TRUE],
     Load("projects", Bare, AskGoverned),
     Load("projects", Resourced, AskMembers),
     [Load("projects", Bare, AskStatus) EXCEPT !.callers = {c1, c2}],
     Load("both", Resourced, AskBoth),
     [Load("changes", Bare, Lifecycle \cup Logs \cup Refused) EXCEPT !.faults = TRUE, !.logs = TRUE],
     [Load("changes", Bare, Lifecycle) EXCEPT !.callers = {c1, c2}]}
================================================================================
