-------------------------------- MODULE Records --------------------------------
(***************************************************************************)
(* The relational tables behind the service layer and the life of a write: *)
(* the service reads and checks outside any transaction (the plan is made  *)
(* in the module that extends this one), one transaction applies the plan, *)
(* and only then is the domain event published.  The three steps of two    *)
(* requests interleave freely.                                             *)
(*                                                                         *)
(* An instance has several workloads, one per behaviour: the tables at the *)
(* start, the requests that are made, how many at a time, and whether      *)
(* transactions fail.                                                      *)
(***************************************************************************)
EXTENDS Rest, FiniteSets, FiniteSetsExt

CONSTANTS
    Callers,        \* concurrent requests
    FreshIds,       \* the UUIDs the server generates
    PageDefault, PageMax    \* 50 and 200

VARIABLES
    load,       \* the workload: tables, asked, callers and faults
    db,         \* table -> primary key -> row
    mirror,     \* history: the tables of a subscriber that applies every event, and drops the children of
                \* a row it drops
    call        \* per request being served

-----------------------------------------------------------------------------
(* The schema: UNIQUE constraints and foreign keys. *)

Ref(field, to, onDelete) == [field |-> field, to |-> to, onDelete |-> onDelete]
Table(uniques, refs) == [uniques |-> uniques, refs |-> refs]

organizations == Table({}, {})
users == Table({{"email"}}, {Ref("org", "organizations", "restrict")})
compute_clusters == Table({{"name"}}, {})
compute_cluster_users == Table({{"cluster", "user"}, {"cluster", "local"}},
    {Ref("cluster", "clusters", "cascade"), Ref("user", "users", "cascade")})
projects == Table({}, {Ref("pi", "users", "restrict")})
project_memberships == Table({},             \* the primary key is (project, user)
    {Ref("project", "projects", "cascade"), Ref("user", "users", "cascade")})
compute_allocations == Table({}, {Ref("project", "projects", "restrict"), Ref("cluster", "clusters", "restrict")})
compute_allocation_resources == Table({{"cluster", "name"}}, {Ref("cluster", "clusters", "restrict")})
compute_allocation_resource_mappings == Table({{"alloc", "resource"}},
    {Ref("alloc", "allocs", "cascade"), Ref("resource", "resources", "cascade")})
compute_allocation_resource_rates == Table({}, {Ref("resource", "resources", "cascade")})
compute_allocation_memberships == Table({{"alloc", "user"}}, {Ref("alloc", "allocs", "cascade")})
compute_allocation_usages == Table({}, {})
compute_allocation_membership_resource_overrides == Table({{"membership", "resource"}},
    {Ref("membership", "memberships", "cascade"), Ref("resource", "resources", "cascade")})

Schema ==
    [organizations |-> organizations, users |-> users, clusters |-> compute_clusters,
     clusterUsers |-> compute_cluster_users, projects |-> projects, projectMemberships |-> project_memberships,
     allocs |-> compute_allocations, resources |-> compute_allocation_resources,
     mappings |-> compute_allocation_resource_mappings, rates |-> compute_allocation_resource_rates,
     memberships |-> compute_allocation_memberships, usages |-> compute_allocation_usages,
     overrides |-> compute_allocation_membership_resource_overrides]

Faults == load.faults               \* a transaction can fail, and a server stop before publishing
OneAtATime == Cardinality(load.callers) = 1 /\ ~load.faults

Refs(t) == {r \in Schema[t].refs : r.to \in DOMAIN db}

-----------------------------------------------------------------------------
(* Statements. *)

Known(t, id) == id \in DOMAIN db[t]
RowsWhere(t, field, value) == {i \in DOMAIN db[t] : db[t][i][field] = value}
RowsWherePair(t, f, x, g, y) == {i \in DOMAIN db[t] : db[t][i][f] = x /\ db[t][i][g] = y}

Duplicate(t, id, row) ==
    \E key \in Schema[t].uniques : \E i \in DOMAIN db[t] \ {id} : \A f \in key : db[t][i][f] = row[f]
Dangling(tables, t, row) == \E r \in Refs(t) : row[r.field] \notin DOMAIN tables[r.to]
Restricted(t, id) ==
    \E u \in DOMAIN db : \E r \in Refs(u) :
        r.to = t /\ r.onDelete = "restrict" /\ \E i \in DOMAIN db[u] : db[u][i][r.field] = id

Empty == [i \in {} |-> None]

\* One of the rows a query for a single row matches; a blank path or query value is refused first.
Row(t, ids) == IF ids = {} THEN Err(ErrNotFound) ELSE Ok(db[t][CHOOSE i \in ids : TRUE])
Required(fields, res) == IF None \in fields THEN Err(ErrInvalidInput) ELSE res

Clamp(limit) == IF limit <= 0 THEN PageDefault ELSE Min({limit, PageMax})

\* A handler answers one of a set of results to a read, and to a write the code of its plan's success.
Answers(results) == {[code |-> Answer(r, 200), val |-> r.val] : r \in results}
Body(in, res) == <<DecodeJSON(in, res), 201>>

\* An UPDATE sets the columns it names; a row that is gone is not updated, and that is no error.
Patch(old, new) == [f \in DOMAIN old |-> IF f \in DOMAIN new THEN new[f] ELSE old[f]]

\* Rows whose parent is gone go with it; overrides hang two levels below an allocation.
Sweep(tables) ==
    [t \in DOMAIN tables |->
        [i \in {j \in DOMAIN tables[t] : ~Dangling(tables, t, tables[t][j])} |-> tables[t][i]]]
\* Mutant of the next one: without ON DELETE CASCADE.
KeepChildren(tables) == tables
Cascade(tables) == Sweep(Sweep(tables))

-----------------------------------------------------------------------------
(* Plans: what a service operation will write and announce. *)

Insert(t, id, row) ==
    Ok([verb |-> "insert", t |-> t, id |-> id, row |-> row, event |-> row, dup |-> 500])
Update(t, id, row, event) ==
    Ok([verb |-> "update", t |-> t, id |-> id, row |-> row, event |-> event, dup |-> 500])
Delete(t, id) ==
    Ok([verb |-> "delete", t |-> t, id |-> id, row |-> None, event |-> db[t][id], dup |-> 500])
DeleteUnread(t, id) ==
    Ok([verb |-> "delete", t |-> t, id |-> id, row |-> None, event |-> None, dup |-> 500])
DeleteWhere(t, id, columns) ==
    Ok([verb |-> "deleteWhere", t |-> t, id |-> id, row |-> columns, event |-> db[t][id], dup |-> 500])

Noop == Ok([verb |-> "noop", t |-> "users", id |-> None, row |-> None, event |-> None, dup |-> 500])

Silent(res) == [res EXCEPT !.val.event = None]          \* nothing is published
Conflicting(res) == [res EXCEPT !.val.dup = 409]        \* a unique violation is ErrAlreadyExists

\* A UUID: no row and no request in flight has it.
newID ==
    LET taken == UNION {DOMAIN db[t] : t \in DOMAIN db} \cup {call[c].do.id : c \in {d \in Callers : call[d].at # "idle"}}
    IN CHOOSE n \in FreshIds : n \notin taken
Identify(in) == IF in.id = "new" THEN [in EXCEPT !.id = newID] ELSE in

Idle(op, code) == [at |-> "idle", op |-> op, code |-> code]
Done(c, code) == call' = [call EXCEPT ![c] = Idle(call[c].op, code)]

InitRecords ==
    /\ db = load.tables /\ mirror = load.tables
    /\ call = [c \in Callers |-> Idle(None, None)]

\* The checks have passed or not: an error is answered at once.
Plan(c, in, res, success) ==
    /\ call[c].at = "idle"
    /\ call' = [call EXCEPT ![c] =
           IF res.err # None THEN Idle(in.op, Answer(res, success))
           ELSE [at |-> "tx", op |-> in.op, do |-> res.val, ok |-> success]]
    /\ UNCHANGED <<db, mirror>>

InTx(c) == call[c].at = "tx"
Fail(c, code) == Done(c, code) /\ UNCHANGED <<db, mirror>>

Rejected(do) ==
    CASE do.verb = "insert" -> Known(do.t, do.id) \/ Dangling(db, do.t, do.row)
      [] do.verb = "update" -> Known(do.t, do.id) /\ Dangling(db, do.t, Patch(db[do.t][do.id], do.row))
      [] do.verb = "delete" -> Restricted(do.t, do.id)
      [] OTHER              -> FALSE

Collides(do) ==
    CASE do.verb = "insert" -> Duplicate(do.t, do.id, do.row)
      [] do.verb = "update" -> Known(do.t, do.id) /\ Duplicate(do.t, do.id, Patch(db[do.t][do.id], do.row))
      [] OTHER              -> FALSE

Write(do) ==
    CASE do.verb = "insert" -> [db EXCEPT ![do.t] = With(@, do.id, do.row)]
      [] do.verb = "update" -> [db EXCEPT ![do.t] = IF do.id \in DOMAIN @
                                                    THEN [@ EXCEPT ![do.id] = Patch(@, do.row)] ELSE @]
      [] do.verb = "delete" -> Cascade([db EXCEPT ![do.t] = Without(@, do.id)])
      [] do.verb = "noop"   -> db
      [] OTHER              -> Cascade([db EXCEPT ![do.t] = [i \in {j \in DOMAIN @ : Patch(@[j], do.row) # @[j]} |-> @[i]]])

Refuse(c) == InTx(c) /\ Rejected(call[c].do) /\ Fail(c, 500)
Collide(c) == InTx(c) /\ ~Rejected(call[c].do) /\ Collides(call[c].do) /\ Fail(c, call[c].do.dup)

Commit(c) ==
    LET do == call[c].do IN
    /\ InTx(c) /\ ~Rejected(do) /\ ~Collides(do)
    /\ db' = Write(do)
    /\ call' = [call EXCEPT ![c] = IF do.event = None THEN Idle(@.op, @.ok) ELSE [@ EXCEPT !.at = "publish"]]
    /\ UNCHANGED mirror

Publish(c) ==
    LET do == call[c].do IN
    /\ call[c].at = "publish"
    /\ mirror' = Cascade([mirror EXCEPT ![do.t] = IF do.verb \in {"insert", "update"} THEN With(@, do.id, do.event)
                                          ELSE Without(@, do.id)])
    /\ Done(c, call[c].ok)
    /\ UNCHANGED db

\* The client or the database is gone; the server stops before it publishes.
Abort(c) == Faults /\ InTx(c) /\ Fail(c, 500)
Stop(c) == Faults /\ call[c].at = "publish" /\ Fail(c, None)

Serve(c) == Refuse(c) \/ Collide(c) \/ Commit(c) \/ Publish(c) \/ Abort(c) \/ Stop(c)

\* Every request is idle or holds a plan, and rows refer to rows.
RecordsOK ==
    /\ \A c \in Callers : call[c].at \in {"idle", "tx", "publish"}
    /\ \A t \in DOMAIN db : \A i \in DOMAIN db[t] : ~Dangling(db, t, db[t][i])

Quiet == \A c \in Callers : call[c].at = "idle"
================================================================================
