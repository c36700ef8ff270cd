---------------------------------- MODULE Core ----------------------------------
(***************************************************************************)
(* The core server: the catalog (organizations, clusters, their users,     *)
(* resources, rates, usage), the projects API and the change requests, in  *)
(* one process over one database.  Catalog and Projects share the tables   *)
(* and the life of a write (Records), so a resource that one deletes takes *)
(* the other's overrides with it; change requests have tables of their     *)
(* own, and the workloads that make them ask for nothing else.             *)
(***************************************************************************)
EXTENDS Records

CONSTANTS
    Loads,          \* the workloads of an instance
    Instants,       \* instants a rate can be asked for
    Allocs, Ids,    \* the allocations and IDs of change requests
    MaxLog          \* bound on the change requests' logs

VARIABLES reqs, log, diffs, serving, made, entered      \* of ChangeRequests

C == INSTANCE Catalog
P == INSTANCE Projects
R == INSTANCE ChangeRequests WITH call <- serving

records == <<db, mirror, call>>
changes == <<reqs, log, diffs, serving, made, entered>>
vars == <<load, records, changes>>

Init == load \in Loads /\ InitRecords /\ R!Init

Handle(in) == IF in.api = "catalog" THEN C!Handle(in) ELSE P!Handle(in)

Begin(c) == \E in \in load.asked : LET h == Handle(Identify(in)) IN Plan(c, in, h[1], h[2])

ServeRecords == load.api # "changes" /\ (\E c \in load.callers : Begin(c) \/ Serve(c)) /\ UNCHANGED changes
ServeChanges == load.api = "changes" /\ R!Next /\ UNCHANGED records

Next == (ServeRecords \/ ServeChanges) /\ UNCHANGED load

Spec == Init /\ [][Next]_vars

-----------------------------------------------------------------------------
(* Properties. *)

\* Every request is idle or holds a plan, rows refer to rows that exist, and every row has the shape of its table.
TypeOK == RecordsOK /\ P!TypeOK /\ R!TypeOK

\* The tables whose every write publishes an event.
Evented == {"organizations", "clusters", "clusterUsers", "resources", "mappings",
            "projects", "allocs", "memberships", "overrides"}

\* Between requests a subscriber that applied every event so far, and drops the children of a row it
\* drops, holds every table as it is stored.  This is for requests served one at a time, and for
\* workloads whose blind updates (UpdateOrganization and the other updates that never look the row up)
\* name rows that exist.
MirrorAgrees == Quiet /\ OneAtATime /\ ~load.blind => \A t \in Evented : mirror[t] = db[t]

\* What one read tells another does not contradict.  Lists, lookups by ID, by name, by pair and by job,
\* pages and their totals, and the rate in effect agree; so do change requests, their diffs and their
\* logs; the dashboard's figures are those of the lists behind them, and totals are rounded once; a
\* project's members are those its allocations list; and what a caller without the read privilege is
\* listed is exactly what that caller can fetch one by one.
ReadsAgree ==
    /\ C!ReadsAgree /\ C!SummariesExact /\ C!TotalsClose
    /\ P!ReadsAgree /\ P!MembersAgree /\ P!ScopesAgree
    /\ R!ReadsAgree

\* Two requests that map one user, or one local name, on a cluster at once: the loser is answered 409,
\* not 500, because CreateComputeClusterUser reads the name of the violated constraint.
LoserConflicts == load.generated /\ ~load.faults => C!LoserConflicts

\* UpdateProjectStatus: "Other fields are preserved", whatever another request wrote since the row was read.
ProjectStatusPreserves == P!ProjectStatusPreserves

\* The log of a change request and its diffs are true.  The last transition logged is to the stored
\* status, and there are no more diffs than times that status became APPROVED, when updates do not
\* overlap.  The log has as many approvals as there are diffs, even when updates race, as long as no
\* transaction fails.  When the request is gone it still has CREATED and DELETED and can be listed,
\* whatever interleaves with the deletion.  (The last two as long as nobody edits the log.)
TrailTrue ==
    /\ Cardinality(load.callers) = 1 => R!StatusLogged /\ R!DiffPerTransition
    /\ ~load.faults /\ ~load.logs => R!DiffPerApproval
    /\ ~load.logs => R!TrailSurvives
================================================================================
