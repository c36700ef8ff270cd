---------------------------- MODULE ChangeRequests ----------------------------
(***************************************************************************)
(* Change requests against compute allocations, their event log, and the   *)
(* allocation diffs an approval produces.  A write reads the request       *)
(* outside any transaction, then commits the row together with its log     *)
(* entry; an approval writes its diff in a second transaction.  Either     *)
(* transaction fails when the client is gone (the request's context is     *)
(* cancelled) or the database is.                                          *)
(***************************************************************************)
EXTENDS Rest, Sequences, FiniteSetsExt

CONSTANTS
    Allocs,         \* the compute allocations that exist
    Ids,            \* change request IDs
    Callers,        \* concurrent requests
    MaxLog          \* bound on the length of either log

VARIABLES
    load,       \* the workload: the requests that are made, how many at a time, whether transactions fail
    reqs,       \* compute_allocation_change_requests, by ID
    log,        \* compute_allocation_change_request_events, in commit order
    diffs,      \* compute_allocation_diffs, in commit order
    call,       \* per request being served
    made,       \* history: requests ever created
    entered     \* history: times each stored status became APPROVED

vars == <<reqs, log, diffs, call, made, entered>>

Idle == [at |-> "idle"]
Gone == [req |-> None, alloc |-> None, of |-> None, type |-> None]     \* a deleted log row

Init ==
    /\ reqs = <<>> /\ log = <<>> /\ diffs = <<>>
    /\ call = [c \in Callers |-> Idle]
    /\ made = {} /\ entered = [i \in Ids |-> 0]

\* Timestamps: nowUTC is later than every row written so far; a client may supply one.
nowUTC == 1 + Len(log) + Len(diffs)

-----------------------------------------------------------------------------
(* Queries.  Sets of rows; ORDER BY timestamp leaves ties in any order. *)

Live(rows) == [k \in {j \in DOMAIN rows : rows[j] # Gone} |-> rows[k]]
FindEvents(id) == {k \in DOMAIN log : log[k].req = id}
FindDiffs(a) == {k \in DOMAIN diffs : diffs[k].alloc = a}
Newest(rows, keys) == {k \in keys : \A j \in keys : rows[j].ts <= rows[k].ts}

FindRequest(id) == Found(reqs, id)
FindEvent(k) == Found(Live(log), k)
FindDiff(k) == Found(Live(diffs), k)
FindByAllocation(a) == {i \in DOMAIN reqs : reqs[i].alloc = a}
FindByRequester(u) == {i \in DOMAIN reqs : reqs[i].by = u}
List(status) == {i \in DOMAIN reqs : status # None => reqs[i].status = status}

InsertRequest(id, row) == With(reqs, id, row)
UpdateRequest(id, row) == IF id \in DOMAIN reqs THEN [reqs EXCEPT ![id] = row] ELSE reqs
DeleteRequest(id) == Without(reqs, id)
InsertEvent(e) == Append(log, e)
InsertDiff(d) == Append(diffs, d)
Forget(rows, k) == [j \in DOMAIN rows |-> IF j = k THEN Gone ELSE rows[j]]
DeleteEvent(k) == Forget(log, k)
DeleteDiff(k) == Forget(diffs, k)

-----------------------------------------------------------------------------
(* Reads.  A read may have several outcomes: ties, and nothing else. *)

Required(id, rows) == IF id = None THEN Err(ErrInvalidInput) ELSE Ok(rows)
Latest(rows, keys) == IF keys = {} THEN {Err(ErrNotFound)} ELSE {Ok(rows[k]) : k \in Newest(rows, keys)}

GetComputeAllocationChangeRequest(in) == {FindRequest(in.id)}
ListChangeRequestsForAllocation(in) == {Required(in.alloc, FindByAllocation(in.alloc))}
ListChangeRequestsByRequester(in) == {Required(in.by, FindByRequester(in.by))}
ListChangeRequests(in) == {Ok(List(in.status))}
GetComputeAllocationChangeRequestEvent(in) == {FindEvent(in.row)}
ListEventsForChangeRequest(in) == {Required(in.id, FindEvents(in.id))}
GetLatestEventForChangeRequest(in) ==
    IF in.id = None THEN {Err(ErrInvalidInput)} ELSE Latest(log, FindEvents(in.id))
GetComputeAllocationDiff(in) == {FindDiff(in.row)}
ListDiffsForAllocation(in) == {Required(in.alloc, FindDiffs(in.alloc))}
GetLatestDiffForAllocation(in) ==
    IF in.alloc = None THEN {Err(ErrInvalidInput)} ELSE Latest(diffs, FindDiffs(in.alloc))

Answers(results) == {[code |-> Answer(r, 200), val |-> r.val] : r \in results}

getComputeAllocationChangeRequest(in) == Answers(GetComputeAllocationChangeRequest(in))
listChangeRequestsForAllocation(in) == Answers(ListChangeRequestsForAllocation(in))
listChangeRequestsByRequester(in) == Answers(ListChangeRequestsByRequester(in))
listChangeRequests(in) == Answers(ListChangeRequests(in))
getComputeAllocationChangeRequestEvent(in) == Answers(GetComputeAllocationChangeRequestEvent(in))
listEventsForChangeRequest(in) == Answers(ListEventsForChangeRequest(in))
getLatestEventForChangeRequest(in) == Answers(GetLatestEventForChangeRequest(in))
getComputeAllocationDiff(in) == Answers(GetComputeAllocationDiff(in))
listDiffsForAllocation(in) == Answers(ListDiffsForAllocation(in))
getLatestDiffForAllocation(in) == Answers(GetLatestDiffForAllocation(in))

-----------------------------------------------------------------------------
(* Writes, up to their transaction: the checks, and what will be written.  *)
(* The plan: which tables to touch, the row, the log entry's type.         *)

Plan(kind, id, row, event) == Ok([kind |-> kind, id |-> id, row |-> row, event |-> event])

CreateComputeAllocationChangeRequest(in) ==
    IF in.by = None \/ in.alloc \notin Allocs THEN Err(ErrInvalidInput)
    ELSE Plan("create", in.id,
              [alloc |-> in.alloc, by |-> in.by, want |-> in.want,
               status |-> Or(in.status, "PENDING"), ts |-> Or(in.ts, nowUTC)], "CREATED")

\* Mutant of the next one: a request that is APPROVED already gets a diff again.
UpdateApprovingAgain(in) ==
    IF in.id \notin DOMAIN reqs THEN Err(ErrNotFound)
    ELSE LET row == [reqs[in.id] EXCEPT !.status = Or(in.status, @)] IN
         Plan(IF row.status = "APPROVED" THEN "approve" ELSE "update", in.id, row,
              IF row.status # reqs[in.id].status THEN row.status ELSE "UPDATED")

UpdateComputeAllocationChangeRequest(in) ==
    IF in.id \notin DOMAIN reqs THEN Err(ErrNotFound)
    ELSE LET existing == reqs[in.id]
             row == [alloc |-> Or(in.alloc, existing.alloc), by |-> Or(in.by, existing.by),
                     want |-> in.want, status |-> Or(in.status, existing.status),
                     ts |-> Or(in.ts, existing.ts)]
             moved == row.status # existing.status
         IN Plan(IF moved /\ row.status = "APPROVED" THEN "approve" ELSE "update",
                 in.id, row, IF moved THEN row.status ELSE "UPDATED")

DeleteComputeAllocationChangeRequest(in) ==
    IF in.id \notin DOMAIN reqs THEN Err(ErrNotFound)
    ELSE Plan("delete", in.id, None, "DELETED")

CreateComputeAllocationChangeRequestEvent(in) ==
    IF in.event = None \/ in.id \notin DOMAIN reqs THEN Err(ErrInvalidInput)
    ELSE Plan("log", in.id, [ts |-> Or(in.ts, nowUTC)], in.event)

\* No lookup: removing an event that is not there succeeds.
DeleteComputeAllocationChangeRequestEvent(in) == Plan("unlog", in.row, None, None)

CreateComputeAllocationDiff(in) ==
    IF in.alloc \notin Allocs \/ in.status = None THEN Err(ErrInvalidInput)
    ELSE Plan("diff", None, [alloc |-> in.alloc, want |-> in.want, of |-> None, ts |-> Or(in.ts, nowUTC)], None)

DeleteComputeAllocationDiff(in) ==
    IF FindDiff(in.row).err # None THEN Err(ErrNotFound) ELSE Plan("undiff", in.row, None, None)

createComputeAllocationChangeRequest(in) == <<DecodeJSON(in, CreateComputeAllocationChangeRequest(in)), 201>>
updateComputeAllocationChangeRequest(in) == <<DecodeJSON(in, UpdateComputeAllocationChangeRequest(in)), 200>>
deleteComputeAllocationChangeRequest(in) == <<DeleteComputeAllocationChangeRequest(in), 204>>
createComputeAllocationChangeRequestEvent(in) ==
    <<DecodeJSON(in, CreateComputeAllocationChangeRequestEvent(in)), 201>>
deleteComputeAllocationChangeRequestEvent(in) == <<DeleteComputeAllocationChangeRequestEvent(in), 204>>
createComputeAllocationDiff(in) == <<DecodeJSON(in, CreateComputeAllocationDiff(in)), 201>>
deleteComputeAllocationDiff(in) == <<DeleteComputeAllocationDiff(in), 204>>

Handle(in) ==
    CASE in.op = "create"      -> createComputeAllocationChangeRequest(in)
      [] in.op = "update"      -> updateComputeAllocationChangeRequest(in)
      [] in.op = "delete"      -> deleteComputeAllocationChangeRequest(in)
      [] in.op = "createEvent" -> createComputeAllocationChangeRequestEvent(in)
      [] in.op = "deleteEvent" -> deleteComputeAllocationChangeRequestEvent(in)
      [] in.op = "createDiff"  -> createComputeAllocationDiff(in)
      [] in.op = "deleteDiff"  -> deleteComputeAllocationDiff(in)

Done(c, in, code) == call' = [call EXCEPT ![c] = [at |-> "idle", op |-> in.op, code |-> code]]

Begin(c) ==
    /\ call[c].at = "idle" /\ Len(log) < MaxLog /\ Len(diffs) < MaxLog
    /\ \E in \in load.asked : LET h == Handle(in) IN
           IF h[1].err # None THEN Done(c, in, Answer(h[1], h[2]))
           ELSE call' = [call EXCEPT ![c] = [at |-> "tx", in |-> in, do |-> h[1].val, ok |-> h[2]]]
    /\ UNCHANGED <<reqs, log, diffs, made, entered>>

-----------------------------------------------------------------------------
(* Transactions. *)

Event(do) == [req |-> do.id, type |-> do.event, own |-> do.kind # "log",
              ts |-> IF do.kind \in {"create", "log"} THEN do.row.ts ELSE nowUTC]

\* The insert, and CREATED; an ID already taken fails the transaction.
CommitCreate(c) ==
    LET do == call[c].do IN
    /\ call[c].at = "tx" /\ do.kind = "create"
    /\ IF do.id \in DOMAIN reqs
       THEN Done(c, call[c].in, 500) /\ UNCHANGED <<reqs, log, made>>
       ELSE /\ reqs' = InsertRequest(do.id, do.row)
            /\ log' = InsertEvent(Event(do))
            /\ made' = made \cup {do.id}
            /\ Done(c, call[c].in, call[c].ok)
    /\ UNCHANGED <<diffs, entered>>

\* UPDATE ... WHERE id = $9 matches no row once the request is deleted, and that is no error.
CommitUpdate(c) ==
    LET do == call[c].do
        there == do.id \in DOMAIN reqs IN
    /\ call[c].at = "tx" /\ do.kind \in {"update", "approve"}
    /\ IF do.row.alloc \in Allocs
       THEN /\ reqs' = UpdateRequest(do.id, do.row)
            /\ log' = InsertEvent(Event(do))
            /\ entered' = IF there /\ do.row.status = "APPROVED" /\ reqs[do.id].status # "APPROVED"
                          THEN [entered EXCEPT ![do.id] = @ + 1] ELSE entered
            /\ IF do.kind = "approve" THEN call' = [call EXCEPT ![c].at = "diff"]
               ELSE Done(c, call[c].in, call[c].ok)
       ELSE UNCHANGED <<reqs, log, entered>> /\ Done(c, call[c].in, 500)
    /\ UNCHANGED <<diffs, made>>

\* The second transaction of an approval, through CreateComputeAllocationDiff.
Materialise(c) ==
    LET do == call[c].do IN
    /\ call[c].at = "diff"
    /\ diffs' = InsertDiff([alloc |-> do.row.alloc, want |-> do.row.want, of |-> do.id, ts |-> nowUTC])
    /\ Done(c, call[c].in, call[c].ok)
    /\ UNCHANGED <<reqs, log, made, entered>>

CommitDelete(c) ==
    LET do == call[c].do IN
    /\ call[c].at = "tx" /\ do.kind = "delete"
    /\ log' = InsertEvent(Event(do))
    /\ reqs' = DeleteRequest(do.id)
    /\ Done(c, call[c].in, call[c].ok)
    /\ UNCHANGED <<diffs, made, entered>>

CommitEvent(c) ==
    LET do == call[c].do IN
    /\ call[c].at = "tx" /\ do.kind \in {"log", "unlog"}
    /\ log' = IF do.kind = "log" THEN InsertEvent(Event(do))
              ELSE DeleteEvent(do.id)
    /\ Done(c, call[c].in, call[c].ok)
    /\ UNCHANGED <<reqs, diffs, made, entered>>

CommitDiff(c) ==
    LET do == call[c].do IN
    /\ call[c].at = "tx" /\ do.kind \in {"diff", "undiff"}
    /\ diffs' = IF do.kind = "diff" THEN InsertDiff(do.row)
                ELSE DeleteDiff(do.id)
    /\ Done(c, call[c].in, call[c].ok)
    /\ UNCHANGED <<reqs, log, made, entered>>

\* The transaction does not happen; the service returns the error.
Abort(c) ==
    /\ load.faults /\ call[c].at \in {"tx", "diff"}
    /\ Done(c, call[c].in, 500)
    /\ UNCHANGED <<reqs, log, diffs, made, entered>>

Next == \E c \in load.callers : \/ Begin(c) \/ CommitCreate(c) \/ CommitUpdate(c) \/ Materialise(c)
                           \/ CommitDelete(c) \/ CommitEvent(c) \/ CommitDiff(c) \/ Abort(c)

-----------------------------------------------------------------------------
(* Properties. *)

Own(id, type) == {k \in DOMAIN log : log[k].req = id /\ log[k].own /\ log[k].type = type}
Of(id) == {k \in DOMAIN diffs : diffs[k].of = id}
Busy(id) == \E c \in Callers : call[c].at # "idle" /\ call[c].do.id = id
Statuses == {"PENDING", "APPROVED", "REJECTED"}
Moves(id) == {k \in FindEvents(id) : /\ log[k].own /\ log[k].type \in Statuses
                                       /\ \A j \in Own(id, "CREATED") : j < k}

\* Every row is a request, an event or a diff of the shape its table has.
TypeOK ==
    /\ DOMAIN reqs \subseteq made /\ made \subseteq Ids
    /\ \A i \in DOMAIN reqs : reqs[i].alloc \in Allocs /\ reqs[i].status \in Statuses
    /\ \A k \in DOMAIN Live(log) : log[k].req \in made
    /\ \A k \in DOMAIN Live(diffs) : diffs[k].alloc \in Allocs
    /\ \A c \in Callers : call[c].at \in {"idle", "tx", "diff"}

\* The trail outlives the request (DeleteComputeAllocationChangeRequest): whatever
\* interleaves with a deletion, a request that is gone has CREATED and DELETED in its log,
\* and its log can still be listed.
TrailSurvives ==
    \A i \in made \ DOMAIN reqs :
        /\ Own(i, "CREATED") # {} /\ Own(i, "DELETED") # {}
        /\ \A a \in listEventsForChangeRequest([id |-> i]) : a.code = 200 /\ Own(i, "DELETED") \subseteq a.val

\* Approvals and diffs correspond one to one, when no transaction fails: a request that is
\* not being served has as many diffs as transitions to APPROVED its log tells of
\* (UpdateComputeAllocationChangeRequest), even when updates race.
DiffPerApproval ==
    \A i \in Ids : ~Busy(i) => Cardinality(Of(i)) = Cardinality(Own(i, "APPROVED"))

\* A diff records a transition that happened: no request has more diffs than times its
\* stored status became APPROVED.
DiffPerTransition == \A i \in Ids : Cardinality(Of(i)) <= entered[i]

\* The log tells the status: the last transition it records is to the stored status, and a
\* request without one is still PENDING (the instances create requests with no other status).
StatusLogged ==
    \A i \in DOMAIN reqs :
        reqs[i].status = IF Moves(i) = {} THEN "PENDING" ELSE log[Max(Moves(i))].type

\* The reads tell one story: a request is found by its ID exactly when it is listed under its
\* allocation, its requester and its status, and under no other status; the latest diff of
\* an allocation, and the latest event of a request, is one of those listed.
ReadsAgree ==
    /\ \A i \in Ids : \A a \in getComputeAllocationChangeRequest([id |-> i]) :
           /\ a.code = 404 => \A l \in listChangeRequests([status |-> None]) : i \notin l.val
           /\ a.code = 200 =>
                /\ \A l \in listChangeRequestsForAllocation([alloc |-> a.val.alloc]) : i \in l.val
                /\ \A l \in listChangeRequestsByRequester([by |-> a.val.by]) : i \in l.val
                /\ \A st \in Statuses : \A l \in listChangeRequests([status |-> st]) :
                       i \in l.val <=> st = a.val.status
    /\ \A x \in Allocs : \A a \in getLatestDiffForAllocation([alloc |-> x]) :
           \A l \in listDiffsForAllocation([alloc |-> x]) :
               IF a.code = 404 THEN l.val = {}
               ELSE \E k \in l.val : \A d \in getComputeAllocationDiff([row |-> k]) : d.val = a.val
    /\ \A i \in Ids : \A a \in getLatestEventForChangeRequest([id |-> i]) :
           \A l \in listEventsForChangeRequest([id |-> i]) :
               IF a.code = 404 THEN l.val = {}
               ELSE \E k \in l.val : \A e \in getComputeAllocationChangeRequestEvent([row |-> k]) : e.val = a.val

=============================================================================
