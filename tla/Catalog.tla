-------------------------------- MODULE Catalog --------------------------------
(***************************************************************************)
(* Organizations, compute clusters and their user mappings, allocation     *)
(* resources, their rates and their mappings to allocations, and usage     *)
(* records: stores, service operations and HTTP handlers.  A request is a  *)
(* record whose absent fields are None; a create's id stands for the one   *)
(* supplied or the UUID generated.                                         *)
(***************************************************************************)
EXTENDS Records, SequencesExt, TLC

CONSTANT Instants       \* instants a rate can be asked for

-----------------------------------------------------------------------------
(* Organizations. *)

FindOrganization(id) == Found(db.organizations, id)
FindOrganizationByOriginatedID(orig) == RowsWhere("organizations", "orig", orig)
CreateOrganizationRow(id, row) == Insert("organizations", id, row)
UpdateOrganizationRow(id, row) == Update("organizations", id, row, row)
DeleteOrganizationRow(id) == Delete("organizations", id)

\* ORDER BY name: rows of one name come in any order.
Sorted(ids) == {s \in SetToAllKPermutations(ids) :
    /\ Len(s) = Cardinality(ids)
    /\ \A i, j \in DOMAIN s : i < j => db.organizations[s[i]].name <= db.organizations[s[j]].name}
ListOrganizationRows(limit, offset) ==
    {[items |-> SubSeq(s, Max({offset, 0}) + 1, Min({Len(s), Max({offset, 0}) + Clamp(limit)})), total |-> Len(s)] :
        s \in Sorted(DOMAIN db.organizations)}

CreateOrganization(in) ==
    IF in.name = None THEN Err(ErrInvalidInput)
    ELSE IF in.orig # None /\ FindOrganizationByOriginatedID(in.orig) # {} THEN Err(ErrAlreadyExists)
    ELSE CreateOrganizationRow(in.id, [orig |-> in.orig, name |-> in.name])
GetOrganization(in) == FindOrganization(in.id)
GetOrganizationByOriginatedID(in) == Row("organizations", FindOrganizationByOriginatedID(in.orig))
ListOrganizations(in) == {Ok(page) : page \in ListOrganizationRows(in.limit, in.offset)}
UpdateOrganization(in) == Required({in.id}, UpdateOrganizationRow(in.id, [orig |-> in.orig, name |-> in.name]))
DeleteOrganization(in) ==
    IF ~Known("organizations", in.id) THEN Err(ErrNotFound) ELSE DeleteOrganizationRow(in.id)

-----------------------------------------------------------------------------
(* Compute clusters. *)

FindCluster(id) == Found(db.clusters, id)
FindClusterByName(name) == RowsWhere("clusters", "name", name)
ListClusterRows == DOMAIN db.clusters
CreateClusterRow(id, row) == Insert("clusters", id, row)
UpdateClusterRow(id, row) == Update("clusters", id, row, row)
DeleteClusterRow(id) == Delete("clusters", id)

CreateComputeCluster(in) ==
    IF in.name = None THEN Err(ErrInvalidInput)
    ELSE IF FindClusterByName(in.name) # {} THEN Err(ErrAlreadyExists)
    ELSE CreateClusterRow(in.id, [name |-> in.name])
GetComputeCluster(in) == FindCluster(in.id)
GetComputeClusterByName(in) == Row("clusters", FindClusterByName(in.name))
ListComputeClusters(in) == Ok(ListClusterRows)
UpdateComputeCluster(in) == Required({in.id, in.name}, UpdateClusterRow(in.id, [name |-> in.name]))
DeleteComputeCluster(in) == IF ~Known("clusters", in.id) THEN Err(ErrNotFound) ELSE DeleteClusterRow(in.id)

-----------------------------------------------------------------------------
(* Users on clusters. *)

FindClusterUser(id) == Found(db.clusterUsers, id)
FindClusterUserByPair(k, u) == RowsWherePair("clusterUsers", "cluster", k, "user", u)
FindByClusterAndLocalUsername(k, name) == RowsWherePair("clusterUsers", "cluster", k, "local", name)
FindClusterUsersByCluster(k) == RowsWhere("clusterUsers", "cluster", k)
FindClusterUsersByUser(u) == RowsWhere("clusterUsers", "user", u)
CreateClusterUserRow(id, row) == Insert("clusterUsers", id, row)
UpdateClusterUserRow(id, row) ==            \* provisioned_at is not written
    Update("clusterUsers", id, [cluster |-> row.cluster, user |-> row.user, local |-> row.local], row)
MarkProvisionedRow(id) == Silent(Update("clusterUsers", id, [prov |-> TRUE], None))
DeleteClusterUserRow(id) == Delete("clusterUsers", id)

\* Mutant of the next one: the violated constraint is not looked at.
CreateUncheckedDuplicate(in) ==
    Required({in.cluster, in.user, in.local},
        IF ~Known("clusters", in.cluster) \/ ~Known("users", in.user) THEN Err(ErrInvalidInput)
        ELSE CreateClusterUserRow(in.id,
                 [cluster |-> in.cluster, user |-> in.user, local |-> in.local, prov |-> FALSE]))

CreateComputeClusterUser(in) ==
    IF None \in {in.cluster, in.user, in.local} THEN Err(ErrInvalidInput)
    ELSE IF ~Known("clusters", in.cluster) \/ ~Known("users", in.user) THEN Err(ErrInvalidInput)
    ELSE IF FindClusterUserByPair(in.cluster, in.user) # {} THEN Err(ErrAlreadyExists)
    ELSE Conflicting(CreateClusterUserRow(in.id,
             [cluster |-> in.cluster, user |-> in.user, local |-> in.local, prov |-> FALSE]))
GetComputeClusterUser(in) == FindClusterUser(in.id)
GetComputeClusterUserByPair(in) ==
    Required({in.cluster, in.user}, Row("clusterUsers", FindClusterUserByPair(in.cluster, in.user)))
GetComputeClusterUserByClusterAndLocalUsername(in) ==
    Required({in.cluster, in.local}, Row("clusterUsers", FindByClusterAndLocalUsername(in.cluster, in.local)))
ListComputeClusterUsersByCluster(in) == Required({in.cluster}, Ok(FindClusterUsersByCluster(in.cluster)))
ListComputeClusterUsersByUser(in) == Required({in.user}, Ok(FindClusterUsersByUser(in.user)))
UpdateComputeClusterUser(in) ==
    IF ~Known("clusterUsers", in.id) THEN Err(ErrNotFound)
    ELSE LET existing == db.clusterUsers[in.id] IN
         UpdateClusterUserRow(in.id, [cluster |-> Or(in.cluster, existing.cluster), user |-> Or(in.user, existing.user),
                                      local |-> Or(in.local, existing.local), prov |-> FALSE])
MarkComputeClusterUserProvisioned(in) ==
    IF ~Known("clusterUsers", in.id) THEN Err(ErrNotFound) ELSE MarkProvisionedRow(in.id)
DeleteComputeClusterUser(in) ==
    IF ~Known("clusterUsers", in.id) THEN Err(ErrNotFound) ELSE DeleteClusterUserRow(in.id)

-----------------------------------------------------------------------------
(* Resources, and the allocations they are attached to. *)

FindResource(id) == Found(db.resources, id)
FindByNameAndCluster(name, k) == RowsWherePair("resources", "name", name, "cluster", k)
FindByTypeAndCluster(type, k) == RowsWherePair("resources", "type", type, "cluster", k)
ListResourceRows == DOMAIN db.resources
CreateResourceRow(id, row) == Insert("resources", id, row)
UpdateResourceRow(id, row) == Update("resources", id, row, row)
DeleteResourceRow(id) == Delete("resources", id)

SumOf(t, field, ids) == MapThenSumSet(LAMBDA i : db[t][i][field], ids)

\* Mutant of the next one: the tables are joined before they are aggregated.
SummariesOfOneJoin ==
    [r \in DOMAIN db.resources |->
        LET m == RowsWhere("mappings", "resource", r)  u == RowsWhere("usages", "resource", r)
            n == Max({1, Cardinality(RowsWhere("rates", "resource", r))})
        IN [allocations |-> Cardinality(m), allocated |-> SumOf("mappings", "amount", m) * n,
            used |-> SumOf("usages", "su", u) * n, rates |-> Cardinality(RowsWhere("rates", "resource", r))]]

\* Three aggregates, each grouped by resource before it is joined.
ListSummaries ==
    [r \in DOMAIN db.resources |->
        LET m == RowsWhere("mappings", "resource", r) IN
        [allocations |-> Cardinality({db.mappings[i].alloc : i \in m}), allocated |-> SumOf("mappings", "amount", m),
         used |-> SumOf("usages", "su", RowsWhere("usages", "resource", r)),
         rates |-> Cardinality(RowsWhere("rates", "resource", r))]]

CreateComputeAllocationResource(in) ==
    IF None \in {in.name, in.type, in.cluster} THEN Err(ErrInvalidInput)
    ELSE IF ~Known("clusters", in.cluster) THEN Err(ErrInvalidInput)
    ELSE CreateResourceRow(in.id, [name |-> in.name, type |-> in.type, cluster |-> in.cluster])
GetComputeAllocationResource(in) == FindResource(in.id)
GetComputeAllocationResourceByNameAndCluster(in) ==
    Required({in.name, in.cluster}, Row("resources", FindByNameAndCluster(in.name, in.cluster)))
ListComputeAllocationResources(in) == Ok(ListResourceRows)
ListComputeAllocationResourceSummaries(in) == Ok(ListSummaries)
ListComputeAllocationResourcesByTypeAndCluster(in) ==
    Required({in.type, in.cluster}, Ok(FindByTypeAndCluster(in.type, in.cluster)))
UpdateComputeAllocationResource(in) ==
    Required({in.id}, UpdateResourceRow(in.id, [name |-> in.name, type |-> in.type, cluster |-> in.cluster]))
DeleteComputeAllocationResource(in) ==
    IF ~Known("resources", in.id) THEN Err(ErrNotFound) ELSE DeleteResourceRow(in.id)

FindMappingByPair(a, r) == RowsWherePair("mappings", "alloc", a, "resource", r)
FindResourcesByAllocation(a) == {db.mappings[i].resource : i \in RowsWhere("mappings", "alloc", a)}
FindAllocationsByResource(r) == {db.mappings[i].alloc : i \in RowsWhere("mappings", "resource", r)}
CreateMappingRow(id, row) == Insert("mappings", id, row)
\* Mutant of the next one: the event carries the row as it was.
UpdateAnnouncingOld(id, row) == Update("mappings", id, row, db.mappings[id])
UpdateMappingRow(id, row) == Update("mappings", id, row, row)
DeleteByPair(a, r) ==
    DeleteWhere("mappings", CHOOSE i \in FindMappingByPair(a, r) : TRUE, [alloc |-> a, resource |-> r])

AttachResourceToAllocation(in) ==
    IF None \in {in.alloc, in.resource} \/ in.amount < 0 THEN Err(ErrInvalidInput)
    ELSE IF ~Known("allocs", in.alloc) \/ ~Known("resources", in.resource) THEN Err(ErrInvalidInput)
    ELSE IF FindMappingByPair(in.alloc, in.resource) # {} THEN Err(ErrAlreadyExists)
    ELSE CreateMappingRow(in.id, [alloc |-> in.alloc, resource |-> in.resource, amount |-> in.amount])
UpdateAllocationResourceMapping(in) ==
    IF None \in {in.alloc, in.resource} \/ in.amount < 0 THEN Err(ErrInvalidInput)
    ELSE LET pair == FindMappingByPair(in.alloc, in.resource) IN
         IF pair = {} THEN Err(ErrNotFound)
         ELSE LET i == CHOOSE j \in pair : TRUE IN UpdateMappingRow(i, [db.mappings[i] EXCEPT !.amount = in.amount])
DetachResourceFromAllocation(in) ==
    IF None \in {in.alloc, in.resource} THEN Err(ErrInvalidInput)
    ELSE IF FindMappingByPair(in.alloc, in.resource) = {} THEN Err(ErrNotFound)
    ELSE DeleteByPair(in.alloc, in.resource)
ListResourcesForAllocation(in) == Required({in.alloc}, Ok(FindResourcesByAllocation(in.alloc)))
ListAllocationsForResource(in) == Required({in.resource}, Ok(FindAllocationsByResource(in.resource)))

-----------------------------------------------------------------------------
(* Rates: no events.  0 is the zero time. *)

FindRate(id) == Found(db.rates, id)
FindRatesByResource(r) == RowsWhere("rates", "resource", r)
Applies(rate, at) == rate.start <= at /\ rate.end > at
FindEffective(r, at) ==
    LET on == {i \in FindRatesByResource(r) : Applies(db.rates[i], at)} IN
    {i \in on : \A j \in on : db.rates[j].start <= db.rates[i].start}
CreateRateRow(id, row) == Silent(Insert("rates", id, row))
UpdateRateRow(id, row) == Silent(Update("rates", id, row, None))
DeleteRateRow(id) == DeleteUnread("rates", id)

CreateComputeAllocationResourceRate(in) ==
    IF in.resource = None \/ in.rate < 0 \/ 0 \in {in.start, in.end} \/ in.start >= in.end THEN Err(ErrInvalidInput)
    ELSE IF ~Known("resources", in.resource) THEN Err(ErrInvalidInput)
    ELSE CreateRateRow(in.id, [resource |-> in.resource, rate |-> in.rate, start |-> in.start, end |-> in.end])
GetComputeAllocationResourceRate(in) == FindRate(in.id)
ListRatesForResource(in) == Required({in.resource}, Ok(FindRatesByResource(in.resource)))
\* No instant asked for: the clock's.
GetEffectiveRateForResource(in) ==
    UNION {LET on == FindEffective(in.resource, at) IN
           {Required({in.resource}, r) : r \in IF on = {} THEN {Err(ErrNotFound)} ELSE {Ok(i) : i \in on}} :
           at \in IF in.at = 0 THEN Instants ELSE {in.at}}
UpdateComputeAllocationResourceRate(in) ==
    IF in.id = None \/ in.rate < 0 \/ (0 \notin {in.start, in.end} /\ in.start >= in.end) THEN Err(ErrInvalidInput)
    ELSE UpdateRateRow(in.id, [rate |-> in.rate, start |-> in.start, end |-> in.end])
DeleteComputeAllocationResourceRate(in) == Required({in.id}, DeleteRateRow(in.id))

-----------------------------------------------------------------------------
(* Usage records: no events.  Service units are counted in halves. *)

\* ROUND of a double: a half goes to the even neighbour.
Round(halves) == IF halves % 4 = 3 THEN halves \div 2 + 1 ELSE halves \div 2

FindUsage(id) == Found(db.usages, id)
FindUsagesByAllocation(a) == RowsWhere("usages", "alloc", a)
FindUsagesByUser(u) == RowsWhere("usages", "user", u)
FindByComputeAllocationIDAndJobID(a, job) == RowsWherePair("usages", "alloc", a, "job", job)
SumSUForAllocation(a) == Round(SumOf("usages", "su", FindUsagesByAllocation(a)))
SumSUForUserInAllocation(a, u) == Round(SumOf("usages", "su", RowsWherePair("usages", "alloc", a, "user", u)))
CreateUsageRow(id, row) == Silent(Insert("usages", id, row))
DeleteUsageRow(id) == Silent(Delete("usages", id))

CreateComputeAllocationUsage(in) ==
    IF in.alloc = None \/ in.su < 0 THEN Err(ErrInvalidInput)
    ELSE IF ~Known("allocs", in.alloc) \/ (in.resource # None /\ ~Known("resources", in.resource)) THEN Err(ErrInvalidInput)
    ELSE CreateUsageRow(in.id, [alloc |-> in.alloc, resource |-> in.resource, user |-> in.user, su |-> in.su, job |-> in.job])
GetComputeAllocationUsage(in) == FindUsage(in.id)
GetComputeAllocationUsageByComputeAllocationIDAndJobID(in) ==
    Required({in.alloc, in.job}, Row("usages", FindByComputeAllocationIDAndJobID(in.alloc, in.job)))
ListUsagesForAllocation(in) == Required({in.alloc}, Ok(FindUsagesByAllocation(in.alloc)))
ListUsagesByUser(in) == Required({in.user}, Ok(FindUsagesByUser(in.user)))
GetTotalSUUsageForAllocation(in) == Required({in.alloc}, Ok(SumSUForAllocation(in.alloc)))
GetTotalSUUsageForUserInAllocation(in) ==
    Required({in.alloc, in.user}, Ok(SumSUForUserInAllocation(in.alloc, in.user)))
DeleteComputeAllocationUsage(in) ==
    IF ~Known("usages", in.id) THEN Err(ErrNotFound) ELSE DeleteUsageRow(in.id)

-----------------------------------------------------------------------------
(* Handlers.  A read answers one of a set of results, a write its plan and the code of success. *)

createOrganization(in) == Body(in, CreateOrganization(in))
listOrganizations(in) == Answers(ListOrganizations(in))
getOrganization(in) == Answers({GetOrganization(in)})
createComputeCluster(in) == Body(in, CreateComputeCluster(in))
getComputeCluster(in) == Answers({GetComputeCluster(in)})
listComputeClusters(in) == Answers({ListComputeClusters(in)})
createComputeClusterUser(in) == Body(in, CreateComputeClusterUser(in))
getComputeClusterUser(in) == Answers({GetComputeClusterUser(in)})
updateComputeClusterUser(in) == <<DecodeJSON(in, UpdateComputeClusterUser(in)), 200>>
deleteComputeClusterUser(in) == <<DeleteComputeClusterUser(in), 204>>
listComputeClusterUsersByCluster(in) == Answers({ListComputeClusterUsersByCluster(in)})
getComputeClusterUserByPair(in) == Answers({GetComputeClusterUserByPair(in)})
listComputeClusterUsersByUser(in) == Answers({ListComputeClusterUsersByUser(in)})
createComputeAllocationResource(in) == Body(in, CreateComputeAllocationResource(in))
getComputeAllocationResource(in) == Answers({GetComputeAllocationResource(in)})
listComputeAllocationResources(in) == Answers({ListComputeAllocationResources(in)})
listComputeAllocationResourceSummaries(in) == Answers({ListComputeAllocationResourceSummaries(in)})
attachResourceToAllocation(in) == Body(in, AttachResourceToAllocation(in))
updateAllocationResourceMapping(in) == <<DecodeJSON(in, UpdateAllocationResourceMapping(in)), 200>>
detachResourceFromAllocation(in) == <<DetachResourceFromAllocation(in), 204>>
listResourcesForAllocation(in) == Answers({ListResourcesForAllocation(in)})
listAllocationsForResource(in) == Answers({ListAllocationsForResource(in)})
createComputeAllocationResourceRate(in) == Body(in, CreateComputeAllocationResourceRate(in))
getComputeAllocationResourceRate(in) == Answers({GetComputeAllocationResourceRate(in)})
listRatesForResource(in) == Answers({ListRatesForResource(in)})
getEffectiveRateForResource(in) ==           \* an instant that does not parse
    IF in.body = "bad" THEN {[code |-> 400, val |-> None]} ELSE Answers(GetEffectiveRateForResource(in))
createComputeAllocationUsage(in) == Body(in, CreateComputeAllocationUsage(in))
getComputeAllocationUsage(in) == Answers({GetComputeAllocationUsage(in)})
deleteComputeAllocationUsage(in) == <<DeleteComputeAllocationUsage(in), 204>>
listUsagesForAllocation(in) == Answers({ListUsagesForAllocation(in)})
listUsagesByUser(in) == Answers({ListUsagesByUser(in)})
getTotalSUUsageForAllocation(in) == Answers({GetTotalSUUsageForAllocation(in)})
getTotalSUUsageForUserInAllocation(in) == Answers({GetTotalSUUsageForUserInAllocation(in)})

\* The writes: through HTTP, and by the Go callers of the service that no route reaches.
Handle(in) ==
    CASE in.op = "createOrganization"  -> createOrganization(in)
      [] in.op = "createCluster"       -> createComputeCluster(in)
      [] in.op = "createClusterUser"   -> createComputeClusterUser(in)
      [] in.op = "updateClusterUser"   -> updateComputeClusterUser(in)
      [] in.op = "deleteClusterUser"   -> deleteComputeClusterUser(in)
      [] in.op = "createResource"      -> createComputeAllocationResource(in)
      [] in.op = "attach"              -> attachResourceToAllocation(in)
      [] in.op = "updateMapping"       -> updateAllocationResourceMapping(in)
      [] in.op = "detach"              -> detachResourceFromAllocation(in)
      [] in.op = "createRate"          -> createComputeAllocationResourceRate(in)
      [] in.op = "createUsage"         -> createComputeAllocationUsage(in)
      [] in.op = "deleteUsage"         -> deleteComputeAllocationUsage(in)
      [] in.op = "markProvisioned"     -> <<MarkComputeClusterUserProvisioned(in), 200>>
      [] in.op = "updateOrganization"  -> <<UpdateOrganization(in), 200>>
      [] in.op = "deleteOrganization"  -> <<DeleteOrganization(in), 200>>
      [] in.op = "updateCluster"       -> <<UpdateComputeCluster(in), 200>>
      [] in.op = "deleteCluster"       -> <<DeleteComputeCluster(in), 200>>
      [] in.op = "updateResource"      -> <<UpdateComputeAllocationResource(in), 200>>
      [] in.op = "deleteResource"      -> <<DeleteComputeAllocationResource(in), 200>>
      [] in.op = "updateRate"          -> <<UpdateComputeAllocationResourceRate(in), 200>>
      [] in.op = "deleteRate"          -> <<DeleteComputeAllocationResourceRate(in), 200>>

-----------------------------------------------------------------------------
(* Properties. *)

Ask == [api |-> "catalog", op |-> None, body |-> "ok", id |-> None, name |-> None, orig |-> None, cluster |-> None, user |-> None,
        local |-> None, type |-> None, resource |-> None, alloc |-> None, amount |-> 0, rate |-> 0,
        start |-> 0, end |-> 0, su |-> 0, job |-> None, at |-> 0, limit |-> 0, offset |-> 0]
Value(answers) == (CHOOSE a \in answers : TRUE).val
Code(answers) == (CHOOSE a \in answers : TRUE).code

\* What one read tells another does not contradict: the lists of a cluster's users and of a user's
\* clusters, and the lookups by pair, by local name and by ID; a page of organizations and its total;
\* clusters and resources by ID and by name; the rate in effect and the rates listed; usage by
\* allocation, by user and by job.
ReadsAgree ==
    /\ \A k \in DOMAIN db.clusters, u \in DOMAIN db.users :
          LET byCluster == Value(listComputeClusterUsersByCluster([Ask EXCEPT !.cluster = k]))
              byUser == Value(listComputeClusterUsersByUser([Ask EXCEPT !.user = u]))
              pair == getComputeClusterUserByPair([Ask EXCEPT !.cluster = k, !.user = u])
          IN /\ Code(pair) = 200 <=> byCluster \cap byUser # {}
             /\ \A i \in byCluster \cap byUser :
                   LET row == Value(getComputeClusterUser([Ask EXCEPT !.id = i])) IN
                   /\ Value(pair) = row
                   /\ GetComputeClusterUserByClusterAndLocalUsername([Ask EXCEPT !.cluster = k, !.local = row.local]) = Ok(row)
    /\ \A n \in 0 .. PageMax + 1 : \A page \in listOrganizations([Ask EXCEPT !.limit = n]) :
          /\ page.val.total = Cardinality(DOMAIN db.organizations)
          /\ Len(page.val.items) = Min({page.val.total, IF n = 0 THEN PageDefault ELSE Min({n, PageMax})})
          /\ \A i \in DOMAIN page.val.items : Code(getOrganization([Ask EXCEPT !.id = page.val.items[i]])) = 200
    /\ \A i \in DOMAIN db.organizations :
          LET orig == Value(getOrganization([Ask EXCEPT !.id = i])).orig IN
          orig # None => GetOrganizationByOriginatedID([Ask EXCEPT !.orig = orig]).val.orig = orig
    /\ \A k \in Value(listComputeClusters(Ask)) :
          LET row == Value(getComputeCluster([Ask EXCEPT !.id = k])) IN GetComputeClusterByName([Ask EXCEPT !.name = row.name]) = Ok(row)
    /\ \A r \in Value(listComputeAllocationResources(Ask)) :
          LET row == Value(getComputeAllocationResource([Ask EXCEPT !.id = r]))
              rates == Value(listRatesForResource([Ask EXCEPT !.resource = r]))
          IN /\ GetComputeAllocationResourceByNameAndCluster([Ask EXCEPT !.name = row.name, !.cluster = row.cluster]) = Ok(row)
             /\ row.type # None => r \in ListComputeAllocationResourcesByTypeAndCluster([Ask EXCEPT !.type = row.type, !.cluster = row.cluster]).val
             /\ \A i \in rates : Value(getComputeAllocationResourceRate([Ask EXCEPT !.id = i])).resource = r
             /\ \A at \in Instants \cup {0} : \A now \in getEffectiveRateForResource([Ask EXCEPT !.resource = r, !.at = at]) :
                    now.code = 404 \/ now.val \in rates
    /\ \A a \in DOMAIN db.allocs : \A i \in Value(listUsagesForAllocation([Ask EXCEPT !.alloc = a])) :
          LET row == Value(getComputeAllocationUsage([Ask EXCEPT !.id = i]))
              byJob == GetComputeAllocationUsageByComputeAllocationIDAndJobID([Ask EXCEPT !.alloc = a, !.job = row.job])
          IN i \in Value(listUsagesByUser([Ask EXCEPT !.user = row.user])) /\ byJob.val.job = row.job /\ byJob.val.alloc = a

\* The dashboard's figures are those of the lists behind them: neither a second rate nor a second
\* usage record multiplies what the other columns count (ListSummaries aggregates before it joins).
SummariesExact ==
    \A r \in DOMAIN db.resources :
        LET one == Value(listComputeAllocationResourceSummaries(Ask))[r]
            allocs == Value(listAllocationsForResource([Ask EXCEPT !.resource = r]))
        IN /\ one.allocations = Cardinality(allocs)
           /\ one.rates = Cardinality(Value(listRatesForResource([Ask EXCEPT !.resource = r])))
           /\ one.allocated = SumOf("mappings", "amount", UNION {FindMappingByPair(a, r) : a \in allocs})
           /\ one.used = MapThenSumSet(LAMBDA a : SumOf("usages", "su",
                  {i \in Value(listUsagesForAllocation([Ask EXCEPT !.alloc = a])) : db.usages[i].resource = r}), DOMAIN db.allocs)
           /\ \A a \in allocs : r \in Value(listResourcesForAllocation([Ask EXCEPT !.alloc = a]))

\* Totals are rounded once, after summing: an allocation's total is within half a unit of what was
\* recorded, however many records there are, and the totals per user add up to it within half a unit each.
TotalsClose ==
    \A a \in DOMAIN db.allocs :
        LET total == Value(getTotalSUUsageForAllocation([Ask EXCEPT !.alloc = a]))
            exact == SumOf("usages", "su", FindUsagesByAllocation(a))
            perUser == MapThenSumSet(LAMBDA u : Value(getTotalSUUsageForUserInAllocation([Ask EXCEPT !.alloc = a, !.user = u])), DOMAIN db.users)
        IN 2 * total - exact \in -1 .. 1 /\ LET n == 1 + Cardinality(DOMAIN db.users) IN 2 * (total - perUser) \in -n .. n

\* Two requests that map one user, or one local name, on a cluster at once: the loser is answered
\* 409, not 500, because CreateComputeClusterUser reads the name of the violated constraint (no
\* transaction fails, and the server generates the IDs).
LoserConflicts == \A c \in Callers : call[c].at = "idle" /\ call[c].op = "createClusterUser" => call[c].code # 500
================================================================================
