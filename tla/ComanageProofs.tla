--------------------------- MODULE ComanageProofs ---------------------------
(***************************************************************************)
(* What the runs of the Identity-Provisioner leave in the registry, proved *)
(* for any users, names and workloads, and any number of calls that fail.  *)
(*                                                                         *)
(* RInv says, for every run and whatever step it is at, what it has found  *)
(* or made by then: of the group, which only grows, whoever else is at     *)
(* work; and of the person, as long as no other run of the user changes    *)
(* it.  An account is written only from the last of these steps, and a row *)
(* is marked only after that.                                              *)
(***************************************************************************)
EXTENDS Comanage, TLAPS

-----------------------------------------------------------------------------
(* The registry. *)

Names == STRING \cup {None}
Persons == [there : BOOLEAN, ids : SUBSET Assigned, links : Nat, login : Names, account : [name : Names, group : Nat]]
Attributes == UNION {[D -> STRING \cup Users] : D \in SUBSET {"uid", "gidnumber"}}
Groups == [name : STRING, ids : Attributes, members : SUBSET Users, cluster : BOOLEAN]

\* How far a run is.
Clustered == {"fetch", "put", "mark"}
Joined == Clustered \cup {"cluster", "new cluster"}
Numbered == Joined \cup {"member", "new member"}
Named == Numbered \cup {"gidnumber", "new gidnumber"}
Grouped == Named \cup {"uid", "new uid"}
Linked == Grouped \cup {"group", "new group"}
Shown == Linked \cup {"link", "subject", "attach"}
Found == Shown \cup {"keep", "composite"}
Early == {"stored", "email", "post", "wait"}
Working == Found \cup Early
Runs == [pc : {"none", "queued", "done", "failed"}]
        \cup [pc : Working, sub : BOOLEAN, composite : Persons, group : Nat]

NamesOf(u) == {load.names[u][i] : i \in 1 .. Rows(u)}

RegistryOK(E) ==
    /\ E = [people |-> E.people, groups |-> E.groups, orphans |-> E.orphans]
    /\ E.people \in [Users -> Persons] /\ E.groups \in Seq(Groups)

\* What is said of a group once is never taken back.
Grows(G, H) ==
    \A g \in DOMAIN G :
        /\ g \in DOMAIN H /\ H[g].name = G[g].name /\ DOMAIN G[g].ids \subseteq DOMAIN H[g].ids
        /\ G[g].members \subseteq H[g].members /\ (G[g].cluster => H[g].cluster)

\* The identifiers of a group are those of its name and of the user with that name.
Valued(x) ==
    /\ "uid" \in DOMAIN x.ids => x.ids["uid"] = x.name
    /\ "gidnumber" \in DOMAIN x.ids => x.ids["gidnumber"] \in Users /\ x.name \in NamesOf(x.ids["gidnumber"])

\* What a run has found or made of the group by the time it is at pc.
Reached(G, pc, g, name, u) ==
    /\ pc \in Grouped => g \in DOMAIN G /\ G[g].name = name
    /\ pc \in Named => "uid" \in DOMAIN G[g].ids
    /\ pc \in Numbered => "gidnumber" \in DOMAIN G[g].ids
    /\ pc \in Joined => u \in G[g].members
    /\ pc \in Clustered => G[g].cluster \/ load.refuses

\* A person that is not there has nothing, and an account is complete.
PersonOK(E, u) ==
    LET p == E.people[u] IN
    /\ ~p.there => p = NoPerson
    /\ p.account # NoAccount => /\ Reached(E.groups, "put", p.account.group, p.account.name, u)
                                /\ p.login = p.account.name /\ p.account.name \in NamesOf(u)

\* What a run knows of the person, while no other run of the user changes it.
Knows(run, p, name, u) ==
    /\ run.pc \in Early => run.composite = NoPerson
    /\ run.pc \in Found => "id" \in p.ids
    /\ run.pc \in {"keep", "composite"} =>
          run.composite = NoPerson \/ (run.composite.ids \subseteq p.ids /\ run.composite.links = p.links)
    /\ run.pc \in Shown => p.ids = Assigned
    /\ run.pc = "link" => run.composite.links = p.links
    /\ run.pc \in {"subject", "attach"} => p.links = 0
    /\ run.pc \in Linked /\ run.sub => p.links = 1
    /\ run.pc = "put" => run.composite = p
    /\ run.pc = "mark" => p.account.name = name
    /\ run.pc \in Working /\ u \in load.bound => run.sub

Fits(r, E, run) ==
    /\ run.pc \in Grouped => Reached(E.groups, run.pc, run.group, LocalUsername(r), r[1])
    /\ run.pc \in Found \cup {"wait"} => E.people[r[1]].there
    /\ run.pc = "put" => run.composite.there
    /\ ~load.overlaps => Knows(run, E.people[r[1]], LocalUsername(r), r[1])

\* A row that is marked has its account.
Landed(u) ==
    gen[u] > 0 /\ Provisioned(<<CustosClusterID, u>>) =>
        /\ runs[<<u, gen[u]>>].pc = "done" /\ Person(u).account.name = LocalUsername(<<u, gen[u]>>)
        /\ u \in load.bound => Person(u).links = 1

RType ==
    /\ RegistryOK(registry) /\ load.bound \subseteq bound
    /\ gen \in [Users -> Nat] /\ \A u \in Users : gen[u] <= Rows(u)
    /\ DOMAIN runs = Ids /\ \A r \in Ids : runs[r] \in Runs /\ (runs[r].pc # "none" => r[2] \in 1 .. gen[r[1]])

Solo ==
    /\ \A r \in Ids : runs[r].pc \notin Over => r[2] = gen[r[1]]
    /\ \A u \in Users : Person(u).links <= 1 /\ (u \in stored => "id" \in Person(u).ids) /\ Landed(u)

\* The core has the rows of the schema.
RowsOK ==
    /\ load \in Loads /\ DOMAIN core = {"alloc", "member", "account", "override", "mapped"}
    /\ DOMAIN core.account = Clusters \X Users

RInv ==
    /\ RowsOK /\ RType
    /\ \A g \in DOMAIN registry.groups : Valued(Group(g))
    /\ \A u \in Users : PersonOK(registry, u) /\ (u \in stored => Person(u).there)
    /\ \A r \in Ids : Fits(r, registry, runs[r])
    /\ ~load.overlaps => Solo

\* What a step of the run may make of the registry.
Good(r, E) ==
    /\ RegistryOK(E) /\ Grows(registry.groups, E.groups) /\ \A g \in DOMAIN E.groups : Valued(E.groups[g])
    /\ \A v \in Users : v # r[1] => E.people[v] = registry.people[v]
    /\ PersonOK(E, r[1]) /\ (Person(r[1]).there => E.people[r[1]].there)
    /\ ~load.overlaps => /\ Person(r[1]).links <= E.people[r[1]].links /\ E.people[r[1]].links <= 1
                         /\ Person(r[1]).ids \subseteq E.people[r[1]].ids

\* A step of a run that is under way, and where it leaves the run.
Lands(r, to) == to \in Runs /\ to.pc # "none" /\ Fits(r, registry', to) /\ Goes(r, to)
Stepped(r) == Good(r, registry') /\ \E to : Lands(r, to)

LEMMA ReachedGrows ==
    ASSUME NEW G, NEW H, Grows(G, H), NEW pc \in Grouped, NEW g, NEW name, NEW u, Reached(G, pc, g, name, u)
    PROVE  Reached(H, pc, g, name, u)
<1>1. g \in DOMAIN G /\ G[g].name = name
  BY Zenon DEF Reached
<1>2. /\ g \in DOMAIN H /\ H[g].name = name /\ DOMAIN G[g].ids \subseteq DOMAIN H[g].ids
      /\ G[g].members \subseteq H[g].members /\ (G[g].cluster => H[g].cluster)
  BY <1>1, Zenon DEF Grows
<1> QED
  BY <1>1, <1>2, Zenon DEF Reached

LEMMA GrowsSelf == ASSUME NEW G PROVE Grows(G, G)
  BY Zenon DEF Grows

\* Identifiers are added and kept.
LEMMA AttributesGrow ==
    ASSUME NEW a \in Attributes, NEW type \in {"uid", "gidnumber"}, NEW v \in STRING \cup Users
    PROVE  [t \in DOMAIN a \cup {type} |-> IF t \in DOMAIN a THEN a[t] ELSE v] \in Attributes
<1>1. PICK D \in SUBSET {"uid", "gidnumber"} : a \in [D -> STRING \cup Users]
  BY Zenon DEF Attributes
<1>2. D \cup {type} \in SUBSET {"uid", "gidnumber"}
  OBVIOUS
<1>3. [t \in DOMAIN a \cup {type} |-> IF t \in DOMAIN a THEN a[t] ELSE v] \in [D \cup {type} -> STRING \cup Users]
  BY <1>1
<1> QED
  BY <1>2, <1>3, Zenon DEF Attributes

LEMMA NamesApart ==
    ASSUME RowsOK, NEW u \in Users, NEW v \in Users, NEW n \in NamesOf(u), n \in NamesOf(v)
    PROVE  u = v
<1>1. load \in Loads
  BY Zenon DEF RowsOK
<1>2. load.names \in [Users -> Seq(STRING)]
  BY <1>1, LoadsAssumption, Zenon
<1>3. load.names[u] \in Seq(STRING) /\ load.names[v] \in Seq(STRING)
  BY <1>2
<1>4. DOMAIN load.names[u] = 1 .. Rows(u) /\ DOMAIN load.names[v] = 1 .. Rows(v)
  BY <1>3 DEF Rows
<1>5. PICK i \in 1 .. Rows(u), j \in 1 .. Rows(v) : load.names[u][i] = load.names[v][j]
  BY Zenon DEF NamesOf
<1>6. \A x, y \in Users : \A k \in DOMAIN load.names[x], l \in DOMAIN load.names[y] : load.names[x][k] = load.names[y][l] => x = y
  BY <1>1, LoadsAssumption
<1> QED
  BY <1>4, <1>5, <1>6, Zenon

\* The run of a row has the row's name.
LEMMA RunNames ==
    ASSUME RowsOK, RType, NEW r \in Ids, runs[r].pc # "none"
    PROVE  r[1] \in Users /\ LocalUsername(r) \in NamesOf(r[1]) /\ LocalUsername(r) \in STRING
<1>1. load.names \in [Users -> Seq(STRING)]
  BY LoadsAssumption, Zenon DEF RowsOK
<1>2. r[1] \in Users
  BY DEF Ids
<1>3. load.names[r[1]] \in Seq(STRING)
  BY <1>1, <1>2
<1>4. r[2] \in 1 .. gen[r[1]] /\ gen[r[1]] <= Rows(r[1]) /\ gen[r[1]] \in Nat
  BY <1>2 DEF RType
<1>5. Rows(r[1]) \in Nat
  BY <1>3 DEF Rows
<1>6. r[2] \in 1 .. Rows(r[1])
  BY <1>4, <1>5
<1>7. LocalUsername(r) \in STRING
  BY <1>3, <1>6 DEF LocalUsername, Rows
<1> QED
  BY <1>2, <1>6, <1>7, Zenon DEF NamesOf, LocalUsername

LEMMA NoPersonType == NoPerson \in Persons /\ NoPerson.account = NoAccount /\ NoPerson.ids = {} /\ NoPerson.links = 0
<1>1. None \in Names
  BY Zenon DEF Names
<1>2. NoAccount \in [name : Names, group : Nat]
  BY <1>1 DEF NoAccount
<1> QED
  BY <1>1, <1>2 DEF NoPerson, Persons

\* People stay as they are when only groups or org identities change.
LEMMA GroupsGood ==
    ASSUME RInv, NEW r \in Ids, NEW E, RegistryOK(E), E.people = registry.people, Grows(registry.groups, E.groups),
           \A g \in DOMAIN E.groups : Valued(E.groups[g])
    PROVE  Good(r, E)
<1>1. r[1] \in Users
  BY DEF Ids
<1>2. Person(r[1]) \in Persons
  BY <1>1 DEF RInv, RType, RegistryOK, Person
<1>3. PersonOK(registry, r[1]) /\ (~load.overlaps => Person(r[1]).links <= 1)
  BY <1>1, Zenon DEF RInv, Solo
<1>4. PersonOK(E, r[1])
  <2> DEFINE p == registry.people[r[1]]
  <2>1. "put" \in Grouped
    BY DEF Grouped, Named, Numbered, Joined, Clustered
  <2>2. ASSUME Reached(registry.groups, "put", p.account.group, p.account.name, r[1])
        PROVE  Reached(E.groups, "put", p.account.group, p.account.name, r[1])
    BY <2>1, <2>2, ReachedGrows
  <2> QED
    BY <1>3, <2>2, Zenon DEF PersonOK
<1>5. Person(r[1]).links <= Person(r[1]).links
  BY <1>2 DEF Persons
<1> QED
  BY <1>3, <1>4, <1>5, Zenon DEF Good, Person

LEMMA SelfGood ==
    ASSUME RInv, NEW r \in Ids
    PROVE  Good(r, registry)
  BY GroupsGood, GrowsSelf, Zenon DEF RInv, RType, Group

LEMMA OrphansGood ==
    ASSUME NEW r, NEW K, Good(r, K), NEW n
    PROVE  /\ Good(r, [K EXCEPT !.orphans = n]) /\ [K EXCEPT !.orphans = n].people = K.people
           /\ [K EXCEPT !.orphans = n].groups = K.groups
<1> DEFINE E == [K EXCEPT !.orphans = n]
<1>1. RegistryOK(K)
  BY Zenon DEF Good
<1>2. K = [people |-> K.people, groups |-> K.groups, orphans |-> K.orphans]
  BY <1>1, Zenon DEF RegistryOK
<1>3. E.people = K.people /\ E.groups = K.groups /\ E = [people |-> E.people, groups |-> E.groups, orphans |-> E.orphans]
  BY <1>2
<1> HIDE DEF E
<1>4. RegistryOK(E) /\ PersonOK(E, r[1])
  BY <1>1, <1>3, Zenon DEF RegistryOK, PersonOK, Good
<1>5. Good(r, E)
  BY <1>3, <1>4, Zenon DEF Good
<1> QED
  BY <1>3, <1>5 DEF E

LEMMA GroupEdited ==
    ASSUME RInv, NEW r \in Ids, NEW g \in DOMAIN registry.groups, NEW x \in Groups, x.name = Group(g).name,
           DOMAIN Group(g).ids \subseteq DOMAIN x.ids, Group(g).members \subseteq x.members, Group(g).cluster => x.cluster,
           Valued(x)
    PROVE  /\ Good(r, [registry EXCEPT !.groups[g] = x])
           /\ [registry EXCEPT !.groups[g] = x].groups = [registry.groups EXCEPT ![g] = x]
           /\ [registry EXCEPT !.groups[g] = x].people = registry.people
<1> DEFINE G == registry.groups
           H == [registry.groups EXCEPT ![g] = x]
           E == [registry EXCEPT !.groups[g] = x]
<1>1. RegistryOK(registry)
  BY Zenon DEF RInv, RType
<1>2. E.people = registry.people /\ E.groups = H /\ E = [people |-> E.people, groups |-> E.groups, orphans |-> E.orphans]
  <2>1. registry = [people |-> registry.people, groups |-> registry.groups, orphans |-> registry.orphans]
    BY <1>1, Zenon DEF RegistryOK
  <2> QED
    BY <2>1
<1>3. G \in Seq(Groups)
  BY <1>1, Zenon DEF RegistryOK
<1>4. H \in Seq(Groups) /\ DOMAIN H = DOMAIN G /\ H[g] = x /\ \A h \in DOMAIN G : h # g => H[h] = G[h]
  BY <1>3
<1>5. Grows(G, H)
  BY <1>4, Zenon DEF Grows, Group
<1>6. \A h \in DOMAIN H : Valued(H[h])
  BY <1>4, Zenon DEF RInv, Group
<1>7. RegistryOK(E)
  BY <1>1, <1>2, <1>4, Zenon DEF RegistryOK
<1> HIDE DEF E, H, G
<1>8. Good(r, E)
  BY <1>2, <1>5, <1>6, <1>7, GroupsGood, Zenon DEF G
<1> QED
  BY <1>2, <1>8 DEF E, H

NewGroup(name) == [name |-> name, ids |-> <<>>, members |-> {}, cluster |-> FALSE]

LEMMA NewGroups ==
    ASSUME NEW name \in STRING
    PROVE  NewGroup(name) \in Groups /\ NewGroup(name).name = name /\ Valued(NewGroup(name))
<1>1. <<>> \in [{} -> STRING \cup Users] /\ DOMAIN <<>> = {}
  OBVIOUS
<1>2. <<>> \in Attributes
  BY <1>1, Zenon DEF Attributes
<1>3. NewGroup(name) \in Groups /\ NewGroup(name).name = name /\ NewGroup(name).ids = <<>>
  BY <1>2 DEF NewGroup, Groups
<1> QED
  BY <1>1, <1>3, Zenon DEF Valued

\* H is G with nothing but x after it.
Extended(G, H, x) ==
    /\ H \in Seq(Groups) /\ DOMAIN G \subseteq DOMAIN H /\ Len(H) \in DOMAIN H /\ Len(H) \in Nat /\ H[Len(H)] = x
    /\ (\A h \in DOMAIN G : H[h] = G[h]) /\ \A h \in DOMAIN H : h \in DOMAIN G \/ H[h] = x

LEMMA Appended ==
    ASSUME NEW G \in Seq(Groups), NEW x \in Groups
    PROVE  Extended(G, Append(G, x), x)
  BY DEF Extended

\* A group is made, maybe twice.
LEMMA GroupsAdded ==
    ASSUME RInv, NEW r \in Ids, NEW name \in STRING, NEW H,
           H = Append(registry.groups, NewGroup(name))
           \/ H = Append(Append(registry.groups, NewGroup(name)), NewGroup(name))
    PROVE  /\ Good(r, [registry EXCEPT !.groups = H]) /\ [registry EXCEPT !.groups = H].groups = H
           /\ [registry EXCEPT !.groups = H].people = registry.people
           /\ Len(H) \in DOMAIN H /\ H[Len(H)].name = name /\ Len(H) \in Nat
<1> DEFINE G == registry.groups
           x == NewGroup(name)
           E == [registry EXCEPT !.groups = H]
<1>1. RegistryOK(registry)
  BY Zenon DEF RInv, RType
<1>2. E.people = registry.people /\ E.groups = H /\ E = [people |-> E.people, groups |-> E.groups, orphans |-> E.orphans]
  BY <1>1 DEF RegistryOK
<1>3. G \in Seq(Groups) /\ x \in Groups /\ x.name = name /\ Valued(x)
  BY <1>1, NewGroups, Zenon DEF RegistryOK
<1>4. H = Append(G, x) \/ H = Append(Append(G, x), x)
  OBVIOUS
<1> HIDE DEF x, G
<1>5. Extended(G, H, x)
  <2> DEFINE K == Append(G, x)
  <2>1. Extended(G, K, x)
    BY <1>3, Appended
  <2>2. K \in Seq(Groups) => Extended(K, Append(K, x), x)
    BY <1>3, Appended, Zenon
  <2> HIDE DEF K
  <2>3. H = K \/ H = Append(K, x)
    BY <1>4 DEF K
  <2> QED
    BY <2>1, <2>2, <2>3, Zenon DEF Extended
<1>6. /\ H \in Seq(Groups) /\ DOMAIN G \subseteq DOMAIN H /\ Len(H) \in DOMAIN H /\ Len(H) \in Nat /\ H[Len(H)] = x
      /\ (\A h \in DOMAIN G : H[h] = G[h]) /\ \A h \in DOMAIN H : h \in DOMAIN G \/ H[h] = x
  BY <1>5, Zenon DEF Extended
<1>7. Grows(G, H)
  BY <1>6, Zenon DEF Grows
<1>8. \A h \in DOMAIN H : Valued(H[h])
  BY <1>3, <1>6, Zenon DEF RInv, Group, G
<1>9. RegistryOK(E)
  BY <1>1, <1>2, <1>6, Zenon DEF RegistryOK
<1> HIDE DEF E
<1>10. Good(r, E)
  BY <1>2, <1>7, <1>8, <1>9, GroupsGood, Zenon DEF G
<1> QED
  BY <1>2, <1>3, <1>6, <1>10 DEF E

LEMMA PersonEdited ==
    ASSUME RInv, NEW r \in Ids, NEW p \in Persons, ~p.there => p = NoPerson, Person(r[1]).there => p.there,
           p.account # NoAccount => /\ Reached(registry.groups, "put", p.account.group, p.account.name, r[1])
                                    /\ p.login = p.account.name /\ p.account.name \in NamesOf(r[1]),
           ~load.overlaps => Person(r[1]).links <= p.links /\ p.links <= 1 /\ Person(r[1]).ids \subseteq p.ids
    PROVE  /\ Good(r, [registry EXCEPT !.people[r[1]] = p])
           /\ [registry EXCEPT !.people[r[1]] = p].people[r[1]] = p
           /\ [registry EXCEPT !.people[r[1]] = p].groups = registry.groups
<1> DEFINE E == [registry EXCEPT !.people[r[1]] = p]
<1>1. RegistryOK(registry)
  BY Zenon DEF RInv, RType
<1>2. r[1] \in Users
  BY DEF Ids
<1>3. /\ E = [people |-> E.people, groups |-> E.groups, orphans |-> E.orphans]
      /\ E.people = [registry.people EXCEPT ![r[1]] = p] /\ E.groups = registry.groups
  BY <1>1 DEF RegistryOK
<1>4. /\ E.people \in [Users -> Persons] /\ E.people[r[1]] = p
      /\ \A v \in Users : v # r[1] => E.people[v] = registry.people[v]
  BY <1>1, <1>2, <1>3 DEF RegistryOK
<1> HIDE DEF E
<1>5. RegistryOK(E)
  BY <1>1, <1>3, <1>4, Zenon DEF RegistryOK
<1>6. PersonOK(E, r[1])
  BY <1>3, <1>4, Zenon DEF PersonOK
<1>7. Grows(registry.groups, E.groups) /\ \A g \in DOMAIN E.groups : Valued(E.groups[g])
  BY <1>3, GrowsSelf, Zenon DEF RInv, Group
<1>8. Good(r, E)
  BY <1>4, <1>5, <1>6, <1>7, Zenon DEF Good
<1> QED
  BY <1>3, <1>4, <1>8 DEF E

-----------------------------------------------------------------------------
(* The steps of a run. *)

LEMMA GoneFits == \A r, E : Gone \in Runs /\ Gone.pc # "none" /\ Fits(r, E, Gone)
<1>1. Gone.pc = "failed" /\ Gone \in Runs
  BY DEF Gone, Runs
<1>2. "failed" \notin Working /\ "failed" # "none"
  BY DEF Working, Early, Found, Shown, Linked, Grouped, Named, Numbered, Joined, Clustered
<1> QED
  BY <1>1, <1>2 DEF Fits, Knows, Working, Early, Found, Shown, Linked, Grouped, Named

LEMMA ReadLands ==
    ASSUME RInv, NEW r \in Ids, NEW to \in Runs, to.pc # "none", Fits(r, registry, to), Read(r, to)
    PROVE  Stepped(r)
<1>1. UNCHANGED registry /\ (Goes(r, to) \/ Goes(r, Gone))
  BY Zenon DEF Read
<1>2. Good(r, registry')
  BY <1>1, SelfGood, Zenon
<1>3. Lands(r, to) \/ Lands(r, Gone)
  BY <1>1, GoneFits, Zenon DEF Lands
<1> QED
  BY <1>2, <1>3, Zenon DEF Stepped

LEMMA DoLands ==
    ASSUME RInv, NEW r \in Ids, NEW E, Good(r, E), NEW to \in Runs, to.pc # "none", Fits(r, E, to),
           Do(r, E, to) \/ Retried(r, E, to)
    PROVE  Stepped(r)
<1>1. (registry' = E /\ Goes(r, to)) \/ ((registry' = registry \/ registry' = E) /\ Goes(r, Gone))
  BY Zenon DEF Do, Retried
<1>2. Good(r, registry')
  BY <1>1, SelfGood, Zenon
<1>3. Lands(r, to) \/ Lands(r, Gone)
  BY <1>1, GoneFits, Zenon DEF Lands
<1> QED
  BY <1>2, <1>3, Zenon DEF Stepped

\* A run that works has its fields.
LEMMA Work ==
    ASSUME RInv, NEW r \in Ids, runs[r].pc \in Working
    PROVE  runs[r] \in [pc : Working, sub : BOOLEAN, composite : Persons, group : Nat]
<1>1. runs[r] \in Runs
  BY Zenon DEF RInv, RType
<1>2. runs[r] \notin [pc : {"none", "queued", "done", "failed"}]
  BY DEF Working, Early, Found, Shown, Linked, Grouped, Named, Numbered, Joined, Clustered
<1> QED
  BY <1>1, <1>2, Zenon DEF Runs

\* The run at pc, with what it has read and the group it has found.
Moved(r, pc, c, g) == [pc |-> pc, sub |-> runs[r].sub, composite |-> c, group |-> g]

LEMMA WorkFields ==
    ASSUME RInv, NEW r \in Ids, runs[r].pc \in Working
    PROVE  runs[r].sub \in BOOLEAN /\ runs[r].composite \in Persons /\ runs[r].group \in Nat
<1>1. runs[r] \in [pc : Working, sub : BOOLEAN, composite : Persons, group : Nat]
  BY Work, Zenon
<1> QED
  BY <1>1

LEMMA MovedRun ==
    ASSUME RInv, NEW r \in Ids, runs[r].pc \in Working, NEW pc \in Working, NEW c \in Persons, NEW g \in Nat
    PROVE  Moved(r, pc, c, g) \in Runs
<1>1. runs[r].sub \in BOOLEAN
  BY WorkFields
<1>2. Moved(r, pc, c, g) \in [pc : Working, sub : BOOLEAN, composite : Persons, group : Nat]
  BY <1>1 DEF Moved
<1> QED
  BY <1>2, Zenon DEF Runs

LEMMA MovedFields ==
    \A r, pc, c, g : /\ Moved(r, pc, c, g).pc = pc /\ Moved(r, pc, c, g).sub = runs[r].sub
                     /\ Moved(r, pc, c, g).composite = c /\ Moved(r, pc, c, g).group = g
  BY DEF Moved

LEMMA ToMoved ==
    ASSUME RInv, NEW r \in Ids, runs[r].pc \in Working, NEW pc
    PROVE  /\ To(r, pc) = Moved(r, pc, runs[r].composite, runs[r].group)
           /\ \A c : [To(r, pc) EXCEPT !.composite = c] = Moved(r, pc, c, runs[r].group)
           /\ \A g : [To(r, pc) EXCEPT !.group = g] = Moved(r, pc, runs[r].composite, g)
<1>1. runs[r] \in [pc : Working, sub : BOOLEAN, composite : Persons, group : Nat]
  BY Work, Zenon
<1>2. To(r, pc) = Moved(r, pc, runs[r].composite, runs[r].group)
  BY <1>1 DEF To, Moved
<1>3. ASSUME NEW c PROVE [Moved(r, pc, runs[r].composite, runs[r].group) EXCEPT !.composite = c] = Moved(r, pc, c, runs[r].group)
  BY DEF Moved
<1>4. ASSUME NEW g PROVE [Moved(r, pc, runs[r].composite, runs[r].group) EXCEPT !.group = g] = Moved(r, pc, runs[r].composite, g)
  BY DEF Moved
<1> QED
  BY <1>2, <1>3, <1>4, Zenon

\* What is known of a person that is a user's.
LEMMA PersonType ==
    ASSUME RInv, NEW r \in Ids
    PROVE  r[1] \in Users /\ Person(r[1]) \in Persons
<1>1. r[1] \in Users
  BY DEF Ids
<1> QED
  BY <1>1 DEF RInv, RType, RegistryOK, Person

LEMMA AtStart ==
    ASSUME RInv, NEW r \in Ids, handleClusterUserCreate(r)
    PROVE  Stepped(r)
<1> DEFINE to == [pc |-> "stored", sub |-> r[1] \in bound, composite |-> NoPerson, group |-> 0]
<1>1. "stored" \in Working /\ "stored" \notin Found /\ "stored" \notin Grouped
  BY DEF Working, Early, Found, Shown, Linked, Grouped, Named, Numbered, Joined, Clustered
<1>2. NoPerson \in Persons
  BY NoPersonType
<1>3. to \in [pc : Working, sub : BOOLEAN, composite : Persons, group : Nat]
  BY <1>1, <1>2
<1>4. to \in Runs /\ to.pc = "stored" /\ to.sub = (r[1] \in bound) /\ to.composite = NoPerson
  BY <1>3 DEF Runs
<1>5. load.bound \subseteq bound
  BY Zenon DEF RInv, RType
<1> HIDE DEF to
<1>6. Fits(r, registry, to)
  BY <1>1, <1>4, <1>5, Zenon DEF Fits, Knows, Found, Shown, Linked
<1>7. Read(r, to)
  BY Zenon DEF handleClusterUserCreate, to
<1> QED
  BY <1>4, <1>6, <1>7, ReadLands

\* What the invariant says of a run that works.
LEMMA FitsNow ==
    ASSUME RInv, NEW r \in Ids
    PROVE  /\ Fits(r, registry, runs[r])
           /\ ~load.overlaps => Knows(runs[r], Person(r[1]), LocalUsername(r), r[1])
  BY Zenon DEF RInv, Fits, Person

\* A person is found, or was just made.
LEMMA KeepFits ==
    ASSUME RInv, NEW r \in Ids, runs[r].pc \in Working, NEW E, E.people[r[1]].there,
           ~load.overlaps => "id" \in E.people[r[1]].ids,
           NEW c \in Persons, ~load.overlaps => c = NoPerson \/ c = E.people[r[1]]
    PROVE  Moved(r, "keep", c, runs[r].group) \in Runs /\ Fits(r, E, Moved(r, "keep", c, runs[r].group))
<1> DEFINE to == Moved(r, "keep", c, runs[r].group)
<1>1. /\ "keep" \in Working /\ "keep" \notin Grouped /\ "keep" \notin Early /\ "keep" \notin Shown /\ "keep" \notin Linked
  BY DEF Working, Early, Found, Shown, Linked, Grouped, Named, Numbered, Joined, Clustered
<1>3. runs[r].group \in Nat
  BY WorkFields, Zenon
<1>4. to \in Runs /\ to.pc = "keep" /\ to.sub = runs[r].sub /\ to.composite = c
  BY <1>1, <1>3, MovedRun, MovedFields
<1>5. ~load.overlaps /\ r[1] \in load.bound => runs[r].sub
  BY FitsNow, Zenon DEF Knows
<1> HIDE DEF to
<1>6. ~load.overlaps => Knows(to, E.people[r[1]], LocalUsername(r), r[1])
  BY <1>1, <1>4, <1>5 DEF Knows
<1>7. Fits(r, E, to)
  BY <1>1, <1>4, <1>6 DEF Fits
<1> QED
  BY <1>4, <1>7 DEF to

\* An early step that found nothing.
LEMMA EarlyFits ==
    ASSUME RInv, NEW r \in Ids, runs[r].pc \in Early, NEW E, NEW pc \in {"email", "post", "wait"},
           pc = "wait" => E.people[r[1]].there
    PROVE  /\ To(r, pc) \in Runs /\ To(r, pc).pc = pc /\ Fits(r, E, To(r, pc))
           /\ runs[r].pc \in Working /\ (~load.overlaps => runs[r].composite = NoPerson)
<1>1. runs[r].pc \in Working /\ pc \in Working /\ pc \in Early /\ pc \notin Found /\ pc \notin Grouped
  BY DEF Working, Early, Found, Shown, Linked, Grouped, Named, Numbered, Joined, Clustered
<1>2. runs[r].composite \in Persons /\ runs[r].group \in Nat
  BY <1>1, WorkFields, Zenon
<1>3. /\ To(r, pc) \in Runs /\ To(r, pc).pc = pc /\ To(r, pc).sub = runs[r].sub
      /\ To(r, pc).composite = runs[r].composite
  <2>1. To(r, pc) = Moved(r, pc, runs[r].composite, runs[r].group)
    BY <1>1, ToMoved
  <2> QED
    BY <1>1, <1>2, <2>1, MovedRun, MovedFields
<1>4. ~load.overlaps => runs[r].composite = NoPerson /\ (r[1] \in load.bound => runs[r].sub)
  BY <1>1, FitsNow, Zenon DEF Knows
<1>5. ~load.overlaps => Knows(To(r, pc), E.people[r[1]], LocalUsername(r), r[1])
  BY <1>1, <1>3, <1>4 DEF Knows, Found, Shown
<1> QED
  BY <1>1, <1>3, <1>4, <1>5 DEF Fits

LEMMA AtLookup ==
    ASSUME RInv, NEW r \in Ids, lookupOrCreateCoPerson(r)
    PROVE  Stepped(r)
<1> DEFINE u == r[1]
<1>1. u \in Users /\ Person(u) \in Persons /\ RegistryOK(registry)
  BY PersonType, Zenon DEF RInv, RType
<1>2. "stored" \in Early /\ "email" \in Early /\ "post" \in Early /\ "keep" \in Working
  BY DEF Early, Working, Found
<1>3. ASSUME runs[r].pc \in Early, Person(u).there, ~load.overlaps => "id" \in Person(u).ids
      PROVE  Composed(r, "keep") \in Runs /\ Composed(r, "keep").pc # "none" /\ Fits(r, registry, Composed(r, "keep"))
  <2>1. runs[r].pc \in Working
    BY <1>3 DEF Working
  <2>2. Composed(r, "keep") = Moved(r, "keep", Person(u), runs[r].group)
    BY <2>1, ToMoved DEF Composed, GetPersonComposite
  <2>3. Moved(r, "keep", Person(u), runs[r].group) \in Runs /\ Fits(r, registry, Moved(r, "keep", Person(u), runs[r].group))
    BY <1>1, <1>3, <2>1, KeepFits DEF Person
  <2>4. Moved(r, "keep", Person(u), runs[r].group).pc # "none"
    BY DEF Moved
  <2> QED
    BY <2>2, <2>3, <2>4, Zenon
<1>4. CASE At(r, "stored") /\ Read(r, IF findStoredPersonID(u) THEN Composed(r, "keep") ELSE To(r, "email"))
  <2>1. runs[r].pc \in Early
    BY <1>2, <1>4, Zenon DEF At
  <2>2. CASE u \in stored
    <3>1. Person(u).there /\ (~load.overlaps => "id" \in Person(u).ids)
      BY <1>1, <2>2, Zenon DEF RInv, Solo
    <3> QED
      BY <1>3, <1>4, <2>1, <2>2, <3>1, ReadLands, Zenon DEF findStoredPersonID
  <2>3. CASE u \notin stored
    <3>1. To(r, "email") \in Runs /\ To(r, "email").pc # "none" /\ Fits(r, registry, To(r, "email"))
      BY <2>1, EarlyFits
    <3> QED
      BY <1>4, <2>3, <3>1, ReadLands, Zenon DEF findStoredPersonID
  <2> QED
    BY <2>2, <2>3, Zenon
<1>5. CASE At(r, "email") /\ Read(r, IF findByEmailExact(u) /\ FindIdentifierValueOnPerson(u) THEN Composed(r, "keep") ELSE To(r, "post"))
  <2>1. runs[r].pc \in Early
    BY <1>2, <1>5, Zenon DEF At
  <2>2. CASE findByEmailExact(u) /\ FindIdentifierValueOnPerson(u)
    <3>1. Person(u).there /\ "id" \in Person(u).ids
      BY <2>2, Zenon DEF findByEmailExact, FindCoPersonByEmail, FindIdentifierValueOnPerson
    <3> QED
      BY <1>3, <1>5, <2>1, <2>2, <3>1, ReadLands, Zenon
  <2>3. CASE ~(findByEmailExact(u) /\ FindIdentifierValueOnPerson(u))
    <3>1. To(r, "post") \in Runs /\ To(r, "post").pc # "none" /\ Fits(r, registry, To(r, "post"))
      BY <2>1, EarlyFits
    <3> QED
      BY <1>5, <2>3, <3>1, ReadLands, Zenon
  <2> QED
    BY <2>2, <2>3, Zenon
<1>6. ASSUME At(r, "post"), NEW ids \in SUBSET Assigned,
             Do(r, CreatePerson(u, ids), To(r, IF "id" \in CreatePerson(u, ids).people[u].ids THEN "keep" ELSE "wait"))
      PROVE  Stepped(r)
  <2> DEFINE p == IF Person(u).there THEN Person(u) ELSE [NoPerson EXCEPT !.there = TRUE, !.ids = ids]
             E == [registry EXCEPT !.people[u] = p]
  <2>1. CreatePerson(u, ids) = E
    BY DEF CreatePerson, Person
  <2>2. Good(r, E) /\ E.people[u] = p /\ p.there
    <3>1. PersonOK(registry, u) /\ (~load.overlaps => Person(u).links <= 1)
      BY <1>1, Zenon DEF RInv, Solo
    <3>2. CASE Person(u).there
      <4>1. p = Person(u) /\ Person(u).links \in Nat
        BY <1>1, <3>2 DEF Persons
      <4>2. Person(u).links <= Person(u).links
        BY <4>1
      <4>3. /\ p.account # NoAccount => /\ Reached(registry.groups, "put", p.account.group, p.account.name, u)
                                        /\ p.login = p.account.name /\ p.account.name \in NamesOf(u)
        BY <3>1, <4>1, Zenon DEF PersonOK, Person
      <4> HIDE DEF p
      <4> QED
        BY <1>1, <3>1, <3>2, <4>1, <4>2, <4>3, PersonEdited
    <3>3. CASE ~Person(u).there
      <4>1. p = [there |-> TRUE, ids |-> ids, links |-> 0, login |-> None, account |-> NoAccount] /\ Person(u) = NoPerson
        BY <3>1, <3>3, Zenon DEF NoPerson, PersonOK, Person
      <4>2. p \in Persons /\ p.account = NoAccount /\ p.links = 0 /\ p.there
        BY <4>1, NoPersonType, Zenon DEF Persons, NoPerson
      <4>3. Person(u).links = 0 /\ Person(u).ids = {}
        BY <4>1, NoPersonType, Zenon
      <4> HIDE DEF p
      <4> QED
        BY <3>3, <4>2, <4>3, PersonEdited
    <3> QED
      BY <3>2, <3>3
  <2> HIDE DEF p
  <2>3. runs[r].pc \in Early
    BY <1>2, <1>6, Zenon DEF At
  <2>4. CASE "id" \in p.ids
    <3>1. runs[r].pc \in Working /\ RegistryOK(E)
      BY <2>2, <2>3, Zenon DEF Working, Good
    <3>2. To(r, "keep") = Moved(r, "keep", runs[r].composite, runs[r].group) /\ runs[r].composite \in Persons
      BY <3>1, ToMoved, WorkFields
    <3>3. ~load.overlaps => runs[r].composite = NoPerson
      BY <2>3, FitsNow, Zenon DEF Knows
    <3>4. To(r, "keep") \in Runs /\ Fits(r, E, To(r, "keep")) /\ To(r, "keep").pc # "none"
      <4>1. Moved(r, "keep", runs[r].composite, runs[r].group).pc # "none"
        BY MovedFields
      <4> HIDE DEF E
      <4> QED
        BY <2>2, <2>4, <3>1, <3>2, <3>3, <4>1, KeepFits
    <3> HIDE DEF E
    <3>5. Do(r, E, To(r, "keep"))
      BY <1>6, <2>1, <2>2, <2>4, Zenon
    <3> QED
      BY <2>2, <3>4, <3>5, DoLands, Zenon
  <2>5. CASE "id" \notin p.ids
    <3> HIDE DEF E
    <3>1. Do(r, E, To(r, "wait"))
      BY <1>6, <2>1, <2>2, <2>5, Zenon
    <3>2. To(r, "wait") \in Runs /\ To(r, "wait").pc # "none" /\ Fits(r, E, To(r, "wait"))
      BY <2>2, <2>3, EarlyFits
    <3> QED
      BY <2>2, <3>1, <3>2, DoLands, Zenon
  <2> QED
    BY <2>4, <2>5, Zenon
<1>7. CASE At(r, "post") /\ \E ids \in IF load.slow THEN SUBSET Assigned ELSE {Assigned} :
             Do(r, CreatePerson(u, ids), To(r, IF "id" \in CreatePerson(u, ids).people[u].ids THEN "keep" ELSE "wait"))
  <2>1. \A ids \in IF load.slow THEN SUBSET Assigned ELSE {Assigned} : ids \in SUBSET Assigned
    OBVIOUS
  <2> QED
    BY <1>6, <1>7, <2>1, Zenon
<1> QED
  BY <1>4, <1>5, <1>7, Zenon DEF lookupOrCreateCoPerson

LEMMA AtWait ==
    ASSUME RInv, NEW r \in Ids, waitForCreatedPersonID(r)
    PROVE  Stepped(r)
<1> DEFINE u == r[1]
<1>1. runs[r].pc = "wait" /\ Read(r, IF FindIdentifierValueOnPerson(u) THEN Composed(r, "keep") ELSE Gone)
  BY Zenon DEF waitForCreatedPersonID, At
<1>2. "wait" \in Working /\ Person(u) \in Persons
  BY PersonType DEF Working, Early
<1>3. CASE FindIdentifierValueOnPerson(u)
  <2>1. "id" \in Person(u).ids /\ Person(u).there
    BY <1>1, <1>3, FitsNow DEF FindIdentifierValueOnPerson, Fits, Person
  <2>2. Composed(r, "keep") = Moved(r, "keep", Person(u), runs[r].group)
    BY <1>1, <1>2, ToMoved DEF Composed, GetPersonComposite
  <2>3. Moved(r, "keep", Person(u), runs[r].group) \in Runs /\ Fits(r, registry, Moved(r, "keep", Person(u), runs[r].group))
    BY <1>1, <1>2, <2>1, KeepFits DEF Person
  <2>4. Moved(r, "keep", Person(u), runs[r].group).pc # "none"
    BY DEF Moved
  <2> QED
    BY <1>1, <1>3, <2>2, <2>3, <2>4, ReadLands, Zenon
<1>4. CASE ~FindIdentifierValueOnPerson(u)
  BY <1>1, <1>4, GoneFits, ReadLands, Zenon
<1> QED
  BY <1>3, <1>4, Zenon

LEMMA AtKeep ==
    ASSUME RInv, NEW r \in Ids, storePersonID(r)
    PROVE  /\ Stepped(r) /\ stored' \subseteq stored \cup {r[1]}
           /\ Person(r[1]).there /\ (~load.overlaps => "id" \in Person(r[1]).ids)
<1> DEFINE u == r[1]
           to == Moved(r, "composite", runs[r].composite, runs[r].group)
<1>1. /\ runs[r].pc = "keep" /\ Goes(r, To(r, "composite")) /\ UNCHANGED registry
      /\ stored' \subseteq stored \cup {u}
  BY Zenon DEF storePersonID, At
<1>2. /\ "keep" \in Working /\ "keep" \in Found /\ "composite" \in Working /\ "composite" \in Found /\ "composite" \notin Early
      /\ "composite" \notin Grouped /\ "composite" \notin Shown /\ "composite" \notin Linked
  BY DEF Working, Early, Found, Shown, Linked, Grouped, Named, Numbered, Joined, Clustered
<1>3. To(r, "composite") = to /\ runs[r].composite \in Persons /\ runs[r].group \in Nat
  BY <1>1, <1>2, ToMoved, WorkFields
<1>4. to \in Runs
  BY <1>1, <1>2, <1>3, MovedRun
<1>5. to.pc = "composite" /\ to.sub = runs[r].sub /\ to.composite = runs[r].composite
  BY MovedFields
<1> HIDE DEF to
<1>6. ~load.overlaps => Knows(to, Person(u), LocalUsername(r), u) /\ "id" \in Person(u).ids
  BY <1>1, <1>2, <1>5, FitsNow DEF Knows
<1>7. Person(u).there
  BY <1>1, <1>2, FitsNow, Zenon DEF Fits, Person
<1>8. Fits(r, registry, to)
  BY <1>2, <1>5, <1>6, <1>7 DEF Fits, Person
<1>9. to.pc # "none" /\ Goes(r, to)
  BY <1>1, <1>3, <1>5
<1>10. Lands(r, to)
  BY <1>1, <1>4, <1>8, <1>9, Zenon DEF Lands
<1>11. Good(r, registry')
  BY <1>1, SelfGood, Zenon
<1> QED
  BY <1>1, <1>6, <1>7, <1>10, <1>11, Zenon DEF Stepped

\* From here on the person has both identifiers.
LEMMA ShownFits ==
    ASSUME RInv, NEW r \in Ids, runs[r].pc \in Working, NEW pc \in Shown, NEW c \in Persons, NEW g \in Nat, NEW E,
           pc \in Grouped => Reached(E.groups, pc, g, LocalUsername(r), r[1]),
           E.people[r[1]].there, pc = "put" => c.there,
           ~load.overlaps => /\ E.people[r[1]].ids = Assigned
                             /\ pc = "link" => c.links = E.people[r[1]].links
                             /\ pc \in {"subject", "attach"} => E.people[r[1]].links = 0
                             /\ pc \in Linked /\ runs[r].sub => E.people[r[1]].links = 1
                             /\ pc = "put" => c = E.people[r[1]]
                             /\ pc = "mark" => E.people[r[1]].account.name = LocalUsername(r)
    PROVE  Moved(r, pc, c, g) \in Runs /\ Moved(r, pc, c, g).pc # "none" /\ Fits(r, E, Moved(r, pc, c, g))
<1> DEFINE to == Moved(r, pc, c, g)
<1>1. pc \in Working /\ pc \in Found /\ pc \notin Early /\ pc \notin {"keep", "composite"} /\ pc # "none"
  BY DEF Working, Early, Found, Shown, Linked, Grouped, Named, Numbered, Joined, Clustered
<1>2. to \in Runs
  BY <1>1, MovedRun
<1>3. to.pc = pc /\ to.sub = runs[r].sub /\ to.composite = c /\ to.group = g
  BY MovedFields
<1>4. ~load.overlaps /\ r[1] \in load.bound => runs[r].sub
  BY FitsNow, Zenon DEF Knows
<1>5. "id" \in Assigned
  BY DEF Assigned
<1> HIDE DEF to
<1>6. ~load.overlaps => Knows(to, E.people[r[1]], LocalUsername(r), r[1])
  BY <1>1, <1>3, <1>4, <1>5 DEF Knows
<1>7. Fits(r, E, to)
  BY <1>3, <1>6 DEF Fits
<1> QED
  BY <1>1, <1>2, <1>3, <1>7 DEF to

LEMMA AtComposite ==
    ASSUME RInv, NEW r \in Ids, extractIdentifier(r)
    PROVE  Stepped(r)
<1> DEFINE u == r[1]
           c == IF runs[r].composite = NoPerson THEN GetPersonComposite(u) ELSE runs[r].composite
<1>1. runs[r].pc = "composite" /\ Read(r, IF "uidnumber" \in c.ids THEN [To(r, "link") EXCEPT !.composite = c] ELSE Gone)
  BY Zenon DEF extractIdentifier, At
<1>2. "composite" \in Working /\ "composite" \in Found /\ "link" \in Shown /\ "link" \notin Grouped /\ "link" \notin Linked
  BY DEF Working, Early, Found, Shown, Linked, Grouped, Named, Numbered, Joined, Clustered
<1>3. /\ [To(r, "link") EXCEPT !.composite = c] = Moved(r, "link", c, runs[r].group)
      /\ runs[r].composite \in Persons /\ runs[r].group \in Nat
  BY <1>1, <1>2, ToMoved, WorkFields, Zenon
<1>4. c \in Persons /\ Person(u) \in Persons
  BY <1>3, PersonType, Zenon DEF GetPersonComposite
<1>5. ~load.overlaps => "id" \in Person(u).ids /\ c.ids \subseteq Person(u).ids /\ c.links = Person(u).links
  BY <1>1, <1>2, FitsNow DEF Knows, GetPersonComposite
<1>6. Person(u).there
  BY <1>1, <1>2, FitsNow, Zenon DEF Fits, Person
<1> HIDE DEF c
<1>7. CASE "uidnumber" \in c.ids
  <2>1. Person(u).ids \subseteq Assigned
    BY <1>4 DEF Persons
  <2>2. ~load.overlaps => Person(u).ids = Assigned
    BY <1>5, <1>7, <2>1 DEF Assigned
  <2>3. /\ Moved(r, "link", c, runs[r].group) \in Runs /\ Moved(r, "link", c, runs[r].group).pc # "none"
        /\ Fits(r, registry, Moved(r, "link", c, runs[r].group))
    BY <1>1, <1>2, <1>3, <1>4, <1>5, <1>6, <2>2, ShownFits, Zenon DEF Person
  <2> QED
    BY <1>1, <1>3, <1>7, <2>3, ReadLands, Zenon
<1>8. CASE "uidnumber" \notin c.ids
  BY <1>1, <1>8, GoneFits, ReadLands, Zenon
<1> QED
  BY <1>7, <1>8, Zenon

LEMMA ShownNow ==
    ASSUME RInv, NEW r \in Ids, runs[r].pc \in Shown
    PROVE  /\ runs[r].pc \in Working /\ runs[r].composite \in Persons /\ runs[r].group \in Nat
           /\ r[1] \in Users /\ Person(r[1]) \in Persons /\ Person(r[1]).there
           /\ LocalUsername(r) \in NamesOf(r[1]) /\ LocalUsername(r) \in STRING
           /\ runs[r].pc \in Grouped => Reached(registry.groups, runs[r].pc, runs[r].group, LocalUsername(r), r[1])
           /\ ~load.overlaps => /\ Person(r[1]).ids = Assigned /\ Person(r[1]).links <= 1
                                /\ runs[r].pc \in Linked /\ runs[r].sub => Person(r[1]).links = 1
<1>1. runs[r].pc \in Working /\ runs[r].pc \in Found /\ runs[r].pc # "none"
  BY DEF Working, Early, Found, Shown, Linked, Grouped, Named, Numbered, Joined, Clustered
<1>2. runs[r].composite \in Persons /\ runs[r].group \in Nat /\ r[1] \in Users /\ Person(r[1]) \in Persons
  BY <1>1, WorkFields, PersonType
<1>3. LocalUsername(r) \in NamesOf(r[1]) /\ LocalUsername(r) \in STRING
  BY <1>1, RunNames DEF RInv
<1>4. /\ Person(r[1]).there
      /\ runs[r].pc \in Grouped => Reached(registry.groups, runs[r].pc, runs[r].group, LocalUsername(r), r[1])
  BY <1>1, FitsNow, Zenon DEF Fits, Person
<1>5. ~load.overlaps => /\ Person(r[1]).ids = Assigned
                        /\ runs[r].pc \in Linked /\ runs[r].sub => Person(r[1]).links = 1
  BY FitsNow, Zenon DEF Knows
<1>6. ~load.overlaps => Person(r[1]).links <= 1
  BY <1>2, Zenon DEF RInv, Solo
<1> QED
  BY <1>1, <1>2, <1>3, <1>4, <1>5, <1>6, Zenon

LEMMA AtLink ==
    ASSUME RInv, NEW r \in Ids, ensureOIDCLinkage(r)
    PROVE  Stepped(r)
<1> DEFINE u == r[1]
           to(pc) == Moved(r, pc, runs[r].composite, runs[r].group)
<1>1. /\ {"link", "subject", "attach", "group"} \subseteq Shown /\ "group" \in Linked
      /\ {"link", "subject", "attach", "group"} \cap Grouped = {} /\ {"link", "subject", "attach"} \cap Linked = {}
  BY DEF Shown, Linked, Grouped, Named, Numbered, Joined, Clustered
<1>2. runs[r].pc \in {"link", "subject", "attach"}
  BY DEF ensureOIDCLinkage, At
<1>3. /\ runs[r].pc \in Working /\ runs[r].composite \in Persons /\ runs[r].group \in Nat
      /\ u \in Users /\ Person(u) \in Persons /\ Person(u).there
      /\ ~load.overlaps => Person(u).ids = Assigned /\ Person(u).links <= 1
  BY <1>1, <1>2, ShownNow
<1>4. \A pc : To(r, pc) = to(pc)
  BY <1>3, ToMoved
<1> HIDE DEF to
<1>5. CASE At(r, "link") /\ (~runs[r].sub \/ extractOrgIdentifierValues(r)) /\ Goes(r, To(r, "group")) /\ UNCHANGED <<registry, lost>>
  <2>1. ~load.overlaps /\ runs[r].sub => Person(u).links = 1
    <3>1. ~load.overlaps => runs[r].composite.links = Person(u).links
      BY <1>5, FitsNow, Zenon DEF Knows, At
    <3>2. runs[r].sub => runs[r].composite.links > 0
      BY <1>5, Zenon DEF extractOrgIdentifierValues
    <3>3. Person(u).links \in Nat
      BY <1>3 DEF Persons
    <3> QED
      BY <1>3, <3>1, <3>2, <3>3
  <2>2. to("group") \in Runs /\ to("group").pc # "none" /\ Fits(r, registry, to("group"))
    BY <1>1, <1>3, <2>1, ShownFits, Zenon DEF Person, to
  <2> QED
    BY <1>4, <1>5, <2>2, SelfGood, Zenon DEF Stepped, Lands
<1>6. ASSUME NEW n, At(r, "link"), runs[r].sub, ~extractOrgIdentifierValues(r),
             Do(r, [registry EXCEPT !.orphans = n], To(r, "subject")) \/ Retried(r, [registry EXCEPT !.orphans = n], To(r, "subject"))
      PROVE  Stepped(r)
  <2> DEFINE E == [registry EXCEPT !.orphans = n]
  <2>1. ~load.overlaps => Person(u).links = 0
    <3>1. ~load.overlaps => runs[r].composite.links = Person(u).links
      BY <1>6, FitsNow, Zenon DEF Knows, At
    <3>2. ~(runs[r].composite.links > 0) /\ Person(u).links \in Nat
      BY <1>3, <1>6 DEF extractOrgIdentifierValues, Persons
    <3> QED
      BY <3>1, <3>2
  <2>2. Good(r, E) /\ E.people = registry.people
    BY SelfGood, OrphansGood
  <2>3. to("subject") \in Runs /\ to("subject").pc # "none" /\ Fits(r, E, to("subject"))
    <3> HIDE DEF E
    <3> QED
      BY <1>1, <1>3, <2>1, <2>2, ShownFits, Zenon DEF Person, to
  <2>4. Do(r, E, to("subject")) \/ Retried(r, E, to("subject"))
    BY <1>4, <1>6, Zenon
  <2> HIDE DEF E
  <2> QED
    BY <2>2, <2>3, <2>4, DoLands, Zenon
<1>7. CASE /\ At(r, "link") /\ runs[r].sub /\ ~extractOrgIdentifierValues(r)
           /\ \/ Do(r, CreateOrgIdentity, To(r, "subject"))
              \/ Retried(r, [CreateOrgIdentity EXCEPT !.orphans = @ + 1], To(r, "subject"))
  <2>1. [CreateOrgIdentity EXCEPT !.orphans = @ + 1] = [registry EXCEPT !.orphans = CreateOrgIdentity.orphans + 1]
    BY Zenon DEF CreateOrgIdentity
  <2>2. \E n : \/ Do(r, [registry EXCEPT !.orphans = n], To(r, "subject"))
               \/ Retried(r, [registry EXCEPT !.orphans = n], To(r, "subject"))
    BY <1>7, <2>1, Zenon DEF CreateOrgIdentity
  <2> QED
    BY <1>6, <1>7, <2>2, Zenon
<1>8. CASE At(r, "subject") /\ Do(r, CreateIdentifierOnOrgIdentity, To(r, "attach"))
  <2>1. ~load.overlaps => Person(u).links = 0
    BY <1>8, FitsNow DEF Knows, At
  <2>2. to("attach") \in Runs /\ to("attach").pc # "none" /\ Fits(r, registry, to("attach"))
    BY <1>1, <1>3, <2>1, ShownFits, Zenon DEF Person, to
  <2> QED
    BY <1>4, <1>8, <2>2, SelfGood, DoLands, Zenon DEF CreateIdentifierOnOrgIdentity
<1>9. CASE At(r, "attach") /\ Do(r, CreateCoOrgIdentityLink(u), To(r, "group"))
  <2> DEFINE p == [Person(u) EXCEPT !.links = @ + 1]
             K == [registry EXCEPT !.people[u] = p]
             E == CreateCoOrgIdentityLink(u)
  <2>1. /\ p \in Persons /\ p.there = Person(u).there /\ p.ids = Person(u).ids /\ p.links = Person(u).links + 1
        /\ p.account = Person(u).account /\ p.login = Person(u).login
    <3>1. Person(u).links + 1 \in Nat
      BY <1>3 DEF Persons
    <3> QED
      BY <1>3, <3>1, Zenon DEF Persons
  <2>2. ~load.overlaps => Person(u).links = 0
    BY <1>9, FitsNow DEF Knows, At
  <2>3. Person(u).links \in Nat
    BY <1>3 DEF Persons
  <2>4. ~load.overlaps => Person(u).links <= p.links /\ p.links <= 1 /\ p.links = 1
    BY <2>1, <2>2, <2>3
  <2>5. PersonOK(registry, u)
    BY <1>3, Zenon DEF RInv
  <2>6. p.account # NoAccount => /\ Reached(registry.groups, "put", p.account.group, p.account.name, u)
                                 /\ p.login = p.account.name /\ p.account.name \in NamesOf(u)
    BY <2>1, <2>5, Zenon DEF PersonOK, Person
  <2>7. Good(r, K) /\ K.people[u] = p /\ K.groups = registry.groups
    <3> HIDE DEF p
    <3> QED
      BY <1>3, <2>1, <2>4, <2>6, PersonEdited, Zenon
  <2>8. Good(r, E) /\ E.people[u] = p
    <3>1. E = [K EXCEPT !.orphans = registry.orphans - 1]
      <4>1. registry = [people |-> registry.people, groups |-> registry.groups, orphans |-> registry.orphans]
        BY Zenon DEF RInv, RType, RegistryOK
      <4> QED
        BY <4>1 DEF CreateCoOrgIdentityLink, Person
    <3> HIDE DEF E, K
    <3> QED
      BY <2>7, <3>1, OrphansGood
  <2>9. to("group") \in Runs /\ to("group").pc # "none" /\ Fits(r, E, to("group"))
    <3> HIDE DEF E, p
    <3> QED
      BY <1>1, <1>3, <2>1, <2>4, <2>8, ShownFits, Zenon DEF to
  <2> HIDE DEF E
  <2> QED
    BY <1>4, <1>9, <2>8, <2>9, DoLands, Zenon DEF E
<1> QED
  BY <1>5, <1>7, <1>8, <1>9, Zenon DEF ensureOIDCLinkage

\* A run that has its link goes on, with what it has made of the group.
LEMMA LinkedFits ==
    ASSUME RInv, NEW r \in Ids, runs[r].pc \in Linked, NEW pc \in Linked \ {"put", "mark"}, NEW g \in Nat, NEW E,
           E.people = registry.people, pc \in Grouped => Reached(E.groups, pc, g, LocalUsername(r), r[1])
    PROVE  LET to == Moved(r, pc, runs[r].composite, g) IN to \in Runs /\ to.pc # "none" /\ Fits(r, E, to)
<1>1. runs[r].pc \in Shown /\ pc \in Shown /\ pc \notin {"link", "subject", "attach", "put", "mark"}
  BY DEF Shown, Linked, Grouped, Named, Numbered, Joined, Clustered
<1>2. /\ runs[r].pc \in Working /\ runs[r].composite \in Persons /\ Person(r[1]).there
      /\ ~load.overlaps => Person(r[1]).ids = Assigned /\ (runs[r].sub => Person(r[1]).links = 1)
  BY <1>1, ShownNow
<1> QED
  BY <1>1, <1>2, ShownFits, Zenon DEF Person

LEMMA AtGroup ==
    ASSUME RInv, NEW r \in Ids, findOrCreateCoGroup(r)
    PROVE  Stepped(r)
<1> DEFINE name == LocalUsername(r)
           found == FindCoGroupByName(name)
           G == registry.groups
           x == NewGroup(name)
<1>1. /\ {"group", "new group", "uid"} \subseteq Linked \ {"put", "mark"} /\ {"group", "new group"} \cap Grouped = {} /\ "uid" \in Grouped
      /\ "uid" \notin Named /\ "uid" \notin Numbered /\ "uid" \notin Joined /\ "uid" \notin Clustered
  BY DEF Linked, Grouped, Named, Numbered, Joined, Clustered
<1>2. runs[r].pc \in {"group", "new group"}
  BY DEF findOrCreateCoGroup, At
<1>3. runs[r].pc \in Linked /\ runs[r].pc \in Shown
  BY <1>1, <1>2 DEF Shown
<1>4. runs[r].pc \in Working /\ runs[r].group \in Nat /\ name \in STRING
  BY <1>3, ShownNow
<1>5. /\ \A pc : To(r, pc) = Moved(r, pc, runs[r].composite, runs[r].group)
      /\ \A pc, g : [To(r, pc) EXCEPT !.group = g] = Moved(r, pc, runs[r].composite, g)
  BY <1>4, ToMoved
<1>6. ASSUME NEW E, E.people = registry.people, NEW g \in Nat, g \in DOMAIN E.groups, E.groups[g].name = name
      PROVE  LET to == [To(r, "uid") EXCEPT !.group = g] IN to \in Runs /\ to.pc # "none" /\ Fits(r, E, to)
  <2>1. Reached(E.groups, "uid", g, name, r[1])
    BY <1>1, <1>6, Zenon DEF Reached
  <2>2. LET to == Moved(r, "uid", runs[r].composite, g) IN to \in Runs /\ to.pc # "none" /\ Fits(r, E, to)
    BY <1>1, <1>3, <1>6, <2>1, LinkedFits
  <2> QED
    BY <1>5, <2>2, Zenon
<1>7. CASE At(r, "group") /\ found = {} /\ Read(r, To(r, "new group"))
  <2>1. LET to == Moved(r, "new group", runs[r].composite, runs[r].group) IN to \in Runs /\ to.pc # "none" /\ Fits(r, registry, to)
    BY <1>1, <1>3, <1>4, LinkedFits
  <2> QED
    BY <1>5, <1>7, <2>1, ReadLands, Zenon
<1>8. ASSUME NEW g \in found, Read(r, [To(r, "uid") EXCEPT !.group = g]) PROVE Stepped(r)
  <2>1. g \in DOMAIN G /\ G[g].name = name
    BY <1>8, Zenon DEF FindCoGroupByName, Group
  <2>2. G \in Seq(Groups)
    BY Zenon DEF RInv, RType, RegistryOK
  <2>3. g \in Nat
    BY <2>1, <2>2
  <2>4. LET to == [To(r, "uid") EXCEPT !.group = g] IN to \in Runs /\ to.pc # "none" /\ Fits(r, registry, to)
    BY <1>6, <2>1, <2>3, Zenon
  <2> QED
    BY <1>8, <2>4, ReadLands, Zenon
<1>9. ASSUME NEW H, H = Append(G, x) \/ H = Append(Append(G, x), x),
             \/ Do(r, [registry EXCEPT !.groups = H], [To(r, "uid") EXCEPT !.group = Len(H)])
             \/ Retried(r, [registry EXCEPT !.groups = H], [To(r, "uid") EXCEPT !.group = Len(H)])
      PROVE  Stepped(r)
  <2> DEFINE E == [registry EXCEPT !.groups = H]
             to == [To(r, "uid") EXCEPT !.group = Len(H)]
  <2>1. /\ Good(r, E) /\ E.groups = H /\ E.people = registry.people
        /\ Len(H) \in DOMAIN H /\ H[Len(H)].name = name /\ Len(H) \in Nat
    BY <1>4, <1>9, GroupsAdded
  <2>2. Do(r, E, to) \/ Retried(r, E, to)
    BY <1>9, Zenon
  <2> HIDE DEF E
  <2>3. to \in Runs /\ to.pc # "none" /\ Fits(r, E, to)
    BY <1>6, <2>1, Zenon
  <2> HIDE DEF to
  <2> QED
    BY <2>1, <2>2, <2>3, DoLands, Zenon
<1>10. CASE /\ At(r, "new group")
           /\ LET made == CreateCoGroup(name)
                  n == Len(made.groups)
              IN \/ Do(r, made, [To(r, "uid") EXCEPT !.group = n])
                 \/ Retried(r, [made EXCEPT !.groups = Append(@, @[n])], [To(r, "uid") EXCEPT !.group = n + 1])
  <2> DEFINE made == CreateCoGroup(name)
             n == Len(made.groups)
             K == Append(G, x)
  <2>1. registry = [people |-> registry.people, groups |-> registry.groups, orphans |-> registry.orphans]
    BY Zenon DEF RInv, RType, RegistryOK
  <2>2. made = [registry EXCEPT !.groups = K]
    BY DEF CreateCoGroup, NewGroup
  <2>3. made.groups = K /\ \A y : [made EXCEPT !.groups = y] = [registry EXCEPT !.groups = y]
    BY <2>1, <2>2, Zenon
  <2>4. G \in Seq(Groups) /\ x \in Groups
    BY <1>4, NewGroups, Zenon DEF RInv, RType, RegistryOK
  <2>5. K[n] = x /\ n = Len(K) /\ Len(Append(K, x)) = n + 1
    <3> HIDE DEF x, G, made
    <3>1. K \in Seq(Groups) /\ K[Len(K)] = x
      BY <2>4
    <3> HIDE DEF K
    <3> QED
      BY <2>3, <2>4, <3>1
  <2>6. [made EXCEPT !.groups = Append(@, @[n])] = [registry EXCEPT !.groups = Append(K, x)]
    BY <2>3, <2>5, Zenon
  <2>7. \/ Do(r, made, [To(r, "uid") EXCEPT !.group = n])
        \/ Retried(r, [made EXCEPT !.groups = Append(@, @[n])], [To(r, "uid") EXCEPT !.group = n + 1])
    BY <1>10
  <2> HIDE DEF made, n, K, x, G
  <2> QED
    BY <1>9, <2>2, <2>5, <2>6, <2>7, Zenon DEF K
<1> QED
  BY <1>7, <1>8, <1>10, Zenon DEF findOrCreateCoGroup

\* The four records of the group.
LEMMA FindOrCreateLands ==
    ASSUME RInv, NEW r \in Ids, NEW pc \in {"uid", "gidnumber", "member", "cluster"}, NEW next \in Grouped \ {"put", "mark"},
           runs[r].pc \in {pc, Making[pc]}, NEW found, NEW E, Good(r, E), E.people = registry.people,
           found => Reached(registry.groups, next, runs[r].group, LocalUsername(r), r[1]),
           Reached(E.groups, next, runs[r].group, LocalUsername(r), r[1]),
           FindOrCreate(r, pc, found, E, next)
    PROVE  Stepped(r)
<1> DEFINE to(p) == Moved(r, p, runs[r].composite, runs[r].group)
<1>0. \/ pc = "uid" /\ Making[pc] = "new uid"
      \/ pc = "gidnumber" /\ Making[pc] = "new gidnumber"
      \/ pc = "member" /\ Making[pc] = "new member"
      \/ pc = "cluster" /\ Making[pc] = "new cluster"
  <2>1. /\ Making["uid"] = "new uid" /\ Making["gidnumber"] = "new gidnumber" /\ Making["member"] = "new member"
        /\ Making["cluster"] = "new cluster"
    BY DEF Making
  <2> QED
    BY <2>1, Zenon
<1>1. /\ runs[r].pc \in Linked /\ runs[r].pc \in Shown /\ runs[r].pc \in Grouped
      /\ Making[pc] \in Linked \ {"put", "mark"} /\ next \in Linked \ {"put", "mark"}
  <2>1. pc \in Grouped /\ Making[pc] \in Grouped \ {"put", "mark"}
    BY <1>0 DEF Grouped, Named, Numbered, Joined, Clustered
  <2> QED
    BY <2>1 DEF Shown, Linked
<1>2. runs[r].pc \in Working /\ runs[r].group \in Nat /\ Reached(registry.groups, runs[r].pc, runs[r].group, LocalUsername(r), r[1])
  BY <1>1, ShownNow
<1>3. \A p : To(r, p) = to(p)
  BY <1>2, ToMoved
<1>4. runs[r].pc = pc => Reached(registry.groups, Making[pc], runs[r].group, LocalUsername(r), r[1])
  <2>1. (pc \in Named <=> Making[pc] \in Named) /\ (pc \in Numbered <=> Making[pc] \in Numbered)
    BY <1>0 DEF Named, Numbered, Joined, Clustered
  <2>2. (pc \in Joined <=> Making[pc] \in Joined) /\ pc \in Grouped /\ Making[pc] \notin Clustered
    BY <1>0 DEF Grouped, Named, Numbered, Joined, Clustered
  <2> QED
    BY <1>2, <2>1, <2>2, Zenon DEF Reached
<1>5. CASE runs[r].pc = pc /\ Read(r, To(r, IF found THEN next ELSE Making[pc]))
  <2>1. CASE found
    <3>1. to(next) \in Runs /\ to(next).pc # "none" /\ Fits(r, registry, to(next))
      BY <1>1, <1>2, <2>1, LinkedFits
    <3> HIDE DEF to
    <3> QED
      BY <1>3, <1>5, <2>1, <3>1, ReadLands, Zenon
  <2>2. CASE ~found
    <3>1. to(Making[pc]) \in Runs /\ to(Making[pc]).pc # "none" /\ Fits(r, registry, to(Making[pc]))
      BY <1>1, <1>2, <1>4, <1>5, LinkedFits
    <3> HIDE DEF to
    <3> QED
      BY <1>3, <1>5, <2>2, <3>1, ReadLands, Zenon
  <2> QED
    BY <2>1, <2>2
<1>6. CASE Do(r, E, To(r, next))
  <2>1. to(next) \in Runs /\ to(next).pc # "none" /\ Fits(r, E, to(next))
    BY <1>1, <1>2, LinkedFits
  <2> HIDE DEF to
  <2> QED
    BY <1>3, <1>6, <2>1, DoLands, Zenon
<1> QED
  BY <1>5, <1>6, Zenon DEF FindOrCreate, At

\* The group of a run that has one.
LEMMA GroupNow ==
    ASSUME RInv, NEW r \in Ids, runs[r].pc \in Grouped
    PROVE  /\ runs[r].pc \in Shown /\ runs[r].pc \in Linked
           /\ runs[r].group \in DOMAIN registry.groups /\ Group(runs[r].group) \in Groups /\ Valued(Group(runs[r].group))
           /\ Group(runs[r].group).name = LocalUsername(r)
           /\ Reached(registry.groups, runs[r].pc, runs[r].group, LocalUsername(r), r[1])
<1>1. runs[r].pc \in Shown /\ runs[r].pc \in Linked
  BY DEF Shown, Linked
<1>2. Reached(registry.groups, runs[r].pc, runs[r].group, LocalUsername(r), r[1])
  BY <1>1, ShownNow
<1>3. runs[r].group \in DOMAIN registry.groups /\ Group(runs[r].group).name = LocalUsername(r)
  BY <1>2, Zenon DEF Reached, Group
<1>4. registry.groups \in Seq(Groups)
  BY Zenon DEF RInv, RType, RegistryOK
<1>5. Group(runs[r].group) \in Groups
  BY <1>3, <1>4 DEF Group
<1>6. Valued(Group(runs[r].group))
  BY <1>3, Zenon DEF RInv
<1> QED
  BY <1>1, <1>2, <1>3, <1>5, <1>6, Zenon

LEMMA IdentifierMade ==
    ASSUME RInv, NEW r \in Ids, runs[r].pc \in Grouped, NEW type \in {"uid", "gidnumber"}, NEW value,
           type = "uid" => value = LocalUsername(r), type = "gidnumber" => value = r[1]
    PROVE  LET g == runs[r].group
               E == CreateIdentifierOnGroup(g, type, value)
           IN Good(r, E) /\ E.people = registry.people /\ g \in DOMAIN E.groups /\ type \in DOMAIN E.groups[g].ids
<1> DEFINE g == runs[r].group
           y == Group(g)
           a == [t \in DOMAIN y.ids \cup {type} |-> IF t \in DOMAIN y.ids THEN y.ids[t] ELSE value]
           x == [y EXCEPT !.ids = a]
           E == [registry EXCEPT !.groups[g] = x]
<1>1. /\ g \in DOMAIN registry.groups /\ y \in Groups /\ y.name = LocalUsername(r) /\ runs[r].pc \in Shown
      /\ (\A t \in {"uid"} : t \in DOMAIN y.ids => y.ids[t] = y.name)
      /\ (\A t \in {"gidnumber"} : t \in DOMAIN y.ids => y.ids[t] \in Users /\ y.name \in NamesOf(y.ids[t]))
  BY GroupNow, Zenon DEF Valued
<1>2. r[1] \in Users /\ LocalUsername(r) \in NamesOf(r[1]) /\ LocalUsername(r) \in STRING
  BY <1>1, ShownNow
<1>3. y.ids \in Attributes /\ value \in STRING \cup Users
  BY <1>1, <1>2 DEF Groups
<1>4. a \in Attributes /\ DOMAIN a = DOMAIN y.ids \cup {type} /\ (type \notin DOMAIN y.ids => a[type] = value)
      /\ \A t \in DOMAIN y.ids : a[t] = y.ids[t]
  <2>1. a \in Attributes
    BY <1>3, AttributesGrow, Zenon
  <2> QED
    BY <2>1, Zenon
<1> HIDE DEF a
<1>5. /\ x \in Groups /\ x.name = y.name /\ x.ids = a /\ x.members = y.members /\ x.cluster = y.cluster
  BY <1>1, <1>4 DEF Groups
<1> HIDE DEF x
<1>6. Valued(x)
  <2>1. "uid" \in DOMAIN a => a["uid"] = y.name
    BY <1>1, <1>4
  <2>2. "gidnumber" \in DOMAIN a => a["gidnumber"] \in Users /\ y.name \in NamesOf(a["gidnumber"])
    BY <1>1, <1>2, <1>4
  <2> QED
    BY <1>5, <2>1, <2>2, Zenon DEF Valued
<1>7. Good(r, E) /\ E.groups = [registry.groups EXCEPT ![g] = x] /\ E.people = registry.people
  <2>1. DOMAIN Group(g).ids \subseteq DOMAIN x.ids /\ Group(g).members \subseteq x.members /\ (Group(g).cluster => x.cluster)
    BY <1>4, <1>5, Zenon
  <2> QED
    BY <1>1, <1>5, <1>6, <2>1, GroupEdited
<1>8. g \in DOMAIN E.groups /\ E.groups[g] = x
  BY <1>1, <1>7, Zenon
<1>9. CreateIdentifierOnGroup(g, type, value) = E
  BY DEF CreateIdentifierOnGroup, Group, x, a
<1> HIDE DEF E, y
<1> QED
  BY <1>4, <1>5, <1>7, <1>8, <1>9, Zenon

\* What is reached stays reached by what a step makes.
LEMMA ReachedStays ==
    ASSUME RInv, NEW r \in Ids, runs[r].pc \in Grouped, NEW E, Good(r, E)
    PROVE  Reached(E.groups, runs[r].pc, runs[r].group, LocalUsername(r), r[1])
  BY GroupNow, ReachedGrows, Zenon DEF Good

LEMMA AtUid ==
    ASSUME RInv, NEW r \in Ids, findOrCreateIdentifier(r, "uid", LocalUsername(r), "gidnumber")
    PROVE  Stepped(r)
<1> DEFINE g == runs[r].group
           E == CreateIdentifierOnGroup(g, "uid", LocalUsername(r))
<1>1. runs[r].pc \in {"uid", Making["uid"]} /\ Making["uid"] = "new uid"
  BY DEF findOrCreateIdentifier, FindOrCreate, At, Making
<1>2. runs[r].pc \in Grouped /\ "gidnumber" \in Grouped \ {"put", "mark"} /\ "gidnumber" \notin Numbered
      /\ "gidnumber" \notin Joined /\ "gidnumber" \notin Clustered
  BY <1>1 DEF Grouped, Named, Numbered, Joined, Clustered
<1>3. Good(r, E) /\ E.people = registry.people /\ g \in DOMAIN E.groups /\ "uid" \in DOMAIN E.groups[g].ids
  BY <1>2, IdentifierMade
<1> HIDE DEF E
<1>4. E.groups[g].name = LocalUsername(r)
  BY <1>2, <1>3, ReachedStays, Zenon DEF Reached
<1>5. Reached(E.groups, "gidnumber", g, LocalUsername(r), r[1])
  BY <1>2, <1>3, <1>4, Zenon DEF Reached
<1>6. FindIdentifierOnGroup(g, "uid") => Reached(registry.groups, "gidnumber", g, LocalUsername(r), r[1])
  BY <1>2, GroupNow, Zenon DEF Reached, FindIdentifierOnGroup, Group
<1>7. FindOrCreate(r, "uid", FindIdentifierOnGroup(g, "uid"), E, "gidnumber")
  BY DEF findOrCreateIdentifier, E
<1> QED
  BY <1>1, <1>2, <1>3, <1>5, <1>6, <1>7, FindOrCreateLands

LEMMA AtGidnumber ==
    ASSUME RInv, NEW r \in Ids, findOrCreateIdentifier(r, "gidnumber", r[1], "member")
    PROVE  Stepped(r)
<1> DEFINE g == runs[r].group
           E == CreateIdentifierOnGroup(g, "gidnumber", r[1])
<1>1. runs[r].pc \in {"gidnumber", Making["gidnumber"]} /\ Making["gidnumber"] = "new gidnumber"
  BY DEF findOrCreateIdentifier, FindOrCreate, At, Making
<1>2. runs[r].pc \in Grouped /\ runs[r].pc \in Named /\ "member" \in Grouped \ {"put", "mark"} /\ "member" \notin Joined
      /\ "member" \notin Clustered
  BY <1>1 DEF Grouped, Named, Numbered, Joined, Clustered
<1>3. Good(r, E) /\ E.people = registry.people /\ g \in DOMAIN E.groups /\ "gidnumber" \in DOMAIN E.groups[g].ids
  BY <1>2, IdentifierMade
<1> HIDE DEF E
<1>4. E.groups[g].name = LocalUsername(r) /\ "uid" \in DOMAIN E.groups[g].ids
  BY <1>2, <1>3, ReachedStays, Zenon DEF Reached
<1>5. Reached(E.groups, "member", g, LocalUsername(r), r[1])
  BY <1>2, <1>3, <1>4, Zenon DEF Reached
<1>6. FindIdentifierOnGroup(g, "gidnumber") => Reached(registry.groups, "member", g, LocalUsername(r), r[1])
  BY <1>2, GroupNow, Zenon DEF Reached, FindIdentifierOnGroup, Group
<1>7. FindOrCreate(r, "gidnumber", FindIdentifierOnGroup(g, "gidnumber"), E, "member")
  BY DEF findOrCreateIdentifier, E
<1> QED
  BY <1>1, <1>2, <1>3, <1>5, <1>6, <1>7, FindOrCreateLands

LEMMA AtMember ==
    ASSUME RInv, NEW r \in Ids, findOrCreateCoGroupMember(r)
    PROVE  Stepped(r)
<1> DEFINE g == runs[r].group
           y == Group(g)
           x == [y EXCEPT !.members = @ \cup {r[1]}]
           E == [registry EXCEPT !.groups[g] = x]
<1>1. runs[r].pc \in {"member", Making["member"]} /\ Making["member"] = "new member"
  BY DEF findOrCreateCoGroupMember, FindOrCreate, At, Making
<1>2. runs[r].pc \in Grouped /\ runs[r].pc \in Named /\ runs[r].pc \in Numbered /\ "cluster" \in Grouped \ {"put", "mark"}
      /\ "cluster" \notin Clustered
  BY <1>1 DEF Grouped, Named, Numbered, Joined, Clustered
<1>3. g \in DOMAIN registry.groups /\ y \in Groups /\ Valued(y) /\ r[1] \in Users
  BY <1>2, GroupNow, ShownNow
<1>4. x \in Groups /\ x.name = y.name /\ x.ids = y.ids /\ x.members = y.members \cup {r[1]} /\ x.cluster = y.cluster
  BY <1>3 DEF Groups
<1> HIDE DEF x
<1>5. Valued(x)
  BY <1>3, <1>4, Zenon DEF Valued
<1>6. Good(r, E) /\ E.groups = [registry.groups EXCEPT ![g] = x] /\ E.people = registry.people
  <2>1. DOMAIN Group(g).ids \subseteq DOMAIN x.ids /\ Group(g).members \subseteq x.members /\ (Group(g).cluster => x.cluster)
    BY <1>4, Zenon
  <2> QED
    BY <1>3, <1>4, <1>5, <2>1, GroupEdited
<1>7. r[1] \in E.groups[g].members /\ g \in DOMAIN E.groups
  BY <1>3, <1>4, <1>6, Zenon
<1>8. CreateCoGroupMember(g, r[1]) = E
  BY DEF CreateCoGroupMember, Group, x
<1> HIDE DEF E, y
<1>9. Reached(E.groups, "cluster", g, LocalUsername(r), r[1])
  BY <1>2, <1>6, <1>7, ReachedStays, Zenon DEF Reached
<1>10. FindCoGroupMember(g, r[1]) => Reached(registry.groups, "cluster", g, LocalUsername(r), r[1])
  BY <1>2, GroupNow, Zenon DEF Reached, FindCoGroupMember, Group
<1>11. FindOrCreate(r, "member", FindCoGroupMember(g, r[1]), E, "cluster")
  BY <1>8 DEF findOrCreateCoGroupMember
<1> QED
  BY <1>1, <1>2, <1>6, <1>9, <1>10, <1>11, FindOrCreateLands, Zenon

LEMMA AtCluster ==
    ASSUME RInv, NEW r \in Ids, findOrCreateUnixClusterGroup(r)
    PROVE  Stepped(r)
<1> DEFINE g == runs[r].group
           y == Group(g)
           x == [y EXCEPT !.cluster = TRUE]
           E == [registry EXCEPT !.groups[g] = x]
           to(pc) == Moved(r, pc, runs[r].composite, g)
<1>1. runs[r].pc \in {"cluster", Making["cluster"]} /\ Making["cluster"] = "new cluster"
  BY DEF findOrCreateUnixClusterGroup, FindOrCreate, At, Making
<1>2. /\ runs[r].pc \in Grouped /\ runs[r].pc \in Named /\ runs[r].pc \in Numbered /\ runs[r].pc \in Joined
      /\ {"fetch", "new cluster"} \subseteq Grouped \ {"put", "mark"} /\ "new cluster" \notin Clustered
  BY <1>1 DEF Grouped, Named, Numbered, Joined, Clustered
<1>3. g \in DOMAIN registry.groups /\ y \in Groups /\ Valued(y) /\ g \in Nat /\ runs[r].pc \in Working /\ runs[r].pc \in Linked
  BY <1>2, GroupNow, ShownNow
<1>4. x \in Groups /\ x.name = y.name /\ x.ids = y.ids /\ x.members = y.members /\ x.cluster = TRUE
  BY <1>3, Zenon DEF Groups
<1> HIDE DEF x
<1>5. Valued(x)
  BY <1>3, <1>4, Zenon DEF Valued
<1>6. Good(r, E) /\ E.groups = [registry.groups EXCEPT ![g] = x] /\ E.people = registry.people
  <2>1. DOMAIN Group(g).ids \subseteq DOMAIN x.ids /\ Group(g).members \subseteq x.members /\ (Group(g).cluster => x.cluster)
    BY <1>4, Zenon
  <2> QED
    BY <1>3, <1>4, <1>5, <2>1, GroupEdited
<1>7. E.groups[g].cluster
  BY <1>3, <1>4, <1>6, Zenon
<1>8. CreateUnixClusterGroup(g) = E
  BY DEF CreateUnixClusterGroup, Group, x
<1> HIDE DEF E, y
<1>9. Reached(E.groups, "fetch", g, LocalUsername(r), r[1])
  BY <1>2, <1>6, <1>7, ReachedStays, Zenon DEF Reached
<1>10. FindUnixClusterGroup(g) \/ load.refuses => Reached(registry.groups, "fetch", g, LocalUsername(r), r[1])
  BY <1>2, GroupNow, Zenon DEF Reached, FindUnixClusterGroup, Group
<1>11. Reached(registry.groups, "new cluster", g, LocalUsername(r), r[1])
  BY <1>2, GroupNow, Zenon DEF Reached
<1>12. \A pc : To(r, pc) = to(pc)
  BY <1>3, ToMoved
<1>13. {"fetch", "new cluster"} \subseteq Linked \ {"put", "mark"}
  BY <1>2 DEF Linked
<1>14. CASE FindOrCreate(r, "cluster", FindUnixClusterGroup(g), CreateUnixClusterGroup(g), "fetch")
  BY <1>1, <1>2, <1>6, <1>8, <1>9, <1>10, <1>14, FindOrCreateLands, Zenon
<1>15. CASE Goes(r, To(r, "new cluster")) /\ UNCHANGED registry
  <2>1. to("new cluster") \in Runs /\ to("new cluster").pc # "none" /\ Fits(r, registry, to("new cluster"))
    BY <1>3, <1>11, <1>13, LinkedFits
  <2> HIDE DEF to
  <2> QED
    BY <1>12, <1>15, <2>1, SelfGood, Zenon DEF Stepped, Lands
<1>16. CASE Retried(r, CreateUnixClusterGroup(g), To(r, "fetch"))
  <2>1. to("fetch") \in Runs /\ to("fetch").pc # "none" /\ Fits(r, E, to("fetch"))
    BY <1>3, <1>6, <1>9, <1>13, LinkedFits, Zenon
  <2> HIDE DEF to
  <2> QED
    BY <1>6, <1>8, <1>12, <1>16, <2>1, DoLands, Zenon
<1>17. CASE load.refuses /\ Retried(r, registry, To(r, "fetch"))
  <2>1. to("fetch") \in Runs /\ to("fetch").pc # "none" /\ Fits(r, registry, to("fetch"))
    BY <1>3, <1>10, <1>13, <1>17, LinkedFits
  <2> HIDE DEF to
  <2> QED
    BY <1>12, <1>17, <2>1, SelfGood, DoLands, Zenon
<1> QED
  BY <1>14, <1>15, <1>16, <1>17, Zenon DEF findOrCreateUnixClusterGroup

LEMMA AtFetch ==
    ASSUME RInv, NEW r \in Ids, getPersonComposite(r)
    PROVE  Stepped(r)
<1> DEFINE to == Moved(r, "put", Person(r[1]), runs[r].group)
<1>1. runs[r].pc = "fetch" /\ Read(r, Composed(r, "put"))
  BY Zenon DEF getPersonComposite, At
<1>2. /\ {"fetch", "put"} \subseteq Shown /\ {"fetch", "put"} \subseteq Linked /\ {"fetch", "put"} \subseteq Grouped
      /\ {"fetch", "put"} \subseteq Named /\ {"fetch", "put"} \subseteq Numbered /\ {"fetch", "put"} \subseteq Joined
      /\ {"fetch", "put"} \subseteq Clustered
  BY DEF Shown, Linked, Grouped, Named, Numbered, Joined, Clustered
<1>3. /\ runs[r].pc \in Working /\ runs[r].group \in Nat /\ Person(r[1]) \in Persons /\ Person(r[1]).there
      /\ ~load.overlaps => Person(r[1]).ids = Assigned /\ (runs[r].sub => Person(r[1]).links = 1)
  BY <1>1, <1>2, ShownNow
<1>4. Reached(registry.groups, "put", runs[r].group, LocalUsername(r), r[1])
  BY <1>1, <1>2, GroupNow, Zenon DEF Reached
<1>5. Composed(r, "put") = to
  BY <1>3, ToMoved DEF Composed, GetPersonComposite
<1>6. to \in Runs /\ to.pc # "none" /\ Fits(r, registry, to)
  BY <1>2, <1>3, <1>4, ShownFits, Zenon DEF Person
<1> HIDE DEF to
<1> QED
  BY <1>1, <1>5, <1>6, ReadLands, Zenon

LEMMA AtPut ==
    ASSUME RInv, NEW r \in Ids, updatePerson(r)
    PROVE  Stepped(r)
<1> DEFINE u == r[1]
           name == LocalUsername(r)
           c == runs[r].composite
           block == [name |-> name, group |-> runs[r].group]
           p == [[c EXCEPT !.account = block] EXCEPT !.login = name]
           E == [registry EXCEPT !.people[u] = p]
           to == Moved(r, "mark", c, runs[r].group)
<1>1. runs[r].pc = "put" /\ Do(r, E, To(r, "mark"))
  BY DEF updatePerson, At, UpdatePerson, mergeUnixClusterAccount, mergeLoginIdentifier
<1>2. /\ {"mark", "put"} \subseteq Shown /\ {"mark", "put"} \subseteq Linked /\ {"mark", "put"} \subseteq Grouped
      /\ {"mark", "put"} \subseteq Named /\ {"mark", "put"} \subseteq Numbered /\ {"mark", "put"} \subseteq Joined
      /\ {"mark", "put"} \subseteq Clustered
  BY DEF Shown, Linked, Grouped, Named, Numbered, Joined, Clustered
<1>3. /\ runs[r].pc \in Working /\ runs[r].group \in Nat /\ c \in Persons /\ Person(u) \in Persons /\ Person(u).there
      /\ name \in STRING /\ name \in NamesOf(u)
      /\ ~load.overlaps => Person(u).ids = Assigned /\ Person(u).links <= 1 /\ (runs[r].sub => Person(u).links = 1)
  BY <1>1, <1>2, ShownNow
<1>4. Reached(registry.groups, "put", runs[r].group, name, u) /\ Reached(registry.groups, "mark", runs[r].group, name, u)
  BY <1>1, <1>2, GroupNow, Zenon DEF Reached
<1>5. c.there /\ (~load.overlaps => c = Person(u))
  BY <1>1, FitsNow DEF Fits, Knows
<1>6. block \in [name : Names, group : Nat] /\ block.name = name /\ block.group = runs[r].group /\ name \in Names
  BY <1>3 DEF Names
<1> HIDE DEF block
<1>7. p \in Persons /\ p.there = c.there /\ p.ids = c.ids /\ p.links = c.links /\ p.login = name /\ p.account = block
  <2>1. c \in Persons
    BY <1>3, Zenon
  <2> HIDE DEF c, name
  <2>2. p = [there |-> c.there, ids |-> c.ids, links |-> c.links, login |-> name, account |-> block]
    <3> DEFINE q == [c EXCEPT !.account = block]
    <3>1. q = [there |-> c.there, ids |-> c.ids, links |-> c.links, login |-> c.login, account |-> block]
      BY <2>1 DEF Persons
    <3>2. p = [q EXCEPT !.login = name]
      OBVIOUS
    <3> HIDE DEF q, p
    <3> QED
      BY <3>1, <3>2
  <2>3. c.there \in BOOLEAN /\ c.ids \in SUBSET Assigned /\ c.links \in Nat
    BY <1>3 DEF Persons
  <2>4. p \in Persons
    BY <1>6, <2>2, <2>3, Zenon DEF Persons
  <2> QED
    BY <2>2, <2>4
<1> HIDE DEF p
<1>8. Person(u).links \in Nat
  BY <1>3 DEF Persons
<1>9. ~load.overlaps => Person(u).links <= p.links /\ p.links <= 1 /\ Person(u).ids \subseteq p.ids
  BY <1>3, <1>5, <1>7, <1>8
<1>10. Good(r, E) /\ E.people[u] = p /\ E.groups = registry.groups
  <2>1. p.account # NoAccount => /\ Reached(registry.groups, "put", p.account.group, p.account.name, u)
                                 /\ p.login = p.account.name /\ p.account.name \in NamesOf(u)
    BY <1>3, <1>4, <1>6, <1>7, Zenon
  <2> QED
    BY <1>5, <1>7, <1>9, <2>1, PersonEdited, Zenon
<1> HIDE DEF E
<1>11. To(r, "mark") = to
  BY <1>3, ToMoved
<1>12. to \in Runs /\ to.pc # "none" /\ Fits(r, E, to)
  <2>1. E.people[u].there /\ Reached(E.groups, "mark", runs[r].group, name, u)
    BY <1>4, <1>5, <1>7, <1>10, Zenon
  <2>2. ~load.overlaps => /\ E.people[u].ids = Assigned /\ (runs[r].sub => E.people[u].links = 1)
                          /\ E.people[u].account.name = name
    BY <1>3, <1>5, <1>6, <1>7, <1>10, Zenon
  <2>3. "mark" \in Shown /\ "mark" \notin {"put", "link", "subject", "attach"}
    BY <1>2
  <2> QED
    BY <1>3, <2>1, <2>2, <2>3, ShownFits, Zenon
<1> HIDE DEF to
<1> QED
  BY <1>1, <1>10, <1>11, <1>12, DoLands, Zenon

\* Every step of a run is one of these.
LEMMA RunSteps ==
    ASSUME RInv, NEW r \in Ids, ensurePOSIXAccountImpl(r)
    PROVE  /\ Stepped(r) /\ runs[r].pc \notin Over
           /\ stored' \subseteq stored \cup {r[1]}
           /\ ~(stored' \subseteq stored) => Person(r[1]).there /\ (~load.overlaps => "id" \in Person(r[1]).ids)
<1>1. Stepped(r)
  BY AtStart, AtLookup, AtWait, AtKeep, AtComposite, AtLink, AtGroup, AtUid, AtGidnumber, AtMember, AtCluster, AtFetch, AtPut,
     Zenon DEF ensurePOSIXAccountImpl
<1>2. UNCHANGED stored \/ storePersonID(r)
  BY Zenon DEF ensurePOSIXAccountImpl, handleClusterUserCreate, lookupOrCreateCoPerson, waitForCreatedPersonID, extractIdentifier,
     ensureOIDCLinkage, findOrCreateCoGroup, findOrCreateIdentifier, FindOrCreate, findOrCreateCoGroupMember,
     findOrCreateUnixClusterGroup, getPersonComposite, updatePerson
<1>3. /\ stored' \subseteq stored \cup {r[1]}
      /\ ~(stored' \subseteq stored) => Person(r[1]).there /\ (~load.overlaps => "id" \in Person(r[1]).ids)
  BY <1>2, AtKeep, Zenon
<1>4. runs[r].pc \notin Over
  BY Zenon DEF ensurePOSIXAccountImpl, handleClusterUserCreate, lookupOrCreateCoPerson, waitForCreatedPersonID, storePersonID, extractIdentifier,
     ensureOIDCLinkage, findOrCreateCoGroup, findOrCreateIdentifier, FindOrCreate, findOrCreateCoGroupMember,
     findOrCreateUnixClusterGroup, getPersonComposite, updatePerson, At, Over, Making
<1> QED
  BY <1>1, <1>3, <1>4, Zenon

-----------------------------------------------------------------------------
(* The steps of all runs and rows. *)

\* What is said of rigid values does not change, because the workload does not.
LEMMA SameLoad ==
    ASSUME UNCHANGED load
    PROVE  /\ Ids' = Ids
           /\ \A r, E, run : Fits(r, E, run)' <=> Fits(r, E, run)
           /\ \A E, u : PersonOK(E, u)' <=> PersonOK(E, u)
           /\ \A x : Valued(x)' <=> Valued(x)
           /\ \A u : Rows(u)' = Rows(u)
           /\ \A r : LocalUsername(r)' = LocalUsername(r)
<1>1. \A u : Rows(u)' = Rows(u)
  BY Zenon DEF Rows
<1>2. \A r : LocalUsername(r)' = LocalUsername(r)
  BY Zenon DEF LocalUsername
<1>3. Ids' = Ids
  BY <1>1 DEF Ids, Gens
<1>4. \A u : NamesOf(u)' = NamesOf(u)
  BY <1>1 DEF NamesOf
<1>5. ASSUME NEW G, NEW pc, NEW g, NEW name, NEW u PROVE Reached(G, pc, g, name, u)' <=> Reached(G, pc, g, name, u)
  BY DEF Reached
<1>7. ASSUME NEW r, NEW E, NEW run PROVE Fits(r, E, run)' <=> Fits(r, E, run)
  <2>1. LocalUsername(r)' = LocalUsername(r)
    BY <1>2, Zenon
  <2>2. Reached(E.groups, run.pc, run.group, LocalUsername(r), r[1])' <=> Reached(E.groups, run.pc, run.group, LocalUsername(r), r[1])
    BY <2>1, Zenon DEF Reached
  <2>3. Knows(run, E.people[r[1]], LocalUsername(r), r[1])' <=> Knows(run, E.people[r[1]], LocalUsername(r), r[1])
    BY <2>1, Zenon DEF Knows
  <2> QED
    BY <2>2, <2>3, Zenon DEF Fits
<1>8. ASSUME NEW E, NEW u PROVE PersonOK(E, u)' <=> PersonOK(E, u)
  BY <1>4, <1>5, Zenon DEF PersonOK
<1>9. ASSUME NEW x PROVE Valued(x)' <=> Valued(x)
  BY <1>4, Zenon DEF Valued
<1> QED
  BY <1>1, <1>2, <1>3, <1>7, <1>8, <1>9, Zenon

\* A run that is over, or has not started, says nothing of the registry.
LEMMA QuietFits ==
    ASSUME NEW run, run.pc \in Over \cup {"queued"}
    PROVE  /\ \A p, name, u : Knows(run, p, name, u)
           /\ \A r, E : Fits(r, E, run)
<1>1. run.pc \notin Working
  BY DEF Over, Working, Early, Found, Shown, Linked, Grouped, Named, Numbered, Joined, Clustered
<1>2. /\ run.pc \notin Early /\ run.pc \notin Found /\ run.pc \notin Shown /\ run.pc \notin Linked /\ run.pc \notin Grouped
      /\ run.pc \notin {"keep", "composite", "link", "subject", "attach", "put", "mark", "wait"}
  BY <1>1 DEF Working, Early, Found, Shown, Linked, Grouped, Named, Numbered, Joined, Clustered
<1>3. \A p, name, u : Knows(run, p, name, u)
  BY <1>1, <1>2, Zenon DEF Knows
<1> QED
  BY <1>2, <1>3, Zenon DEF Fits

\* The invariant of the registry is kept, piece by piece.
LEMMA RInvKept ==
    ASSUME RInv, UNCHANGED load, RowsOK', NEW E, registry' = E, NEW rs, runs' = rs,
           RegistryOK(E), \A g \in DOMAIN E.groups : Valued(E.groups[g]), load.bound \subseteq bound',
           gen' \in [Users -> Nat], \A u \in Users : gen'[u] <= Rows(u),
           DOMAIN rs = Ids, \A r \in Ids : rs[r] \in Runs /\ (rs[r].pc # "none" => r[2] \in 1 .. gen'[r[1]]),
           \A u \in Users : PersonOK(E, u) /\ (u \in stored' => E.people[u].there),
           \A r \in Ids : Fits(r, E, rs[r]),
           ~load.overlaps => /\ \A r \in Ids : rs[r].pc \notin Over => r[2] = gen'[r[1]]
                             /\ \A u \in Users : /\ E.people[u].links <= 1 /\ (u \in stored' => "id" \in E.people[u].ids)
                                                 /\ Landed(u)'
    PROVE  RInv'
<1>1. /\ Ids' = Ids /\ \A u : Rows(u)' = Rows(u)
      /\ \A r, F, run : Fits(r, F, run)' <=> Fits(r, F, run)
      /\ \A F, u : PersonOK(F, u)' <=> PersonOK(F, u)
      /\ \A x : Valued(x)' <=> Valued(x)
  BY SameLoad, Zenon
<1>2. RegistryOK(registry)' /\ (load.bound \subseteq bound)'
  BY DEF RegistryOK
<1>3. RType'
  <2>1. \A u \in Users : gen'[u] <= Rows(u)'
    BY <1>1
  <2> QED
    BY <1>1, <1>2, <2>1, Zenon DEF RType
<1>4. (\A g \in DOMAIN registry.groups : Valued(Group(g)))'
  BY <1>1 DEF Group
<1>5. (\A u \in Users : PersonOK(registry, u) /\ (u \in stored => Person(u).there))'
  BY <1>1, Zenon DEF Person
<1>6. (\A r \in Ids : Fits(r, registry, runs[r]))'
  BY <1>1, Zenon
<1>7. (~load.overlaps => Solo)'
  BY <1>1, Zenon DEF Solo, Person
<1> QED
  BY <1>3, <1>4, <1>5, <1>6, <1>7, Zenon DEF RInv

\* The pieces of RInv that a step starts from.
LEMMA RInvFacts ==
    ASSUME RInv
    PROVE  /\ RowsOK /\ RegistryOK(registry) /\ load.bound \subseteq bound
           /\ gen \in [Users -> Nat] /\ (\A u \in Users : gen[u] <= Rows(u))
           /\ DOMAIN runs = Ids /\ (\A r \in Ids : runs[r] \in Runs /\ (runs[r].pc # "none" => r[2] \in 1 .. gen[r[1]]))
           /\ \A g \in DOMAIN registry.groups : Valued(registry.groups[g])
           /\ \A u \in Users : PersonOK(registry, u) /\ (u \in stored => registry.people[u].there)
           /\ \A r \in Ids : Fits(r, registry, runs[r])
           /\ ~load.overlaps => /\ \A r \in Ids : runs[r].pc \notin Over => r[2] = gen[r[1]]
                                /\ \A u \in Users : /\ registry.people[u].links <= 1 /\ (u \in stored => "id" \in registry.people[u].ids)
                                                    /\ Landed(u)
  BY Zenon DEF RInv, RType, Solo, Group, Person

LEMMA RowsCount ==
    ASSUME RInv, NEW u \in Users
    PROVE  Rows(u) \in Nat
<1>1. load.names \in [Users -> Seq(STRING)]
  BY LoadsAssumption, Zenon DEF RInv, RowsOK
<1>2. load.names[u] \in Seq(STRING)
  BY <1>1
<1> QED
  BY <1>2 DEF Rows

\* The row a user has, or had last, has its run.
LEMMA CurrentRow ==
    ASSUME RInv, NEW u \in Users, gen[u] > 0
    PROVE  <<u, gen[u]>> \in Ids
<1>1. gen[u] \in Nat /\ gen[u] <= Rows(u)
  BY RInvFacts
<1>2. gen[u] \in 1 .. Rows(u)
  BY <1>1, RowsCount
<1> QED
  BY <1>2 DEF Ids, Gens

\* Two runs of a user are told apart by the row.
LEMMA IdsApart ==
    ASSUME NEW q \in Ids, NEW r \in Ids, q # r, q[1] = r[1]
    PROVE  q[2] # r[2]
  BY DEF Ids

\* A step of a run, for the other runs and the other people.
LEMMA OthersFit ==
    ASSUME RInv, NEW r \in Ids, NEW E, Good(r, E), runs[r].pc \notin Over
    PROVE  /\ \A q \in Ids : q # r => Fits(q, E, runs[q])
           /\ \A u \in Users : PersonOK(E, u)
<1>1. Grows(registry.groups, E.groups)
  BY Zenon DEF Good
<1>2. ASSUME NEW q \in Ids, q # r PROVE Fits(q, E, runs[q])
  <2>1. Fits(q, registry, runs[q]) /\ q[1] \in Users
    BY FitsNow, PersonType, Zenon
  <2>2. runs[q].pc \in Grouped => Reached(E.groups, runs[q].pc, runs[q].group, LocalUsername(q), q[1])
    <3>1. CASE runs[q].pc \in Grouped
      <4>1. Reached(registry.groups, runs[q].pc, runs[q].group, LocalUsername(q), q[1])
        BY <2>1, <3>1, Zenon DEF Fits
      <4> QED
        BY <1>1, <3>1, <4>1, ReachedGrows
    <3> QED
      BY <3>1, Zenon
  <2>3. CASE q[1] # r[1]
    <3>1. E.people[q[1]] = registry.people[q[1]]
      BY <2>1, <2>3, Zenon DEF Good
    <3> QED
      BY <2>1, <2>2, <3>1, Zenon DEF Fits
  <2>4. CASE q[1] = r[1]
    <3>1. registry.people[q[1]].there => E.people[q[1]].there
      BY <2>4, Zenon DEF Good, Person
    <3>2. ~load.overlaps => Knows(runs[q], E.people[q[1]], LocalUsername(q), q[1])
      <4>1. ~load.overlaps => runs[q].pc \in Over
        <5>1. q[2] # r[2]
          BY <1>2, <2>4, IdsApart
        <5>2. ~load.overlaps => r[2] = gen[r[1]] /\ (runs[q].pc \notin Over => q[2] = gen[q[1]])
          BY RInvFacts, Zenon
        <5> QED
          BY <2>4, <5>1, <5>2, Zenon
      <4> QED
        BY <4>1, QuietFits
    <3> QED
      BY <2>1, <2>2, <3>1, <3>2, Zenon DEF Fits
  <2> QED
    BY <2>3, <2>4, Zenon
<1>3. ASSUME NEW u \in Users PROVE PersonOK(E, u)
  <2>1. CASE u = r[1]
    BY <2>1, Zenon DEF Good
  <2>2. CASE u # r[1]
    <3> DEFINE p == registry.people[u]
    <3>1. PersonOK(registry, u) /\ E.people[u] = p
      BY <2>2, RInvFacts, Zenon DEF Good
    <3>2. "put" \in Grouped
      BY DEF Grouped, Named, Numbered, Joined, Clustered
    <3>3. ASSUME Reached(registry.groups, "put", p.account.group, p.account.name, u)
          PROVE  Reached(E.groups, "put", p.account.group, p.account.name, u)
      BY <1>1, <3>2, <3>3, ReachedGrows
    <3> QED
      BY <3>1, <3>3, Zenon DEF PersonOK
  <2> QED
    BY <2>1, <2>2, Zenon
<1> QED
  BY <1>2, <1>3, Zenon

\* Nothing was ever taken from a person.
Kept == ~load.overlaps => \A u \in Users : Person(u).links <= Person(u)'.links /\ Person(u).ids \subseteq Person(u)'.ids

LEMMA RunKeeps ==
    ASSUME RInv, RowsOK', NEW r \in Ids, ensurePOSIXAccountImpl(r), UNCHANGED <<load, core, bound, gen>>
    PROVE  RInv' /\ Kept
<1>1. /\ Good(r, registry') /\ runs[r].pc \notin Over /\ stored' \subseteq stored \cup {r[1]}
      /\ ~(stored' \subseteq stored) => Person(r[1]).there /\ (~load.overlaps => "id" \in Person(r[1]).ids)
  BY RunSteps, Zenon DEF Stepped
<1>2. PICK to : Lands(r, to)
  BY RunSteps, Zenon DEF Stepped
<1>3. PICK E : E = registry'
  OBVIOUS
<1>4. Good(r, E) /\ Fits(r, E, to) /\ to \in Runs /\ to.pc # "none" /\ runs' = [runs EXCEPT ![r] = to]
  BY <1>1, <1>2, <1>3, Zenon DEF Lands, Goes
<1>5. PICK rs : rs = runs'
  OBVIOUS
<1>6. r[1] \in Users /\ DOMAIN runs = Ids
  BY PersonType, RInvFacts, Zenon
<1>7. DOMAIN rs = Ids /\ rs[r] = to /\ \A q \in Ids : q # r => rs[q] = runs[q]
  BY <1>4, <1>5, <1>6, Zenon
<1>8. \A q \in Ids : Fits(q, E, rs[q])
  BY <1>1, <1>4, <1>7, OthersFit, Zenon
<1>9. RegistryOK(E) /\ (\A g \in DOMAIN E.groups : Valued(E.groups[g])) /\ \A u \in Users : PersonOK(E, u)
  BY <1>1, <1>4, OthersFit, Zenon DEF Good
<1>10. runs[r].pc # "none"
  BY <1>1 DEF Over
<1>11. \A q \in Ids : rs[q] \in Runs /\ (rs[q].pc # "none" => q[2] \in 1 .. gen'[q[1]])
  <2>1. gen' = gen
    OBVIOUS
  <2> QED
    BY <1>4, <1>7, <1>10, <2>1, RInvFacts, Zenon
<1>12. /\ \A v \in Users : v # r[1] => E.people[v] = registry.people[v]
       /\ Person(r[1]).there => E.people[r[1]].there
       /\ ~load.overlaps => /\ Person(r[1]).links <= E.people[r[1]].links /\ E.people[r[1]].links <= 1
                            /\ Person(r[1]).ids \subseteq E.people[r[1]].ids
  BY <1>4, Zenon DEF Good
<1>13. \A u \in Users : u \in stored' => E.people[u].there
  BY <1>1, <1>12, RInvFacts, Zenon DEF Person
<1>14. ASSUME ~load.overlaps, NEW u \in Users
       PROVE  E.people[u].links <= 1 /\ (u \in stored' => "id" \in E.people[u].ids)
  BY <1>1, <1>12, <1>14, RInvFacts, Zenon DEF Person
<1>15. ASSUME ~load.overlaps PROVE \A q \in Ids : rs[q].pc \notin Over => q[2] = gen'[q[1]]
  <2>1. gen' = gen
    OBVIOUS
  <2> QED
    BY <1>1, <1>7, <1>15, <2>1, RInvFacts, Zenon
<1>16. ASSUME ~load.overlaps, NEW u \in Users PROVE Landed(u)'
  <2>1. Landed(u) /\ (Provisioned(<<CustosClusterID, u>>)' <=> Provisioned(<<CustosClusterID, u>>))
    BY <1>16, RInvFacts, Zenon DEF Provisioned
  <2>2. CASE u # r[1]
    <3>1. <<u, gen[u]>> # r /\ Person(u)' = Person(u)
      BY <1>3, <1>12, <2>2 DEF Person
    <3>2. <<u, gen[u]>> \in Ids => runs'[<<u, gen[u]>>] = runs[<<u, gen[u]>>]
      BY <1>5, <1>7, <3>1, Zenon
    <3>3. gen[u] > 0 => <<u, gen[u]>> \in Ids
      BY CurrentRow, Zenon
    <3>4. LocalUsername(<<u, gen[u]>>)' = LocalUsername(<<u, gen[u]>>)
      BY Zenon DEF LocalUsername
    <3> QED
      BY <2>1, <3>1, <3>2, <3>3, <3>4, Zenon DEF Landed
  <2>3. CASE u = r[1]
    <3>1. r[2] = gen[u] /\ r = <<r[1], r[2]>>
      BY <1>1, <1>16, <2>3, RInvFacts DEF Ids
    <3>2. runs[<<u, gen[u]>>].pc # "done"
      BY <1>1, <2>3, <3>1 DEF Over
    <3> QED
      BY <2>1, <3>2, Zenon DEF Landed
  <2> QED
    BY <2>2, <2>3, Zenon
<1>17. RInv'
  <2>1. /\ load.bound \subseteq bound' /\ gen' \in [Users -> Nat] /\ \A u \in Users : gen'[u] <= Rows(u)
    BY RInvFacts, Zenon
  <2> QED
    BY <1>3, <1>5, <1>7, <1>8, <1>9, <1>11, <1>13, <1>14, <1>15, <1>16, <2>1, RInvKept, Zenon
<1>18. Kept
  <2>1. ASSUME ~load.overlaps, NEW u \in Users PROVE Person(u).links <= E.people[u].links /\ Person(u).ids \subseteq E.people[u].ids
    <3>1. Person(u).links \in Nat
      BY RInvFacts DEF RegistryOK, Persons, Person
    <3>2. Person(u).links <= Person(u).links
      BY <3>1
    <3> QED
      BY <1>12, <2>1, <3>2, Zenon DEF Person
  <2> QED
    BY <1>3, <2>1, Zenon DEF Kept, Person
<1> QED
  BY <1>17, <1>18

LEMMA SameRegistry ==
    ASSUME RInv, UNCHANGED registry
    PROVE  Kept
<1>1. ASSUME NEW u \in Users PROVE Person(u).links <= Person(u).links
  <2>1. Person(u).links \in Nat
    BY RInvFacts DEF RegistryOK, Persons, Person
  <2> QED
    BY <2>1
<1> QED
  BY <1>1, Zenon DEF Kept, Person

\* The accounts of the rows, by user.
LEMMA AccountSet ==
    ASSUME RowsOK, NEW u \in Users, NEW to, SetAccount(u, to)
    PROVE  /\ Provisioned(<<CustosClusterID, u>>)' <=> to \in {"fresh", "ready"}
           /\ \A v \in Users : v # u => (Provisioned(<<CustosClusterID, v>>)' <=> Provisioned(<<CustosClusterID, v>>))
<1>1. core' = [core EXCEPT !.account[<<CustosClusterID, u>>] = to] /\ <<CustosClusterID, u>> \in Clusters \X Users
  BY LoadsAssumption, Zenon DEF SetAccount
<1>2. DOMAIN core = {"alloc", "member", "account", "override", "mapped"} /\ DOMAIN core.account = Clusters \X Users
  BY Zenon DEF RowsOK
<1>3. core'.account = [core.account EXCEPT ![<<CustosClusterID, u>>] = to]
  BY <1>1, <1>2
<1>4. core'.account[<<CustosClusterID, u>>] = to
  BY <1>1, <1>2, <1>3, Zenon
<1>5. ASSUME NEW v \in Users, v # u PROVE core'.account[<<CustosClusterID, v>>] = core.account[<<CustosClusterID, v>>]
  <2>1. <<CustosClusterID, v>> # <<CustosClusterID, u>> /\ <<CustosClusterID, v>> \in Clusters \X Users
    BY <1>5, LoadsAssumption
  <2> QED
    BY <1>2, <1>3, <2>1, Zenon
<1> QED
  BY <1>4, <1>5, Zenon DEF Provisioned

LEMMA MarkKeeps ==
    ASSUME RInv, RowsOK', NEW r \in Ids, MarkComputeClusterUserProvisioned(r), UNCHANGED load
    PROVE  RInv' /\ Kept
<1> DEFINE to == [pc |-> "done"]
           u == r[1]
<1>1. /\ runs[r].pc = "mark" /\ runs' = [runs EXCEPT ![r] = to] /\ UNCHANGED <<registry, stored, bound, gen>>
      /\ \/ gen[u] = r[2] /\ SetAccount(u, "fresh")
         \/ UNCHANGED core
  BY Zenon DEF MarkComputeClusterUserProvisioned, At, Goes
<1>2. to \in Runs /\ to.pc = "done" /\ "done" \in Over /\ "mark" \notin Over /\ "mark" # "none" /\ "mark" \in Shown
      /\ "mark" \in Linked /\ "mark" \in Working
  BY DEF Runs, Over, Working, Found, Shown, Linked, Grouped, Named, Numbered, Joined, Clustered
<1> HIDE DEF to
<1>3. u \in Users /\ DOMAIN runs = Ids /\ RowsOK
  BY PersonType, RInvFacts, Zenon
<1>4. PICK rs : rs = runs'
  OBVIOUS
<1>5. DOMAIN rs = Ids /\ rs[r] = to /\ \A q \in Ids : q # r => rs[q] = runs[q]
  BY <1>1, <1>3, <1>4, Zenon
<1>6. \A q \in Ids : Fits(q, registry, rs[q])
  <2>1. Fits(r, registry, to)
    BY <1>2, QuietFits
  <2> QED
    BY <1>5, <2>1, RInvFacts, Zenon
<1>7. \A q \in Ids : rs[q] \in Runs /\ (rs[q].pc # "none" => q[2] \in 1 .. gen[q[1]])
  <2>1. r[2] \in 1 .. gen[r[1]]
    BY <1>1, <1>2, RInvFacts, Zenon
  <2> QED
    BY <1>2, <1>5, <2>1, RInvFacts, Zenon
<1>8. ~load.overlaps => \A q \in Ids : rs[q].pc \notin Over => q[2] = gen[q[1]]
  BY <1>2, <1>5, RInvFacts, Zenon
<1>9. ASSUME ~load.overlaps, NEW v \in Users PROVE Landed(v)'
  <2>1. gen[u] = r[2] /\ r = <<u, gen[u]>> /\ Landed(v)
    <3>1. gen[u] = r[2] /\ Landed(v)
      BY <1>1, <1>2, <1>9, RInvFacts, Zenon
    <3> QED
      BY <3>1 DEF Ids
  <2>2. LocalUsername(<<v, gen[v]>>)' = LocalUsername(<<v, gen[v]>>) /\ Person(v)' = Person(v)
    BY <1>1, Zenon DEF LocalUsername, Person
  <2>3. CASE v # u
    <3>1. Provisioned(<<CustosClusterID, v>>)' <=> Provisioned(<<CustosClusterID, v>>)
      BY <1>1, <1>3, <2>3, AccountSet, Zenon DEF Provisioned
    <3>2. <<v, gen[v]>> # r
      BY <2>3
    <3>3. gen[v] > 0 => runs'[<<v, gen[v]>>] = runs[<<v, gen[v]>>]
      BY <1>4, <1>5, <3>2, CurrentRow, Zenon
    <3> QED
      BY <1>1, <2>1, <2>2, <3>1, <3>3, Zenon DEF Landed
  <2>4. CASE v = u
    <3>1. Person(u).account.name = LocalUsername(r) /\ (u \in load.bound => Person(u).links = 1)
      BY <1>1, <1>2, <1>9, FitsNow DEF Knows
    <3>2. runs'[<<u, gen[u]>>].pc = "done"
      BY <1>2, <1>4, <1>5, <2>1, Zenon
    <3> QED
      BY <1>1, <2>1, <2>2, <2>4, <3>1, <3>2, Zenon DEF Landed
  <2> QED
    BY <2>3, <2>4, Zenon
<1>10. RInv'
  <2> DEFINE E == registry
  <2>1. PICK F : F = registry
    OBVIOUS
  <2>2. /\ RegistryOK(F) /\ (\A g \in DOMAIN F.groups : Valued(F.groups[g])) /\ load.bound \subseteq bound'
        /\ gen' \in [Users -> Nat] /\ (\A v \in Users : gen'[v] <= Rows(v))
        /\ \A v \in Users : PersonOK(F, v) /\ (v \in stored' => F.people[v].there)
        /\ ~load.overlaps => \A v \in Users : F.people[v].links <= 1 /\ (v \in stored' => "id" \in F.people[v].ids)
    BY <1>1, <2>1, RInvFacts, Zenon
  <2>3. registry' = F /\ gen' = gen /\ \A q \in Ids : Fits(q, F, rs[q])
    BY <1>1, <1>6, <2>1, Zenon
  <2> QED
    BY <1>4, <1>5, <1>7, <1>8, <1>9, <2>2, <2>3, RInvKept, Zenon
<1> QED
  BY <1>1, <1>10, SameRegistry, Zenon

LEMMA CreateKeeps ==
    ASSUME RInv, RowsOK', NEW u \in Users, CreateComputeClusterUser(u), UNCHANGED load
    PROVE  RInv' /\ Kept
<1> DEFINE to == [pc |-> "queued"]
           r == <<u, gen[u] + 1>>
<1>1. /\ gen[u] < Rows(u) /\ (~load.overlaps => \A g \in Gens : runs[<<u, g>>].pc \in Over) /\ SetAccount(u, "pending")
      /\ gen' = [gen EXCEPT ![u] = @ + 1] /\ runs' = [runs EXCEPT ![r] = to] /\ UNCHANGED <<registry, stored, bound>>
  BY Zenon DEF CreateComputeClusterUser, Goes
<1>2. to \in Runs /\ to.pc = "queued"
  BY DEF Runs
<1> HIDE DEF to
<1>3. gen \in [Users -> Nat] /\ Rows(u) \in Nat /\ DOMAIN runs = Ids /\ RowsOK
  BY RInvFacts, RowsCount, Zenon
<1>4. r \in Ids /\ r[1] = u /\ r[2] = gen[u] + 1
  <2>1. gen[u] + 1 \in 1 .. Rows(u)
    BY <1>1, <1>3
  <2> QED
    BY <2>1 DEF Ids, Gens
<1>5. gen' \in [Users -> Nat] /\ gen'[u] = gen[u] + 1 /\ \A v \in Users : v # u => gen'[v] = gen[v]
  BY <1>1, <1>3
<1>6. \A v \in Users : gen'[v] <= Rows(v)
  BY <1>1, <1>3, <1>5, RInvFacts
<1>7. PICK rs : rs = runs'
  OBVIOUS
<1> HIDE DEF r
<1>8. DOMAIN rs = Ids /\ rs[r] = to /\ \A q \in Ids : q # r => rs[q] = runs[q]
  BY <1>1, <1>3, <1>4, <1>7, Zenon
<1>9. \A q \in Ids : Fits(q, registry, rs[q])
  <2>1. Fits(r, registry, to)
    BY <1>2, QuietFits
  <2> QED
    BY <1>8, <2>1, RInvFacts, Zenon
<1>10. ASSUME NEW q \in Ids PROVE rs[q] \in Runs /\ (rs[q].pc # "none" => q[2] \in 1 .. gen'[q[1]])
  <2>1. q[1] \in Users
    BY DEF Ids
  <2>2. CASE q = r
    <3>1. gen'[u] \in 1 .. gen'[u]
      BY <1>3, <1>5
    <3> QED
      BY <1>2, <1>4, <1>5, <1>8, <2>2, <3>1, Zenon
  <2>3. CASE q # r
    <3>1. rs[q] \in Runs /\ (rs[q].pc # "none" => q[2] \in 1 .. gen[q[1]])
      BY <1>8, <2>3, RInvFacts, Zenon
    <3>2. q[2] \in 1 .. gen[q[1]] => q[2] \in 1 .. gen'[q[1]]
      BY <1>3, <1>5, <2>1
    <3> QED
      BY <3>1, <3>2, Zenon
  <2> QED
    BY <2>2, <2>3, Zenon
<1>11. ASSUME ~load.overlaps, NEW q \in Ids, rs[q].pc \notin Over PROVE q[2] = gen'[q[1]]
  <2>1. CASE q = r
    BY <1>4, <1>5, <2>1, Zenon
  <2>2. CASE q # r
    <3>1. runs[q].pc \notin Over
      BY <1>8, <1>11, <2>2, Zenon
    <3>2. q[1] \in Users /\ q[2] \in Gens /\ q = <<q[1], q[2]>>
      BY DEF Ids
    <3>3. q[1] # u
      BY <1>1, <1>11, <3>1, <3>2, Zenon
    <3> QED
      BY <1>5, <1>11, <3>1, <3>2, <3>3, RInvFacts, Zenon
  <2> QED
    BY <2>1, <2>2, Zenon
<1>12. ASSUME ~load.overlaps, NEW v \in Users PROVE Landed(v)'
  <2>1. CASE v = u
    <3>1. ~Provisioned(<<CustosClusterID, u>>)'
      BY <1>1, <1>3, AccountSet
    <3> QED
      BY <2>1, <3>1, Zenon DEF Landed
  <2>2. CASE v # u
    <3>1. (Provisioned(<<CustosClusterID, v>>)' <=> Provisioned(<<CustosClusterID, v>>)) /\ gen'[v] = gen[v] /\ Landed(v)
      BY <1>1, <1>3, <1>5, <1>12, <2>2, AccountSet, RInvFacts, Zenon
    <3>2. <<v, gen[v]>> # r
      BY <2>2, <1>4
    <3>3. gen[v] > 0 => runs'[<<v, gen[v]>>] = runs[<<v, gen[v]>>]
      BY <1>7, <1>8, <3>2, CurrentRow, Zenon
    <3>4. LocalUsername(<<v, gen[v]>>)' = LocalUsername(<<v, gen[v]>>) /\ Person(v)' = Person(v)
      BY <1>1, <3>1, Zenon DEF LocalUsername, Person
    <3> QED
      BY <3>1, <3>3, <3>4, Zenon DEF Landed
  <2> QED
    BY <2>1, <2>2, Zenon
<1>13. RInv'
  <2>1. PICK F : F = registry
    OBVIOUS
  <2>2. /\ RegistryOK(F) /\ (\A g \in DOMAIN F.groups : Valued(F.groups[g])) /\ load.bound \subseteq bound'
        /\ \A v \in Users : PersonOK(F, v) /\ (v \in stored' => F.people[v].there)
        /\ ~load.overlaps => \A v \in Users : F.people[v].links <= 1 /\ (v \in stored' => "id" \in F.people[v].ids)
    BY <1>1, <2>1, RInvFacts, Zenon
  <2>3. registry' = F /\ \A q \in Ids : Fits(q, F, rs[q])
    BY <1>1, <1>9, <2>1, Zenon
  <2> QED
    BY <1>5, <1>6, <1>7, <1>8, <1>10, <1>11, <1>12, <2>2, <2>3, RInvKept, Zenon
<1> QED
  BY <1>1, <1>13, SameRegistry, Zenon

\* A step that leaves the registry and the runs alone.
LEMMA RunsKept ==
    ASSUME RInv, RowsOK', UNCHANGED <<load, registry, stored, gen>>, bound \subseteq bound',
           NEW rs, runs' = rs, DOMAIN rs = Ids,
           \A r \in Ids : rs[r] = runs[r] \/ (rs[r] = Gone /\ runs[r].pc \notin Over),
           \A u \in Users : gen[u] > 0 /\ Provisioned(<<CustosClusterID, u>>)' => Provisioned(<<CustosClusterID, u>>)
    PROVE  RInv' /\ Kept
<1>1. Gone \in Runs /\ Gone.pc \in Over /\ "done" \in Over
  BY DEF Gone, Over, Runs
<1>2. \A r \in Ids : Fits(r, registry, rs[r])
  BY RInvFacts, GoneFits, Zenon
<1>3. ASSUME NEW r \in Ids PROVE rs[r] \in Runs /\ (rs[r].pc # "none" => r[2] \in 1 .. gen'[r[1]])
  <2>1. "none" \in Over
    BY DEF Over
  <2> QED
    BY <1>1, <2>1, RInvFacts, Zenon
<1>4. ~load.overlaps => \A r \in Ids : rs[r].pc \notin Over => r[2] = gen'[r[1]]
  BY <1>1, RInvFacts, Zenon
<1>5. ASSUME ~load.overlaps, NEW v \in Users PROVE Landed(v)'
  <2>1. LocalUsername(<<v, gen[v]>>)' = LocalUsername(<<v, gen[v]>>) /\ Person(v)' = Person(v)
    BY Zenon DEF LocalUsername, Person
  <2>2. Landed(v)
    BY <1>5, RInvFacts, Zenon
  <2>3. gen[v] > 0 /\ runs[<<v, gen[v]>>].pc = "done" => runs'[<<v, gen[v]>>].pc = "done"
    BY <1>1, CurrentRow, Zenon
  <2> QED
    BY <2>1, <2>2, <2>3, Zenon DEF Landed
<1>6. PICK F : F = registry
  OBVIOUS
<1>7. /\ RegistryOK(F) /\ (\A g \in DOMAIN F.groups : Valued(F.groups[g])) /\ load.bound \subseteq bound'
      /\ gen' \in [Users -> Nat] /\ (\A v \in Users : gen'[v] <= Rows(v))
      /\ \A v \in Users : PersonOK(F, v) /\ (v \in stored' => F.people[v].there)
      /\ ~load.overlaps => \A v \in Users : F.people[v].links <= 1 /\ (v \in stored' => "id" \in F.people[v].ids)
  BY <1>6, RInvFacts, Zenon
<1>8. registry' = F /\ \A q \in Ids : Fits(q, F, rs[q])
  BY <1>2, <1>6, Zenon
<1>9. RInv'
  BY <1>3, <1>4, <1>5, <1>7, <1>8, RInvKept
<1> QED
  BY <1>9, SameRegistry, Zenon

LEMMA DeleteKeeps ==
    ASSUME RInv, RowsOK', NEW u \in Users, DeleteComputeClusterUser(u), UNCHANGED load
    PROVE  RInv' /\ Kept
<1>1. SetAccount(u, None) /\ UNCHANGED <<registry, stored, bound, gen, runs>>
  BY Zenon DEF DeleteComputeClusterUser, cvars
<1>2. None \notin {"fresh", "ready"} /\ RowsOK
  BY RInvFacts DEF None
<1>3. \A v \in Users : Provisioned(<<CustosClusterID, v>>)' => Provisioned(<<CustosClusterID, v>>)
  BY <1>1, <1>2, AccountSet, Zenon
<1>4. DOMAIN runs = Ids /\ bound \subseteq bound'
  BY <1>1, RInvFacts, Zenon
<1> QED
  BY <1>1, <1>3, <1>4, RunsKept, Zenon

LEMMA LinkKeeps ==
    ASSUME RInv, RowsOK', NEW u \in Users, LinkSub(u), UNCHANGED load
    PROVE  RInv' /\ Kept
<1>1. bound \subseteq bound' /\ UNCHANGED <<core, registry, stored, gen, runs>>
  BY Zenon DEF LinkSub
<1>2. DOMAIN runs = Ids
  BY RInvFacts, Zenon
<1>3. \A v \in Users : Provisioned(<<CustosClusterID, v>>)' => Provisioned(<<CustosClusterID, v>>)
  BY <1>1, Zenon DEF Provisioned
<1> QED
  BY <1>1, <1>2, <1>3, RunsKept, Zenon

\* An account whose rows are followed lands only when its run marks it.
LEMMA ConnectorLandsNothing ==
    ASSUME RInv, UNCHANGED load, Step \/ Restart, NEW u \in Users, gen[u] > 0, Provisioned(<<CustosClusterID, u>>)'
    PROVE  Provisioned(<<CustosClusterID, u>>)
<1> DEFINE a == <<CustosClusterID, u>>
<1>1. RowsOK /\ a \in Clusters \X Users
  BY RInvFacts, LoadsAssumption
<1>2. DOMAIN core = {"alloc", "member", "account", "override", "mapped"} /\ DOMAIN core.account = Clusters \X Users
  BY <1>1, Zenon DEF RowsOK
<1>3. core.account[a] \in {"fresh", "ready"} <=> Provisioned(a)
  BY Zenon DEF Provisioned
<1>4. core'.account[a] \in {"fresh", "ready"}
  BY Zenon DEF Provisioned
<1> HIDE DEF a
<1>5. ASSUME UNCHANGED core PROVE Provisioned(a)
  BY <1>3, <1>4, <1>5, Zenon
<1>6. ASSUME NEW mv \in Moves, Publish(mv) PROVE Provisioned(a)
  <2>1. mv.what = "account" => mv.id # a
    <3>1. load.names[u] # <<>>
      <4>1. gen[u] \in Nat /\ gen[u] <= Rows(u)
        BY RInvFacts
      <4>2. load.names[u] = <<>> => Rows(u) = 0
        BY DEF Rows
      <4> QED
        BY <4>1, <4>2
    <3>2. load \in Loads /\ mv \in load.moves
      BY <1>1, Zenon DEF Moves, RowsOK
    <3>3. mv.what = "account" /\ mv.id = <<CustosClusterID, u>> => load.names[u] = <<>>
      <4>1. \A l \in Loads : \A m \in l.moves : \A v \in Users : m.what = "account" /\ m.id = <<CustosClusterID, v>> => l.names[v] = <<>>
        BY LoadsAssumption, Zenon
      <4> QED
        BY <3>2, <4>1, Zenon
    <3> QED
      BY <3>1, <3>3, Zenon DEF a
  <2>2. core'.account = IF mv.what = "account" THEN [core.account EXCEPT ![mv.id] = mv.to] ELSE core.account
    BY <1>2, <1>6 DEF Publish, Change
  <2>3. core'.account[a] = core.account[a]
    BY <1>1, <1>2, <2>1, <2>2
  <2> QED
    BY <1>3, <1>4, <2>3, Zenon
<1>7. ASSUME NEW c \in Clusters \X Users, GraceEnds(c) PROVE Provisioned(a)
  <2>1. core' = [core EXCEPT !.account[c] = "ready"] /\ core.account[c] = "fresh"
    BY <1>7, Zenon DEF GraceEnds
  <2>2. core'.account = [core.account EXCEPT ![c] = "ready"]
    BY <1>2, <2>1
  <2>3. CASE c = a
    BY <1>3, <2>1, <2>3
  <2>4. CASE c # a
    BY <1>1, <1>2, <1>3, <1>4, <2>2, <2>4
  <2> QED
    BY <2>3, <2>4, Zenon
<1>8. ASSUME Dispatch \/ Serve \/ StartReconciler PROVE UNCHANGED core
  BY <1>8, Zenon DEF Dispatch, Serve, safeDispatch, Perform, StartReconciler, reconcile, ListComputeClusterUsersByCluster,
     existingAssociations, ListAllocationsForUser, reconcileCluster, reconcileWrites, NextUser,
     ListComputeAllocationsByCluster, RemoveStale, EndCluster, EndSweep, sweepVars
<1>9. ASSUME NEW t \in tasks, NEW c \in t.calls, PerformFails(t, c) PROVE UNCHANGED core
  BY <1>9, Zenon DEF PerformFails
<1>10. ASSUME Restart PROVE UNCHANGED core
  BY <1>10, Zenon DEF Restart
<1>11. Provisioned(a)
  <2>1. CASE \E mv \in Moves : Publish(mv)
    BY <1>6, <2>1, Zenon
  <2>2. CASE Elapse
    BY <1>7, <2>2, Zenon DEF Elapse
  <2>3. CASE Dispatch \/ Serve \/ StartReconciler \/ Restart \/ \E t \in tasks : \E c \in t.calls : PerformFails(t, c)
    BY <1>5, <1>8, <1>9, <1>10, <2>3, Zenon
  <2> QED
    BY <2>1, <2>2, <2>3, Zenon DEF Step
<1> QED
  BY <1>11 DEF a

LEMMA ConnectorKeeps ==
    ASSUME RInv, RowsOK', ConnectorStep, UNCHANGED load
    PROVE  RInv' /\ Kept
<1>1. (Step \/ Restart) /\ UNCHANGED <<registry, stored, bound, gen>>
  BY Zenon DEF ConnectorStep
<1>2. bound \subseteq bound' /\ \A u \in Users : gen[u] > 0 /\ Provisioned(<<CustosClusterID, u>>)' => Provisioned(<<CustosClusterID, u>>)
  BY <1>1, ConnectorLandsNothing, Zenon
<1>3. PICK rs : rs = runs'
  OBVIOUS
<1>4. DOMAIN rs = Ids /\ \A r \in Ids : rs[r] = runs[r] \/ (rs[r] = Gone /\ runs[r].pc \notin Over)
  <2>1. CASE rs = runs
    BY <2>1, RInvFacts, Zenon
  <2>2. CASE rs = [r \in Ids |-> Killed(r)]
    BY <2>2, Zenon DEF Killed
  <2> QED
    BY <1>3, <2>1, <2>2, Zenon DEF ConnectorStep
<1> QED
  BY <1>1, <1>2, <1>3, <1>4, RunsKept, Zenon

\* What the registry assigns later is not there yet when a run relies on it.
LEMMA AssignKeeps ==
    ASSUME RInv, RowsOK', NEW u \in Users, AssignIdentifiers(u), UNCHANGED load
    PROVE  RInv' /\ Kept
<1> DEFINE p == [registry.people[u] EXCEPT !.ids = Assigned]
           q == registry.people[u]
<1>1. RegistryOK(registry) /\ q \in Persons /\ q.there /\ q.ids # Assigned /\ q.ids \subseteq Assigned
  BY RInvFacts DEF AssignIdentifiers, Person, RegistryOK, Persons
<1>2. UNCHANGED <<core, stored, bound, gen, runs>> /\ registry' = [registry EXCEPT !.people[u].ids = Assigned]
  BY Zenon DEF AssignIdentifiers
<1>3. /\ p \in Persons /\ p.there /\ p.ids = Assigned /\ p.links = q.links /\ p.login = q.login /\ p.account = q.account
      /\ p.links \in Nat
  BY <1>1 DEF Persons
<1>4. PICK E : E = registry'
  OBVIOUS
<1>5. /\ E = [people |-> E.people, groups |-> E.groups, orphans |-> E.orphans]
      /\ E.people = [registry.people EXCEPT ![u] = p] /\ E.groups = registry.groups
  BY <1>1, <1>2, <1>4 DEF RegistryOK
<1> HIDE DEF p
<1>6. /\ E.people \in [Users -> Persons] /\ E.people[u] = p
      /\ \A v \in Users : v # u => E.people[v] = registry.people[v]
  BY <1>1, <1>3, <1>5 DEF RegistryOK
<1>7. RegistryOK(E) /\ \A g \in DOMAIN E.groups : Valued(E.groups[g])
  BY <1>1, <1>5, <1>6, RInvFacts, Zenon DEF RegistryOK
<1>8. ASSUME NEW v \in Users
      PROVE  /\ PersonOK(E, v) /\ E.people[v].links = registry.people[v].links
             /\ E.people[v].account = registry.people[v].account
             /\ registry.people[v].ids \subseteq E.people[v].ids
             /\ registry.people[v].there => E.people[v].there
  <2>1. PersonOK(registry, v)
    BY RInvFacts, Zenon
  <2>2. CASE v = u
    BY <1>1, <1>3, <1>5, <1>6, <2>1, <2>2, Zenon DEF PersonOK
  <2>3. CASE v # u
    BY <1>5, <1>6, <2>1, <2>3, Zenon DEF PersonOK
  <2> QED
    BY <2>2, <2>3, Zenon
<1>9. ASSUME NEW r \in Ids PROVE Fits(r, E, runs[r])
  <2>1. Fits(r, registry, runs[r]) /\ r[1] \in Users
    BY RInvFacts, PersonType, Zenon
  <2>2. CASE r[1] # u
    BY <1>5, <1>6, <2>1, <2>2, Zenon DEF Fits
  <2>3. CASE r[1] = u
    <3>1. ASSUME Knows(runs[r], q, LocalUsername(r), u) PROVE Knows(runs[r], p, LocalUsername(r), u)
      <4>1. "id" \in Assigned /\ "put" \in Shown
        BY DEF Assigned, Shown, Linked, Grouped, Named, Numbered, Joined, Clustered
      <4> QED
        BY <1>1, <1>3, <3>1, <4>1, Zenon DEF Knows
    <3> QED
      BY <1>1, <1>3, <1>5, <1>6, <2>1, <2>3, <3>1, Zenon DEF Fits
  <2> QED
    BY <2>2, <2>3, Zenon
<1>10. ASSUME ~load.overlaps, NEW v \in Users
       PROVE  E.people[v].links <= 1 /\ (v \in stored' => "id" \in E.people[v].ids) /\ Landed(v)'
  <2>1. /\ E.people[v].links <= 1 /\ (v \in stored => "id" \in registry.people[v].ids) /\ Landed(v)
    BY <1>8, <1>10, RInvFacts, Zenon
  <2>2. /\ LocalUsername(<<v, gen[v]>>)' = LocalUsername(<<v, gen[v]>>)
        /\ Provisioned(<<CustosClusterID, v>>)' <=> Provisioned(<<CustosClusterID, v>>)
    BY <1>2, Zenon DEF LocalUsername, Provisioned
  <2>3. Person(v)'.account = Person(v).account /\ Person(v)'.links = Person(v).links
    BY <1>4, <1>8, Zenon DEF Person
  <2>4. Landed(v)'
    BY <1>2, <2>1, <2>2, <2>3, Zenon DEF Landed
  <2> QED
    BY <1>2, <1>8, <2>1, <2>4, Zenon
<1>11. RInv'
  <2>1. PICK rs : rs = runs
    OBVIOUS
  <2>2. /\ load.bound \subseteq bound'
        /\ gen' \in [Users -> Nat] /\ (\A v \in Users : gen'[v] <= Rows(v))
        /\ DOMAIN rs = Ids /\ (\A r \in Ids : rs[r] \in Runs /\ (rs[r].pc # "none" => r[2] \in 1 .. gen'[r[1]]))
        /\ ~load.overlaps => \A r \in Ids : rs[r].pc \notin Over => r[2] = gen'[r[1]]
    BY <1>2, <2>1, RInvFacts, Zenon
  <2>3. \A v \in Users : PersonOK(E, v) /\ (v \in stored' => E.people[v].there)
    BY <1>2, <1>8, RInvFacts, Zenon
  <2>4. runs' = rs /\ registry' = E /\ \A r \in Ids : Fits(r, E, rs[r])
    BY <1>2, <1>4, <1>9, <2>1, Zenon
  <2> QED
    BY <1>7, <1>10, <2>2, <2>3, <2>4, RInvKept
<1>12. Kept
  <2>1. ASSUME NEW v \in Users PROVE Person(v).links <= Person(v)'.links /\ Person(v).ids \subseteq Person(v)'.ids
    <3>1. registry.people[v].links \in Nat
      BY <1>1 DEF RegistryOK, Persons
    <3>2. Person(v)'.links = Person(v).links /\ Person(v).ids \subseteq Person(v)'.ids
      BY <1>4, <1>8, Zenon DEF Person
    <3> QED
      BY <3>1, <3>2 DEF Person
  <2> QED
    BY <2>1, Zenon DEF Kept
<1> QED
  BY <1>11, <1>12, Zenon

LEMMA InitRInv == AccessInit => RInv
<1> SUFFICES ASSUME AccessInit PROVE RInv
  OBVIOUS
<1> DEFINE first == [u \in Users |-> NoPerson]
<1>1. /\ registry = [people |-> first, groups |-> <<>>, orphans |-> 0] /\ stored = {} /\ bound = load.bound
      /\ gen = [u \in Users |-> 0] /\ runs = [r \in Ids |-> [pc |-> "none"]]
  BY Zenon DEF AccessInit
<1>2. RowsOK
  <2>1. load \in Loads /\ core = load.core
    BY DEF AccessInit, Init, Core0
  <2> QED
    BY <2>1, LoadsAssumption DEF RowsOK
<1>3. first \in [Users -> Persons] /\ \A u \in Users : first[u] = NoPerson
  BY NoPersonType
<1> HIDE DEF first
<1>4. registry.people = first /\ registry.groups = <<>>
  BY <1>1
<1>5. RegistryOK(registry)
  <2>1. <<>> \in Seq(Groups)
    OBVIOUS
  <2>2. registry = [people |-> registry.people, groups |-> registry.groups, orphans |-> registry.orphans]
    BY <1>1
  <2> QED
    BY <1>3, <1>4, <2>1, <2>2, Zenon DEF RegistryOK
<1>6. ASSUME NEW u \in Users PROVE gen[u] = 0 /\ Rows(u) \in Nat
  <2>1. load.names \in [Users -> Seq(STRING)]
    BY <1>2, LoadsAssumption, Zenon DEF RowsOK
  <2>2. load.names[u] \in Seq(STRING)
    BY <2>1
  <2> QED
    BY <1>1, <2>2 DEF Rows
<1>7. ASSUME NEW r \in Ids PROVE runs[r] \in Runs /\ runs[r].pc = "none"
  BY <1>1, <1>7 DEF Runs
<1>8. RType
  <2>1. gen \in [Users -> Nat] /\ \A u \in Users : gen[u] <= Rows(u)
    BY <1>1, <1>6
  <2>2. DOMAIN runs = Ids /\ load.bound \subseteq bound
    BY <1>1, Zenon
  <2> QED
    BY <1>5, <1>7, <2>1, <2>2, Zenon DEF RType
<1>9. \A g \in DOMAIN registry.groups : Valued(Group(g))
  <2>1. DOMAIN registry.groups = {}
    BY <1>4
  <2> QED
    BY <2>1, Zenon
<1>10. \A u \in Users : PersonOK(registry, u)
  BY <1>3, <1>4, NoPersonType, Zenon DEF PersonOK
<1>11. \A r \in Ids : Fits(r, registry, runs[r])
  <2>1. "none" \in Over \cup {"queued"}
    BY DEF Over
  <2> QED
    BY <1>7, <2>1, QuietFits, Zenon
<1>12. Solo
  <2>1. "none" \in Over
    BY DEF Over
  <2>2. ASSUME NEW u \in Users PROVE Person(u).links <= 1 /\ Landed(u)
    <3>1. Person(u).links = 0 /\ ~(gen[u] > 0)
      BY <1>3, <1>4, <1>6, NoPersonType DEF Person
    <3> QED
      BY <3>1 DEF Landed
  <2> QED
    BY <1>1, <1>7, <2>1, <2>2, Zenon DEF Solo
<1> QED
  BY <1>1, <1>2, <1>8, <1>9, <1>10, <1>11, <1>12, Zenon DEF RInv

\* The core keeps its rows.
LEMMA RowsKept ==
    ASSUME RowsOK, AccessNext
    PROVE  RowsOK'
<1> DEFINE Same == DOMAIN core' = DOMAIN core /\ DOMAIN core'.account = DOMAIN core.account
<1>1. load' = load
  BY Zenon DEF AccessNext, Watched
<1>2. DOMAIN core = {"alloc", "member", "account", "override", "mapped"} /\ DOMAIN core.account = Clusters \X Users
  BY Zenon DEF RowsOK
<1>3. ASSUME NEW mv, Publish(mv) PROVE Same
  <2>1. DOMAIN core' = DOMAIN core
    BY <1>3, Zenon DEF Publish, Change
  <2>2. core'.account = IF mv.what = "account" THEN [core.account EXCEPT ![mv.id] = mv.to] ELSE core.account
    BY <1>2, <1>3 DEF Publish, Change
  <2> QED
    BY <1>2, <2>1, <2>2
<1>4. ASSUME NEW c, NEW to, core' = [core EXCEPT !.account[c] = to] PROVE Same
  BY <1>2, <1>4
<1>5. ASSUME UNCHANGED core PROVE Same
  BY <1>5, Zenon
<1>6. ASSUME RowStep PROVE Same
  <2>1. ASSUME NEW u \in Users, CreateComputeClusterUser(u) \/ DeleteComputeClusterUser(u) PROVE Same
    BY <1>4, <2>1, Zenon DEF CreateComputeClusterUser, DeleteComputeClusterUser, SetAccount
  <2>2. ASSUME NEW u \in Users, LinkSub(u) \/ AssignIdentifiers(u) PROVE Same
    BY <1>5, <2>2, Zenon DEF LinkSub, AssignIdentifiers
  <2>3. ASSUME Provision PROVE Same
    BY <1>4, <1>5, <2>3, Zenon DEF Provision, MarkComputeClusterUserProvisioned, SetAccount
  <2> QED
    BY <1>6, <2>1, <2>2, <2>3, Zenon DEF RowStep
<1>7. ASSUME Dispatch \/ Serve \/ StartReconciler \/ Restart PROVE UNCHANGED core
  BY <1>7, Zenon DEF Dispatch, Serve, safeDispatch, Perform, StartReconciler, reconcile, ListComputeClusterUsersByCluster,
     existingAssociations, ListAllocationsForUser, reconcileCluster, reconcileWrites, NextUser,
     ListComputeAllocationsByCluster, RemoveStale, EndCluster, EndSweep, sweepVars, Restart
<1>8. ASSUME NEW t \in tasks, NEW c \in t.calls, PerformFails(t, c) PROVE UNCHANGED core
  BY <1>8, Zenon DEF PerformFails
<1>9. ASSUME Step PROVE Same
  <2>1. ASSUME Elapse PROVE Same
    BY <1>4, <2>1, Zenon DEF Elapse, GraceEnds
  <2>2. CASE Dispatch \/ Serve \/ StartReconciler \/ Restart
    BY <1>5, <1>7, <2>2, Zenon
  <2>3. CASE \E t \in tasks : \E c \in t.calls : PerformFails(t, c)
    BY <1>5, <1>8, <2>3, Zenon
  <2> QED
    BY <1>3, <1>9, <2>1, <2>2, <2>3, Zenon DEF Step
<1>10. Same
  BY <1>5, <1>6, <1>7, <1>9, Zenon DEF AccessNext, Watched, ConnectorStep, Beside
<1> QED
  BY <1>1, <1>2, <1>10, Zenon DEF RowsOK

LEMMA RInvStep ==
    ASSUME RInv, [AccessNext]_avars
    PROVE  RInv' /\ Kept
<1>1. CASE AccessNext
  <2>1. UNCHANGED load /\ RowsOK' /\ (ConnectorStep \/ RowStep)
    BY <1>1, RInvFacts, RowsKept, Zenon DEF AccessNext, Watched, Beside
  <2>2. ASSUME NEW r \in Ids, ensurePOSIXAccountImpl(r), UNCHANGED <<core, bound, gen>> PROVE RInv' /\ Kept
    BY <2>1, <2>2, RunKeeps, Zenon
  <2> QED
    BY <2>1, <2>2, ConnectorKeeps, MarkKeeps, CreateKeeps, DeleteKeeps, LinkKeeps, AssignKeeps, Zenon DEF RowStep, Provision
<1>2. CASE UNCHANGED avars
  <2>1. UNCHANGED <<load, core, registry, stored, bound, gen, runs>>
    BY <1>2, Zenon DEF avars, vars, cvars
  <2>2. RowsOK'
    BY <2>1, RInvFacts, Zenon DEF RowsOK
  <2>3. DOMAIN runs = Ids /\ bound \subseteq bound'
    BY <2>1, RInvFacts, Zenon
  <2>4. \A v \in Users : Provisioned(<<CustosClusterID, v>>)' => Provisioned(<<CustosClusterID, v>>)
    BY <2>1, Zenon DEF Provisioned
  <2> QED
    BY <2>1, <2>2, <2>3, <2>4, RunsKept, Zenon
<1> QED
  BY <1>1, <1>2, Zenon

\* An account that is in the registry is complete, and a row that is marked has one.
LEMMA CompleteNow ==
    ASSUME RInv
    PROVE  AccountComplete
<1>1. ASSUME NEW u \in Users, Person(u).account # NoAccount
      PROVE  LET name == Person(u).account.name
                 g == Group(Person(u).account.group)
             IN /\ g.name = name /\ Person(u).login = name
                /\ g.ids = [uid |-> name, gidnumber |-> u]
                /\ u \in g.members
                /\ g.cluster \/ load.refuses
  <2> DEFINE name == Person(u).account.name
             n == Person(u).account.group
             g == registry.groups[n]
  <2>1. Reached(registry.groups, "put", n, name, u) /\ Person(u).login = name /\ name \in NamesOf(u)
    BY <1>1, RInvFacts, Zenon DEF PersonOK, Person
  <2>2. "put" \in Clustered /\ "put" \in Joined /\ "put" \in Numbered /\ "put" \in Named /\ "put" \in Grouped
    BY DEF Grouped, Named, Numbered, Joined, Clustered
  <2>3. /\ n \in DOMAIN registry.groups /\ g.name = name /\ "uid" \in DOMAIN g.ids /\ "gidnumber" \in DOMAIN g.ids
        /\ u \in g.members /\ (g.cluster \/ load.refuses)
    BY <2>1, <2>2, Zenon DEF Reached
  <2>4. g \in Groups /\ Valued(g)
    <3>1. registry.groups \in Seq(Groups)
      BY RInvFacts, Zenon DEF RegistryOK
    <3>2. ASSUME NEW G \in Seq(Groups), NEW m \in DOMAIN G PROVE G[m] \in Groups
      OBVIOUS
    <3>3. g \in Groups
      BY <2>3, <3>1, <3>2, Zenon
    <3> QED
      BY <2>3, <3>3, RInvFacts, Zenon
  <2> HIDE DEF n, g
  <2>5. g.ids["uid"] = name /\ g.ids["gidnumber"] \in Users /\ name \in NamesOf(g.ids["gidnumber"])
    BY <2>3, <2>4, Zenon DEF Valued
  <2>6. g.ids["gidnumber"] = u
    <3>1. RowsOK
      BY RInvFacts, Zenon
    <3> QED
      BY <2>1, <2>5, <3>1, NamesApart, Zenon
  <2>7. g.ids = [uid |-> name, gidnumber |-> u]
    <3>1. g.ids \in Attributes
      BY <2>4 DEF Groups
    <3>2. PICK D \in SUBSET {"uid", "gidnumber"} : g.ids \in [D -> STRING \cup Users]
      BY <3>1 DEF Attributes
    <3>3. DOMAIN g.ids = {"uid", "gidnumber"} /\ g.ids = [t \in DOMAIN g.ids |-> g.ids[t]]
      BY <2>3, <3>2, Zenon
    <3> QED
      BY <2>5, <2>6, <3>3
  <2> QED
    BY <2>1, <2>3, <2>7 DEF Group, g, n
<1>2. ASSUME NEW u \in Users, ~load.overlaps, gen[u] > 0, Provisioned(<<CustosClusterID, u>>)
      PROVE  Person(u).account.name = LocalUsername(<<u, gen[u]>>) /\ (u \in load.bound => Person(u).links = 1)
  BY <1>2, RInvFacts, Zenon DEF Landed
<1> QED
  BY <1>1, <1>2, Zenon DEF AccountComplete

\* AccountComplete, for any users, allocations, names and losses of calls: whatever call
\* of ensurePOSIXAccountImpl fails or takes effect unseen, and however runs overlap,
\* updatePerson writes an account only once its group has the account's name, the
\* user's uidnumber and the user in it; and MarkComputeClusterUserProvisioned comes after
\* that, with the row's name, so that a row marked provisioned has its account.
THEOREM AccountsAreComplete == AccessSpec => []AccountComplete
<1>1. RInv /\ [AccessNext]_avars => RInv'
  BY RInvStep, Zenon
<1> QED
  BY <1>1, InitRInv, CompleteNow, PTL DEF AccessSpec

\* NothingWiped, for any of them: the composite that getPersonComposite fetches last is
\* what updatePerson sends back, and unless runs of one user overlap nothing links or
\* assigns in between: the replacement of the person drops nothing.
THEOREM ReplacementsWipeNothing == AccessSpec => NothingWiped
<1>1. RInv /\ [AccessNext]_avars => RInv'
  BY RInvStep, Zenon
<1>2. RInv /\ [AccessNext]_avars =>
        [~load.overlaps => \A u \in Users : Person(u).links <= Person(u)'.links /\ Person(u).ids \subseteq Person(u)'.ids]_avars
  BY RInvStep, Zenon DEF Kept
<1> QED
  BY <1>1, <1>2, InitRInv, PTL DEF AccessSpec, NothingWiped

=============================================================================
