-------------------------- MODULE AmiePersonsProofs --------------------------
(***************************************************************************)
(* What holds of people whatever requests, packets and logins come between *)
(* each other, proved for any users, identities, requests and packets: a   *)
(* project keeps a PI that exists, identities are not lost, an active user *)
(* can log in, and a merge AMIE has been told of is complete.              *)
(*                                                                         *)
(* The inductive invariant is PInv.  What a request has read need not hold *)
(* any more when it writes, so CallsOK keeps only its type; the steps of   *)
(* the one packet worker keep more (WorkerOK): while requests do nothing   *)
(* but log people in, the user its packet was resolved to is still the     *)
(* owner of the person's identity.                                         *)
(***************************************************************************)
EXTENDS AmiePersons, TLAPS

\* What a request may hold between its read and its write.
CallOK(r) ==
    \/ r = Idle
    \/ r.op = "link" /\ r.user \in Users /\ r.row \in Subs
    \/ r.op = "update" /\ r.user \in Users /\ r.status \in Statuses /\ r.email \in Emails
    \/ r.op = "identity" /\ r.user \in Users /\ r.row \in Identities
    \/ r.op = "merge" /\ r.user \in Users /\ r.retiring \in Users
    \/ r.op = "handler" /\ r.user \in Users

CallsOK == \A c \in Callers : CallOK(call[c])

\* Which packet the worker is at, and what it has read for it.
WorkerOK ==
    /\ load \in Loads
    /\ at \in {"idle", "merge", "profile", "identity", "dns", "ensure", "reply", "commit"}
    /\ cur = None <=> at = "idle"
    /\ at = "idle" => call[Worker] = Idle
    /\ cur # None => state[cur] = "pending"
    /\ at = "merge" => B.kind = "merge" /\ call[Worker].op \in {"idle", "merge"}
    /\ at \in {"profile", "identity", "dns", "ensure"} => B.kind # "merge"
    /\ at = "profile" => call[Worker].op \in {"idle", "update"}
    /\ at \in {"identity", "dns", "ensure"} => call[Worker].op = "handler"
    /\ \A p \in Packets : state[p] = "pending" => attempts[p] < MaxAttempts

\* Requests only log people in.
OnlyLogins == Ops \subseteq {"link"}

\* Then nothing but the worker writes what it has read, and the worker's user is still
\* the owner of the identity that led to it.
Resolved ==
    /\ \A c \in load.callers : call[c].op \in {"idle", "link"}
    /\ at = "merge" /\ call[Worker].op = "merge" =>
          /\ call[Worker].user = owner[B.keep] /\ call[Worker].retiring = owner[B.drop]
          /\ call[Worker].user # call[Worker].retiring
    /\ at \in {"profile", "identity", "dns", "ensure"} /\ call[Worker].op # "idle" =>
          call[Worker].user = owner[B.person]

\* A user with an OIDC binding.
Linked(u) == \E s \in Subs : owner[s] = u

ActiveLinked ==
    /\ \A u \in Users : status[u] = "ACTIVE" => Linked(u)
    /\ call[Worker].op = "update" /\ call[Worker].status = "ACTIVE" => Linked(call[Worker].user)

\* The merge a packet asks for has happened: its ids lead to one user, and no global id
\* leads to the retired one.
Merged(p) ==
    /\ owner[Body[p].keep] = owner[Body[p].drop]
    /\ \A i \in Persons : owner[i] # Body[p].retiring

NoDNs(dns, p) == \A d \in DNs : dns[d] # Body[p].retiring

\* Until then the packet's id leads to the user it names.  Only the packet's own attempts
\* merge that user away, and the first of them takes the DNs along.
MergeOK(p) ==
    /\ owner[Body[p].drop] = Body[p].retiring \/ Merged(p)
    /\ status[Body[p].retiring] = "MERGED" => Merged(p)
    /\ call[Worker].op = "update" /\ call[Worker].status = "MERGED" /\ call[Worker].user = Body[p].retiring => Merged(p)
    /\ p \in acked \/ state[p] = "done" \/ (cur = p /\ at \in {"reply", "commit"}) => Merged(p)
    /\ attempts[p] = 0 /\ Merged(p) =>
          IF state[p] = "done" THEN NoDNs(dnOwner, p) /\ NoDNs(txDns, p)
          ELSE cur = p /\ at \in {"reply", "commit"} /\ NoDNs(txDns, p)

Merges == {p \in Packets : Body[p].kind = "merge"}

PInv ==
    /\ PTypeOK /\ CallsOK /\ WorkerOK
    /\ OnlyLogins => Resolved /\ ActiveLinked /\ \A p \in Merges : MergeOK(p)

-----------------------------------------------------------------------------
(* Lemmas about the constants and the requests. *)

\* What the packets of a workload say.
LEMMA PacketFacts ==
    ASSUME load \in Loads, NEW p \in Packets
    PROVE  /\ p # None /\ Body[p].kind \in {"merge", "replace", "delete", "project", "account"}
           /\ Body[p].kind = "merge" => Body[p].keep \in Persons /\ Body[p].drop \in Persons /\ Body[p].retiring \in Users
           /\ Body[p].kind # "merge" => Body[p].person \in Persons
           /\ Body[p].kind = "replace" => Body[p].email \in Emails
<1>1. p \in DOMAIN Body
  BY PersonsAssumption, Zenon DEF Packets
<1> QED
  BY <1>1, PersonsAssumption, Zenon

\* A request's fields, by its operation.
LEMMA CallFields ==
    ASSUME NEW r, CallOK(r)
    PROVE  /\ r.op \in {"idle", "link", "update", "identity", "merge", "handler"}
           /\ r.op = "idle" => r = Idle
           /\ r.op # "idle" => r.user \in Users
           /\ r.op = "link" => r.row \in Subs
           /\ r.op = "update" => r.status \in Statuses /\ r.email \in Emails
           /\ r.op = "identity" => r.row \in Identities
           /\ r.op = "merge" => r.retiring \in Users
<1>1. Idle.op = "idle"
  BY DEF Idle
<1> QED
  BY <1>1 DEF CallOK

\* The rows keep their types: everything but the requests of PTypeOK's first line.
Tables ==
    /\ status \in [Users -> Statuses \cup {None, "deleted"}]
    /\ email \in [Users -> Emails]
    /\ owner \in [Identities -> Users \cup {None}]
    /\ login \subseteq Users
    /\ DOMAIN member \subseteq Users /\ DOMAIN role \subseteq Users
    /\ pi \in Users /\ Exists(pi)

\* A step leaves the rows alone or is one of the writes.
LEMMA Writes ==
    ASSUME load \in Loads, PNext
    PROVE  \/ UNCHANGED tables
           \/ \E c \in load.callers :
                linkBySubWrites(c) \/ UpdateUserWrites(c) \/ UpdateUserIdentityWrites(c) \/ MergeUsersCommits(c)
           \/ \E u \in Users : CreateUser(u) \/ UpdateUserStatus(u, "SUSPENDED") \/ DeleteUser(u)
           \/ \E i \in Persons, u \in Users : CreateUserIdentity(i, u) \/ DeleteUserIdentity(i)
           \/ PersonMergeCore \/ applyReplace \/ updateUserIdentity \/ ensureUserIdentity
<1>1. CASE WorkerNext
  <2>1. ASSUME NEW p \in Packets, Handle(p) PROVE UNCHANGED tables
    BY <2>1, Zenon DEF Handle, RequestPersonMerge, RequestUserModify, DataProjectCreate, DataAccountCreate, DataCreate,
       HandlerStarts
  <2>2. CASE ModifyDNs \/ replyAndAudit \/ HandlerCommits \/ AttemptFails
    BY <2>2, Zenon DEF ModifyDNs, replyAndAudit, HandlerCommits, AttemptFails, AttemptEnds, tables
  <2> QED
    BY <1>1, <2>1, <2>2, Zenon DEF WorkerNext
<1>2. ASSUME NEW c \in load.callers, CallNext(c)
      PROVE  UNCHANGED tables \/ linkBySubWrites(c) \/ UpdateUserWrites(c) \/ UpdateUserIdentityWrites(c) \/ MergeUsersCommits(c)
  BY <1>2, Zenon DEF CallNext, MergeUsersFails
<1>3. CASE DirectNext
  <2>1. ASSUME NEW i \in Persons, DeleteUserIdentity(i) PROVE \E j \in Persons, u \in Users : DeleteUserIdentity(j)
    BY <2>1, UserAssumption, Zenon
  <2> QED
    BY <1>3, <2>1, Zenon DEF DirectNext
<1> QED
  BY <1>1, <1>2, <1>3, Zenon DEF PNext

-----------------------------------------------------------------------------
(* Types, the PI and the identities. *)

\* What a merge does to the rows that name a user.
LEMMA MergeTables ==
    ASSUME Tables, NEW s \in Users, NEW r \in Users, Exists(s) \/ ~References(r), MergeRows(s, r), UNCHANGED email,
           status' = IF Exists(r) THEN [status EXCEPT ![r] = "MERGED"] ELSE status
    PROVE  Tables'
<1>1. owner' \in [Identities -> Users \cup {None}] /\ login' \subseteq Users
  BY DEF MergeRows, ReassignIdentities, ReassignClusterUsers, Tables
<1>2. DOMAIN member' \subseteq Users
  <2>1. DOMAIN member' = (DOMAIN member \ {r}) \cup (IF r \in DOMAIN member THEN {s} ELSE {})
    BY Zenon DEF MergeRows, ReassignMemberships, MoveRow
  <2> QED
    BY <2>1 DEF Tables
<1>3. DOMAIN role' \subseteq Users
  <2>1. DOMAIN role' = (DOMAIN role \ {r}) \cup (IF r \in DOMAIN role THEN {s} ELSE {})
    BY Zenon DEF MergeRows, ReassignProjectMemberships, MoveRow
  <2> QED
    BY <2>1 DEF Tables
<1>4. status' \in [Users -> Statuses \cup {None, "deleted"}] /\ \A u \in Users : Exists(u) => Exists(u)'
  BY DEF Tables, Exists, Statuses
<1>5. pi' \in Users /\ Exists(pi')
  <2>1. pi' = IF pi = r THEN s ELSE pi
    BY Zenon DEF MergeRows, ReassignPI
  <2>2. pi = r => Exists(s)
    BY DEF References
  <2> QED
    BY <2>1, <2>2 DEF Tables
<1>6. Exists(pi)'
  BY <1>4, <1>5, Zenon DEF Exists
<1> QED
  BY <1>1, <1>2, <1>3, <1>4, <1>5, <1>6, Zenon DEF Tables

\* Every write keeps them: a deletion spares the PI, and a merge moves the project to a
\* survivor that exists when it commits.
LEMMA TablesKept ==
    ASSUME load \in Loads, Tables, CallsOK, WorkerOK, cur \in Packets \cup {None}, PNext
    PROVE  Tables'
<1>1. /\ \A c \in load.callers : CallOK(call[c])
      /\ CallOK(call[Worker])
  BY PersonsAssumption, Zenon DEF CallsOK
<1>2. at # "idle" => cur \in Packets
  BY Zenon DEF WorkerOK
<1>3. ASSUME NEW r, CallOK(r), r.op # "idle" PROVE r.user \in Users
  BY <1>3, CallFields, Zenon
<1>4. CASE UNCHANGED tables
  BY <1>4 DEF tables, Tables, Exists
<1>5. ASSUME NEW c \in load.callers, linkBySubWrites(c) PROVE Tables'
  <2>1. call[c].user \in Users /\ call[c].row \in Identities
    BY <1>1, <1>5, CallFields, Zenon DEF linkBySubWrites, Identities
  <2> QED
    BY <1>5, <2>1 DEF linkBySubWrites, Tables, Exists, Statuses
<1>6. ASSUME NEW c \in load.callers, UpdateUserWrites(c) PROVE Tables'
  <2>1. call[c].user \in Users /\ call[c].status \in Statuses /\ call[c].email \in Emails
    BY <1>1, <1>6, CallFields, Zenon DEF UpdateUserWrites
  <2> QED
    BY <1>6, <2>1, Zenon DEF UpdateUserWrites, Tables, Exists
<1>7. ASSUME NEW c \in load.callers, UpdateUserIdentityWrites(c) PROVE Tables'
  <2>1. call[c].user \in Users /\ call[c].row \in Identities
    BY <1>1, <1>7, CallFields, Zenon DEF UpdateUserIdentityWrites
  <2> QED
    BY <1>7, <2>1, Zenon DEF UpdateUserIdentityWrites, Tables, Exists
<1>8. ASSUME NEW c, CallOK(call[c]), MergeUsersCommits(c) PROVE Tables'
  <2>1. call[c].user \in Users /\ call[c].retiring \in Users
    BY <1>8, CallFields, Zenon DEF MergeUsersCommits
  <2> QED
    BY <1>8, <2>1, MergeTables, Zenon DEF MergeUsersCommits
<1>9. ASSUME NEW u \in Users, CreateUser(u) PROVE Tables'
  BY <1>9, UserAssumption, Zenon DEF CreateUser, Tables, Exists, Statuses
<1>10. ASSUME NEW u \in Users, UpdateUserStatus(u, "SUSPENDED") PROVE Tables'
  BY <1>10 DEF UpdateUserStatus, Tables, Exists, Statuses
<1>11. ASSUME NEW u \in Users, DeleteUser(u) PROVE Tables'
  BY <1>11 DEF DeleteUser, Tables, Exists
<1>12. ASSUME NEW i \in Persons, NEW u \in Users, CreateUserIdentity(i, u) \/ DeleteUserIdentity(i) PROVE Tables'
  BY <1>12 DEF CreateUserIdentity, DeleteUserIdentity, Tables, Exists, Identities
<1>13. CASE PersonMergeCore
  BY <1>1, <1>8, <1>13, Zenon DEF PersonMergeCore
<1>14. CASE applyReplace
  <2>1. call[Worker].user \in Users /\ call[Worker].status \in Statuses /\ call[Worker].email \in Emails
    BY <1>1, <1>14, CallFields, Zenon DEF applyReplace
  <2> QED
    BY <1>14, <2>1, Zenon DEF applyReplace, Tables, Exists
<1>15. CASE updateUserIdentity \/ ensureUserIdentity
  <2>1. call[Worker].op = "handler" /\ at \in {"identity", "ensure"} /\ cur \in Packets
    BY <1>2, <1>15 DEF WorkerOK, updateUserIdentity, ensureUserIdentity
  <2>2. call[Worker].user \in Users
    BY <1>1, <2>1, CallFields
  <2>3. B.person \in Identities
    BY <2>1, PacketFacts DEF WorkerOK, B, Identities
  <2>4. owner' \in [Identities -> Users \cup {None}] /\ UNCHANGED <<status, email, login, member, role, pi>>
    BY <1>15, <2>2, <2>3 DEF updateUserIdentity, ensureUserIdentity, Tables
  <2> QED
    BY <2>4, Zenon DEF Tables, Exists
<1> QED
  BY <1>4, <1>5, <1>6, <1>7, <1>8, <1>1, <1>9, <1>10, <1>11, <1>12, <1>13, <1>14, <1>15, Writes, Zenon

\* An identity row goes with its user or is deleted by name, whatever was read before.
LEMMA IdentityStep ==
    ASSUME load \in Loads, Tables, CallsOK, WorkerOK, cur \in Packets \cup {None}, PNext,
           NEW i \in Identities, owner[i] # None, owner'[i] = None
    PROVE  status'[owner[i]] = "deleted" \/ (UNCHANGED status /\ \A j \in Identities \ {i} : owner'[j] = owner[j])
<1>1. /\ \A c \in load.callers : CallOK(call[c])
      /\ CallOK(call[Worker])
  BY PersonsAssumption, Zenon DEF CallsOK
<1>2. None \notin Users /\ owner[i] \in Users /\ DOMAIN owner = Identities /\ DOMAIN status = Users
  BY UserAssumption DEF Tables
<1>3. ASSUME NEW r, CallOK(r), r.op # "idle" PROVE r.user # None
  BY <1>2, <1>3, CallFields, Zenon
<1>4. ~UNCHANGED tables
  BY Zenon DEF tables
<1>5. ASSUME NEW c \in load.callers PROVE ~linkBySubWrites(c)
  BY <1>1, <1>2, <1>3 DEF linkBySubWrites
<1>6. ASSUME NEW c \in load.callers PROVE ~UpdateUserWrites(c)
  BY Zenon DEF UpdateUserWrites
<1>7. ASSUME NEW c \in load.callers PROVE ~UpdateUserIdentityWrites(c)
  BY <1>1, <1>2, <1>3 DEF UpdateUserIdentityWrites
<1>8. ASSUME NEW c, CallOK(call[c]) PROVE ~MergeUsersCommits(c)
  BY <1>3, <1>8 DEF MergeUsersCommits, MergeRows, ReassignIdentities
<1>9. ASSUME NEW u \in Users PROVE ~CreateUser(u) /\ ~UpdateUserStatus(u, "SUSPENDED")
  BY Zenon DEF CreateUser, UpdateUserStatus
<1>10. ASSUME NEW u \in Users, DeleteUser(u) PROVE status'[owner[i]] = "deleted"
  BY <1>2, <1>10 DEF DeleteUser
<1>11. ASSUME NEW j \in Persons, NEW u \in Users, CreateUserIdentity(j, u) \/ DeleteUserIdentity(j)
       PROVE  UNCHANGED status /\ \A k \in Identities \ {i} : owner'[k] = owner[k]
  BY <1>2, <1>11 DEF CreateUserIdentity, DeleteUserIdentity
<1>12. ~PersonMergeCore
  BY <1>1, <1>8, Zenon DEF PersonMergeCore
<1>13. ~applyReplace
  BY Zenon DEF applyReplace
<1>14. ~updateUserIdentity /\ ~ensureUserIdentity
  <2>1. at \in {"identity", "ensure"} => call[Worker].user # None
    BY <1>1, <1>3, Zenon DEF WorkerOK
  <2> QED
    BY <1>2, <2>1 DEF updateUserIdentity, ensureUserIdentity
<1> QED
  BY <1>1, <1>4, <1>5, <1>6, <1>7, <1>8, <1>9, <1>10, <1>11, <1>12, <1>13, <1>14, Writes, Zenon

-----------------------------------------------------------------------------
(* Requests and the worker. *)

\* What a request reads has its type.
LEMMA ReadsOK ==
    ASSUME Tables
    PROVE  /\ CallOK(Idle)
           /\ \A u \in Users, s \in Subs : CallOK([op |-> "link", user |-> u, row |-> s])
           /\ \A u \in Users, e \in Emails :
                Exists(u) => CallOK([op |-> "update", user |-> u, status |-> status[u], email |-> e])
           /\ \A i \in Identities : owner[i] # None => CallOK([op |-> "identity", row |-> i, user |-> owner[i]])
           /\ \A s, r \in Users : CallOK([op |-> "merge", user |-> s, retiring |-> r])
           /\ \A u \in Users : CallOK([op |-> "handler", user |-> u])
<1>1. \A i \in Identities : owner[i] # None => owner[i] \in Users
  BY DEF Tables
<1> QED
  BY <1>1 DEF CallOK, Exists

\* A step of a request or of the worker changes only its own call.
Sets(c) == \E r : CallOK(r) /\ call' = [call EXCEPT ![c] = r]

LEMMA OneCall ==
    ASSUME load \in Loads, Tables, CallsOK, WorkerOK, cur \in Packets \cup {None}, PNext, DOMAIN call = Callers
    PROVE  /\ WorkerNext => UNCHANGED call \/ Sets(Worker)
           /\ ~WorkerNext => UNCHANGED pvars /\ (UNCHANGED call \/ \E c \in load.callers : Sets(c))
<1>1. ASSUME NEW c, NEW r, CallOK(r), Reads(c, r) PROVE Sets(c)
  BY <1>1, Zenon DEF Reads, Sets
<1>2. ASSUME NEW c, Ends(c) PROVE Sets(c)
  BY <1>2, ReadsOK, Zenon DEF Ends, Sets
<1>3. ASSUME NEW c, CallNext(c) PROVE Sets(c)
  <2>1. ASSUME NEW s \in Subs, linkBySubReads(c, s) PROVE Sets(c)
    BY <1>1, <2>1, ReadsOK, Zenon DEF linkBySubReads, FindByEmail
  <2>2. ASSUME NEW u \in Users, UpdateUserReads(c, u, email[u]) PROVE Sets(c)
    <3>1. email[u] \in Emails
      BY DEF Tables
    <3> QED
      BY <1>1, <2>2, <3>1, ReadsOK, Zenon DEF UpdateUserReads
  <2>3. ASSUME NEW i \in Identities, UpdateUserIdentityReads(c, i) PROVE Sets(c)
    BY <1>1, <2>3, ReadsOK, Zenon DEF UpdateUserIdentityReads
  <2>4. ASSUME NEW s \in Users, NEW r \in Users, MergeUsersReads(c, s, r) PROVE Sets(c)
    BY <1>1, <2>4, ReadsOK, Zenon DEF MergeUsersReads
  <2> QED
    BY <1>2, <1>3, <2>1, <2>2, <2>3, <2>4, Zenon DEF CallNext, linkBySubWrites, UpdateUserWrites,
       UpdateUserIdentityWrites, MergeUsersCommits, MergeUsersFails
<1>4. ASSUME WorkerNext PROVE UNCHANGED call \/ Sets(Worker)
  <2>1. ASSUME NEW p \in Packets, Handle(p) PROVE UNCHANGED call \/ Sets(Worker)
    <3>1. \A g \in Persons : owner[g] = None \/ owner[g] \in Users
      BY DEF Tables, Identities
    <3>2. CASE RequestPersonMerge(p)
      <4>1. owner[Body[p].keep] \in Users \cup {None} /\ owner[Body[p].drop] \in Users \cup {None}
        BY <3>1, <3>2, PacketFacts, Zenon DEF RequestPersonMerge
      <4> QED
        BY <1>1, <3>2, <4>1, ReadsOK, Zenon DEF RequestPersonMerge, GetUserByUserIdentity, MergeUsersReads
    <3>3. CASE RequestUserModify(p)
      <4>1. owner[Body[p].person] \in Users \cup {None}
        BY <3>1, <3>3, PacketFacts, Zenon DEF RequestUserModify
      <4>2. Body[p].kind = "replace" => Body[p].email \in Emails
        BY PacketFacts
      <4> QED
        BY <1>1, <3>3, <4>1, <4>2, ReadsOK, Zenon DEF RequestUserModify, GetUserByUserIdentity, UpdateUserReads
    <3>4. CASE DataProjectCreate(p) \/ DataAccountCreate(p)
      <4>1. owner[Body[p].person] \in Users \cup {None}
        BY <3>1, <3>4, PacketFacts, Zenon DEF DataProjectCreate, DataAccountCreate
      <4> QED
        BY <1>1, <3>4, <4>1, ReadsOK, Zenon DEF DataProjectCreate, DataAccountCreate, DataCreate, GetUserByUserIdentity
    <3> QED
      BY <2>1, <3>2, <3>3, <3>4, Zenon DEF Handle
  <2>2. ASSUME PersonMergeCore PROVE UNCHANGED call \/ Sets(Worker)
    BY <1>2, <2>2, Zenon DEF PersonMergeCore, MergeUsersCommits
  <2>3. ASSUME applyReplace PROVE UNCHANGED call \/ Sets(Worker)
    <3>1. call[Worker].user \in Users
      BY <2>3, PersonsAssumption, CallFields, Zenon DEF applyReplace, CallsOK
    <3> QED
      BY <2>3, <3>1, ReadsOK, Zenon DEF applyReplace, Sets
  <2>4. ASSUME updateUserIdentity \/ ensureUserIdentity \/ ModifyDNs \/ replyAndAudit PROVE UNCHANGED call \/ Sets(Worker)
    BY <2>4, Zenon DEF updateUserIdentity, ensureUserIdentity, ModifyDNs, replyAndAudit
  <2>5. ASSUME HandlerCommits \/ AttemptFails PROVE UNCHANGED call \/ Sets(Worker)
    BY <2>5, ReadsOK, Zenon DEF HandlerCommits, AttemptFails, AttemptEnds, Sets
  <2> QED
    BY <1>4, <2>1, <2>2, <2>3, <2>4, <2>5, Zenon DEF WorkerNext
<1>5. ASSUME DirectNext PROVE UNCHANGED call
  BY <1>5, Zenon DEF DirectNext, CreateUser, UpdateUserStatus, DeleteUser, CreateUserIdentity, DeleteUserIdentity
<1> QED
  BY <1>3, <1>4, <1>5, Zenon DEF PNext

\* Requests leave the worker alone.
LEMMA Others ==
    ASSUME load \in Loads, Tables, CallsOK, WorkerOK, cur \in Packets \cup {None}, PNext, DOMAIN call = Callers, ~WorkerNext
    PROVE  UNCHANGED pvars /\ call'[Worker] = call[Worker]
<1>1. Worker \in Callers /\ Worker \notin load.callers
  BY PersonsAssumption, Zenon
<1> QED
  BY <1>1, OneCall, Zenon DEF Sets

\* The types of PTypeOK, but for the rows.
PTypes ==
    /\ DOMAIN call = Callers
    /\ dnOwner \in [DNs -> Users \cup {None}] /\ txDns \in [DNs -> Users \cup {None}]
    /\ state \in [Packets -> {"pending", "done", "failed"}]
    /\ attempts \in [Packets -> 0..MaxAttempts]
    /\ acked \subseteq Packets
    /\ cur \in Packets \cup {None}

LEMMA PTypeSplits == PTypeOK <=> Tables /\ PTypes
<1> QED
  BY Zenon DEF PTypeOK, TypeOK, PIExists, Tables, PTypes

\* The steps of the worker keep its types and its place in the packet.
LEMMA WorkerKept ==
    ASSUME Tables, CallsOK, WorkerOK, PTypes, PNext
    PROVE  PTypes' /\ WorkerOK'
<1>1. load \in Loads /\ load' = load /\ Packets' = Packets /\ cur \in Packets \cup {None} /\ None \notin Packets
      /\ MaxAttempts \in Nat \ {0} /\ Worker \in Callers
  <2>1. load \in Loads /\ load' = load
    BY Zenon DEF WorkerOK, PNext
  <2> QED
    BY <2>1, PacketFacts, PersonsAssumption, Zenon DEF Packets, PTypes
<1>2. DOMAIN call' = Callers
  BY <1>1, OneCall, Zenon DEF PTypes, Sets
<1>3. CASE ~WorkerNext
  <2>1. UNCHANGED pvars /\ call'[Worker] = call[Worker] /\ B' = B
    BY <1>1, <1>3, Others, Zenon DEF PTypes, pvars, B
  <2>2. PTypes'
    BY <1>1, <1>2, <2>1, Zenon DEF PTypes, pvars
  <2>3. WorkerOK'
    BY <1>1, <2>1, Zenon DEF WorkerOK, pvars
  <2> QED
    BY <2>2, <2>3
<1>4. ASSUME NEW p \in Packets, NEW step \in {"merge", "profile", "dns", "ensure", "reply"}, HandlerStarts(p, step)
      PROVE  /\ PTypes'
             /\ cur = None /\ cur' = p /\ at' = step /\ B' = Body[p] /\ state'[p] = "pending"
             /\ \A q \in Packets : state'[q] = "pending" => attempts'[q] < MaxAttempts
  BY <1>1, <1>2, <1>4, Zenon DEF HandlerStarts, PTypes, WorkerOK, B
<1>5. cur = None => call[Worker].op = "idle"
  BY DEF WorkerOK, Idle
<1>6. ASSUME NEW p \in Packets, RequestPersonMerge(p) PROVE PTypes' /\ WorkerOK'
  <2>1. CASE HandlerStarts(p, "reply")
    BY <1>1, <1>4, <2>1 DEF WorkerOK
  <2>2. CASE HandlerStarts(p, "merge")
    <3>1. PTypes' /\ cur = None /\ cur' = p /\ at' = "merge" /\ B' = Body[p] /\ state'[p] = "pending"
      BY <1>4, <2>2, Zenon
    <3>2. call'[Worker].op \in {"idle", "merge"} /\ Body[p].kind = "merge"
      BY <1>1, <1>5, <1>6, <3>1 DEF RequestPersonMerge, MergeUsersReads, Reads, PTypes
    <3> QED
      BY <1>1, <1>4, <2>2, <3>1, <3>2 DEF WorkerOK
  <2> QED
    BY <1>6, <2>1, <2>2, Zenon DEF RequestPersonMerge
<1>7. ASSUME NEW p \in Packets, RequestUserModify(p) PROVE PTypes' /\ WorkerOK'
  <2>1. CASE HandlerStarts(p, "reply")
    BY <1>1, <1>4, <2>1 DEF WorkerOK
  <2>2. CASE HandlerStarts(p, "dns") /\ Reads(Worker, [op |-> "handler", user |-> owner[Body[p].person]])
    <3>1. call'[Worker].op = "handler" /\ Body[p].kind # "merge"
      BY <1>1, <1>7, <2>2 DEF RequestUserModify, Reads, PTypes
    <3> QED
      BY <1>1, <1>4, <2>2, <3>1, Zenon DEF WorkerOK
  <2>3. CASE HandlerStarts(p, "profile") /\ (UNCHANGED call \/ UpdateUserReads(Worker, owner[Body[p].person], Body[p].email))
    <3>1. call'[Worker].op \in {"idle", "update"} /\ Body[p].kind # "merge"
      <4>1. cur = None /\ Body[p].kind # "merge" /\ DOMAIN call = Callers
        BY <1>4, <1>7, <2>3, Zenon DEF RequestUserModify, PTypes
      <4>2. CASE UNCHANGED call
        BY <1>5, <4>1, <4>2, Zenon
      <4>3. CASE UpdateUserReads(Worker, owner[Body[p].person], Body[p].email)
        <5>1. call'[Worker] = [op |-> "update", user |-> owner[Body[p].person], status |-> status[owner[Body[p].person]],
                               email |-> Body[p].email]
          BY <1>1, <4>1, <4>3, Zenon DEF UpdateUserReads, Reads
        <5> QED
          BY <4>1, <5>1
      <4> QED
        BY <2>3, <4>2, <4>3, Zenon
    <3> QED
      BY <1>1, <1>4, <2>3, <3>1 DEF WorkerOK
  <2> QED
    BY <1>7, <2>1, <2>2, <2>3, Zenon DEF RequestUserModify, GetUserByUserIdentity
<1>8. ASSUME NEW p \in Packets, DataProjectCreate(p) \/ DataAccountCreate(p) PROVE PTypes' /\ WorkerOK'
  <2>1. CASE HandlerStarts(p, "reply")
    BY <1>1, <1>4, <2>1 DEF WorkerOK
  <2>2. CASE HandlerStarts(p, "ensure") /\ Reads(Worker, [op |-> "handler", user |-> owner[Body[p].person]])
    <3>1. call'[Worker].op = "handler" /\ Body[p].kind # "merge"
      BY <1>1, <1>8, <2>2 DEF DataProjectCreate, DataAccountCreate, Reads, PTypes
    <3> QED
      BY <1>1, <1>4, <2>2, <3>1 DEF WorkerOK
  <2> QED
    BY <1>8, <2>1, <2>2, Zenon DEF DataProjectCreate, DataAccountCreate, DataCreate, GetUserByUserIdentity
<1>9. ASSUME NEW next \in {"reply", "identity", "dns"}, GoTo(next), txDns' \in [DNs -> Users \cup {None}], cur # None,
             next # "reply" => B.kind # "merge" /\ call'[Worker].op = "handler"
      PROVE  PTypes' /\ WorkerOK'
  <2>1. UNCHANGED <<dnOwner, state, attempts, acked, cur>> /\ at' = next /\ B' = B
    BY <1>9, Zenon DEF GoTo, B
  <2>2. PTypes'
    BY <1>1, <1>2, <1>9, <2>1, Zenon DEF PTypes
  <2>3. WorkerOK'
    BY <1>1, <1>9, <2>1 DEF WorkerOK
  <2> QED
    BY <2>2, <2>3
<1>10. CASE PersonMergeCore
  <2>1. cur # None /\ call[Worker].retiring \in Users /\ call[Worker].user \in Users
    BY <1>1, <1>10, CallFields, Zenon DEF PersonMergeCore, MergeUsersCommits, WorkerOK, CallsOK
  <2>2. txDns' \in [DNs -> Users \cup {None}]
    BY <1>10, <2>1 DEF PersonMergeCore, ReassignDNs, PTypes
  <2> QED
    BY <1>9, <1>10, <2>1, <2>2 DEF PersonMergeCore
<1>11. CASE applyReplace
  <2>1. cur # None /\ B.kind # "merge" /\ call'[Worker].op = "handler"
    BY <1>1, <1>11 DEF applyReplace, WorkerOK, PTypes
  <2> QED
    BY <1>9, <1>11, <2>1 DEF applyReplace, PTypes
<1>12. CASE updateUserIdentity \/ ensureUserIdentity
  <2>1. cur # None /\ B.kind # "merge" /\ call'[Worker].op = "handler"
    BY <1>1, <1>12 DEF updateUserIdentity, ensureUserIdentity, WorkerOK
  <2> QED
    BY <1>9, <1>12, <2>1 DEF updateUserIdentity, ensureUserIdentity, PTypes
<1>13. CASE ModifyDNs
  <2>1. cur # None /\ call[Worker].user \in Users
    BY <1>1, <1>13, CallFields DEF ModifyDNs, WorkerOK, CallsOK
  <2>2. \A D : /\ syncDNs(call[Worker].user, D) \in [DNs -> Users \cup {None}]
               /\ deleteDNs(call[Worker].user, D) \in [DNs -> Users \cup {None}]
               /\ AddDNs(call[Worker].user, D) \in [DNs -> Users \cup {None}]
    BY <2>1 DEF syncDNs, deleteDNs, AddDNs, PTypes
  <2>3. txDns' \in [DNs -> Users \cup {None}]
    BY <1>13, <2>2 DEF ModifyDNs, PTypes
  <2> QED
    BY <1>9, <1>13, <2>1, <2>3, Zenon DEF ModifyDNs
<1>14. CASE replyAndAudit
  <2>1. cur \in Packets /\ at' = "commit" /\ acked' = acked \cup {cur} /\ B' = B
        /\ UNCHANGED <<dnOwner, txDns, state, attempts, cur, call>>
    BY <1>1, <1>14 DEF replyAndAudit, WorkerOK, B
  <2>2. PTypes'
    BY <1>1, <2>1 DEF PTypes
  <2>3. WorkerOK'
    BY <1>1, <2>1 DEF WorkerOK
  <2> QED
    BY <2>2, <2>3
<1>15. ASSUME cur' = None, at' = "idle", call' = [call EXCEPT ![Worker] = Idle],
              \A q \in Packets : state'[q] = "pending" => attempts'[q] < MaxAttempts
       PROVE  WorkerOK'
  BY <1>1, <1>15 DEF WorkerOK, PTypes
<1>16. CASE HandlerCommits
  <2>1. cur \in Packets /\ dnOwner' = txDns /\ state' = [state EXCEPT ![cur] = "done"] /\ cur' = None /\ at' = "idle"
        /\ call' = [call EXCEPT ![Worker] = Idle] /\ UNCHANGED <<txDns, attempts, acked>>
    BY <1>1, <1>16 DEF HandlerCommits, AttemptEnds, WorkerOK
  <2>2. PTypes'
    BY <1>1, <1>2, <2>1 DEF PTypes
  <2>3. \A q \in Packets : state'[q] = "pending" => attempts'[q] < MaxAttempts
    BY <2>1, Zenon DEF WorkerOK, PTypes
  <2> QED
    BY <1>15, <2>1, <2>2, <2>3
<1>17. CASE AttemptFails
  <2>1. /\ cur \in Packets /\ txDns' = dnOwner /\ attempts' = [attempts EXCEPT ![cur] = @ + 1] /\ cur' = None /\ at' = "idle"
        /\ state' = [state EXCEPT ![cur] = IF attempts'[cur] < MaxAttempts THEN "pending" ELSE "failed"]
        /\ call' = [call EXCEPT ![Worker] = Idle] /\ UNCHANGED <<dnOwner, acked>>
    BY <1>1, <1>17 DEF AttemptFails, AttemptEnds
  <2>2. attempts[cur] \in 0..MaxAttempts /\ attempts[cur] < MaxAttempts /\ attempts'[cur] = attempts[cur] + 1
    BY <1>1, <2>1 DEF WorkerOK, PTypes
  <2>3. PTypes'
    BY <1>1, <1>2, <2>1, <2>2 DEF PTypes
  <2>4. \A q \in Packets : state'[q] = "pending" => attempts'[q] < MaxAttempts
    BY <2>1, <2>2 DEF WorkerOK, PTypes
  <2> QED
    BY <1>15, <2>1, <2>3, <2>4
<1> QED
  BY <1>3, <1>6, <1>7, <1>8, <1>10, <1>11, <1>12, <1>13, <1>14, <1>16, <1>17, Zenon DEF WorkerNext, Handle

\* Types and places hold from one step to the next.
LEMMA TypesKept ==
    ASSUME PTypeOK, CallsOK, WorkerOK, PNext
    PROVE  PTypeOK' /\ CallsOK' /\ WorkerOK'
<1>1. Tables /\ PTypes /\ load \in Loads /\ cur \in Packets \cup {None} /\ DOMAIN call = Callers
  BY PTypeSplits, Zenon DEF PTypes, WorkerOK
<1>2. CallsOK'
  BY <1>1, OneCall, PersonsAssumption DEF CallsOK, Sets
<1>3. Tables' /\ PTypes' /\ WorkerOK'
  BY <1>1, TablesKept, WorkerKept, Zenon
<1>4. PTypeOK'
  BY <1>3, Zenon DEF PTypeOK, TypeOK, PIExists, Tables, PTypes
<1> QED
  BY <1>2, <1>3, <1>4

-----------------------------------------------------------------------------
(* While requests only log people in. *)

\* What the types say of the worker and its packet.
LEMMA Typed ==
    ASSUME PTypeOK, CallsOK, WorkerOK
    PROVE  /\ Tables /\ PTypes /\ load \in Loads /\ DOMAIN call = Callers /\ Worker \in Callers \ load.callers
           /\ DOMAIN owner = Identities /\ DOMAIN status = Users /\ None \notin Users
           /\ CallOK(call[Worker]) /\ load.callers \subseteq Callers /\ \A c \in load.callers : CallOK(call[c])
           /\ cur \in Packets \cup {None} /\ (at # "idle" => cur \in Packets) /\ None \notin Packets
           /\ Persons \subseteq Identities /\ Subs \subseteq Identities /\ Persons \cap Subs = {}
<1>1. Tables /\ PTypes /\ load \in Loads
  BY PTypeSplits, Zenon DEF WorkerOK
<1>2. /\ DOMAIN call = Callers /\ DOMAIN owner = Identities /\ DOMAIN status = Users
      /\ cur \in Packets \cup {None} /\ (at # "idle" => cur \in Packets)
  BY <1>1, Zenon DEF Tables, PTypes, WorkerOK
<1>3. Worker \in Callers \ load.callers /\ load.callers \subseteq Callers /\ None \notin Packets
  BY <1>1, PacketFacts, PersonsAssumption, Zenon
<1>4. None \notin Users /\ Persons \subseteq Identities /\ Subs \subseteq Identities /\ Persons \cap Subs = {}
  BY UserAssumption, Zenon DEF Identities
<1> QED
  BY <1>1, <1>2, <1>3, <1>4, Zenon DEF CallsOK

\* A step that is not the worker's is a part of a login.
LEMMA LoginSteps ==
    ASSUME OnlyLogins, Resolved, PNext, ~WorkerNext
    PROVE  \E c \in load.callers : \/ linkBySubWrites(c)
                                   \/ UNCHANGED tables /\ \E s \in Subs : linkBySubReads(c, s)
<1>1. /\ "update" \notin Ops /\ "identity" \notin Ops /\ "merge" \notin Ops /\ "create" \notin Ops /\ "status" \notin Ops
      /\ "delete" \notin Ops /\ "identities" \notin Ops
  BY DEF OnlyLogins
<1>2. \A c \in load.callers : call[c].op \notin {"update", "identity", "merge"}
  BY DEF Resolved
<1> QED
  BY <1>1, <1>2, Zenon DEF PNext, DirectNext, CallNext, UpdateUserWrites, UpdateUserIdentityWrites, MergeUsersCommits,
     MergeUsersFails

\* A step keeps the owners that are set, unless it is the merge of a packet; and those of
\* the global ids are not set by a login.
LEMMA OwnersStay ==
    ASSUME PTypeOK, CallsOK, WorkerOK, OnlyLogins, Resolved, PNext, ~PersonMergeCore
    PROVE  /\ \A i \in Persons : owner'[i] = owner[i]
           /\ \A s \in Subs : owner[s] # None => owner'[s] = owner[s]
<1> USE Typed
<1>1. CASE UNCHANGED owner
  BY <1>1, Zenon
<1>2. CASE ~WorkerNext
  <2>1. ASSUME NEW c \in load.callers, linkBySubWrites(c)
        PROVE  /\ \A i \in Persons : owner'[i] = owner[i]
               /\ \A s \in Subs : owner[s] # None => owner'[s] = owner[s]
    <3>1. call[c].row \in Subs
      BY <2>1, CallFields, Zenon DEF linkBySubWrites
    <3>2. owner' = owner \/ (owner[call[c].row] = None /\ owner' = [owner EXCEPT ![call[c].row] = call[c].user])
      BY <2>1, Zenon DEF linkBySubWrites
    <3> QED
      BY <3>1, <3>2
  <2> QED
    BY <1>1, <1>2, <2>1, LoginSteps, Zenon DEF tables
<1>3. CASE updateUserIdentity \/ ensureUserIdentity
  <2>1. call[Worker].user = owner[B.person] /\ owner' \in {owner, [owner EXCEPT ![B.person] = call[Worker].user]}
    <3>1. at \in {"identity", "ensure"} /\ call[Worker].op = "handler"
      BY <1>3, Zenon DEF updateUserIdentity, ensureUserIdentity, WorkerOK
    <3>2. call[Worker].user = owner[B.person]
      BY <3>1 DEF Resolved
    <3> QED
      BY <1>3, <3>2, Zenon DEF updateUserIdentity, ensureUserIdentity
  <2> QED
    BY <2>1
<1>4. CASE WorkerNext /\ ~(updateUserIdentity \/ ensureUserIdentity)
  <2>1. ASSUME NEW p \in Packets, Handle(p) PROVE UNCHANGED owner
    BY <2>1, Zenon DEF Handle, RequestPersonMerge, RequestUserModify, DataProjectCreate, DataAccountCreate, DataCreate,
       HandlerStarts, tables
  <2>2. ASSUME ModifyDNs \/ replyAndAudit \/ HandlerCommits \/ AttemptFails \/ applyReplace PROVE UNCHANGED owner
    BY <2>2, Zenon DEF ModifyDNs, replyAndAudit, HandlerCommits, AttemptFails, AttemptEnds, applyReplace, tables
  <2> QED
    BY <1>1, <1>4, <2>1, <2>2, Zenon DEF WorkerNext
<1> QED
  BY <1>2, <1>3, <1>4

\* What the merge of a packet does to the owners: those of the retired user go to the survivor.
LEMMA MergeOwners ==
    ASSUME PTypeOK, CallsOK, WorkerOK, PersonMergeCore
    PROVE  /\ cur \in Packets /\ B.kind = "merge" /\ at = "merge" /\ call[Worker].op = "merge"
           /\ call[Worker].user \in Users /\ call[Worker].retiring \in Users
           /\ \A i \in Identities : owner'[i] = IF owner[i] = call[Worker].retiring THEN call[Worker].user ELSE owner[i]
           /\ \A u \in Users : status'[u] \in {status[u], "MERGED"} /\ (u # call[Worker].retiring => status'[u] = status[u])
           /\ call' = [call EXCEPT ![Worker] = Idle]
           /\ status[call[Worker].retiring] = "ACTIVE" => status'[call[Worker].retiring] = "MERGED"
<1> USE Typed
<1>1. at = "merge" /\ MergeUsersCommits(Worker) /\ call[Worker].op = "merge"
  BY Zenon DEF PersonMergeCore, MergeUsersCommits
<1>2. cur \in Packets /\ B.kind = "merge" /\ call[Worker].user \in Users /\ call[Worker].retiring \in Users
  BY <1>1, CallFields DEF WorkerOK
<1>3. \A i \in Identities : owner'[i] = IF owner[i] = call[Worker].retiring THEN call[Worker].user ELSE owner[i]
  BY <1>1, Zenon DEF MergeUsersCommits, MergeRows, ReassignIdentities
<1>4. /\ \A u \in Users : status'[u] \in {status[u], "MERGED"} /\ (u # call[Worker].retiring => status'[u] = status[u])
      /\ status[call[Worker].retiring] = "ACTIVE" => status'[call[Worker].retiring] = "MERGED"
  BY <1>1, <1>2 DEF MergeUsersCommits, Exists, Statuses
<1>5. call' = [call EXCEPT ![Worker] = Idle]
  BY <1>1, Zenon DEF MergeUsersCommits, Ends
<1> QED
  BY <1>1, <1>2, <1>3, <1>4, <1>5

\* A step of a request leaves the worker's own call alone, and a step of the worker those
\* of the requests.
LEMMA CallsApart ==
    ASSUME PTypeOK, CallsOK, WorkerOK, PNext
    PROVE  /\ WorkerNext => \A c \in load.callers : call'[c] = call[c]
           /\ ~WorkerNext => UNCHANGED <<pvars, call[Worker]>>
<1> USE Typed
<1>1. ASSUME NEW c \in Callers, Sets(c) PROVE \A d \in Callers \ {c} : call'[d] = call[d]
  BY <1>1 DEF Sets
<1> QED
  BY <1>1, OneCall, Zenon

\* What the worker's first step for a packet reads.
LEMMA HandleReads ==
    ASSUME PTypeOK, CallsOK, WorkerOK, NEW p \in Packets, Handle(p)
    PROVE  /\ UNCHANGED <<tables, dnOwner, state, attempts, acked>> /\ cur = None /\ cur' = p /\ state[p] = "pending"
           /\ txDns' = dnOwner /\ at # "reply" /\ at # "commit"
           /\ Body[p].kind = "merge" =>
                \/ at' = "reply" /\ call'[Worker].op = "idle" /\ status[Body[p].retiring] = "MERGED"
                \/ at' = "merge" /\ call'[Worker].op = "idle"
                \/ /\ at' = "merge" /\ owner[Body[p].keep] # owner[Body[p].drop]
                   /\ call'[Worker] = [op |-> "merge", user |-> owner[Body[p].keep], retiring |-> owner[Body[p].drop]]
           /\ Body[p].kind # "merge" => at' # "merge"
           /\ Body[p].kind # "merge" /\ call'[Worker].op # "idle" =>
                call'[Worker].user = owner[Body[p].person] /\ call'[Worker].op \in {"update", "handler"}
           /\ call'[Worker].op = "update" =>
                call'[Worker].user \in Users /\ call'[Worker].status = status[call'[Worker].user]
<1>1. \E step \in {"reply", "merge", "dns", "profile", "ensure"} : HandlerStarts(p, step)
  BY Zenon DEF Handle, RequestPersonMerge, RequestUserModify, DataProjectCreate, DataAccountCreate, DataCreate
<1>2. /\ UNCHANGED <<tables, dnOwner, state, attempts, acked>> /\ cur = None /\ cur' = p /\ state[p] = "pending"
      /\ txDns' = dnOwner
  BY <1>1, Zenon DEF HandlerStarts, tables
<1>3. at = "idle" /\ call[Worker] = Idle /\ Idle.op = "idle"
  BY <1>2 DEF WorkerOK, Idle
<1>4. ASSUME NEW r, Reads(Worker, r) PROVE call'[Worker] = r
  BY <1>4, Typed, Zenon DEF Reads
<1>5. CASE RequestPersonMerge(p)
  <2>1. Body[p].kind = "merge"
    BY <1>5, Zenon DEF RequestPersonMerge
  <2>2. CASE status[Body[p].retiring] = "MERGED" /\ HandlerStarts(p, "reply") /\ UNCHANGED call
    BY <1>2, <1>3, <2>1, <2>2 DEF HandlerStarts
  <2>3. CASE HandlerStarts(p, "merge") /\ UNCHANGED call
    BY <1>2, <1>3, <2>1, <2>3, Zenon DEF HandlerStarts
  <2>4. CASE HandlerStarts(p, "merge") /\ MergeUsersReads(Worker, owner[Body[p].keep], owner[Body[p].drop])
    <3>1. call'[Worker] = [op |-> "merge", user |-> owner[Body[p].keep], retiring |-> owner[Body[p].drop]]
      BY <1>4, <2>4, Zenon DEF MergeUsersReads
    <3>2. at' = "merge" /\ owner[Body[p].keep] # owner[Body[p].drop] /\ call'[Worker].op = "merge"
      <4>1. call'[Worker].op = "merge"
        BY <3>1
      <4> QED
        BY <2>4, <4>1, Zenon DEF HandlerStarts, MergeUsersReads, MergeChecks
    <3> QED
      BY <1>2, <1>3, <2>1, <3>1, <3>2, Zenon
  <2> QED
    BY <1>5, <2>2, <2>3, <2>4, Zenon DEF RequestPersonMerge, GetUserByUserIdentity
<1>6. CASE RequestUserModify(p) \/ DataProjectCreate(p) \/ DataAccountCreate(p)
  <2>1. Body[p].kind # "merge" /\ at' # "merge"
    BY <1>6, Zenon DEF RequestUserModify, DataProjectCreate, DataAccountCreate, DataCreate, HandlerStarts
  <2>2. \/ UNCHANGED call
        \/ owner[Body[p].person] # None /\ Reads(Worker, [op |-> "handler", user |-> owner[Body[p].person]])
        \/ owner[Body[p].person] # None /\ UpdateUserReads(Worker, owner[Body[p].person], Body[p].email)
    BY <1>6, Zenon DEF RequestUserModify, DataProjectCreate, DataAccountCreate, DataCreate, GetUserByUserIdentity
  <2>3. CASE UNCHANGED call
    BY <1>2, <1>3, <2>1, <2>3, Zenon
  <2>4. CASE owner[Body[p].person] # None /\ Reads(Worker, [op |-> "handler", user |-> owner[Body[p].person]])
    <3>1. call'[Worker] = [op |-> "handler", user |-> owner[Body[p].person]]
      BY <1>4, <2>4, Zenon
    <3>2. call'[Worker].op = "handler" /\ call'[Worker].user = owner[Body[p].person]
      BY <3>1
    <3> QED
      BY <1>2, <1>3, <2>1, <3>2, Zenon
  <2>5. CASE owner[Body[p].person] # None /\ UpdateUserReads(Worker, owner[Body[p].person], Body[p].email)
    <3>1. call'[Worker] = [op |-> "update", user |-> owner[Body[p].person], status |-> status[owner[Body[p].person]],
                           email |-> Body[p].email]
      BY <1>4, <2>5, Zenon DEF UpdateUserReads
    <3>2. owner[Body[p].person] \in Users
      BY <2>1, <2>5, Typed, PacketFacts, Zenon DEF Tables
    <3>3. /\ call'[Worker].op = "update" /\ call'[Worker].user = owner[Body[p].person]
          /\ call'[Worker].status = status[owner[Body[p].person]]
      BY <3>1
    <3> QED
      BY <1>2, <1>3, <2>1, <3>2, <3>3, Zenon
  <2> QED
    BY <2>2, <2>3, <2>4, <2>5, Zenon
<1> QED
  BY <1>5, <1>6, Zenon DEF Handle

\* The steps that end an attempt or do not touch the calls and rows.
LEMMA QuietSteps ==
    ASSUME PTypeOK, CallsOK, WorkerOK, ModifyDNs \/ replyAndAudit \/ HandlerCommits \/ AttemptFails
    PROVE  /\ UNCHANGED tables /\ at' \in {"reply", "commit", "idle"}
           /\ call'[Worker] = call[Worker] \/ call'[Worker].op = "idle"
<1> USE Typed
<1>1. CASE ModifyDNs \/ replyAndAudit
  BY <1>1 DEF ModifyDNs, replyAndAudit, GoTo, tables
<1>2. CASE HandlerCommits \/ AttemptFails
  <2>1. UNCHANGED tables /\ at' = "idle" /\ call' = [call EXCEPT ![Worker] = Idle]
    BY <1>2, Zenon DEF HandlerCommits, AttemptFails, AttemptEnds, tables
  <2> QED
    BY <2>1 DEF Idle
<1> QED
  BY <1>1, <1>2

\* The calls and steps of the worker that write a person's rows.
LEMMA ModifySteps ==
    ASSUME PTypeOK, CallsOK, WorkerOK, applyReplace \/ updateUserIdentity \/ ensureUserIdentity
    PROVE  /\ at \in {"profile", "identity", "ensure"} /\ at' \in {"identity", "dns"} /\ call[Worker].op # "idle"
           /\ UNCHANGED <<txDns, dnOwner, state, attempts, acked, cur>>
           /\ call'[Worker].op = "handler" /\ call'[Worker].user = call[Worker].user
           /\ updateUserIdentity \/ ensureUserIdentity => UNCHANGED status
           /\ applyReplace => /\ call[Worker].op = "update" /\ UNCHANGED owner
                              /\ status' = [status EXCEPT ![call[Worker].user] = call[Worker].status]
<1> USE Typed
<1>1. CASE applyReplace
  <2>1. call'[Worker] = [op |-> "handler", user |-> call[Worker].user]
    BY <1>1 DEF applyReplace
  <2>2. ~updateUserIdentity /\ ~ensureUserIdentity
    BY <1>1, Zenon DEF applyReplace, updateUserIdentity, ensureUserIdentity
  <2> QED
    BY <1>1, <2>1, <2>2, Zenon DEF applyReplace, GoTo
<1>2. CASE updateUserIdentity \/ ensureUserIdentity
  <2>1. ~applyReplace
    BY <1>2, Zenon DEF applyReplace, updateUserIdentity, ensureUserIdentity
  <2>2. call[Worker].op = "handler"
    BY <1>2, Zenon DEF updateUserIdentity, ensureUserIdentity, WorkerOK
  <2> QED
    BY <1>2, <2>1, <2>2, Zenon DEF updateUserIdentity, ensureUserIdentity, GoTo
<1> QED
  BY <1>1, <1>2

\* Resolved is kept.
LEMMA ResolvedKept ==
    ASSUME PTypeOK, CallsOK, WorkerOK, OnlyLogins, Resolved, PNext
    PROVE  Resolved'
<1> USE Typed
<1>1. load' = load
  BY Zenon DEF PNext
<1>2. \A c \in load.callers : call'[c].op \in {"idle", "link"}
  <2>1. CASE WorkerNext
    BY <2>1, CallsApart DEF Resolved
  <2>2. CASE ~WorkerNext
    <3>1. PICK c \in load.callers : \/ linkBySubWrites(c)
                                    \/ UNCHANGED tables /\ \E s \in Subs : linkBySubReads(c, s)
      BY <2>2, LoginSteps, Zenon
    <3> DEFINE Reset == \E r : call' = [call EXCEPT ![c] = r] /\ r.op \in {"idle", "link"}
    <3>2. Reset
      <4>1. CASE linkBySubWrites(c)
        <5>1. call' = [call EXCEPT ![c] = Idle] /\ Idle.op = "idle"
          BY <4>1 DEF linkBySubWrites, Ends, Idle
        <5> QED
          BY <5>1, Zenon
      <4>2. ASSUME NEW s \in Subs, linkBySubReads(c, s) PROVE Reset
        <5>1. PICK u : call' = [call EXCEPT ![c] = [op |-> "link", user |-> u, row |-> s]]
          BY <4>2, Zenon DEF linkBySubReads, Reads
        <5>2. [op |-> "link", user |-> u, row |-> s].op = "link"
          OBVIOUS
        <5> QED
          BY <5>1, <5>2, Zenon
      <4> QED
        BY <3>1, <4>1, <4>2, Zenon
    <3> QED
      BY <3>2 DEF Resolved
  <2> QED
    BY <2>1, <2>2
<1> DEFINE Owned ==
      /\ at' = "merge" /\ call'[Worker].op = "merge" =>
           /\ call'[Worker].user = owner'[B'.keep] /\ call'[Worker].retiring = owner'[B'.drop]
           /\ call'[Worker].user # call'[Worker].retiring
      /\ at' \in {"profile", "identity", "dns", "ensure"} /\ call'[Worker].op # "idle" =>
           call'[Worker].user = owner'[B'.person]
<1>3. Owned
  <2>1. CASE ~WorkerNext
    <3>1. UNCHANGED <<at, cur>> /\ call'[Worker] = call[Worker] /\ ~PersonMergeCore
      BY <2>1, CallsApart, Zenon DEF pvars, WorkerNext
    <3>2. \A i \in Persons : owner'[i] = owner[i]
      BY <3>1, OwnersStay, Zenon
    <3>3. at = "merge" => B.keep \in Persons /\ B.drop \in Persons
      BY PacketFacts DEF WorkerOK, B
    <3>4. at \in {"profile", "identity", "dns", "ensure"} => B.person \in Persons
      BY PacketFacts DEF WorkerOK, B
    <3>5. B' = B
      BY <3>1, Zenon DEF B
    <3> QED
      BY <3>1, <3>2, <3>3, <3>4, <3>5 DEF Resolved
  <2>2. CASE PersonMergeCore
    BY <2>2 DEF PersonMergeCore, GoTo
  <2>3. ASSUME NEW p \in Packets, Handle(p) PROVE Owned
    <3>1. B' = Body[p] /\ owner' = owner
      BY <2>3, HandleReads, Zenon DEF B, tables
    <3>2. CASE Body[p].kind = "merge"
      <4>1. CASE call'[Worker].op = "idle"
        BY <4>1
      <4>2. CASE call'[Worker].op # "idle"
        <5>1. /\ at' = "merge" /\ owner[Body[p].keep] # owner[Body[p].drop]
              /\ call'[Worker] = [op |-> "merge", user |-> owner[Body[p].keep], retiring |-> owner[Body[p].drop]]
          BY <2>3, <3>2, <4>2, HandleReads, Zenon
        <5> QED
          BY <3>1, <5>1
      <4> QED
        BY <4>1, <4>2, Zenon
    <3>3. CASE Body[p].kind # "merge"
      BY <2>3, <3>1, <3>3, HandleReads, Zenon
    <3> QED
      BY <3>2, <3>3, Zenon
  <2>4. CASE applyReplace \/ updateUserIdentity \/ ensureUserIdentity
    <3>1. call'[Worker].user = owner[B.person] /\ at' \in {"identity", "dns"} /\ at \in {"profile", "identity", "ensure"}
      BY <2>4, ModifySteps, Zenon DEF Resolved
    <3>2. B' = B
      BY <2>4, ModifySteps, Zenon DEF B
    <3>3. B.person \in Persons /\ ~PersonMergeCore
      BY <3>1, PacketFacts, Zenon DEF WorkerOK, B, PersonMergeCore
    <3>4. owner'[B.person] = owner[B.person]
      BY <3>3, OwnersStay, Zenon
    <3> QED
      BY <3>1, <3>2, <3>4
  <2>5. CASE ModifyDNs \/ replyAndAudit \/ HandlerCommits \/ AttemptFails
    BY <2>5, QuietSteps
  <2> QED
    BY <2>1, <2>2, <2>3, <2>4, <2>5, Zenon DEF WorkerNext
<1> QED
  BY <1>1, <1>2, <1>3, Zenon DEF Resolved

\* ActiveLinked is kept: a login activates what it binds, a merge retires the user whose
\* bindings it takes, and a profile update writes the status it read.
LEMMA ActiveLinkedKept ==
    ASSUME PTypeOK, CallsOK, WorkerOK, OnlyLogins, Resolved, ActiveLinked, PNext
    PROVE  ActiveLinked'
<1> USE Typed
<1>1. ASSUME NEW u \in Users, Linked(u), ~PersonMergeCore PROVE Linked(u)'
  BY <1>1, OwnersStay, Zenon DEF Linked
<1>2. CASE ~WorkerNext
  <2>1. call'[Worker] = call[Worker] /\ ~PersonMergeCore
    BY <1>2, CallsApart, Zenon DEF WorkerNext
  <2>2. PICK c \in load.callers : \/ linkBySubWrites(c)
                                  \/ UNCHANGED tables /\ \E s \in Subs : linkBySubReads(c, s)
    BY <1>2, LoginSteps, Zenon
  <2>3. \A u \in Users : status'[u] = "ACTIVE" => Linked(u)'
    <3>1. CASE UNCHANGED status
      BY <1>1, <2>1, <3>1, Zenon DEF ActiveLinked
    <3>2. CASE linkBySubWrites(c) /\ ~UNCHANGED status
      <4>1. PICK v \in Users, s \in Subs : owner' = [owner EXCEPT ![s] = v] /\ status' = [status EXCEPT ![v] = "ACTIVE"]
        BY <3>2, CallFields, Zenon DEF linkBySubWrites
      <4>2. Linked(v)'
        BY <4>1 DEF Linked
      <4>3. \A u \in Users \ {v} : status'[u] = status[u]
        BY <4>1
      <4> QED
        BY <1>1, <2>1, <4>2, <4>3, Zenon DEF ActiveLinked
    <3> QED
      BY <2>2, <3>1, <3>2, Zenon DEF tables
  <2>4. call[Worker].op = "update" => call[Worker].user \in Users
    BY CallFields
  <2> QED
    BY <1>1, <2>1, <2>3, <2>4, Zenon DEF ActiveLinked
<1>3. CASE PersonMergeCore
  <2>1. call'[Worker].op = "idle"
    BY <1>3, MergeOwners DEF Idle
  <2>2. ASSUME NEW u \in Users, status'[u] = "ACTIVE" PROVE Linked(u)'
    <3>1. u # call[Worker].retiring /\ status[u] = "ACTIVE"
      BY <1>3, <2>2, MergeOwners, Zenon
    <3>2. PICK s \in Subs : owner[s] = u
      BY <3>1, Zenon DEF ActiveLinked, Linked
    <3>3. owner'[s] = u
      BY <1>3, <3>1, <3>2, MergeOwners, Zenon
    <3> QED
      BY <3>3, Zenon DEF Linked
  <2> QED
    BY <2>1, <2>2, Zenon DEF ActiveLinked
<1>4. ASSUME NEW p \in Packets, Handle(p) PROVE ActiveLinked'
  <2>1. UNCHANGED <<status, owner>> /\ (call'[Worker].op = "update" =>
           call'[Worker].user \in Users /\ call'[Worker].status = status[call'[Worker].user])
    BY <1>4, HandleReads, Zenon DEF tables
  <2> QED
    BY <2>1, Zenon DEF ActiveLinked, Linked
<1>5. CASE applyReplace \/ updateUserIdentity \/ ensureUserIdentity
  <2>1. call'[Worker].op = "handler" /\ ~PersonMergeCore
    BY <1>5, ModifySteps DEF PersonMergeCore
  <2>2. ASSUME NEW u \in Users, status'[u] = "ACTIVE" PROVE Linked(u)
    <3>1. CASE UNCHANGED status
      BY <2>2, <3>1, Zenon DEF ActiveLinked
    <3>2. CASE applyReplace
      <4>1. call[Worker].op = "update" /\ status' = [status EXCEPT ![call[Worker].user] = call[Worker].status]
        BY <3>2, ModifySteps, Zenon
      <4> QED
        BY <2>2, <4>1 DEF ActiveLinked
    <3> QED
      BY <1>5, <3>1, <3>2, ModifySteps, Zenon
  <2> QED
    BY <1>1, <2>1, <2>2, Zenon DEF ActiveLinked
<1>6. CASE ModifyDNs \/ replyAndAudit \/ HandlerCommits \/ AttemptFails
  BY <1>6, QuietSteps DEF ActiveLinked, Linked, tables
<1> QED
  BY <1>2, <1>3, <1>4, <1>5, <1>6, Zenon DEF WorkerNext

\* A merge packet's ids and user.
LEMMA MergeFacts ==
    ASSUME load \in Loads, NEW p \in Merges
    PROVE  /\ p \in Packets /\ Body[p].kind = "merge" /\ Body[p].keep \in Persons /\ Body[p].drop \in Persons
           /\ Body[p].retiring \in Users
           /\ \A q \in Merges : Body[q].retiring = Body[p].retiring => q = p
BY PacketFacts, MergesAssumption, Zenon DEF Merges, Packets

\* Only the merge of a packet makes the ids of another lead to one user, or no longer so.
LEMMA MergedStays ==
    ASSUME PTypeOK, CallsOK, WorkerOK, OnlyLogins, Resolved, PNext, ~PersonMergeCore, NEW p \in Merges
    PROVE  (Merged(p)' <=> Merged(p)) /\ owner'[Body[p].drop] = owner[Body[p].drop]
BY Typed, MergeFacts, OwnersStay, Zenon DEF Merged

\* The merge of the worker's packet, seen by each merge packet.
LEMMA MergeOKByMerge ==
    ASSUME PTypeOK, CallsOK, WorkerOK, Resolved, \A q \in Merges : MergeOK(q), NEW p \in Merges, PersonMergeCore
    PROVE  MergeOK(p)'
<1> DEFINE s == call[Worker].user
           r == call[Worker].retiring
<1> USE Typed
<1>1. /\ cur \in Merges /\ at = "merge" /\ s \in Users /\ r \in Users /\ call'[Worker].op = "idle"
      /\ \A i \in Identities : owner'[i] = IF owner[i] = r THEN s ELSE owner[i]
      /\ \A u \in Users \ {r} : status'[u] = status[u]
  BY MergeOwners DEF Merges, B, Idle
<1>2. s = owner[Body[cur].keep] /\ r = owner[Body[cur].drop] /\ s # r
  BY MergeOwners, Zenon DEF Resolved, B
<1>3. r = Body[cur].retiring
  BY <1>1, <1>2, Zenon DEF MergeOK, Merged
<1>4. /\ UNCHANGED <<dnOwner, state, attempts, acked, cur>> /\ at' = "reply" /\ state[cur] = "pending"
      /\ txDns' = ReassignDNs(r, s)
  BY <1>1, Zenon DEF PersonMergeCore, GoTo, WorkerOK
<1>5. \A d \in DNs : txDns'[d] = IF dnOwner[d] = r THEN s ELSE dnOwner[d]
  BY <1>4, Zenon DEF ReassignDNs
<1>6. /\ Body[p].keep \in Identities /\ Body[p].drop \in Identities /\ Body[p].retiring \in Users
      /\ Body[cur].keep \in Persons /\ Body[cur].drop \in Persons
  BY <1>1, MergeFacts, Zenon
<1> HIDE DEF s, r
<1>7. CASE p = cur
  <2>1. Merged(p)'
    <3>1. owner'[Body[p].keep] = s /\ owner'[Body[p].drop] = s
      BY <1>1, <1>2, <1>6, <1>7, Zenon
    <3>2. \A i \in Persons : owner'[i] # r
      BY <1>1, <1>2, Zenon
    <3> QED
      BY <1>3, <1>7, <3>1, <3>2, Zenon DEF Merged
  <2>2. NoDNs(txDns, p)'
    BY <1>2, <1>3, <1>5, <1>7, Zenon DEF NoDNs
  <2> QED
    BY <1>1, <1>4, <1>7, <2>1, <2>2, Zenon DEF MergeOK
<1>8. CASE p # cur
  <2>1. Body[p].retiring # r
    BY <1>1, <1>3, <1>8, MergeFacts, Zenon
  <2>2. Merged(p)' <=> Merged(p)
    <3>1. ASSUME Merged(p) PROVE Merged(p)'
      <4>1. owner[Body[p].keep] = owner[Body[p].drop] /\ \A i \in Persons : owner[i] # Body[p].retiring
        BY <3>1, Zenon DEF Merged
      <4>2. s # Body[p].retiring
        BY <1>2, <1>6, <4>1, Zenon
      <4>3. owner'[Body[p].keep] = owner'[Body[p].drop]
        BY <1>1, <1>6, <4>1, Zenon
      <4>4. \A i \in Persons : owner'[i] # Body[p].retiring
        BY <1>1, <4>1, <4>2, Zenon
      <4> QED
        BY <4>3, <4>4, Zenon DEF Merged
    <3>2. ASSUME ~Merged(p) PROVE ~Merged(p)'
      <4>1. owner'[Body[p].drop] = Body[p].retiring
        BY <1>1, <1>6, <2>1, <3>2, Zenon DEF MergeOK
      <4> QED
        BY <4>1, MergeFacts, Zenon DEF Merged
    <3> QED
      BY <3>1, <3>2, Zenon
  <2>3. owner[Body[p].drop] = Body[p].retiring => owner'[Body[p].drop] = Body[p].retiring
    BY <1>1, <1>6, <2>1, Zenon
  <2>4. status'[Body[p].retiring] = status[Body[p].retiring]
    BY <1>1, <1>6, <2>1, Zenon
  <2>5. Merged(p) /\ NoDNs(dnOwner, p) => NoDNs(txDns, p)'
    BY <1>2, <1>5, <1>6, Zenon DEF Merged, NoDNs
  <2>6. NoDNs(dnOwner, p)' <=> NoDNs(dnOwner, p)
    BY <1>4, Zenon DEF NoDNs
  <2>7. MergeOK(p)
    OBVIOUS
  <2>8. call'[Worker].op # "update"
    BY <1>1
  <2> QED
    BY <1>4, <1>8, <2>2, <2>3, <2>4, <2>5, <2>6, <2>7, <2>8, Zenon DEF MergeOK
<1> QED
  BY <1>7, <1>8, Zenon

\* The other steps of the worker.
LEMMA MergeOKByWorker ==
    ASSUME PTypeOK, CallsOK, WorkerOK, OnlyLogins, Resolved, NEW p \in Merges, MergeOK(p), PNext, ~PersonMergeCore, WorkerNext
    PROVE  MergeOK(p)'
<1> USE Typed, MergeFacts, MergedStays
<1>1. ASSUME NEW q \in Packets, Handle(q) PROVE MergeOK(p)'
  <2>1. /\ UNCHANGED <<status, owner, dnOwner, state, attempts, acked>> /\ cur = None /\ cur' = q
        /\ state[q] = "pending" /\ txDns' = dnOwner
    BY <1>1, HandleReads, Zenon DEF tables
  <2>2. cur # p /\ (NoDNs(dnOwner, p)' <=> NoDNs(dnOwner, p)) /\ (NoDNs(txDns, p)' <=> NoDNs(dnOwner, p))
    BY <2>1, Zenon DEF NoDNs
  <2>3. q = p /\ at' \in {"reply", "commit"} => Merged(p)
    <3>1. q = p => at' = "merge" \/ status[Body[p].retiring] = "MERGED"
      BY <1>1, HandleReads, ZenonT(40)
    <3>2. status[Body[p].retiring] = "MERGED" => Merged(p)
      BY Zenon DEF MergeOK
    <3> QED
      BY <3>1, <3>2, Zenon
  <2>4. call'[Worker].op = "update" /\ call'[Worker].status = "MERGED" /\ call'[Worker].user = Body[p].retiring => Merged(p)
    BY <1>1, HandleReads, Zenon DEF MergeOK
  <2> QED
    BY <2>1, <2>2, <2>3, <2>4, Zenon DEF MergeOK
<1>2. CASE applyReplace \/ updateUserIdentity \/ ensureUserIdentity
  <2>1. /\ UNCHANGED <<txDns, dnOwner, state, attempts, acked, cur>> /\ at \in {"profile", "identity", "ensure"}
        /\ call'[Worker].op = "handler"
    BY <1>2, ModifySteps, Zenon
  <2>2. cur # p
    BY <2>1, Zenon DEF WorkerOK, B
  <2>3. status'[Body[p].retiring] = "MERGED" => Merged(p)
    <3>1. CASE UNCHANGED status
      BY <3>1, Zenon DEF MergeOK
    <3>2. CASE applyReplace
      <4>1. call[Worker].op = "update" /\ status' = [status EXCEPT ![call[Worker].user] = call[Worker].status]
        BY <3>2, ModifySteps, Zenon
      <4> QED
        BY <4>1 DEF MergeOK
    <3> QED
      BY <1>2, <3>1, <3>2, ModifySteps, Zenon
  <2>4. (NoDNs(dnOwner, p)' <=> NoDNs(dnOwner, p)) /\ (NoDNs(txDns, p)' <=> NoDNs(txDns, p))
    BY <2>1, Zenon DEF NoDNs
  <2>5. call'[Worker].op # "update"
    BY <2>1
  <2> QED
    BY <2>1, <2>2, <2>3, <2>4, <2>5, Zenon DEF MergeOK
<1>3. CASE ModifyDNs
  <2>1. /\ UNCHANGED <<status, owner, call, dnOwner, state, attempts, acked, cur>> /\ at = "dns"
    BY <1>3, Zenon DEF ModifyDNs, GoTo, tables
  <2>2. cur # p /\ B.kind # "merge" /\ B.person \in Persons /\ call[Worker].user = owner[B.person]
    BY <2>1, PacketFacts, Zenon DEF WorkerOK, B, Resolved
  <2>3. Merged(p) /\ NoDNs(dnOwner, p) /\ NoDNs(txDns, p) => NoDNs(txDns, p)'
    <3>1. SUFFICES ASSUME Merged(p), NoDNs(dnOwner, p), NoDNs(txDns, p), NEW d \in DNs
                   PROVE  txDns'[d] # Body[p].retiring
      BY Zenon DEF NoDNs
    <3>2. call[Worker].user # Body[p].retiring /\ None # Body[p].retiring /\ dnOwner[d] # Body[p].retiring
      BY <2>2, <3>1, ZenonT(40) DEF Merged, NoDNs
    <3>3. txDns'[d] \in {txDns[d], dnOwner[d], call[Worker].user, None}
      <4>1. B.kind \in {"replace", "delete", "project", "account"}
        BY <2>1, <2>2, PacketFacts, Zenon DEF WorkerOK, B
      <4>2. \/ txDns' = txDns \/ txDns' = syncDNs(call[Worker].user, B.dns)
            \/ txDns' = deleteDNs(call[Worker].user, B.dns) \/ txDns' = AddDNs(call[Worker].user, B.dns)
        BY <1>3, <4>1 DEF ModifyDNs
      <4> QED
        BY <4>2, ZenonT(40) DEF syncDNs, deleteDNs, AddDNs
    <3> QED
      BY <3>1, <3>2, <3>3, Zenon DEF NoDNs
  <2>4. NoDNs(dnOwner, p)' <=> NoDNs(dnOwner, p)
    BY <2>1, Zenon DEF NoDNs
  <2> QED
    BY <2>1, <2>2, <2>3, <2>4, Zenon DEF MergeOK
<1>4. CASE replyAndAudit
  <2>1. /\ UNCHANGED <<status, owner, call, dnOwner, txDns, state, attempts, cur>> /\ at = "reply" /\ at' = "commit"
        /\ acked' = acked \cup {cur}
    BY <1>4, Zenon DEF replyAndAudit, tables
  <2>2. (NoDNs(dnOwner, p)' <=> NoDNs(dnOwner, p)) /\ (NoDNs(txDns, p)' <=> NoDNs(txDns, p))
    BY <2>1, Zenon DEF NoDNs
  <2> QED
    BY <2>1, <2>2, Zenon DEF MergeOK
<1>5. CASE HandlerCommits
  <2>1. /\ UNCHANGED <<status, owner, txDns, attempts, acked>> /\ at = "commit" /\ dnOwner' = txDns /\ cur' = None
        /\ state' = [state EXCEPT ![cur] = "done"] /\ state[cur] = "pending" /\ cur \in Packets
    BY <1>5, Zenon DEF HandlerCommits, AttemptEnds, tables, WorkerOK
  <2>2. (NoDNs(dnOwner, p)' <=> NoDNs(txDns, p)) /\ (NoDNs(txDns, p)' <=> NoDNs(txDns, p))
    BY <2>1, Zenon DEF NoDNs
  <2>3. call'[Worker] = call[Worker] \/ call'[Worker].op # "update"
    BY <1>5, QuietSteps, Zenon
  <2>4. state'[p] = IF p = cur THEN "done" ELSE state[p]
    BY <2>1 DEF PTypes
  <2> QED
    BY <2>1, <2>2, <2>3, <2>4, Zenon DEF MergeOK
<1>6. CASE AttemptFails
  <2>1. /\ UNCHANGED <<status, owner, dnOwner, acked>> /\ txDns' = dnOwner /\ cur' = None /\ cur \in Packets
        /\ attempts' = [attempts EXCEPT ![cur] = @ + 1]
        /\ state' = [state EXCEPT ![cur] = IF attempts'[cur] < MaxAttempts THEN "pending" ELSE "failed"]
    BY <1>6, Zenon DEF AttemptFails, AttemptEnds, tables
  <2>2. (NoDNs(dnOwner, p)' <=> NoDNs(dnOwner, p)) /\ (NoDNs(txDns, p)' <=> NoDNs(dnOwner, p))
    BY <2>1, Zenon DEF NoDNs
  <2>3. call'[Worker] = call[Worker] \/ call'[Worker].op # "update"
    BY <1>6, QuietSteps
  <2>4. p = cur => attempts'[p] # 0 /\ state'[p] # "done"
    BY <2>1 DEF PTypes
  <2>5. p # cur => attempts'[p] = attempts[p] /\ state'[p] = state[p]
    BY <2>1 DEF PTypes
  <2> QED
    BY <2>1, <2>2, <2>3, <2>4, <2>5, Zenon DEF MergeOK
<1> QED
  BY <1>1, <1>2, <1>3, <1>4, <1>5, <1>6, Zenon DEF WorkerNext

\* The steps of logins.
LEMMA MergeOKByLogin ==
    ASSUME PTypeOK, CallsOK, WorkerOK, OnlyLogins, Resolved, NEW p \in Merges, MergeOK(p), PNext, ~WorkerNext
    PROVE  MergeOK(p)'
<1> USE Typed, MergeFacts
<1>1. UNCHANGED <<dnOwner, txDns, state, attempts, acked, cur, at>> /\ call'[Worker] = call[Worker] /\ ~PersonMergeCore
  BY CallsApart, Zenon DEF pvars, WorkerNext
<1>2. (Merged(p)' <=> Merged(p)) /\ owner'[Body[p].drop] = owner[Body[p].drop]
  BY <1>1, MergedStays, Zenon
<1>3. status'[Body[p].retiring] \in {status[Body[p].retiring], "ACTIVE"}
  <2>1. ASSUME NEW c \in load.callers, linkBySubWrites(c) PROVE status'[Body[p].retiring] \in {status[Body[p].retiring], "ACTIVE"}
    BY <2>1, Zenon DEF linkBySubWrites
  <2> QED
    BY <2>1, LoginSteps, Zenon DEF tables
<1>4. (NoDNs(dnOwner, p)' <=> NoDNs(dnOwner, p)) /\ (NoDNs(txDns, p)' <=> NoDNs(txDns, p))
  BY <1>1, Zenon DEF NoDNs
<1>5. status'[Body[p].retiring] = "MERGED" => Merged(p)
  BY <1>3 DEF MergeOK
<1> QED
  BY <1>1, <1>2, <1>4, <1>5, Zenon DEF MergeOK

-----------------------------------------------------------------------------
(* The invariant. *)

LEMMA InitTypes == PInit => PTypeOK /\ CallsOK /\ WorkerOK
<1> SUFFICES ASSUME PInit PROVE PTypeOK /\ CallsOK /\ WorkerOK
  OBVIOUS
<1>1. Init /\ load \in Loads /\ cur = None /\ at = "idle"
  BY Zenon DEF PInit, Init
<1>2. load.pi \in Users \ NewUsers /\ load.coPIs \subseteq Users /\ load.owners \subseteq [Persons -> Users \cup {None}]
  BY <1>1, UserAssumption, PersonsAssumption, Zenon
<1>3. Tables
  <2>1. status = [u \in Users |-> IF u \in NewUsers THEN None ELSE "PENDING"] /\ pi = load.pi
    BY <1>1, Zenon DEF Init
  <2>2. status \in [Users -> Statuses \cup {None, "deleted"}] /\ pi \in Users /\ Exists(pi)
    BY <1>2, <2>1 DEF Exists, Statuses
  <2>3. email \in [Users -> Emails] /\ login \subseteq Users /\ DOMAIN member \subseteq Users
    BY <1>1, UserAssumption DEF Init
  <2>4. owner \in [Identities -> Users \cup {None}]
    <3>1. PICK own \in load.owners : owner = [i \in Identities |-> IF i \in Persons THEN own[i] ELSE None]
      BY <1>1, Zenon DEF Init
    <3> QED
      BY <1>2, <3>1
  <2>5. DOMAIN role \subseteq Users
    <3>1. PICK co \in SUBSET load.coPIs : role = [u \in {pi} \cup co |-> IF u = pi THEN "PI" ELSE "CO_PI"]
      BY <1>1, Zenon DEF Init
    <3> QED
      BY <1>2, <2>1, <3>1
  <2> QED
    BY <2>2, <2>3, <2>4, <2>5, Zenon DEF Tables
<1>4. call = [c \in Callers |-> Idle] /\ Worker \in Callers
  BY <1>1, PersonsAssumption, Zenon DEF Init
<1>5. CallsOK /\ DOMAIN call = Callers /\ call[Worker] = Idle
  BY <1>4, Zenon DEF CallsOK, CallOK
<1>6. /\ state = [p \in Packets |-> "pending"] /\ attempts = [p \in Packets |-> 0] /\ acked = {}
      /\ dnOwner = FirstDN /\ txDns = FirstDN
  BY Zenon DEF PInit
<1>7. PTypes
  BY <1>1, <1>5, <1>6, PersonsAssumption DEF PTypes
<1>8. WorkerOK
  BY <1>1, <1>5, <1>6, PersonsAssumption DEF WorkerOK
<1> QED
  BY <1>3, <1>5, <1>7, <1>8, PTypeSplits, Zenon

LEMMA InitPeople ==
    ASSUME PInit
    PROVE  Resolved /\ ActiveLinked /\ \A p \in Merges : MergeOK(p)
<1> USE InitTypes, Typed
<1>1. Init /\ at = "idle" /\ cur = None /\ acked = {} /\ state = [p \in Packets |-> "pending"]
  BY Zenon DEF PInit
<1>2. call = [c \in Callers |-> Idle] /\ status = [u \in Users |-> IF u \in NewUsers THEN None ELSE "PENDING"]
  BY <1>1, Zenon DEF Init
<1>3. \A c \in Callers : call[c].op = "idle"
  BY <1>2 DEF Idle
<1>4. None \notin {"ACTIVE", "MERGED"}
  BY UserAssumption DEF Statuses
<1>5. Resolved
  BY <1>1, <1>3 DEF Resolved
<1>6. \A u \in Users : status[u] \notin {"ACTIVE", "MERGED"}
  BY <1>2, <1>4
<1>7. ActiveLinked
  BY <1>3, <1>6 DEF ActiveLinked
<1>8. ASSUME NEW p \in Merges PROVE MergeOK(p)
  <2>1. owner[Body[p].drop] = Body[p].retiring /\ ~Merged(p)
    BY MergeFacts, Zenon DEF PInit, Merges, Merged
  <2>2. p \notin acked /\ state[p] # "done" /\ cur # p /\ call[Worker].op # "update"
    BY <1>1, <1>3, MergeFacts
  <2>3. status[Body[p].retiring] # "MERGED"
    BY <1>6, MergeFacts
  <2> QED
    BY <2>1, <2>2, <2>3, Zenon DEF MergeOK
<1> QED
  BY <1>5, <1>7, <1>8

\* The invariant holds from one step to the next.
LEMMA PInvStep == PInv /\ [PNext]_<<vars, pvars>> => PInv'
<1> SUFFICES ASSUME PInv, [PNext]_<<vars, pvars>> PROVE PInv'
  OBVIOUS
<1>1. CASE PNext
  <2>1. PTypeOK /\ CallsOK /\ WorkerOK
    BY Zenon DEF PInv
  <2>2. PTypeOK' /\ CallsOK' /\ WorkerOK'
    BY <1>1, <2>1, TypesKept, Zenon
  <2>3. load' = load /\ Merges' = Merges /\ (OnlyLogins' <=> OnlyLogins)
    BY <1>1, Zenon DEF PNext, Merges, Packets, OnlyLogins, Ops
  <2>4. ASSUME OnlyLogins PROVE Resolved' /\ ActiveLinked' /\ \A p \in Merges : MergeOK(p)'
    <3>1. Resolved /\ ActiveLinked /\ \A p \in Merges : MergeOK(p)
      BY <2>4, Zenon DEF PInv
    <3>2. Resolved' /\ ActiveLinked'
      BY <1>1, <2>1, <2>4, <3>1, ResolvedKept, ActiveLinkedKept, Zenon
    <3>3. ASSUME NEW p \in Merges PROVE MergeOK(p)'
      <4>1. CASE PersonMergeCore
        BY <2>1, <3>1, <4>1, MergeOKByMerge, Zenon
      <4>2. CASE ~PersonMergeCore /\ WorkerNext
        BY <1>1, <2>1, <2>4, <3>1, <4>2, MergeOKByWorker, Zenon
      <4>3. CASE ~WorkerNext
        BY <1>1, <2>1, <2>4, <3>1, <4>3, MergeOKByLogin, Zenon
      <4> QED
        BY <4>1, <4>2, <4>3, Zenon
    <3> QED
      BY <3>2, <3>3, Zenon
  <2> QED
    BY <2>2, <2>3, <2>4, Zenon DEF PInv
<1>2. CASE UNCHANGED <<vars, pvars>>
  <2>1. UNCHANGED <<load, status, email, owner, login, member, role, pi, call, dnOwner, txDns, state, attempts, acked, cur, at>>
    BY <1>2, Zenon DEF vars, tables, pvars
  <2>2. PTypeOK' <=> PTypeOK
    BY <2>1, Zenon DEF PTypeOK, TypeOK, PIExists, Exists, Packets
  <2>3. CallsOK' <=> CallsOK
    BY <2>1, Zenon DEF CallsOK
  <2>4. WorkerOK' <=> WorkerOK
    BY <2>1, Zenon DEF WorkerOK, B, Packets
  <2>5. (Resolved' <=> Resolved) /\ (OnlyLogins' <=> OnlyLogins) /\ Merges' = Merges
    BY <2>1, Zenon DEF Resolved, B, OnlyLogins, Ops, Merges, Packets
  <2>6. ActiveLinked' <=> ActiveLinked
    BY <2>1, Zenon DEF ActiveLinked, Linked
  <2>7. ASSUME NEW p \in Merges PROVE MergeOK(p)' <=> MergeOK(p)
    BY <2>1, Zenon DEF MergeOK, Merged, NoDNs
  <2> QED
    BY <2>2, <2>3, <2>4, <2>5, <2>6, <2>7, Zenon DEF PInv
<1> QED
  BY <1>1, <1>2, Zenon

LEMMA PInvHolds == PSpec => []PInv
<1>1. PInit => PInv
  BY InitTypes, InitPeople, Zenon DEF PInv
<1> QED
  BY <1>1, PInvStep, PTL DEF PSpec

-----------------------------------------------------------------------------
(* The results. *)

\* The rows of users, identities, memberships and packets keep their types, a packet is
\* not tried more often than it may be, and projects.project_pi_id always names a user
\* that exists, whatever merges, deletions and retries come between a request's read
\* and its write.
THEOREM PeopleKeepTypes == PSpec => []PTypeOK
<1>1. PInv => PTypeOK
  BY Zenon DEF PInv
<1> QED
  BY <1>1, PInvHolds, PTL

\* No row of user_identities is lost: a merge moves the retired user's rows, a handler
\* writes back a user, and a row goes only with its user or by DeleteUserIdentity.
THEOREM IdentitiesAreKept == PSpec => IdentitiesKept
<1>1. PInv /\ [PNext]_<<vars, pvars>> =>
        [\A i \in Identities : owner[i] # None /\ owner'[i] = None =>
            \/ status'[owner[i]] = "deleted"
            \/ UNCHANGED status /\ \A j \in Identities \ {i} : owner'[j] = owner[j]]_vars
  <2>1. PInv => /\ load \in Loads /\ Tables /\ CallsOK /\ WorkerOK /\ cur \in Packets \cup {None}
    BY Typed, Zenon DEF PInv
  <2>2. UNCHANGED <<vars, pvars>> => UNCHANGED vars
    BY Zenon
  <2> QED
    BY <2>1, <2>2, IdentityStep, Zenon
<1> QED
  BY <1>1, PInvHolds, PTL DEF PSpec, IdentitiesKept

\* While only packets and logins change people, a user that is ACTIVE has an OIDC
\* binding: linkBySub writes both in one transaction, a merge that takes the bindings
\* marks the user MERGED, and UpdateUser writes back a status that was read with them.
THEOREM ActiveUsersAreLinked == PSpec => []ActiveIsLinked
<1>1. PInv => ActiveIsLinked
  BY Zenon DEF PInv, OnlyLogins, ActiveLinked, Linked, ActiveIsLinked, FindByUserAndSource
<1> QED
  BY <1>1, PInvHolds, PTL

\* While only packets and logins change people, a merge that request_person_merge has
\* answered is complete: both global ids lead to one user from then on, and a merge
\* settled at its first attempt has left no DN at the retired user.
THEOREM MergesAreComplete == PSpec => []MergeComplete
<1>1. ASSUME PInv, Ops \subseteq {"link"}, NEW p \in Packets, Body[p].kind = "merge"
      PROVE  /\ p \in acked => owner[Body[p].keep] = owner[Body[p].drop]
             /\ state[p] = "done" /\ attempts[p] = 0 => ListByUser(Body[p].retiring) = {}
  <2>1. MergeOK(p)
    BY <1>1, Zenon DEF PInv, OnlyLogins, Merges
  <2>2. p \in acked \/ state[p] = "done" => Merged(p)
    BY <2>1, Zenon DEF MergeOK
  <2>3. state[p] = "done" /\ attempts[p] = 0 => NoDNs(dnOwner, p)
    BY <2>1, <2>2, Zenon DEF MergeOK
  <2> QED
    BY <2>2, <2>3, Zenon DEF Merged, NoDNs, ListByUser
<1>2. PInv => MergeComplete
  BY <1>1, Zenon DEF MergeComplete
<1> QED
  BY <1>2, PInvHolds, PTL

=============================================================================
