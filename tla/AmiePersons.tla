----------------------------- MODULE AmiePersons -----------------------------
(***************************************************************************)
(* The AMIE packets about people, request_person_merge,                    *)
(* request_user_modify, data_project_create and data_account_create, on    *)
(* top of UserLifecycle.  One worker handles one packet at a time.  Each   *)
(* core call commits by itself; the distinguished names (amie_user_dns)    *)
(* are written in the handler's own transaction, which a failed attempt    *)
(* rolls back and which commits after the reply.  People log in meanwhile. *)
(***************************************************************************)
EXTENDS UserLifecycle, Integers

CONSTANTS
    DNs, FirstDN,       \* distinguished names, and who holds each at the start
    Body,               \* packet -> what it says
    MaxAttempts,
    Worker              \* the processor, one of Callers

\* What getBody and requireText leave of a packet: dns is None without a DnList.
ASSUME PersonsAssumption ==
    /\ Worker \in Callers
    /\ MaxAttempts \in Nat \ {0}
    /\ None \notin DOMAIN Body
    /\ \A p \in DOMAIN Body :
         /\ Body[p].kind \in {"merge", "replace", "delete", "project", "account"}
         /\ IF Body[p].kind = "merge"
               THEN /\ Body[p].keep \in Persons /\ Body[p].drop \in Persons \ {Body[p].keep}
                    /\ Body[p].retiring \in Users
               ELSE Body[p].person \in Persons
         /\ Body[p].kind = "replace" => Body[p].email \in Emails
    /\ FirstDN \in [DNs -> Users \cup {None}]
    /\ \A l \in Loads :
         /\ l.packets \subseteq DOMAIN Body
         /\ l.callers \subseteq Callers \ {Worker}
         /\ l.owners \subseteq [Persons -> Users \cup {None}]

\* AMIE merges a user away once.
ASSUME MergesAssumption ==
    \A l \in Loads : \A p, q \in l.packets :
        Body[p].kind = "merge" /\ Body[q].kind = "merge" /\ Body[p].retiring = Body[q].retiring => p = q

VARIABLES
    dnOwner,    \* amie_user_dns.user_id, None for no row
    txDns,      \* the same in the running handler's transaction
    state,      \* of each packet's processing event
    attempts,
    acked,      \* packets AMIE holds a reply for
    cur, at     \* the running handler's packet and its next step

Packets == load.packets

pvars == <<dnOwner, txDns, state, attempts, acked, cur, at>>

PInit ==
    /\ Init
    /\ \A p \in Packets : Body[p].kind = "merge" => owner[Body[p].drop] = Body[p].retiring
    /\ dnOwner = FirstDN
    /\ txDns = dnOwner
    /\ state = [p \in Packets |-> "pending"]
    /\ attempts = [p \in Packets |-> 0]
    /\ acked = {}
    /\ cur = None
    /\ at = "idle"

B == Body[cur]

GetUserByUserIdentity(g) == owner[g]

-----------------------------------------------------------------------------
(* The store of distinguished names. *)

ListByUser(u) == {d \in DNs : dnOwner[d] = u}

\* INSERT ... ON CONFLICT DO NOTHING: dn is unique over all users.
AddDNs(u, dns) == [d \in DNs |-> IF d \in dns /\ dnOwner[d] = None THEN u ELSE dnOwner[d]]

ReassignDNs(from, to) == [d \in DNs |-> IF dnOwner[d] = from THEN to ELSE dnOwner[d]]

\* deleteDNs: the named rows, if they are the user's.
deleteDNs(u, dns) == [d \in DNs |-> IF d \in dns /\ dnOwner[d] = u THEN None ELSE dnOwner[d]]

\* syncDNs: rows of the user that the packet does not list go, the listed ones that
\* are nobody's are added.
syncDNs(u, dns) ==
    [d \in DNs |->
        IF d \in dns THEN (IF dnOwner[d] = None THEN u ELSE dnOwner[d])
        ELSE IF dnOwner[d] = u THEN None ELSE dnOwner[d]]

-----------------------------------------------------------------------------
(* Attempts. *)

GoTo(step) == at' = step /\ UNCHANGED <<dnOwner, state, attempts, acked, cur>>

AttemptEnds ==
    /\ cur' = None
    /\ at' = "idle"
    /\ call' = [call EXCEPT ![Worker] = Idle]
    /\ UNCHANGED tables

\* Mutant of AttemptFails: one attempt too many.
AttemptFailsOnceMore ==
    /\ cur # None
    /\ attempts' = [attempts EXCEPT ![cur] = @ + 1]
    /\ state' = [state EXCEPT ![cur] = IF attempts'[cur] <= MaxAttempts THEN "pending" ELSE "failed"]
    /\ txDns' = dnOwner
    /\ AttemptEnds
    /\ UNCHANGED <<dnOwner, acked>>

\* The handler returns an error at any step: the transaction is rolled back and what
\* the core committed stays.
AttemptFails ==
    /\ cur # None
    /\ attempts' = [attempts EXCEPT ![cur] = @ + 1]
    /\ state' = [state EXCEPT ![cur] = IF attempts'[cur] < MaxAttempts THEN "pending" ELSE "failed"]
    /\ txDns' = dnOwner
    /\ AttemptEnds
    /\ UNCHANGED <<dnOwner, acked>>

\* The user the packet is about, as the handler's first lookup finds it.
HandlerStarts(p, step) ==
    /\ cur = None
    /\ state[p] = "pending"
    /\ cur' = p
    /\ at' = step
    /\ txDns' = dnOwner
    /\ UNCHANGED <<dnOwner, state, attempts, acked, tables>>

replyAndAudit ==
    /\ at = "reply"
    /\ acked' = acked \cup {cur}
    /\ at' = "commit"
    /\ UNCHANGED <<dnOwner, txDns, state, attempts, cur, tables, call>>

HandlerCommits ==
    /\ at = "commit"
    /\ dnOwner' = txDns
    /\ state' = [state EXCEPT ![cur] = "done"]
    /\ AttemptEnds
    /\ UNCHANGED <<txDns, attempts, acked>>

-----------------------------------------------------------------------------
(* request_person_merge. *)

\* Mutant of RequestPersonMerge: a person nobody knows is answered like a merged one.
RequestPersonMergeLax(p) ==
    /\ Body[p].kind = "merge"
    /\ LET survivor == GetUserByUserIdentity(Body[p].keep)
           retiring == GetUserByUserIdentity(Body[p].drop)
       IN \/ /\ status[Body[p].retiring] = "MERGED" \/ None \in {survivor, retiring}
             /\ HandlerStarts(p, "reply")
             /\ UNCHANGED call
          \/ /\ None \notin {survivor, retiring}
             /\ HandlerStarts(p, "merge")
             /\ MergeUsersReads(Worker, survivor, retiring)

\* The packet names the retiring user by its id too: one that is MERGED already is
\* answered at once.
RequestPersonMerge(p) ==
    /\ Body[p].kind = "merge"
    /\ \/ /\ status[Body[p].retiring] = "MERGED"
          /\ HandlerStarts(p, "reply")
          /\ UNCHANGED call
       \/ /\ status[Body[p].retiring] # "MERGED"
          /\ HandlerStarts(p, "merge")
          /\ LET survivor == GetUserByUserIdentity(Body[p].keep)
                 retiring == GetUserByUserIdentity(Body[p].drop)
             IN IF survivor # None /\ retiring # None /\ MergeChecks(survivor, retiring)
                THEN MergeUsersReads(Worker, survivor, retiring)
                ELSE UNCHANGED call

PersonMergeCore ==
    /\ at = "merge"
    /\ MergeUsersCommits(Worker)
    /\ txDns' = ReassignDNs(call[Worker].retiring, call[Worker].user)
    /\ GoTo("reply")

-----------------------------------------------------------------------------
(* request_user_modify. *)

\* An unknown person is answered without a change.  A replace begins with
\* UpdateUser, a delete only removes names.
RequestUserModify(p) ==
    /\ Body[p].kind \in {"replace", "delete"}
    /\ LET u == GetUserByUserIdentity(Body[p].person)
       IN \/ /\ u = None
             /\ HandlerStarts(p, "reply")
             /\ UNCHANGED call
          \/ /\ u # None
             /\ Body[p].kind = "delete"
             /\ HandlerStarts(p, "dns")
             /\ Reads(Worker, [op |-> "handler", user |-> u])
          \/ /\ u # None
             /\ Body[p].kind = "replace"
             /\ HandlerStarts(p, "profile")
             /\ IF FindByEmail(Body[p].email) \subseteq {u}
                THEN UpdateUserReads(Worker, u, Body[p].email)
                ELSE UNCHANGED call

applyReplace ==
    /\ at = "profile"
    /\ LET u == call[Worker].user
       IN /\ call[Worker].op = "update"
          /\ Exists(u)
          /\ FindByEmail(call[Worker].email) \subseteq {u}
          /\ status' = [status EXCEPT ![u] = call[Worker].status]
          /\ email' = [email EXCEPT ![u] = call[Worker].email]
          /\ call' = [call EXCEPT ![Worker] = [op |-> "handler", user |-> u]]
    /\ GoTo("identity")
    /\ UNCHANGED <<txDns, owner, login, member, role, pi>>

\* The identity row is written with the user the handler found at its start, if the
\* packet changes its attributes.
updateUserIdentity ==
    /\ at = "identity"
    /\ owner' = IF owner[B.person] = None \/ ~B.attributes THEN owner
                ELSE [owner EXCEPT ![B.person] = call[Worker].user]
    /\ GoTo("dns")
    /\ UNCHANGED <<txDns, status, email, login, member, role, pi, call>>

ModifyDNs ==
    /\ at = "dns"
    /\ LET u == call[Worker].user
       IN txDns' = IF B.dns = None THEN txDns
                   ELSE CASE B.kind = "replace" -> syncDNs(u, B.dns)
                          [] B.kind = "delete"  -> deleteDNs(u, B.dns)
                          [] OTHER              -> AddDNs(u, B.dns)
    /\ GoTo("reply")
    /\ UNCHANGED <<tables, call>>

-----------------------------------------------------------------------------
(* data_project_create and data_account_create. *)

DataCreate(p) ==
    LET u == GetUserByUserIdentity(Body[p].person)
    IN \/ u = None /\ HandlerStarts(p, "reply") /\ UNCHANGED call
       \/ /\ u # None
          /\ HandlerStarts(p, "ensure")
          /\ Reads(Worker, [op |-> "handler", user |-> u])

DataProjectCreate(p) == Body[p].kind = "project" /\ DataCreate(p)

DataAccountCreate(p) == Body[p].kind = "account" /\ DataCreate(p)

\* A row of another user is an error; the packet is tried again.
ensureUserIdentity ==
    /\ at = "ensure"
    /\ owner[B.person] \in {None, call[Worker].user}
    /\ owner' = [owner EXCEPT ![B.person] = call[Worker].user]
    /\ GoTo("dns")
    /\ UNCHANGED <<txDns, status, email, login, member, role, pi, call>>

-----------------------------------------------------------------------------

Handle(p) ==
    RequestPersonMerge(p) \/ RequestUserModify(p) \/ DataProjectCreate(p) \/ DataAccountCreate(p)

WorkerNext ==
    \/ \E p \in Packets : Handle(p)
    \/ PersonMergeCore \/ applyReplace \/ updateUserIdentity \/ ensureUserIdentity
    \/ ModifyDNs \/ replyAndAudit \/ HandlerCommits \/ AttemptFails

PNext ==
    /\ UNCHANGED load
    /\ \/ WorkerNext
       \/ (DirectNext \/ \E c \in load.callers : CallNext(c)) /\ UNCHANGED pvars

PSpec == PInit /\ [][PNext]_<<vars, pvars>>

-----------------------------------------------------------------------------

\* As for the users, with a project's PI among those that exist; a packet has no
\* more attempts than it may have.
PTypeOK ==
    /\ TypeOK /\ PIExists
    /\ dnOwner \in [DNs -> Users \cup {None}] /\ txDns \in [DNs -> Users \cup {None}]
    /\ state \in [Packets -> {"pending", "done", "failed"}]
    /\ attempts \in [Packets -> 0..MaxAttempts]
    /\ acked \subseteq Packets
    /\ cur \in Packets \cup {None}

\* While only AMIE's packets and logins change people: once AMIE has been told that
\* two people are merged, both global ids lead to one user, whatever packets, retries
\* and logins come later; and a merge that was settled without a failed attempt has
\* left no DN at the retired user.
MergeComplete ==
    Ops \subseteq {"link"} => \A p \in Packets : Body[p].kind = "merge" =>
        /\ p \in acked => owner[Body[p].keep] = owner[Body[p].drop]
        /\ state[p] = "done" /\ attempts[p] = 0 => ListByUser(Body[p].retiring) = {}

\* While only AMIE's packets and logins change people, a user that is neither waiting
\* for its first login nor merged has an OIDC binding.
ActiveIsLinked ==
    Ops \subseteq {"link"} => \A u \in Users : status[u] = "ACTIVE" => FindByUserAndSource(u, Subs) # {}

=============================================================================
