------------------------ MODULE AmieProvisioningProofs ------------------------
(***************************************************************************)
(* Proofs about the handlers that create things (AmieProvisioning), for    *)
(* every set of packets, people and grants, every number of attempts and   *)
(* any number of crashes and failures.  The theorems that rest on them are *)
(* in AmieHandlersProofs.                                                  *)
(*                                                                         *)
(* The invariants need to know how far the running handler has come: IInv  *)
(* adds what each step may rely on (Control), what the tables never        *)
(* violate (Rows), that the SUs of a packet are there before its reply     *)
(* (Covered), and that what made a call fail is still true (Tries).        *)
(***************************************************************************)
EXTENDS AmieProvisioning, FiniteSetTheorems, WellFoundedInduction, TLAPS

Steps == {"idle", "user", "identity", "lookup", "login", "project", "allocation", "mappings", "membership", "role",
          "reply", "commit"}

PType ==
    /\ load \in Loads
    /\ status \in [Packets -> {"unknown", "pending", "failed", "succeeded"}]
    /\ attempts \in [Packets -> Nat] /\ transient \in [Packets -> Nat]
    /\ acked \subseteq Packets
    /\ cur \in Packets \cup {None} /\ at \in Steps
    /\ users \subseteq Emails
    /\ identity \in [Persons -> Emails \cup {None}]
    /\ login \in [Emails -> Nat]
    /\ piOf \in [Grants -> Emails \cup {None}]
    /\ initial \in [Grants -> Nat \cup {None}]
    /\ diffs \in [Grants -> Nat]
    /\ mapped \subseteq Grants
    /\ members \subseteq Grants \X Emails
    /\ role \in [Grants \X Emails -> Roles \cup {None}]

\* An identity leads to the user with the person's address, no two users of the
\* cluster have one login, and a project has one PI.
Rows ==
    /\ \A g \in Persons : identity[g] # None => identity[g] = EmailOf[g] /\ EmailOf[g] \in users
    /\ \A u, v \in Emails : login[u] # 0 /\ login[u] = login[v] /\ BaseOf[u] = BaseOf[v] => u = v
    /\ \A g \in Grants : \A u, v \in Emails : HasPI(g, u) /\ HasPI(g, v) => u = v

KnowsUser == {"lookup", "login", "project", "allocation", "mappings", "membership", "role", "reply", "commit"}
HasLogin == {"project", "allocation", "mappings", "membership", "role", "reply", "commit"}
HasAllocation == {"mappings", "membership", "role", "reply", "commit"}

\* What the running handler has in place when it makes its next call.
Control ==
    /\ cur = None <=> at = "idle"
    /\ cur # None =>
        /\ status[cur] = "pending"
        /\ at \in KnowsUser => identity[B.person] # None
        /\ at = "identity" => identity[B.person] = None /\ EmailOf[B.person] \in users
        /\ at = "lookup" => B.kind = "account"
        /\ at \in {"project", "allocation", "mappings"} => B.kind = "project"
        /\ at \in HasLogin => login[User] # 0
        /\ at = "allocation" => piOf[B.grant] # None
        /\ at \in HasAllocation \/ (at = "login" /\ B.kind = "account") =>
              piOf[B.grant] # None /\ initial[B.grant] # None
        /\ at \in {"membership", "role", "reply", "commit"} /\ B.kind = "project" => B.grant \in mapped
        /\ at \in {"role", "reply", "commit"} => <<B.grant, User>> \in members
        /\ at \in {"reply", "commit"} /\ B.kind = "project" => HasPI(B.grant, User)

\* The packets whose SUs the allocations have: those AMIE holds a reply for, and
\* the running one once it is past its allocation.
Granted == acked \cup (IF at \in HasAllocation THEN {cur} ELSE {})
Covered == \A g \in Grants : SUs(ProjectPackets(g) \cap Granted) <= Effective(g)

Asked(p) == IF Body[p].kind = "project" THEN "PI" ELSE Body[p].role

\* The reasons to give up other than the person's user row, for good once they hold.
Stuck(p) ==
    LET b == Body[p]
        u == EmailOf[b.person]
    IN \/ b.kind = "account" /\ ProjectPackets(b.grant) = {}
       \/ Asked(p) = "PI" /\ \E v \in Emails \ {u} : HasPI(b.grant, v)
       \/ Asked(p) # "PI" /\ HasPI(b.grant, u)
       \/ login[u] = 0 /\ FreeSuffixes(u) = {}

\* Why a call of the packet's handler fails, now and later.  A user row without
\* identity is such a reason unless its creator is about to add the identity.
Reason(p) ==
    \/ Stuck(p)
    \/ Orphaned(Body[p].person) /\ ~(at = "identity" /\ B.person = Body[p].person)

\* A packet one of whose calls failed still cannot get past that call.
TriesOf(p) ==
    /\ transient[p] <= attempts[p]
    /\ status[p] = "unknown" => attempts[p] = 0
    /\ status[p] = "pending" => attempts[p] < MaxAttempts
    /\ status[p] = "failed" => attempts[p] = MaxAttempts
    /\ status[p] # "unknown" /\ Body[p].kind = "account" =>
          ProjectPackets(Body[p].grant) = {} \/ ProjectPackets(Body[p].grant) \cap acked # {}
    /\ status[p] # "succeeded" /\ transient[p] < attempts[p] => Reason(p)
Tries == \A p \in Packets : TriesOf(p)

IInv == PType /\ Rows /\ Control /\ Covered /\ Tries /\ AckedIsProvisioned

-----------------------------------------------------------------------------
(* Lemmas about the operators. *)

\* What a workload says of its packets.
LEMMA BodyType ==
    ASSUME load \in Loads
    PROVE  /\ IsFiniteSet(Packets)
           /\ None \notin Packets
           /\ MaxCollisionSuffix \in Nat
           /\ \A p \in Packets : /\ Body[p].kind \in Kinds /\ Body[p].person \in Persons
                                 /\ Body[p].grant \in Grants /\ Body[p].su \in Nat
                                 /\ Body[p].role \in Roles \cup {"MEMBER"}
                                 /\ EmailOf[Body[p].person] \in Emails
<1>1. Body \in [Packets -> [kind : Kinds, person : Persons, grant : Grants,
                            su : Nat, role : Roles \cup {"MEMBER"}]]
  BY BodyAssumption, Zenon DEF Packets, Body
<1>2. \A g \in Persons : EmailOf[g] \in Emails
  BY Zenon DEF Emails
<1> QED
  BY <1>1, <1>2, BodyAssumption, Zenon DEF Packets, Body, MaxCollisionSuffix

\* A set of packets grants a number of SUs, and a larger set no fewer.
LEMMA UnitsFinite ==
    ASSUME load \in Loads, NEW P \in SUBSET Packets
    PROVE  IsFiniteSet(Units(P)) /\ SUs(P) \in Nat
<1> DEFINE unit(p) == {p} \X (1 .. Body[p].su)
           f == [p \in P |-> unit(p)]
           U == {unit(p) : p \in P}
<1>1. \A p \in P : IsFiniteSet(unit(p))
  <2> TAKE p \in P
  <2>1. Body[p].su \in Int /\ 1 \in Int
    BY BodyType
  <2>2. IsFiniteSet({p}) /\ IsFiniteSet(1 .. Body[p].su)
    BY <2>1, FS_Singleton, FS_Interval, Zenon
  <2> QED
    BY <2>2, FS_Product, ZenonT(30)
<1>2. IsFiniteSet(P)
  BY BodyType, FS_Subset, Zenon
<1>3. f \in Surjection(P, U)
  BY ZenonT(30) DEF Surjection
<1>4. IsFiniteSet(U)
  BY <1>2, <1>3, FS_Surjection, Zenon
<1>5. IsFiniteSet(UNION U)
  BY <1>1, <1>4, FS_UNION, ZenonT(30)
<1> QED
  BY <1>5, FS_CardinalityType, Zenon DEF Units, SUs

\* More packets grant no fewer SUs.
LEMMA SUsMonotone ==
    ASSUME load \in Loads, NEW Q \in SUBSET Packets, NEW P \in SUBSET Q
    PROVE  SUs(P) <= SUs(Q)
<1>1. Units(P) \subseteq Units(Q)
  BY Zenon DEF Units
<1> QED
  BY <1>1, UnitsFinite, FS_Subset, Zenon DEF SUs

\* One more packet grants its own SUs.
LEMMA SUsAdd ==
    ASSUME load \in Loads, NEW P \in SUBSET Packets, NEW p \in Packets
    PROVE  SUs(P \cup {p}) <= SUs(P) + Body[p].su
<1> DEFINE own == {p} \X (1 .. Body[p].su)
<1>1. Body[p].su \in Nat
  BY BodyType, Zenon
<1>2. IsFiniteSet(own) /\ Cardinality(own) = Body[p].su
  <2>1. Body[p].su \in Int /\ 1 \in Int
    BY <1>1
  <2>2. /\ IsFiniteSet(1 .. Body[p].su)
        /\ Cardinality(1 .. Body[p].su) = IF 1 > Body[p].su THEN 0 ELSE Body[p].su - 1 + 1
    BY <2>1, FS_Interval, Zenon
  <2>3. Cardinality(1 .. Body[p].su) = Body[p].su
    BY <1>1, <2>2
  <2>4. IsFiniteSet({p}) /\ Cardinality({p}) = 1
    BY FS_Singleton, Zenon
  <2>5. IsFiniteSet(own) /\ Cardinality(own) = Cardinality({p}) * Cardinality(1 .. Body[p].su)
    BY <2>2, <2>4, FS_Product, Zenon
  <2> QED
    BY <1>1, <2>3, <2>4, <2>5
<1>3. Units(P \cup {p}) = Units(P) \cup own
  BY Zenon DEF Units
<1>4. IsFiniteSet(Units(P)) /\ SUs(P) \in Nat
  BY UnitsFinite, Zenon
<1>5. Cardinality(Units(P) \cap own) \in Nat
  BY <1>2, FS_Intersection, FS_CardinalityType, ZenonT(30)
<1> HIDE DEF own
<1>6. Cardinality(Units(P) \cup own) = Cardinality(Units(P)) + Cardinality(own) - Cardinality(Units(P) \cap own)
  BY <1>2, <1>4, FS_Union, Zenon
<1>7. SUs(P \cup {p}) = SUs(P) + Body[p].su - Cardinality(Units(P) \cap own)
  BY <1>2, <1>3, <1>6, Zenon DEF SUs
<1> QED
  BY <1>1, <1>4, <1>5, <1>7

\* The smallest free suffix is one of the free ones.
LEMMA MinInSet ==
    ASSUME NEW T \in SUBSET Nat, T # {}
    PROVE  Min(T) \in T
<1>1. PICK x \in T : \A y \in T : ~(<<y, x>> \in OpToRel(<, Nat))
  BY NatLessThanWellFounded, WFMin, Zenon
<1>2. \A y \in T : ~(y < x)
  BY <1>1, ZenonT(30) DEF OpToRel
<1>3. \A y \in T : x <= y
  BY <1>2
<1> QED
  BY <1>3, ZenonT(30) DEF Min

\* The allocator of logins picks a number that no other user with the base has.
LEMMA AllocatorPicks ==
    ASSUME load \in Loads, NEW u \in Emails, FreeSuffixes(u) # {}
    PROVE  /\ Min(FreeSuffixes(u)) \in Nat \ {0}
           /\ \A v \in Emails \ {u} : BaseOf[v] = BaseOf[u] => login[v] # Min(FreeSuffixes(u))
<1>1. \A n \in FreeSuffixes(u) : /\ n \in Nat \ {0}
                                 /\ \A v \in Emails \ {u} : BaseOf[v] = BaseOf[u] => login[v] # n
  BY BodyType DEF FreeSuffixes
<1>2. Min(FreeSuffixes(u)) \in FreeSuffixes(u)
  BY <1>1, MinInSet, Zenon
<1> QED
  BY <1>1, <1>2, Zenon

\* What the constants are.
LEMMA Constants ==
    /\ None \notin Emails /\ None \notin Roles /\ None \notin Nat
    /\ MaxAttempts \in Nat \ {0}
    /\ \A g \in Persons : EmailOf[g] \in Emails
  BY BodyAssumption, Zenon DEF Emails

-----------------------------------------------------------------------------
(* Every call keeps IInv. *)

\* Nothing is delivered and every table is empty at the start.
LEMMA InitIInv == Init => IInv
<1> SUFFICES ASSUME Init PROVE IInv
  OBVIOUS
<1> USE DEF Init
<1>1. PType
  BY Constants, Zenon DEF PType, Steps
<1>2. Rows /\ Control
  BY Constants, Zenon DEF Rows, Control, HasPI, Roles
<1>3. Covered
  <2>1. SUs({}) = 0
    BY FS_EmptySet, ZenonT(30) DEF SUs, Units
  <2>2. Granted = {}
    BY Zenon DEF Granted, HasAllocation
  <2>3. \A g \in Grants : ProjectPackets(g) \cap Granted = {}
    BY <2>2, Zenon
  <2>4. \A g \in Grants : Effective(g) = 0
    BY Zenon DEF Effective
  <2>5. \A g \in Grants : SUs(ProjectPackets(g) \cap Granted) = 0
    BY <2>1, <2>3, Zenon
  <2>6. 0 <= 0
    OBVIOUS
  <2> QED
    BY <2>4, <2>5, <2>6, Zenon DEF Covered
<1>4. Tries
  BY Constants DEF Tries, TriesOf
<1>5. AckedIsProvisioned
  BY Zenon DEF AckedIsProvisioned
<1> QED
  BY <1>1, <1>2, <1>3, <1>4, <1>5, Zenon DEF IInv

\* Every call leaves the tables well formed.
LEMMA NextType == IInv /\ Next => PType'
<1> SUFFICES ASSUME IInv, Next PROVE PType'
  OBVIOUS
<1>1. load' = load /\ Packets' = Packets
  BY Zenon DEF Next, Packets, Body
<1>2. PType /\ Control /\ Rows
  BY Zenon DEF IInv
<1>3. cur # None => /\ cur \in Packets /\ B.person \in Persons /\ B.grant \in Grants /\ B.su \in Nat
                    /\ B.role \in Roles \cup {"MEMBER"} /\ EmailOf[B.person] \in Emails
                    /\ B.kind \in Kinds
  BY <1>2, BodyType, Zenon DEF B, PType
<1>4. cur # None /\ at \in KnowsUser => User \in Emails
  BY <1>2, <1>3, Zenon DEF Control, User, Rows
<1> USE <1>1, <1>2, Constants DEF PType, Steps, coreVars, loopVars
<1>5. ASSUME NEW p \in Packets, Issue(p) PROVE PType'
  BY <1>5, Zenon DEF Issue
<1>6. ASSUME NEW p \in Packets, Start(p) PROVE PType'
  BY <1>6, Zenon DEF Start
<1>7. CASE TransientFailure
  BY <1>7 DEF TransientFailure, EndInError
<1>8. CASE Crash
  BY <1>8, Zenon DEF Crash
<1>21. ASSUME cur # None, CallFails PROVE PType'
  BY <1>21 DEF CallFails, EndInError
<1>22. ASSUME NEW s \in Steps, GoTo(s), UNCHANGED coreVars PROVE PType'
  BY <1>22, Zenon DEF GoTo
<1>9. CASE EnsureUser
  <2>1. cur # None /\ AfterUser \in Steps
    BY <1>9, Zenon DEF EnsureUser, AfterUser, Control
  <2>2. ASSUME users' = users \cup {EmailOf[B.person]}, GoTo("identity"),
               UNCHANGED <<identity, login, piOf, initial, diffs, mapped, members, role>>
        PROVE  PType'
    BY <1>3, <2>1, <2>2, Zenon DEF GoTo
  <2> QED
    BY <1>9, <1>21, <1>22, <2>1, <2>2, Zenon DEF EnsureUser
<1>10. CASE CreateUserIdentity
  BY <1>3, <1>10, Zenon DEF CreateUserIdentity, GoTo, AfterUser, Control
<1>11. CASE LookupProject
  <2>1. cur # None
    BY <1>11, Zenon DEF LookupProject, Control
  <2> QED
    BY <1>11, <1>21, <1>22, <2>1, Zenon DEF LookupProject
<1>12. CASE EnsureClusterUser
  <2>1. cur # None /\ AfterLogin \in Steps /\ User \in Emails
    BY <1>4, <1>12, Zenon DEF EnsureClusterUser, AfterLogin, Control, KnowsUser
  <2>2. FreeSuffixes(User) # {} => Min(FreeSuffixes(User)) \in Nat
    BY <2>1, AllocatorPicks, Zenon
  <2>3. ASSUME FreeSuffixes(User) # {}, login' = [login EXCEPT ![User] = Min(FreeSuffixes(User))], GoTo(AfterLogin),
               UNCHANGED <<users, identity, piOf, initial, diffs, mapped, members, role>>
        PROVE  PType'
    BY <2>1, <2>2, <2>3, Zenon DEF GoTo
  <2> QED
    BY <1>12, <1>21, <1>22, <2>1, <2>3, Zenon DEF EnsureClusterUser
<1>13. CASE EnsureProject
  BY <1>3, <1>4, <1>13, Zenon DEF EnsureProject, GoTo, Control, KnowsUser
<1>14. CASE EnsureAllocation
  <2>1. initial' \in [Grants -> Nat \cup {None}]
    BY <1>3, <1>14, Zenon DEF EnsureAllocation, Control
  <2>2. diffs' \in [Grants -> Nat]
    BY <1>3, <1>14 DEF EnsureAllocation, RecordAllocationDiff, Control
  <2> QED
    BY <1>3, <1>14, <2>1, <2>2, Zenon DEF EnsureAllocation, GoTo, Control
<1>15. CASE EnsureResourceMappings
  BY <1>3, <1>4, <1>15, Zenon DEF EnsureResourceMappings, GoTo, Control, KnowsUser
<1>16. CASE EnsureMembership
  BY <1>3, <1>4, <1>16 DEF EnsureMembership, GoTo, Control, KnowsUser
<1>17. CASE EnsureProjectMembership
  <2>1. cur # None /\ cur \in Packets /\ User \in Emails /\ B.grant \in Grants
    BY <1>3, <1>4, <1>17, Zenon DEF EnsureProjectMembership, Control, KnowsUser
  <2>2. (IF AskedRole = "MEMBER" THEN None ELSE AskedRole) \in Roles \cup {None}
    BY <1>3, <2>1, Zenon DEF AskedRole, Roles
  <2>3. CASE CallFails
    BY <2>1, <2>3 DEF CallFails, EndInError
  <2>4. CASE ~CallFails
    <3>1. role' \in [Grants \X Emails -> Roles \cup {None}]
      BY <1>17, <2>1, <2>2, <2>4, SMTT(30), Zenon DEF EnsureProjectMembership
    <3> QED
      BY <1>17, <2>4, <3>1, Zenon DEF EnsureProjectMembership, GoTo
  <2> QED
    BY <2>3, <2>4, Zenon
<1>18. CASE Reply
  BY <1>3, <1>18, Zenon DEF Reply, Control
<1>19. CASE Commit
  BY <1>3, <1>19 DEF Commit, Control
<1>20. ASSUME NEW u \in Emails, CreateUser(u) PROVE PType'
  BY <1>20, Zenon DEF CreateUser
<1> QED
  BY <1>5, <1>6, <1>7, <1>8, <1>9, <1>10, <1>11, <1>12, <1>13, <1>14, <1>15, <1>16, <1>17, <1>18, <1>19, <1>20, ZenonT(30) DEF Next

\* What every step keeps: rows are added and never taken away, a login or a PI
\* never changes, a user without a free login gets none, and a person whose user
\* row has no identity gets one only from the call after the one that made the row.
Grows ==
    /\ load' = load
    /\ users \subseteq users' /\ mapped \subseteq mapped' /\ members \subseteq members' /\ acked \subseteq acked'
    /\ \A g \in Persons : /\ identity[g] # None => identity'[g] = identity[g]
                          /\ Orphaned(g) /\ ~(at = "identity" /\ B.person = g) => identity'[g] = None
    /\ \A u \in Emails : /\ login[u] # 0 => login'[u] = login[u]
                         /\ login[u] = 0 /\ FreeSuffixes(u) = {} => login'[u] = 0
    /\ \A g \in Grants : /\ piOf[g] # None => piOf'[g] # None
                         /\ initial[g] # None => initial'[g] # None
                         /\ \A u \in Emails : role[<<g, u>>] = "PI" => role'[<<g, u>>] = "PI"

\* No call of a handler undoes what another one did.
LEMMA NextGrows == IInv /\ Next => Grows
<1> SUFFICES ASSUME IInv, Next PROVE Grows
  OBVIOUS
<1>1. load' = load
  BY Zenon DEF Next
<1>2. PType /\ Control /\ Rows
  BY Zenon DEF IInv
<1>3. cur # None => /\ cur \in Packets /\ B.person \in Persons /\ B.grant \in Grants /\ B.su \in Nat
                    /\ EmailOf[B.person] \in Emails
  BY <1>2, BodyType, Zenon DEF B, PType
<1>4. cur # None /\ at \in KnowsUser => User \in Emails
  BY <1>2, <1>3, Zenon DEF Control, User, Rows
<1> USE <1>1, <1>2, Constants DEF Grows, coreVars, loopVars
<1>5. ASSUME UNCHANGED coreVars, acked' = acked PROVE Grows
  BY <1>5, Zenon DEF Orphaned
<1>6. ASSUME NEW p \in Packets, Issue(p) \/ Start(p) PROVE Grows
  BY <1>5, <1>6, Zenon DEF Issue, Start
<1>7. CASE TransientFailure \/ Crash \/ LookupProject \/ Commit
  BY <1>5, <1>7, Zenon DEF TransientFailure, Crash, LookupProject, Commit, CallFails, EndInError, GoTo
<1>9. CASE EnsureUser
  BY <1>5, <1>3, <1>9, Zenon DEF EnsureUser, CallFails, EndInError, GoTo, Orphaned
<1>10. CASE CreateUserIdentity
  BY <1>3, <1>10, Zenon DEF CreateUserIdentity, GoTo, Control, PType, Orphaned
<1>12. CASE EnsureClusterUser
  <2>1. CASE UNCHANGED coreVars
    BY <1>5, <1>12, <2>1, Zenon DEF EnsureClusterUser, CallFails, EndInError, GoTo
  <2>2. CASE login[User] = 0 /\ FreeSuffixes(User) # {} /\ login' = [login EXCEPT ![User] = Min(FreeSuffixes(User))]
    BY <1>4, <1>12, <2>2, Zenon DEF EnsureClusterUser, CallFails, EndInError, GoTo, Control, KnowsUser, PType, Orphaned
  <2> QED
    BY <1>12, <2>1, <2>2, Zenon DEF EnsureClusterUser, CallFails, EndInError, GoTo
<1>13. CASE EnsureProject
  BY <1>3, <1>4, <1>13, Zenon DEF EnsureProject, GoTo, Control, KnowsUser, PType, Orphaned
<1>14. CASE EnsureAllocation
  BY <1>3, <1>14, Zenon DEF EnsureAllocation, RecordAllocationDiff, GoTo, Control, PType, Orphaned
<1>15. CASE EnsureResourceMappings
  BY <1>15, Zenon DEF EnsureResourceMappings, GoTo, Orphaned
<1>16. CASE EnsureMembership
  BY <1>16, Zenon DEF EnsureMembership, GoTo, Orphaned
<1>17. CASE EnsureProjectMembership
  <2>1. CASE UNCHANGED coreVars
    BY <1>5, <1>17, <2>1, Zenon DEF EnsureProjectMembership, CallFails, EndInError, GoTo
  <2>2. CASE /\ AskedRole # "PI" => ~HasPI(B.grant, User)
             /\ role' = [role EXCEPT ![<<B.grant, User>>] = IF AskedRole = "MEMBER" THEN None ELSE AskedRole]
    BY <1>3, <1>4, <1>17, <2>2, Zenon DEF EnsureProjectMembership, CallFails, EndInError, GoTo, Control, KnowsUser, PType, Orphaned, HasPI
  <2> QED
    BY <1>17, <2>1, <2>2, Zenon DEF EnsureProjectMembership, CallFails, EndInError, GoTo
<1>18. CASE Reply
  BY <1>18, Zenon DEF Reply, Orphaned
<1>20. ASSUME NEW u \in Emails, CreateUser(u) PROVE Grows
  BY <1>20, Zenon DEF CreateUser, Orphaned
<1> QED
  BY <1>6, <1>7, <1>9, <1>10, <1>12, <1>13, <1>14, <1>15, <1>16, <1>17, <1>18, <1>20, ZenonT(30) DEF Next

\* Identities, logins and PIs stay what Rows says of them.
LEMMA NextRows == IInv /\ Next => Rows'
<1> SUFFICES ASSUME IInv, Next PROVE Rows'
  OBVIOUS
<1>1. PType /\ Control /\ Rows /\ Grows /\ PType'
  BY NextGrows, NextType, Zenon DEF IInv
<1>3. cur # None => /\ cur \in Packets /\ B.person \in Persons /\ B.grant \in Grants
                    /\ EmailOf[B.person] \in Emails
  BY <1>1, BodyType, Zenon DEF B, PType
<1>4. cur # None /\ at \in KnowsUser => User \in Emails
  BY <1>1, <1>3, SMTT(30), Zenon DEF Control, User, Rows
<1>5. \A g \in Persons : identity'[g] # None => identity'[g] = EmailOf[g] /\ EmailOf[g] \in users'
  <2>1. CASE identity' = identity
    BY <1>1, <2>1, Zenon DEF Rows, Grows
  <2>2. CASE at = "identity" /\ identity' = [identity EXCEPT ![B.person] = EmailOf[B.person]]
    <3>1. B.person \in Persons /\ EmailOf[B.person] \in users
      BY <1>1, <1>3, <2>2, Zenon DEF Control
    <3>2. \A g \in Persons : identity'[g] = IF g = B.person THEN EmailOf[g] ELSE identity[g]
      BY <1>1, <2>2, SMTT(30) DEF PType
    <3> QED
      BY <1>1, <3>1, <3>2, Zenon DEF Rows, Grows
  <2> QED
    BY <2>1, <2>2, ZenonT(30) DEF Next, Issue, Start, TransientFailure, Crash, EnsureUser, CreateUserIdentity, LookupProject,
        EnsureClusterUser, EnsureProject, EnsureAllocation, EnsureResourceMappings, EnsureMembership,
        EnsureProjectMembership, Reply, Commit, CreateUser, CallFails, EndInError, coreVars
<1>6. \A u, v \in Emails : login'[u] # 0 /\ login'[u] = login'[v] /\ BaseOf[u] = BaseOf[v] => u = v
  <2>1. CASE login' = login
    BY <1>1, <2>1, Zenon DEF Rows
  <2>2. CASE /\ at = "login" /\ FreeSuffixes(User) # {}
             /\ login' = [login EXCEPT ![User] = Min(FreeSuffixes(User))]
    <3> DEFINE n == Min(FreeSuffixes(User))
    <3>1. User \in Emails
      BY <1>1, <1>4, <2>2, Zenon DEF Control, KnowsUser
    <3>2. \A v \in Emails \ {User} : BaseOf[v] = BaseOf[User] => login[v] # n
      BY <1>1, <2>2, <3>1, AllocatorPicks, Zenon DEF PType
    <3> HIDE DEF n
    <3>3. login'[User] = n /\ \A v \in Emails \ {User} : login'[v] = login[v]
      BY <1>1, <2>2, <3>1, SMTT(30) DEF PType, n
    <3> QED
      BY <1>1, <3>2, <3>3, Zenon DEF Rows
  <2> QED
    BY <2>1, <2>2, ZenonT(30) DEF Next, Issue, Start, TransientFailure, Crash, EnsureUser, CreateUserIdentity, LookupProject,
        EnsureClusterUser, EnsureProject, EnsureAllocation, EnsureResourceMappings, EnsureMembership,
        EnsureProjectMembership, Reply, Commit, CreateUser, CallFails, EndInError, coreVars
<1>7. \A g \in Grants : \A u, v \in Emails : HasPI(g, u)' /\ HasPI(g, v)' => u = v
  <2>1. CASE role' = role
    BY <1>1, <2>1, Zenon DEF Rows, HasPI
  <2>2. CASE /\ at = "role"
             /\ AskedRole = "PI" => \A v \in Emails \ {User} : ~HasPI(B.grant, v)
             /\ role' = [role EXCEPT ![<<B.grant, User>>] = IF AskedRole = "MEMBER" THEN None ELSE AskedRole]
    <3>1. User \in Emails /\ B.grant \in Grants
      BY <1>1, <1>3, <1>4, <2>2, Zenon DEF Control, KnowsUser
    <3>2. \A g \in Grants, u \in Emails :
             HasPI(g, u)' => HasPI(g, u) \/ (g = B.grant /\ u = User /\ AskedRole = "PI")
      BY <1>1, <2>2, <3>1, Constants, ZenonT(30) DEF PType, HasPI, Roles
    <3> QED
      BY <1>1, <2>2, <3>1, <3>2 DEF Rows
  <2> QED
    BY <2>1, <2>2, ZenonT(30) DEF Next, Issue, Start, TransientFailure, Crash, EnsureUser, CreateUserIdentity, LookupProject,
        EnsureClusterUser, EnsureProject, EnsureAllocation, EnsureResourceMappings, EnsureMembership,
        EnsureProjectMembership, Reply, Commit, CreateUser, CallFails, EndInError, coreVars
<1> QED
  BY <1>5, <1>6, <1>7, Zenon DEF Rows

\* A handler has in place what its next call relies on, and keeps it: the other
\* calls only add rows.
LEMMA NextControl == IInv /\ Next => Control'
<1> SUFFICES ASSUME IInv, Next PROVE Control'
  OBVIOUS
<1>1. PType /\ Control /\ Rows /\ Grows /\ PType' /\ Rows'
  BY NextGrows, NextType, NextRows, Zenon DEF IInv
<1>2. load' = load /\ Body' = Body /\ Packets' = Packets
  BY <1>1, Zenon DEF Grows, Body, Packets
<1>3. cur # None => /\ cur \in Packets /\ B.person \in Persons /\ B.grant \in Grants /\ B.su \in Nat
                    /\ EmailOf[B.person] \in Emails /\ B.kind \in Kinds
  BY <1>1, BodyType, Zenon DEF B, PType
<1>4. cur # None /\ at \in KnowsUser => User \in Emails
  BY <1>1, <1>3, Zenon DEF Control, User, Rows
<1>5. None \notin Packets
  BY <1>1, BodyType, Zenon DEF PType
<1>6. CASE cur' = None /\ at' = "idle"
  BY <1>6, Zenon DEF Control
<1>7. ASSUME cur' = cur, cur # None PROVE B' = B /\ (identity[B.person] # None => User' = User)
  BY <1>1, <1>2, <1>3, <1>7, Zenon DEF B, User, Grows
<1>8. CASE UNCHANGED <<cur, at, identity>> /\ (cur # None => status'[cur] = status[cur])
  BY <1>1, <1>3, <1>4, <1>7, <1>8, ZenonT(30) DEF Control, Grows, KnowsUser, HasLogin, HasAllocation, HasPI
<1>9. ASSUME NEW p \in Packets, Issue(p) PROVE Control'
  <2>1. cur # None => p # cur
    BY <1>1, <1>9, Zenon DEF Issue, Control
  <2>2. cur # None => status'[cur] = status[cur]
    BY <1>1, <1>3, <1>9, <2>1, Zenon DEF Issue, PType
  <2> QED
    BY <1>8, <1>9, <2>2, ZenonT(30) DEF Issue, coreVars
<1>23. /\ identity \in [Persons -> Emails \cup {None}] /\ login \in [Emails -> Nat]
       /\ piOf \in [Grants -> Emails \cup {None}] /\ initial \in [Grants -> Nat \cup {None}]
       /\ role \in [Grants \X Emails -> Roles \cup {None}] /\ load \in Loads
  BY <1>1, Zenon DEF PType
<1>24. Control
  BY <1>1, Zenon
<1> USE <1>24 DEF coreVars
<1>10. ASSUME NEW p \in Packets, Start(p) PROVE Control'
  BY <1>5, <1>10, ZenonT(30) DEF Start, Control, KnowsUser, HasLogin, HasAllocation
<1>11. CASE TransientFailure \/ Crash \/ CallFails \/ Commit
  BY <1>6, <1>11, Zenon DEF TransientFailure, Crash, CallFails, Commit, EndInError
<1>12. CASE EnsureUser
  BY <1>3, <1>7, <1>11, <1>12, ZenonT(30) DEF EnsureUser, GoTo, AfterUser, Control, Kinds, KnowsUser, HasLogin, HasAllocation
<1>13. CASE CreateUserIdentity
  <2>1. identity'[B.person] # None
    BY <1>3, <1>13, <1>23, Constants, Zenon DEF CreateUserIdentity, Control
  <2> QED
    BY <1>3, <1>7, <1>13, <2>1, Zenon DEF CreateUserIdentity, GoTo, AfterUser, Control, Kinds, KnowsUser, HasLogin, HasAllocation
<1>14. CASE LookupProject
  BY <1>3, <1>7, <1>11, <1>14, Zenon DEF LookupProject, GoTo, Control, KnowsUser, HasLogin, HasAllocation
<1>15. CASE EnsureClusterUser
  <2>1. CASE login[User] # 0 /\ GoTo(AfterLogin) /\ UNCHANGED coreVars
    BY <1>3, <1>4, <1>7, <1>15, <2>1, ZenonT(30) DEF EnsureClusterUser, GoTo, AfterLogin, Control, KnowsUser, HasLogin, HasAllocation, Kinds
  <2>2. CASE FreeSuffixes(User) # {} /\ login' = [login EXCEPT ![User] = Min(FreeSuffixes(User))] /\ GoTo(AfterLogin)
    <3>1. login'[User] # 0
      <4>1. User \in Emails
        BY <1>4, <1>15, Constants, Zenon DEF EnsureClusterUser, Control, KnowsUser
      <4> QED
        BY <1>23, <2>2, <4>1, AllocatorPicks, Zenon
    <3> QED
      BY <1>3, <1>4, <1>7, <1>15, <2>2, <3>1, ZenonT(30) DEF EnsureClusterUser, GoTo, AfterLogin, Control, KnowsUser, HasLogin,
         HasAllocation, Kinds, Grows
  <2> QED
    BY <1>11, <1>15, <2>1, <2>2, Zenon DEF EnsureClusterUser
<1>16. CASE EnsureProject
  <2>1. piOf'[B.grant] # None
    BY <1>3, <1>4, <1>16, <1>23, Constants, Zenon DEF EnsureProject, Control, KnowsUser
  <2> QED
    BY <1>3, <1>4, <1>7, <1>16, <2>1, Zenon DEF EnsureProject, GoTo, Control, KnowsUser, HasLogin, HasAllocation
<1>17. CASE EnsureAllocation
  <2>1. initial'[B.grant] # None
    BY <1>3, <1>17, <1>23, Constants, Zenon DEF EnsureAllocation, Control
  <2> QED
    BY <1>3, <1>4, <1>7, <1>17, <2>1, ZenonT(30) DEF EnsureAllocation, GoTo, Control, KnowsUser, HasLogin, HasAllocation
<1>18. CASE EnsureResourceMappings
  BY <1>3, <1>4, <1>7, <1>18, Zenon DEF EnsureResourceMappings, GoTo, Control, KnowsUser, HasLogin, HasAllocation
<1>19. CASE EnsureMembership
  BY <1>3, <1>4, <1>7, <1>19, Zenon DEF EnsureMembership, GoTo, Control, KnowsUser, HasLogin, HasAllocation
<1>20. CASE EnsureProjectMembership
  <2>1. CASE /\ role' = [role EXCEPT ![<<B.grant, User>>] = IF AskedRole = "MEMBER" THEN None ELSE AskedRole]
             /\ GoTo("reply") /\ UNCHANGED <<users, identity, login, piOf, initial, diffs, mapped, members>>
    <3>1. B.kind = "project" => role'[<<B.grant, User>>] = "PI"
      BY <1>3, <1>4, <1>20, <1>23, <2>1, Zenon DEF EnsureProjectMembership, Control, KnowsUser, AskedRole
    <3> QED
      BY <1>3, <1>4, <1>7, <1>20, <2>1, <3>1, Zenon DEF EnsureProjectMembership, GoTo, Control, KnowsUser, HasLogin, HasAllocation, HasPI
  <2> QED
    BY <1>11, <1>20, <2>1, Zenon DEF EnsureProjectMembership
<1>21. CASE Reply
  BY <1>3, <1>4, <1>7, <1>21, Zenon DEF Reply, Control, KnowsUser, HasLogin, HasAllocation, HasPI
<1>22. ASSUME NEW u \in Emails, CreateUser(u) PROVE Control'
  BY <1>8, <1>22, Zenon DEF CreateUser, loopVars
<1> QED
  BY <1>9, <1>10, <1>11, <1>12, <1>13, <1>14, <1>15, <1>16, <1>17, <1>18, <1>19, <1>20, <1>21, <1>22, Zenon DEF Next

\* The SUs of a packet are in its allocation before its reply can be: the call that
\* creates or extends the allocation adds them, and nothing takes SUs away.
LEMMA NextCovered == IInv /\ Next => Covered'
<1> SUFFICES ASSUME IInv, Next PROVE Covered'
  OBVIOUS
<1>1. PType /\ Control /\ Covered /\ PType'
  BY NextType, Zenon DEF IInv
<1>2. load' = load /\ Body' = Body /\ Packets' = Packets
  BY Zenon DEF Next, Body, Packets
<1>3. cur # None => cur \in Packets /\ B.grant \in Grants /\ B.su \in Nat /\ B.kind \in Kinds
  BY <1>1, BodyType, Zenon DEF B, PType
<1> DEFINE paid(g) == ProjectPackets(g) \cap Granted
<1>4. \A g \in Grants : SUs(paid(g))' = SUs(paid(g)') /\ paid(g)' = ProjectPackets(g) \cap Granted'
  BY <1>2, SMTT(30) DEF SUs, Units, ProjectPackets
<1>5. Granted \subseteq Packets /\ Granted' \subseteq Packets
  BY <1>1, <1>2, NextControl, Zenon DEF Granted, PType, Control, HasAllocation
<1>6. ASSUME \A g \in Grants : paid(g)' \subseteq paid(g), UNCHANGED <<initial, diffs>>
      PROVE  Covered'
  <2> SUFFICES ASSUME NEW g \in Grants PROVE SUs(paid(g)') <= Effective(g)'
    BY <1>4, ZenonT(30) DEF Covered
  <2>1. SUs(paid(g)') <= SUs(paid(g)) /\ SUs(paid(g)) \in Nat /\ SUs(paid(g)') \in Nat
    BY <1>1, <1>5, <1>6, SUsMonotone, UnitsFinite, ZenonT(30) DEF PType, ProjectPackets
  <2>2. SUs(paid(g)) <= Effective(g) /\ Effective(g)' = Effective(g) /\ Effective(g) \in Nat
    <3>1. SUs(paid(g)) <= Effective(g) /\ Effective(g)' = Effective(g)
      BY <1>1, <1>6, Zenon DEF Covered, Effective
    <3>2. Effective(g) \in Nat
      BY <1>1, Constants DEF Effective, PType
    <3> QED
      BY <3>1, <3>2, Zenon
  <2> QED
    BY <2>1, <2>2
<1>7. ASSUME UNCHANGED <<initial, diffs, acked>>, at' \in HasAllocation => at \in HasAllocation /\ cur' = cur
      PROVE  Covered'
  <2>1. Granted' \subseteq Granted
    BY <1>7, Zenon DEF Granted
  <2> QED
    BY <1>4, <1>6, <1>7, <2>1, ZenonT(30)
<1> USE DEF coreVars, loopVars, HasAllocation
<1>8. ASSUME NEW p \in Packets, Issue(p) \/ Start(p) PROVE Covered'
  BY <1>7, <1>8, ZenonT(30) DEF Issue, Start
<1>9. CASE TransientFailure \/ Crash \/ CallFails \/ Commit
  BY <1>7, <1>9, Zenon DEF TransientFailure, Crash, CallFails, Commit, EndInError
<1>10. CASE EnsureUser \/ CreateUserIdentity \/ LookupProject
  BY <1>7, <1>9, <1>10, Zenon DEF EnsureUser, CreateUserIdentity, LookupProject, GoTo, AfterUser
<1>11. CASE EnsureClusterUser
  <2>1. CASE CallFails
    BY <1>9, <2>1, Zenon
  <2>2. CASE GoTo(AfterLogin) /\ UNCHANGED <<initial, diffs>>
    <3>1. CASE B.kind = "project"
      BY <1>7, <2>2, <3>1, Zenon DEF GoTo, AfterLogin
    <3>2. CASE B.kind # "project"
      <4>1. \A g \in Grants : cur \notin ProjectPackets(g)
        BY <3>2, Zenon DEF ProjectPackets, B
      <4>2. Granted' \subseteq Granted \cup {cur}
        BY <2>2, Zenon DEF Granted, GoTo
      <4> QED
        BY <1>4, <1>6, <2>2, <4>1, <4>2, ZenonT(30)
    <3> QED
      BY <3>1, <3>2, Zenon
  <2> QED
    BY <1>11, <2>1, <2>2, Zenon DEF EnsureClusterUser
<1>12. CASE EnsureProject \/ EnsureResourceMappings \/ EnsureMembership
  BY <1>7, <1>12, Zenon DEF EnsureProject, EnsureResourceMappings, EnsureMembership, GoTo
<1>13. CASE EnsureAllocation
  <2>1. cur \in Packets /\ B.grant \in Grants /\ B.su \in Nat
    BY <1>1, <1>3, <1>13, Zenon DEF EnsureAllocation, Control
  <2>2. Granted = acked /\ Granted' = acked \cup {cur}
    BY <1>13, SMTT(30) DEF EnsureAllocation, GoTo, Granted
  <2> SUFFICES ASSUME NEW g \in Grants PROVE SUs(paid(g)') <= Effective(g)'
    BY <1>4, ZenonT(30) DEF Covered
  <2>3. SUs(paid(g)) <= Effective(g) /\ SUs(paid(g)) \in Nat /\ Effective(g) \in Nat
    <3>1. SUs(paid(g)) <= Effective(g)
      BY <1>1, Zenon DEF Covered
    <3>2. SUs(paid(g)) \in Nat
      BY <1>1, <1>5, UnitsFinite, Zenon DEF PType, ProjectPackets
    <3>3. Effective(g) \in Nat
      BY <1>1, Constants DEF Effective, PType
    <3> QED
      BY <3>1, <3>2, <3>3, Zenon
  <2>4. CASE g # B.grant
    <3>1. Effective(g)' = Effective(g)
      BY <1>1, <1>13, <2>1, <2>4, ZenonT(40) DEF EnsureAllocation, RecordAllocationDiff, Effective, PType
    <3>2. paid(g)' = paid(g)
      BY <1>4, <2>2, <2>4, ZenonT(30) DEF ProjectPackets, B
    <3> HIDE DEF paid
    <3> QED
      BY <2>3, <3>1, <3>2, SMTT(30)
  <2>5. CASE g = B.grant
    <3>1. SUs(paid(g) \cup {cur}) <= SUs(paid(g)) + B.su /\ SUs(paid(g) \cup {cur}) \in Nat
      BY <1>1, <1>5, <2>1, SUsAdd, UnitsFinite, ZenonT(30) DEF PType, B
    <3>2. SUs(paid(g)') <= SUs(paid(g) \cup {cur}) /\ SUs(paid(g)') \in Nat
      BY <1>1, <1>4, <1>5, <2>1, <2>2, SUsMonotone, UnitsFinite, ZenonT(30) DEF PType
    <3>3. CASE initial[g] = None
      <4>1. Effective(g)' = B.su + diffs[g] /\ Effective(g) = 0 /\ diffs[g] \in Nat
        <5>1. initial' = [initial EXCEPT ![g] = B.su] /\ diffs' = diffs
          BY <1>13, <2>5, <3>3, Zenon DEF EnsureAllocation
        <5>2. initial'[g] = B.su /\ B.su # None /\ diffs[g] \in Nat
          BY <1>1, <2>1, <5>1, Constants, Zenon DEF PType
        <5> QED
          BY <3>3, <5>1, <5>2, Zenon DEF Effective
      <4> QED
        BY <2>1, <2>3, <3>1, <3>2, <4>1
    <3>4. CASE initial[g] # None
      <4>1. Effective(g)' = Effective(g) + B.su
        BY <1>1, <1>13, <2>1, <2>5, <3>4 DEF EnsureAllocation, RecordAllocationDiff, Effective, PType
      <4> QED
        BY <2>1, <2>3, <3>1, <3>2, <4>1
    <3> QED
      BY <3>3, <3>4, Zenon
  <2> QED
    BY <2>4, <2>5, Zenon
<1>14. CASE EnsureProjectMembership
  BY <1>7, <1>9, <1>14, Zenon DEF EnsureProjectMembership, GoTo
<1>15. CASE Reply
  <2>1. Granted' = Granted
    BY <1>15, Zenon DEF Reply, Granted
  <2> QED
    BY <1>4, <1>6, <1>15, <2>1, ZenonT(30) DEF Reply
<1>16. ASSUME NEW u \in Emails, CreateUser(u) PROVE Covered'
  BY <1>7, <1>16, Zenon DEF CreateUser
<1> QED
  BY <1>8, <1>9, <1>10, <1>11, <1>12, <1>13, <1>14, <1>15, <1>16, Zenon DEF Next

\* What a reply told AMIE is there stays: the handler had it in place when it replied,
\* and no later call takes it away or gives a second user the login or the PI role.
LEMMA NextAcked == IInv /\ Next => AckedIsProvisioned'
<1> SUFFICES ASSUME IInv, Next PROVE AckedIsProvisioned'
  OBVIOUS
<1>1. PType /\ Control /\ Rows /\ AckedIsProvisioned /\ Grows /\ PType' /\ Rows'
  BY NextGrows, NextType, NextRows, Zenon DEF IInv
<1>2. Body' = Body /\ Packets' = Packets
  BY <1>1, Zenon DEF Grows, Body, Packets
<1> SUFFICES ASSUME NEW p \in acked' PROVE
      /\ identity'[Body[p].person] \in users'
      /\ login'[identity'[Body[p].person]] # 0
      /\ \A v \in Emails \ {identity'[Body[p].person]} :
            login'[v] = login'[identity'[Body[p].person]] => BaseOf[v] # BaseOf[identity'[Body[p].person]]
      /\ <<Body[p].grant, identity'[Body[p].person]>> \in members'
      /\ piOf'[Body[p].grant] # None /\ initial'[Body[p].grant] # None
      /\ Body[p].kind = "project" =>
            Body[p].grant \in mapped' /\ {v \in Emails : role'[Body[p].grant, v] = "PI"} = {identity'[Body[p].person]}
  BY <1>2, Zenon DEF AckedIsProvisioned, HasPI
<1> DEFINE g == Body[p].grant
           u == identity[Body[p].person]
<1>3. p \in Packets /\ g \in Grants /\ Body[p].person \in Persons
  BY <1>1, <1>2, BodyType, Zenon DEF PType
<1>4. p \in acked \/ (at = "reply" /\ p = cur)
  <2>1. acked' = acked \/ Reply
    BY ZenonT(30) DEF Next, Issue, Start, TransientFailure, Crash, EnsureUser, CreateUserIdentity, LookupProject,
        EnsureClusterUser, EnsureProject, EnsureAllocation, EnsureResourceMappings, EnsureMembership,
        EnsureProjectMembership, Commit, CreateUser, CallFails, EndInError, GoTo, loopVars
  <2> QED
    BY <2>1, SMTT(30) DEF Reply
<1>5. /\ u # None /\ login[u] # 0
      /\ <<g, u>> \in members
      /\ piOf[g] # None /\ initial[g] # None
      /\ Body[p].kind = "project" => g \in mapped /\ HasPI(g, u)
  <2>1. CASE p \in acked
    BY <1>1, <1>3, <2>1, Constants, ZenonT(30) DEF AckedIsProvisioned, PType
  <2>2. CASE at = "reply" /\ p = cur
    BY <1>1, <1>3, <2>2, ZenonT(30) DEF Control, KnowsUser, HasLogin, HasAllocation, User, B
  <2> QED
    BY <1>4, <2>1, <2>2, ZenonT(30)
<1>6. identity'[Body[p].person] = u /\ u \in users /\ u \in Emails
  BY <1>1, <1>3, <1>5, Zenon DEF Grows, Rows, PType
<1> HIDE DEF g, u
<1>7. login'[u] # 0 /\ \A v \in Emails \ {u} : login'[v] = login'[u] => BaseOf[v] # BaseOf[u]
  BY <1>1, <1>5, <1>6, Zenon DEF Grows, Rows
<1>8. Body[p].kind = "project" => g \in mapped' /\ {v \in Emails : role'[<<g, v>>] = "PI"} = {u}
  <2> SUFFICES ASSUME Body[p].kind = "project" PROVE g \in mapped' /\ {v \in Emails : role'[<<g, v>>] = "PI"} = {u}
    OBVIOUS
  <2>1. g \in Grants
    BY <1>3, Zenon DEF g
  <2>2. g \in mapped' /\ role'[<<g, u>>] = "PI"
    BY <1>1, <1>5, <1>6, <2>1, Zenon DEF Grows, HasPI
  <2>3. \A v \in Emails : role'[<<g, v>>] = "PI" => v = u
    BY <1>1, <1>6, <2>1, <2>2, Zenon DEF Rows, HasPI
  <2> QED
    BY <1>6, <2>2, <2>3, Zenon
<1> QED
  BY <1>1, <1>3, <1>5, <1>6, <1>7, <1>8, Zenon DEF Grows, g

=============================================================================
