-------------------------- MODULE AmieHandlersProofs --------------------------
(***************************************************************************)
(* What the AMIE handlers guarantee, proved for every set of packets,      *)
(* people, grants and allocations, every number of attempts and any number *)
(* of crashes and failures.                                                *)
(*                                                                         *)
(* The handlers that take things out of service and back: the inductive    *)
(* invariant is SInv.  What an attempt has gone through is in place        *)
(* (Progress), and what any attempt has written is among what every later  *)
(* attempt lists (Written).                                                *)
(*                                                                         *)
(* The handlers that create things: IInv of AmieProvisioningProofs is      *)
(* inductive because what made a call fail stays true; a packet that is    *)
(* given up therefore has a reason no retry cures.                         *)
(***************************************************************************)
EXTENDS AmieHandlers, AmieProvisioningProofs

-----------------------------------------------------------------------------
(* Out of service and back. *)

\* What the running handler sets, on whose memberships, and whether on the project too.
Goal == S!Target(handling)
Aimed == S!Chosen(handling)
Whole == S!Handle(handling).whole

Rest == {"next", "diff", "members", "member"}
Inner == {"diff", "members", "member"}
Working == {"project", "list"} \cup Rest
Statuses == {"ACTIVE", "INACTIVE"}

SType ==
    /\ tour \in StatusLoads
    /\ project \in Statuses
    /\ alloc \in [Allocs -> Statuses]
    /\ member \in [Allocs \X Users -> Statuses \cup {"none"}]
    /\ event \in [S!Packets -> {"NEW", "RETRY_SCHEDULED", "SUCCEEDED", "PERMANENTLY_FAILED"}]
    /\ handling \in S!Packets \cup {0}
    /\ pc \in Working \cup {"idle", "reply"}
    /\ handling = 0 <=> pc = "idle"
    /\ allocsLeft \subseteq Allocs /\ inside \in Allocs \cup {"none"} /\ usersLeft \subseteq Users
    /\ log \subseteq Allocs \X Users
    /\ touched \in [S!Packets -> SUBSET (Allocs \X Users)]

\* Where the handler is, and which of its lists are open there.
Where ==
    /\ pc \in Inner <=> inside # "none"
    /\ pc \notin Rest => allocsLeft = {}
    /\ pc # "member" => usersLeft = {}
    /\ pc # "idle" => event[handling] # "SUCCEEDED"
    /\ pc \in Working => S!Body[handling].known
    /\ pc = "reply" => ~S!Body[handling].known
    /\ inside \notin allocsLeft

\* The memberships U of an allocation are as the packet asks, and every one that any
\* attempt of it has written has an audit row in the open transaction.
MembersDone(a, U) ==
    /\ S!Joins = {} => \A u \in Aimed \cap U : member[<<a, u>>] \in {"none", Goal}
    /\ \A u \in U : <<a, u>> \in touched[handling] => <<a, u>> \in log

\* What this attempt has put in place so far: everything outside the lists.
Progress ==
    /\ pc \in {"list"} \cup Rest /\ Whole => project = Goal
    /\ pc \in Rest =>
          \A a \in Allocs \ (allocsLeft \cup {inside}) : (Whole => alloc[a] = Goal) /\ MembersDone(a, Users)
    /\ pc \in Inner /\ Whole => alloc[inside] = Goal
    /\ pc = "member" => usersLeft \subseteq Aimed /\ MembersDone(inside, Users \ usersLeft)

\* What attempts have written, the earlier ones included, are rows the packet is about.
Written ==
    \A p \in S!Packets :
        /\ ~S!Body[p].known => touched[p] = {}
        /\ \A a \in Allocs, u \in Users : <<a, u>> \in touched[p] => u \in S!Chosen(p) /\ member[<<a, u>>] # "none"

SInv == SType /\ Where /\ Progress /\ Written

\* What a packet's body makes its handler do.
LEMMA HandleType ==
    ASSUME tour \in StatusLoads, NEW p \in S!Packets
    PROVE  /\ p \in Nat \ {0} /\ S!Body[p].known \in BOOLEAN
           /\ S!Target(p) \in Statuses /\ S!Chosen(p) \subseteq Users
<1>1. /\ p \in Nat \ {0} /\ S!Body[p].known \in BOOLEAN
      /\ S!Body[p].kind \in {"project_inactivate", "project_reactivate", "account_inactivate", "account_reactivate"}
      /\ S!Body[p].kind \in {"account_inactivate", "account_reactivate"} => S!Body[p].person \in Users
  BY StatusAssumption, Zenon DEF S!Packets, S!Body
<1> QED
  BY <1>1, StatusAssumption DEF S!Target, S!Handle, S!Chosen, Statuses, S!request_project_inactivate,
     S!request_project_reactivate, S!request_account_inactivate, S!request_account_reactivate,
     S!deactivateAllocations, S!reactivateAllocationsAndPI, S!flipUserMemberships

\* No handler is running at the start.
LEMMA InitSInv == S!Init => SInv
<1> SUFFICES ASSUME S!Init PROVE SInv
  OBVIOUS
<1> USE DEF S!Init, S!NoRow, S!Pairs, Statuses, Working, Rest, Inner
<1>1. SType
  <2>1. 0 \notin S!Packets
    BY HandleType, Zenon
  <2> QED
    BY <2>1, Zenon DEF SType
<1>2. Where /\ Progress /\ Written
  BY Zenon DEF Where, Progress, Written
<1> QED
  BY <1>1, <1>2, Zenon DEF SInv

\* Every call of a status handler keeps SInv: a retry starts its lists again, and
\* lists every membership an earlier attempt has written.
LEMMA NextSInv == SInv /\ S!Next => SInv'
<1> SUFFICES ASSUME SInv, S!Next PROVE SInv'
  OBVIOUS
<1>1. SType /\ Where /\ Progress /\ Written
  BY Zenon DEF SInv
<1>2. /\ tour' = tour /\ S!Body' = S!Body /\ S!Packets' = S!Packets /\ S!Joins' = S!Joins
      /\ \A p : S!Chosen(p)' = S!Chosen(p)
  BY Zenon DEF S!Next, S!Body, S!Packets, S!Joins, S!Chosen
<1>3. handling' = handling => Goal' = Goal /\ Aimed' = Aimed /\ Whole' = Whole
  BY <1>2, Zenon DEF Goal, Aimed, Whole, S!Target, S!Handle, S!Chosen
<1>4. handling \in S!Packets => Goal \in Statuses /\ Aimed \subseteq Users /\ Aimed = S!Chosen(handling)
  BY <1>1, HandleType, Zenon DEF SType, Goal, Aimed
<1>5. /\ 0 \notin S!Packets /\ "none" \notin Allocs
      /\ \A p \in S!Packets : S!Body[p].known \in BOOLEAN
  BY <1>1, HandleType, StatusAssumption, Zenon DEF SType
<1> USE <1>1, <1>2 DEF S!core, S!lists, S!NoRow, Rest, Inner, Working
<1>6. ASSUME NEW p \in S!Packets, S!Begin(p) PROVE SInv'
  <2>1. SType'
    BY <1>5, <1>6, Zenon DEF S!Begin, SType
  <2>2. Where'
    BY <1>5, <1>6, Zenon DEF S!Begin, SType, Where
  <2>3. Progress' /\ Written'
    BY <1>6, Zenon DEF S!Begin, Progress, Written
  <2> QED
    BY <2>1, <2>2, <2>3, Zenon DEF SInv
<1>7. CASE S!UpdateProjectStatus
  <2>1. handling \in S!Packets /\ handling' = handling
    BY <1>7, Zenon DEF S!UpdateProjectStatus, SType
  <2>2. project' = IF Whole THEN Goal ELSE project
    BY <1>7, Zenon DEF S!UpdateProjectStatus, Whole, Goal
  <2>3. SType' /\ Where'
    BY <1>4, <1>7, <2>1, <2>2, Zenon DEF S!UpdateProjectStatus, SType, Where
  <2>4. Progress' /\ Written'
    BY <1>3, <1>7, <2>1, <2>2 DEF S!UpdateProjectStatus, Progress, Written
  <2> QED
    BY <2>3, <2>4, Zenon DEF SInv
<1>8. CASE S!ListComputeAllocationsByProject
  <2>1. handling \in S!Packets /\ handling' = handling
    BY <1>8, Zenon DEF S!ListComputeAllocationsByProject, SType
  <2>2. SType' /\ Where'
    BY <1>5, <1>8, <2>1, Zenon DEF S!ListComputeAllocationsByProject, SType, Where
  <2>3. Progress' /\ Written'
    BY <1>3, <1>8, <2>1 DEF S!ListComputeAllocationsByProject, Progress, Written
  <2> QED
    BY <2>2, <2>3, Zenon DEF SInv
<1>9. ASSUME NEW a \in Allocs, S!FlipAllocation(a) PROVE SInv'
  <2>1. handling \in S!Packets /\ handling' = handling
    BY <1>9, Zenon DEF S!FlipAllocation, SType
  <2>2. IF Whole THEN alloc' = [alloc EXCEPT ![a] = Goal] /\ pc' = "diff" ELSE alloc' = alloc /\ pc' = "members"
    BY <1>9, Zenon DEF S!FlipAllocation, Whole, Goal
  <2>3. SType'
    BY <1>4, <1>9, <2>1, <2>2, Zenon DEF S!FlipAllocation, SType
  <2>4. Where'
    BY <1>5, <1>9, <2>1, <2>2, Zenon DEF S!FlipAllocation, SType, Where
  <2>5. inside = "none" /\ inside' = a /\ allocsLeft' = allocsLeft \ {a} /\ a \in allocsLeft
    BY <1>9, Zenon DEF S!FlipAllocation, Where
  <2>6. \A b \in Allocs, U \in SUBSET Users : MembersDone(b, U) => MembersDone(b, U)'
    BY <1>3, <1>9, <2>1, Zenon DEF S!FlipAllocation, MembersDone
  <2>7. Progress'
    <3>1. pc = "next" /\ project' = project /\ pc' \in {"diff", "members"}
      BY <1>9, <2>2, Zenon DEF S!FlipAllocation
    <3>2. Whole => alloc'[a] = Goal /\ \A b \in Allocs \ {a} : alloc'[b] = alloc[b]
      BY <2>2, Zenon DEF SType
    <3>3. \A b \in Allocs \ (allocsLeft' \cup {inside'}) : (Whole => alloc'[b] = Goal) /\ MembersDone(b, Users)'
      BY <1>5, <2>2, <2>5, <2>6, <3>1, <3>2, Zenon DEF Progress
    <3> QED
      BY <1>3, <2>1, <2>5, <3>1, <3>2, <3>3 DEF Progress
  <2>8. Written'
    BY <1>9, Zenon DEF S!FlipAllocation, Written
  <2> QED
    BY <2>3, <2>4, <2>7, <2>8, Zenon DEF SInv
<1>10. CASE S!CreateComputeAllocationDiff
  <2>1. handling \in S!Packets /\ handling' = handling
    BY <1>10, Zenon DEF S!CreateComputeAllocationDiff, SType
  <2>2. SType' /\ Where'
    BY <1>10, <2>1, Zenon DEF S!CreateComputeAllocationDiff, SType, Where
  <2>3. \A b \in Allocs, U \in SUBSET Users : MembersDone(b, U) => MembersDone(b, U)'
    BY <1>3, <1>10, <2>1, Zenon DEF S!CreateComputeAllocationDiff, MembersDone
  <2>4. Progress' /\ Written'
    <3>1. \A b \in Allocs : MembersDone(b, Users) => MembersDone(b, Users)'
      BY <2>3, Zenon
    <3>2. pc = "diff" /\ pc' = "members" /\ UNCHANGED <<project, alloc, member, touched, allocsLeft, inside>>
      BY <1>10, Zenon DEF S!CreateComputeAllocationDiff, S!lists
    <3>3. Progress'
      BY <1>3, <2>1, <3>1, <3>2 DEF Progress
    <3>4. Written'
      BY <3>2, Zenon DEF Written
    <3> QED
      BY <3>3, <3>4, Zenon
  <2> QED
    BY <2>2, <2>4, Zenon DEF SInv
<1>11. CASE S!ListMembersForAllocation
  <2>1. handling \in S!Packets /\ handling' = handling /\ inside \in Allocs
    BY <1>11, Zenon DEF S!ListMembersForAllocation, SType, Where
  <2>2. usersLeft' = {u \in Aimed : member[<<inside, u>>] # "none"}
    BY <1>11, Zenon DEF S!ListMembersForAllocation, Aimed
  <2>3. SType' /\ Where'
    BY <1>4, <1>11, <2>1, <2>2, Zenon DEF S!ListMembersForAllocation, SType, Where
  <2>4. \A b \in Allocs, U \in SUBSET Users : MembersDone(b, U) => MembersDone(b, U)'
    BY <1>3, <1>11, <2>1, Zenon DEF S!ListMembersForAllocation, MembersDone
  <2>5. MembersDone(inside, Users \ usersLeft)'
    <3>1. \A u \in Users \ usersLeft' : u \in Aimed => member[<<inside, u>>] = "none"
      BY <2>2, Zenon
    <3>2. \A u \in Users \ usersLeft' : <<inside, u>> \notin touched[handling]
      BY <1>4, <2>1, <3>1, Zenon DEF Written
    <3> QED
      BY <1>3, <1>11, <2>1, <3>1, <3>2, Zenon DEF S!ListMembersForAllocation, MembersDone
  <2>6. Progress'
    <3>1. /\ pc = "members" /\ pc' = "member" /\ UNCHANGED <<project, alloc, allocsLeft, inside>>
          /\ usersLeft' \subseteq Aimed
      BY <1>11, <2>2, Zenon DEF S!ListMembersForAllocation
    <3>2. \A a \in Allocs \ (allocsLeft \cup {inside}) : (Whole => alloc[a] = Goal) /\ MembersDone(a, Users)'
      BY <2>4, <3>1, Zenon DEF Progress
    <3> QED
      BY <1>3, <2>1, <2>5, <3>1, <3>2 DEF Progress
  <2>7. Written'
    BY <1>11, Zenon DEF S!ListMembersForAllocation, Written
  <2> QED
    BY <2>3, <2>6, <2>7, Zenon DEF SInv
<1>12. ASSUME NEW u \in Users, S!FlipMembership(u) PROVE SInv'
  <2>1. handling \in S!Packets /\ handling' = handling /\ inside \in Allocs /\ inside' = inside /\ u \in Aimed
        /\ pc = "member" /\ pc' = "member"
    BY <1>12, Zenon DEF S!FlipMembership, SType, Where, Progress
  <2>2. member' = [member EXCEPT ![<<inside, u>>] = Goal]
    BY <1>12, Zenon DEF S!FlipMembership, Goal
  <2>3. SType' /\ Where'
    <3>1. touched' \in [S!Packets -> SUBSET (Allocs \X Users)]
      BY <1>12, <2>1, Zenon DEF S!FlipMembership, SType
    <3>2. member' \in [Allocs \X Users -> Statuses \cup {"none"}]
      BY <1>4, <2>1, <2>2, Zenon DEF SType
    <3> QED
      BY <1>12, <2>1, <3>1, <3>2 DEF S!FlipMembership, SType, Where
  <2>4. \A b \in Allocs, v \in Users : member'[<<b, v>>] = IF b = inside /\ v = u THEN Goal ELSE member[<<b, v>>]
    BY <2>1, <2>2, Zenon DEF SType
  <2>5. \A b \in Allocs, v \in Users :
           /\ <<b, v>> \in log' <=> <<b, v>> \in log \/ (b = inside /\ v = u)
           /\ <<b, v>> \in touched'[handling] <=> <<b, v>> \in touched[handling] \/ (b = inside /\ v = u)
           /\ \A p \in S!Packets \ {handling} : touched'[p] = touched[p]
    BY <1>12, <2>1, Zenon DEF S!FlipMembership, SType
  <2>6. \A b \in Allocs, U \in SUBSET Users : MembersDone(b, U) => MembersDone(b, U)'
    BY <1>3, <1>4, <2>1, <2>4, <2>5, Zenon DEF MembersDone
  <2>7. MembersDone(inside, Users \ usersLeft)'
    BY <1>3, <1>4, <1>12, <2>1, <2>4, <2>5 DEF S!FlipMembership, MembersDone, Progress
  <2>8. Progress'
    <3>1. usersLeft' \subseteq usersLeft /\ UNCHANGED <<project, alloc, allocsLeft>>
      BY <1>12, Zenon DEF S!FlipMembership
    <3>2. \A b \in Allocs : MembersDone(b, Users) => MembersDone(b, Users)'
      BY <2>6, Zenon
    <3> QED
      BY <1>3, <2>1, <2>7, <3>1, <3>2 DEF Progress
  <2>9. Written'
    <3>1. S!Body[handling].known /\ Goal # "none"
      BY <1>4, <2>1, Zenon DEF Where, Statuses
    <3>2. \A p \in S!Packets : ~S!Body[p].known => touched'[p] = {}
      BY <2>1, <2>5, <3>1, ZenonT(30) DEF Written
    <3>3. \A p \in S!Packets : \A a \in Allocs, v \in Users :
             <<a, v>> \in touched'[p] => <<a, v>> \in touched[p] \/ (p = handling /\ a = inside /\ v = u)
      BY <2>1, <2>5
    <3>4. \A p \in S!Packets : \A a \in Allocs, v \in Users :
             <<a, v>> \in touched'[p] => v \in S!Chosen(p) /\ member'[<<a, v>>] # "none"
      <4>1. ASSUME NEW p \in S!Packets, NEW a \in Allocs, NEW v \in Users, <<a, v>> \in touched[p]
            PROVE  v \in S!Chosen(p) /\ member'[<<a, v>>] # "none"
        BY <2>4, <3>1, <4>1, Zenon DEF Written
      <4>2. u \in S!Chosen(handling) /\ member'[<<inside, u>>] # "none"
        BY <1>4, <2>1, <2>4, <3>1, Zenon
      <4> QED
        BY <3>3, <4>1, <4>2, Zenon
    <3> QED
      BY <3>2, <3>4, Zenon DEF Written
  <2> QED
    BY <2>3, <2>8, <2>9, Zenon DEF SInv
<1>13. CASE S!NextAllocation
  <2>1. handling \in S!Packets /\ handling' = handling /\ inside \in Allocs /\ inside' = "none"
    BY <1>13, Zenon DEF S!NextAllocation, SType, Where
  <2>2. SType' /\ Where'
    BY <1>5, <1>13, <2>1, ZenonT(40) DEF S!NextAllocation, SType, Where
  <2>3. \A b \in Allocs, U \in SUBSET Users : MembersDone(b, U) => MembersDone(b, U)'
    BY <1>3, <1>13, <2>1, Zenon DEF S!NextAllocation, MembersDone
  <2>4. Progress'
    <3>1. Users \ usersLeft = Users
      BY <1>13, Zenon DEF S!NextAllocation
    <3>2. \A a \in Allocs \ allocsLeft : (Whole => alloc[a] = Goal) /\ MembersDone(a, Users)
      BY <1>13, <2>1, <3>1, Zenon DEF S!NextAllocation, Progress
    <3> QED
      <4>1. \A b \in Allocs : MembersDone(b, Users) => MembersDone(b, Users)'
        BY <2>3, Zenon
      <4>2. pc = "member" /\ pc' = "next" /\ UNCHANGED <<project, alloc, allocsLeft>>
        BY <1>13, Zenon DEF S!NextAllocation, S!core
      <4> QED
        BY <1>3, <2>1, <3>2, <4>1, <4>2 DEF Progress
  <2>5. Written'
    BY <1>13, Zenon DEF S!NextAllocation, Written
  <2> QED
    BY <2>2, <2>4, <2>5, Zenon DEF SInv
<1>14. CASE S!Reply
  <2>1. SType'
    BY <1>5, <1>14, Zenon DEF S!Reply, SType
  <2>2. Where'
    BY <1>5, <1>14, Zenon DEF S!Reply, Where
  <2>3. Progress'
    BY <1>5, <1>14, Zenon DEF S!Reply, Progress
  <2>4. Written'
    BY <1>5, <1>14, ZenonT(30) DEF S!Reply, Written
  <2> QED
    BY <2>1, <2>2, <2>3, <2>4, Zenon DEF SInv
<1>15. CASE S!Fail
  <2>1. SType'
    BY <1>5, <1>15, Zenon DEF S!Fail, SType
  <2>2. Where'
    BY <1>5, <1>15, Zenon DEF S!Fail, Where
  <2>3. Progress'
    BY <1>5, <1>15, Zenon DEF S!Fail, Progress
  <2>4. Written'
    BY <1>5, <1>15, Zenon DEF S!Fail, Written
  <2> QED
    BY <2>1, <2>2, <2>3, <2>4, Zenon DEF SInv
<1>16. ASSUME NEW m \in S!Pairs, S!Join(m) PROVE SInv'
  <2>1. m \in Allocs \X Users /\ S!Joins # {} /\ handling' = handling
    BY <1>16, Zenon DEF S!Join, S!Pairs
  <2>2. member' \in [Allocs \X Users -> Statuses \cup {"none"}]
    BY <1>16, <2>1, Zenon DEF S!Join, SType, Statuses
  <2>3. \A b \in Allocs, v \in Users : member[<<b, v>>] # "none" => member'[<<b, v>>] # "none"
    BY <1>16, <2>1, Zenon DEF S!Join, SType
  <2>4. SType' /\ Where'
    BY <1>16, <2>1, <2>2, ZenonT(40) DEF S!Join, SType, Where
  <2>5. \A b, U : MembersDone(b, U) => MembersDone(b, U)'
    BY <1>3, <1>16, <2>1, Zenon DEF S!Join, MembersDone
  <2>6. Progress'
    <3>1. UNCHANGED <<project, alloc, allocsLeft, inside, usersLeft, pc>>
      BY <1>16, Zenon DEF S!Join, S!lists
    <3>2. \A b : MembersDone(b, Users) => MembersDone(b, Users)'
      BY <2>5, Zenon
    <3>3. MembersDone(inside, Users \ usersLeft) => MembersDone(inside, Users \ usersLeft)'
      BY <2>5, <3>1, Zenon
    <3> QED
      BY <1>3, <2>1, <3>1, <3>2, <3>3 DEF Progress
  <2>7. Written'
    BY <1>16, <2>3, Zenon DEF S!Join, Written
  <2> QED
    BY <2>4, <2>6, <2>7, Zenon DEF SInv
<1> QED
  BY <1>6, <1>7, <1>8, <1>9, <1>10, <1>11, <1>12, <1>13, <1>14, <1>15, <1>16, Zenon DEF S!Next

\* A status packet is answered and committed only once everything it asks for is in
\* place (as long as nobody joins over HTTP), and with an audit row for every
\* membership any of its attempts has written, for any packets and failures.
THEOREM CommitsAreApplied == HandlersSpec => CommitFindsApplied
<1>1. HandlersInit => SInv
  BY InitSInv, Zenon DEF HandlersInit
<1>2. SInv /\ UNCHANGED statusVars => SInv'
  <2> SUFFICES ASSUME SInv, UNCHANGED statusVars PROVE SInv'
    OBVIOUS
  <2> USE DEF statusVars
  <2>1. S!Body' = S!Body /\ S!Packets' = S!Packets /\ S!Joins' = S!Joins /\ \A p : S!Chosen(p)' = S!Chosen(p)
    BY Zenon DEF S!Body, S!Packets, S!Joins, S!Chosen
  <2>2. Goal' = Goal /\ Aimed' = Aimed /\ Whole' = Whole
    BY <2>1, Zenon DEF Goal, Aimed, Whole, S!Target, S!Handle, S!Chosen
  <2>3. SType' /\ Where' /\ Written'
    BY <2>1, Zenon DEF SInv, SType, Where, Written
  <2>4. Progress'
    BY <2>1, <2>2, Zenon DEF SInv, Progress, MembersDone
  <2> QED
    BY <2>3, <2>4, Zenon DEF SInv
<1>3. SInv /\ [HandlersNext]_<<vars, statusVars>> => SInv'
  BY <1>2, NextSInv, ZenonT(30) DEF HandlersNext, CreatingHandlers, StatusHandlers
<1> DEFINE Sound(p) == event'[p] = "SUCCEEDED" /\ event[p] # "SUCCEEDED" =>
                          /\ S!Joins = {} /\ S!Body[p].known => S!Applied(p)
                          /\ {p} \X touched[p] \subseteq audit'
<1>4. SInv /\ [HandlersNext]_<<vars, statusVars>> => [\A p \in S!Packets : Sound(p)]_S!vars
  <2>1. SInv /\ S!Reply => \A p \in S!Packets : Sound(p)
    <3> SUFFICES ASSUME SInv, S!Reply, NEW p \in S!Packets, event'[p] = "SUCCEEDED", event[p] # "SUCCEEDED"
                 PROVE  /\ S!Joins = {} /\ S!Body[p].known => S!Applied(p)
                        /\ {p} \X touched[p] \subseteq audit'
      OBVIOUS
    <3>1. SType /\ Where /\ Progress /\ Written
      BY ZenonT(30) DEF SInv
    <3>2. p = handling /\ inside = "none" /\ allocsLeft = {}
      BY <3>1, Zenon DEF S!Reply, SType, Where, Inner
    <3>3. S!Chosen(p) \subseteq Users /\ "none" \notin Allocs
      BY <3>1, HandleType, StatusAssumption, Zenon DEF SType
    <3>4. CASE pc = "next"
      <4>1. \A a \in Allocs : (Whole => alloc[a] = Goal) /\ MembersDone(a, Users)
        BY <3>1, <3>2, <3>3, <3>4, ZenonT(30) DEF Progress, Rest
      <4>2. Whole => project = Goal
        BY <3>1, <3>4, ZenonT(30) DEF Progress, Rest
      <4>3. S!Joins = {} => S!Applied(p)
        BY <3>2, <3>3, <4>1, <4>2, ZenonT(30) DEF S!Applied, S!NoRow, Goal, Whole, Aimed, MembersDone
      <4>4. touched[p] \subseteq log
        <5>1. touched[p] \subseteq Allocs \X Users
          BY <3>1, Zenon DEF SType
        <5>2. \A a \in Allocs, u \in Users : <<a, u>> \in touched[p] => <<a, u>> \in log
          BY <3>2, <4>1, Zenon DEF MembersDone
        <5> SUFFICES ASSUME NEW x \in touched[p] PROVE x \in log
          OBVIOUS
        <5>3. PICK a \in Allocs, u \in Users : x = <<a, u>>
          BY <5>1
        <5> QED
          BY <5>2, <5>3, ZenonT(30)
      <4> QED
        BY <3>2, <4>3, <4>4, ZenonT(30) DEF S!Reply
    <3>5. CASE pc = "reply"
      BY <3>1, <3>2, <3>5, Zenon DEF Where, Written
    <3> QED
      BY <3>4, <3>5, Zenon DEF S!Reply
  <2>2. SInv /\ S!Next => S!Reply \/ \A p \in S!Packets : event'[p] = event[p] \/ event'[p] # "SUCCEEDED"
    BY Zenon DEF S!Next, S!Begin, S!UpdateProjectStatus, S!ListComputeAllocationsByProject, S!FlipAllocation,
       S!CreateComputeAllocationDiff, S!ListMembersForAllocation, S!FlipMembership, S!NextAllocation, S!Fail, S!Join,
       SInv, SType
  <2> QED
    BY <2>1, <2>2, ZenonT(30) DEF HandlersNext, CreatingHandlers, StatusHandlers, statusVars, S!vars, S!core, S!lists
<1> QED
  BY <1>1, <1>3, <1>4, PTL DEF HandlersSpec, CommitFindsApplied, S!CommitFindsApplied

-----------------------------------------------------------------------------
(* The handlers that create things. *)

\* What made a call fail makes it fail again: nobody takes back a login or a PI's
\* role, and a user row that has lost its creator never gets an identity.
LEMMA ReasonsStay == IInv /\ Next => \A p \in Packets : Reason(p) => Reason(p)'
<1> SUFFICES ASSUME IInv, Next, NEW p \in Packets, Reason(p) PROVE Reason(p)'
  OBVIOUS
<1>1. PType /\ Control /\ Rows /\ Grows /\ PType'
  BY NextGrows, NextType, Zenon DEF IInv
<1>2. load' = load /\ Body' = Body /\ Packets' = Packets /\ MaxCollisionSuffix' = MaxCollisionSuffix
  BY <1>1, Zenon DEF Grows, Body, Packets, MaxCollisionSuffix
<1> DEFINE g == Body[p].person
           u == EmailOf[g]
<1>3. g \in Persons /\ u \in Emails /\ Body[p].grant \in Grants /\ MaxCollisionSuffix \in Nat
  BY <1>1, BodyType, Zenon DEF PType
<1>4. CASE Stuck(p)
  <2>1. ASSUME login[u] = 0, FreeSuffixes(u) = {} PROVE login'[u] = 0 /\ FreeSuffixes(u)' = {}
    <3>1. login'[u] = 0
      BY <1>1, <1>3, <2>1, Zenon DEF Grows
    <3>2. \A n \in 1 .. MaxCollisionSuffix : \E v \in Emails \ {u} : BaseOf[v] = BaseOf[u] /\ login[v] = n
      BY <2>1, Zenon DEF FreeSuffixes
    <3>3. \A n \in 1 .. MaxCollisionSuffix : n # 0
      <4>1. MaxCollisionSuffix \in Nat
        BY <1>3, Zenon
      <4> QED
        BY <4>1
    <3>4. \A n \in 1 .. MaxCollisionSuffix : \E v \in Emails \ {u} : BaseOf[v] = BaseOf[u] /\ login'[v] = n
      <4>1. \A v \in Emails : login[v] # 0 => login'[v] = login[v]
        BY <1>1, Zenon DEF Grows
      <4> QED
        BY <3>2, <3>3, <4>1, ZenonT(40)
    <3>5. FreeSuffixes(u)' = {n \in 1 .. MaxCollisionSuffix : \A v \in Emails \ {u} : BaseOf[v] = BaseOf[u] => login'[v] # n}
      BY <1>2, Zenon DEF FreeSuffixes
    <3>6. ASSUME NEW n \in FreeSuffixes(u)' PROVE FALSE
      <4>1. n \in 1 .. MaxCollisionSuffix /\ \A v \in Emails \ {u} : BaseOf[v] = BaseOf[u] => login'[v] # n
        BY <3>5, <3>6, Zenon
      <4> QED
        BY <3>4, <4>1, Zenon
    <3> QED
      BY <3>1, <3>6, Zenon
  <2>2. \A v \in Emails : role[Body[p].grant, v] = "PI" => role'[Body[p].grant, v] = "PI"
    BY <1>1, <1>3, Zenon DEF Grows
  <2>3. ProjectPackets(Body[p].grant)' = ProjectPackets(Body[p].grant) /\ Asked(p)' = Asked(p)
    BY <1>2, Zenon DEF ProjectPackets, Asked
  <2>4. Stuck(p)'
    BY <1>2, <1>3, <1>4, <2>1, <2>2, <2>3, Zenon DEF Stuck, HasPI
  <2> QED
    BY <2>4, Zenon DEF Reason
<1>5. CASE Orphaned(g) /\ ~(at = "identity" /\ B.person = g)
  <2>1. Orphaned(g)'
    BY <1>1, <1>2, <1>3, <1>5, Zenon DEF Grows, Orphaned
  <2>2. at' = "identity" => UNCHANGED <<at, cur>> \/ (at = "user" /\ cur' = cur /\ ~Orphaned(B.person))
    BY ZenonT(30) DEF Next, Issue, Start, TransientFailure, Crash, EnsureUser, CreateUserIdentity, LookupProject,
        EnsureClusterUser, EnsureProject, EnsureAllocation, EnsureResourceMappings, EnsureMembership,
        EnsureProjectMembership, Reply, Commit, CreateUser, CallFails, EndInError, GoTo, loopVars, AfterUser,
        AfterLogin, Orphaned
  <2>3. ~(at' = "identity" /\ B'.person = g)
    BY <1>2, <1>5, <2>2, Zenon DEF B
  <2> QED
    BY <1>2, <2>1, <2>3, Zenon DEF Reason
<1> QED
  BY <1>4, <1>5, Zenon DEF Reason

\* A call of the running handler fails only for one of the reasons: the lookup of an
\* account's project fails only when no packet creates it, because AMIE sends the
\* account packet after the reply to one that does.
LEMMA FailsForAReason ==
    ASSUME IInv, CallFails
    PROVE  EnsureUser \/ LookupProject \/ EnsureClusterUser \/ EnsureProjectMembership => cur \in Packets /\ Reason(cur)
<1>1. PType /\ Control /\ Rows /\ Tries /\ AckedIsProvisioned
  BY Zenon DEF IInv
<1> SUFFICES ASSUME at \in {"user", "lookup", "login", "role"}
             PROVE  EnsureUser \/ LookupProject \/ EnsureClusterUser \/ EnsureProjectMembership => cur \in Packets /\ Reason(cur)
  BY Zenon DEF EnsureUser, LookupProject, EnsureClusterUser, EnsureProjectMembership
<1>2. cur # None /\ cur \in Packets
  BY <1>1, Zenon DEF Control, PType
<1>3. B.person \in Persons /\ B.grant \in Grants /\ EmailOf[B.person] \in Emails /\ None \notin Packets /\ B = Body[cur]
  BY <1>1, <1>2, BodyType, Zenon DEF B, PType
<1>4. at' = "idle"
  BY Zenon DEF CallFails, EndInError
<1>5. at \in KnowsUser => User = EmailOf[B.person]
  BY <1>1, <1>2, <1>3, Zenon DEF Control, Rows, User
<1>6. ASSUME EnsureUser PROVE Reason(cur)
  BY <1>2, <1>3, <1>4, <1>6, Zenon DEF EnsureUser, GoTo, AfterUser, Orphaned, Reason
<1>7. ASSUME LookupProject PROVE Reason(cur)
  <2>1. piOf[B.grant] = None \/ initial[B.grant] = None
    BY <1>4, <1>7, Zenon DEF LookupProject, GoTo
  <2>2. \A q \in acked : Body[q].grant # B.grant
    BY <1>1, <2>1, ZenonT(30) DEF AckedIsProvisioned
  <2>3. ProjectPackets(B.grant) \cap acked = {}
    BY <2>2, Zenon DEF ProjectPackets
  <2>4. B.kind = "account" /\ status[cur] = "pending"
    BY <1>1, <1>2, <1>7, Zenon DEF Control, LookupProject
  <2>5. ProjectPackets(B.grant) = {}
    BY <1>1, <1>2, <1>3, <2>3, <2>4, Zenon DEF Tries, TriesOf
  <2> QED
    BY <1>2, <1>3, <2>4, <2>5, Zenon DEF Reason, Stuck
<1>8. ASSUME EnsureClusterUser PROVE Reason(cur)
  <2>1. at = "login" /\ login[User] = 0 /\ FreeSuffixes(User) = {}
    BY <1>4, <1>8, Zenon DEF EnsureClusterUser, GoTo, AfterLogin
  <2> QED
    BY <1>2, <1>3, <1>5, <2>1, Zenon DEF KnowsUser, Reason, Stuck
<1>9. ASSUME EnsureProjectMembership PROVE Reason(cur)
  <2>1. ~GoTo("reply")
    BY <1>4, Zenon DEF GoTo
  <2>2. /\ at = "role"
        /\ \/ AskedRole = "PI" /\ \E v \in Emails \ {User} : HasPI(B.grant, v)
           \/ AskedRole # "PI" /\ HasPI(B.grant, User)
    BY <1>9, <2>1, Zenon DEF EnsureProjectMembership
  <2>3. AskedRole = Asked(cur) /\ User = EmailOf[B.person]
    BY <1>3, <1>5, <2>2, Zenon DEF AskedRole, Asked, KnowsUser
  <2> QED
    BY <1>2, <1>3, <2>2, <2>3, Zenon DEF Reason, Stuck
<1> QED
  BY <1>2, <1>6, <1>7, <1>8, <1>9, Zenon

\* The attempts of a packet are counted, and those that are not outside failures
\* have a reason that is still true.
LEMMA NextTries == IInv /\ Next => Tries'
<1> SUFFICES ASSUME IInv, Next PROVE Tries'
  OBVIOUS
<1>1. PType /\ Control /\ Tries /\ Grows
  BY NextGrows, Zenon DEF IInv
<1>2. load' = load /\ Body' = Body /\ Packets' = Packets /\ MaxAttempts \in Nat \ {0}
  BY <1>1, Constants, Zenon DEF Grows, Body, Packets
<1>3. /\ \A p \in Packets : Reason(p) => Reason(p)'
      /\ \A g \in Grants : ProjectPackets(g)' = ProjectPackets(g)
      /\ acked \subseteq acked'
      /\ \A p \in Packets : Body[p].grant \in Grants
  BY <1>1, <1>2, ReasonsStay, BodyType, ZenonT(30) DEF ProjectPackets, Grows, PType
<1>4. ASSUME NEW p \in Packets, status'[p] = status[p], attempts'[p] = attempts[p], transient'[p] = transient[p]
      PROVE  TriesOf(p)'
  BY <1>1, <1>2, <1>3, <1>4, Zenon DEF Tries, TriesOf
<1>5. CASE UNCHANGED <<status, attempts, transient>>
  BY <1>2, <1>4, <1>5, Zenon DEF Tries
<1>6. ASSUME NEW p \in Packets, Issue(p) PROVE Tries'
  <2>1. /\ status'[p] = "pending" /\ attempts'[p] = 0 /\ transient'[p] = 0
        /\ \A q \in Packets \ {p} : status'[q] = status[q] /\ attempts'[q] = attempts[q] /\ transient'[q] = transient[q]
    <3>1. status[p] = "unknown" /\ status' = [status EXCEPT ![p] = "pending"] /\ UNCHANGED <<attempts, transient>>
      BY <1>6, Zenon DEF Issue, loopVars
    <3>2. attempts[p] = 0 /\ transient[p] = 0
      BY <1>1, <1>6, <3>1 DEF Tries, TriesOf, PType
    <3> QED
      BY <1>1, <3>1, <3>2, Zenon DEF PType
  <2>2. Body[p].kind = "account" => ProjectPackets(Body[p].grant) = {} \/ ProjectPackets(Body[p].grant) \cap acked # {}
    BY <1>6, SMTT(30), Zenon DEF Issue
  <2>3. 0 < MaxAttempts /\ 0 <= 0 /\ ~(0 < 0)
    BY <1>2
  <2>4. TriesOf(p)'
    BY <1>2, <1>3, <1>6, <2>1, <2>2, <2>3, Zenon DEF TriesOf
  <2> QED
    BY <1>2, <1>4, <2>1, <2>4, Zenon DEF Tries
<1>7. ASSUME cur \in Packets, status[cur] = "pending", EndInError,
             \/ transient' = [transient EXCEPT ![cur] = @ + 1]
             \/ transient' = transient /\ Reason(cur)
      PROVE  Tries'
  <2>1. /\ attempts'[cur] = attempts[cur] + 1
        /\ status'[cur] = IF attempts[cur] + 1 < MaxAttempts THEN "pending" ELSE "failed"
        /\ transient'[cur] = transient[cur] + 1 \/ (transient'[cur] = transient[cur] /\ Reason(cur))
        /\ \A q \in Packets \ {cur} : status'[q] = status[q] /\ attempts'[q] = attempts[q] /\ transient'[q] = transient[q]
    BY <1>1, <1>2, <1>7, Zenon DEF EndInError, PType
  <2>2. attempts[cur] \in Nat /\ transient[cur] \in Nat /\ TriesOf(cur)
    BY <1>1, <1>7, Zenon DEF PType, Tries
  <2>3. PICK p \in Packets : p = cur
    BY <1>7, Zenon
  <2>4. /\ attempts[p] \in Nat /\ transient[p] \in Nat /\ transient[p] <= attempts[p]
        /\ attempts[p] < MaxAttempts /\ MaxAttempts \in Nat
        /\ transient[p] < attempts[p] => Reason(p)
        /\ Body[p].kind = "account" => ProjectPackets(Body[p].grant) = {} \/ ProjectPackets(Body[p].grant) \cap acked # {}
    BY <1>2, <1>7, <2>2, <2>3, Zenon DEF TriesOf
  <2>5. /\ transient'[p] <= attempts'[p] /\ status'[p] \in {"pending", "failed"}
        /\ status'[p] = "pending" => attempts'[p] < MaxAttempts
        /\ status'[p] = "failed" => attempts'[p] = MaxAttempts
        /\ transient'[p] < attempts'[p] => Reason(p)
    BY <2>1, <2>3, <2>4
  <2>6. TriesOf(p)'
    BY <1>2, <1>3, <2>4, <2>5, Zenon DEF TriesOf
  <2> QED
    BY <1>2, <1>4, <2>1, <2>3, <2>6, Zenon DEF Tries
<1>8. CASE TransientFailure
  BY <1>1, <1>7, <1>8, Zenon DEF TransientFailure, PType, Control
<1>9. CASE CallFails /\ (EnsureUser \/ LookupProject \/ EnsureClusterUser \/ EnsureProjectMembership)
  <2>1. cur \in Packets /\ Reason(cur)
    BY <1>9, FailsForAReason, Zenon
  <2> QED
    BY <1>1, <1>7, <1>9, <2>1, BodyType, Zenon DEF CallFails, Control, PType
<1>10. CASE Commit
  <2>1. cur \in Packets /\ status[cur] = "pending"
    BY <1>1, <1>10, Zenon DEF Commit, Control, PType
  <2>2. /\ attempts'[cur] = attempts[cur] + 1 /\ status'[cur] = "succeeded" /\ transient'[cur] = transient[cur]
        /\ \A q \in Packets \ {cur} : status'[q] = status[q] /\ attempts'[q] = attempts[q] /\ transient'[q] = transient[q]
    BY <1>1, <1>2, <1>10, <2>1, Zenon DEF Commit, PType
  <2>3. attempts[cur] \in Nat /\ transient[cur] \in Nat /\ TriesOf(cur)
    BY <1>1, <2>1, Zenon DEF PType, Tries
  <2>4. PICK p \in Packets : p = cur
    BY <2>1, Zenon
  <2>5. /\ attempts[p] \in Nat /\ transient[p] \in Nat /\ transient[p] <= attempts[p]
        /\ Body[p].kind = "account" => ProjectPackets(Body[p].grant) = {} \/ ProjectPackets(Body[p].grant) \cap acked # {}
    BY <2>1, <2>3, <2>4, Zenon DEF TriesOf
  <2>6. transient'[p] <= attempts'[p] /\ status'[p] = "succeeded"
    BY <2>2, <2>4, <2>5
  <2>7. TriesOf(p)'
    BY <1>2, <1>3, <2>5, <2>6, Zenon DEF TriesOf
  <2> QED
    BY <1>2, <1>4, <2>2, <2>4, <2>7, Zenon DEF Tries
<1> QED
  BY <1>5, <1>6, <1>8, <1>9, <1>10, ZenonT(30) DEF Next, Start, Crash, EnsureUser, CreateUserIdentity, LookupProject,
        EnsureClusterUser, EnsureProject, EnsureAllocation, EnsureResourceMappings, EnsureMembership,
        EnsureProjectMembership, Reply, CreateUser, GoTo, loopVars

\* IInv is inductive, and what the creating handlers promise follows from it.
LEMMA NextIInv == IInv /\ [Next]_vars => IInv'
<1>1. IInv /\ UNCHANGED vars => IInv'
  <2> SUFFICES ASSUME IInv, UNCHANGED vars PROVE IInv'
    OBVIOUS
  <2> USE DEF IInv, vars, loopVars, coreVars
  <2>1. /\ Body' = Body /\ Packets' = Packets /\ MaxCollisionSuffix' = MaxCollisionSuffix /\ B' = B /\ User' = User
        /\ Granted' = Granted /\ \A g : ProjectPackets(g)' = ProjectPackets(g)
    BY Zenon DEF Body, Packets, MaxCollisionSuffix, B, User, Granted, ProjectPackets
  <2>2. PType' /\ Rows' /\ Control'
    <3>1. PType'
      BY <2>1, Zenon DEF PType
    <3>2. Rows'
      BY Zenon DEF Rows, HasPI
    <3>3. Control'
      BY <2>1, ZenonT(30) DEF Control, HasPI
    <3> QED
      BY <3>1, <3>2, <3>3, Zenon
  <2>3. Covered'
    BY <2>1, ZenonT(30) DEF Covered, SUs, Units, Effective
  <2>4. Tries'
    <3>1. \A u : FreeSuffixes(u)' = FreeSuffixes(u)
      BY <2>1, Zenon DEF FreeSuffixes
    <3>2. \A p \in Packets : Stuck(p) => Stuck(p)'
      BY <2>1, <3>1, Zenon DEF Stuck, Asked, HasPI
    <3>3. \A p \in Packets : Reason(p) => Reason(p)'
      BY <2>1, <3>2, Zenon DEF Reason, Orphaned
    <3> QED
      BY <2>1, <3>3, Zenon DEF Tries, TriesOf
  <2>5. AckedIsProvisioned'
    <3>1. \A g : {v \in Emails : HasPI(g, v)'} = {v \in Emails : HasPI(g, v)}
      BY Zenon DEF HasPI
    <3>2. AckedIsProvisioned /\ UNCHANGED <<acked, identity, users, login, members, piOf, initial, mapped>>
      OBVIOUS
    <3> HIDE DEF IInv, vars, loopVars, coreVars
    <3> QED
      BY <2>1, <3>1, <3>2, Zenon DEF AckedIsProvisioned
  <2> QED
    BY <2>2, <2>3, <2>4, <2>5, Zenon
<1>2. IInv /\ Next => IInv'
  BY NextType, NextRows, NextControl, NextCovered, NextTries, NextAcked, Zenon DEF IInv
<1> QED
  BY <1>1, <1>2, Zenon

\* The SUs of the packets AMIE holds a reply for are among those that are granted.
LEMMA IInvCovers == IInv => GrantsCovered
<1> SUFFICES ASSUME IInv, NEW g \in Grants PROVE SUs(ProjectPackets(g) \cap acked) <= Effective(g)
  BY Zenon DEF GrantsCovered
<1> DEFINE P == ProjectPackets(g) \cap acked
           Q == ProjectPackets(g) \cap Granted
<1>1. PType /\ P \subseteq Q /\ Q \subseteq Packets
  BY Zenon DEF IInv, ProjectPackets, Granted
<1>2. SUs(P) <= SUs(Q) /\ SUs(P) \in Nat /\ SUs(Q) \in Nat
  BY <1>1, SUsMonotone, UnitsFinite, Zenon DEF PType
<1>3. SUs(Q) <= Effective(g) /\ Effective(g) \in Nat
  BY <1>1 DEF IInv, Covered, Effective, PType
<1> HIDE DEF P, Q
<1>4. SUs(P) <= Effective(g)
  BY <1>2, <1>3
<1> QED
  BY <1>4, Zenon DEF P

\* The attempts of a packet given up are outside failures or have a reason.
LEMMA IInvReasons == IInv => GivenUpForAReason
<1> SUFFICES ASSUME IInv, NEW p \in Packets, status[p] = "failed", transient[p] # MaxAttempts PROVE Reason(p)
  BY Zenon DEF GivenUpForAReason, Reason, Stuck, Asked
<1>1. PType /\ TriesOf(p)
  BY Zenon DEF IInv, Tries
<1>2. attempts[p] \in Nat /\ transient[p] \in Nat /\ MaxAttempts \in Nat
  BY <1>1, Constants, Zenon DEF PType
<1>3. transient[p] <= attempts[p] /\ attempts[p] = MaxAttempts /\ (transient[p] < attempts[p] => Reason(p))
  BY <1>1, Zenon DEF TriesOf
<1> QED
  BY <1>2, <1>3

\* The creating handlers keep IInv, and the status handlers leave their tables alone.
LEMMA Inductive == /\ HandlersInit => IInv
                   /\ IInv /\ [HandlersNext]_<<vars, statusVars>> => IInv'
  BY InitIInv, NextIInv, Zenon DEF HandlersInit, HandlersNext, CreatingHandlers, StatusHandlers

\* What the reply to a project or account packet tells AMIE is there is there: user,
\* identity, a login nobody else has, membership, and project, allocation and the one
\* PI, for any packets and any number of failures, retries and crashes.
THEOREM RepliesAreTrue == HandlersSpec => []AckedIsProvisioned
<1>1. IInv => AckedIsProvisioned
  BY Zenon DEF IInv
<1> QED
  BY <1>1, Inductive, PTL DEF HandlersSpec

\* No acknowledged grant is lost: the allocation's initial amount and diffs together
\* cover every project packet AMIE holds a reply for.
THEOREM GrantsAreCovered == HandlersSpec => []GrantsCovered
  BY IInvCovers, Inductive, PTL DEF HandlersSpec

\* A packet that is given up had MaxAttempts outside failures, or a reason that no
\* retry can cure: half-done work of an earlier attempt is never one.
THEOREM GivingUpHasAReason == HandlersSpec => []GivenUpForAReason
  BY IInvReasons, Inductive, PTL DEF HandlersSpec
=============================================================================
