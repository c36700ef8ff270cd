------------------------------ MODULE MCAnalytics ------------------------------
(***************************************************************************)
(* The monitor under faults, with three jobs: two of them charged, ending  *)
(* early and late, and one of an account the core does not know.  The      *)
(* views, with two jobs of two users on one allocation and a second        *)
(* allocation of the same project without usage.                           *)
(***************************************************************************)
EXTENDS Analytics

Job(user, partition, start, end, billing) ==
    [account |-> "astro", user |-> user, partition |-> partition, start |-> start, end |-> end, billing |-> billing]
Watched == <<Job("ann", "cpu", 1, 2, 2), Job("ann", "cpu", 1, 4, 1), Job("eve", "cpu", 2, 3, 1)>>
Viewed == <<Job("ann", "cpu", 1, 2, 2), Job("bob", "gpu", 1, 3, 1)>>

MCAllocations == <<[id |-> "a2", name |-> "bio"], [id |-> "a1", name |-> "astro"]>>
MCClusterUsers == "ann" :> "u1" @@ "bob" :> "u2"
MCRate == [t \in 0..6 |-> IF t < 4 THEN 1 ELSE 2]
MCProjectOf == [a \in {"a1", "a2"} |-> "p1"]
MCStartDay == [a \in {"a1", "a2"} |-> 0]

Monitored(faulty, n, r) ==
    [jobs |-> Watched, overlap |-> 2, lag |-> 2, maxTime |-> 6, faulty |-> faulty, maxFaults |-> n, maxRestarts |-> r,
     maxChanges |-> 0, askers |-> {}]
Asking(time, changed, askers) ==
    [jobs |-> Viewed, overlap |-> 1, lag |-> 1, maxTime |-> time, faulty |-> {}, maxFaults |-> 0, maxRestarts |-> 0,
     maxChanges |-> changed, askers |-> askers]

MCLoads ==
    {Monitored({"list"}, 1, 1), Monitored({"list", "delete"}, 1, 0), Monitored({"list", "lookup", "create", "deadline"}, 1, 1),
     Asking(4, 2, {}), Asking(3, 1, {"u1"})}
=============================================================================
