--------------------------- MODULE MCClusterAccess ---------------------------
(***************************************************************************)
(* One cluster, two allocations and two users under several workloads: the *)
(* SLURM connector alone, the registry alone, and both.                    *)
(***************************************************************************)
EXTENDS Comanage, TLC

MCUsers == {"u1", "u2"}
MCAllocs == {"a1", "a2"}
OnK1 == [a \in MCAllocs |-> "k1"]

Mv(what, id, to) == [what |-> what, id |-> id, to |-> to]
CoreRows(alloc, member, account, mapped) ==
    [alloc |-> alloc, member |-> member, account |-> account, mapped |-> mapped,
     override |-> [m \in Members |-> 0]]
Level(as) == [k \in {AccountLevel(a) : a \in as} |-> {}]
Steady == [a \in MCAllocs |-> {"r1"}]
Load(rows, assocs, moves0, n) ==
    [core |-> rows, slurm |-> assocs, moves |-> moves0, maxMoves |-> n, maxFaults |-> 0, maxRestarts |-> 0, heals |-> TRUE,
     slurmOn |-> TRUE, names |-> [u \in MCUsers |-> <<>>], bound |-> {}, logs |-> {}, losses |-> 0, slow |-> FALSE,
     refuses |-> FALSE, overlaps |-> FALSE, calm |-> FALSE]

\* An allocation whose member never changes and one whose member does, and an
\* association that is not Custos's.
Foreign == <<"k1", "legacy", "u2", "r1">>
HealCore == CoreRows([a \in MCAllocs |-> "ACTIVE"],
                 [m \in Members |-> IF m = <<"a1", "u1">> THEN "ACTIVE" ELSE None],
                 [c \in {"k1"} \X MCUsers |-> IF c[2] = "u1" THEN "ready" ELSE "pending"], Steady)
HealSlurm == Level(MCAllocs) @@ (Foreign :> {}) @@ (<<"k1", "a1", "u1", "r1">> :> {})
HealMoves == {Mv("member", <<"a2", "u2">>, s) : s \in {"ACTIVE", "INACTIVE"}}
             \cup {Mv("account", <<"k1", "u2">>, "fresh")}

\* Both members are there; everything else changes.
KnownCore == [HealCore EXCEPT !.account[<<"k1", "u2">>] = "ready", !.member[<<"a2", "u2">>] = "ACTIVE"]
KnownSlurm == HealSlurm @@ (<<"k1", "a2", "u2", "r1">> :> {})
OtherMoves == {Mv("alloc", "a2", "INACTIVE"), Mv("override", <<"a2", "u2">>, 1), Mv("member", <<"a2", "u2">>, None),
               Mv("mapped", "a2", {"r1", "r2"})}

\* An allocation that is created.
NewCore == CoreRows([a \in MCAllocs |-> None], [m \in Members |-> None],
                [c \in {"k1"} \X MCUsers |-> "ready"], Steady)
NewMoves == {Mv("alloc", "a1", "ACTIVE"), Mv("member", <<"a1", "u1">>, "ACTIVE")}
New == Load(NewCore, [k \in {} |-> {}], NewMoves, 2)

\* A member of an allocation gets an account: both connectors.
JoinCore == [HealCore EXCEPT !.account[<<"k1", "u2">>] = None]
Joins == [Load(JoinCore, HealSlurm, {Mv("member", <<"a2", "u2">>, "ACTIVE")}, 1)
            EXCEPT !.names["u2"] = <<"n1">>, !.logs = {"u2"}, !.calm = TRUE]

\* The registry alone: rows are deleted and created again, calls fail.
Bare == [Load(JoinCore, [k \in {} |-> {}], {}, 0)
           EXCEPT !.slurmOn = FALSE, !.heals = FALSE, !.logs = {"u2"}, !.losses = 2, !.slow = TRUE, !.maxRestarts = 1]
Reruns == [Bare EXCEPT !.names["u2"] = <<"n1", "n1">>]
Known == [Bare EXCEPT !.names["u2"] = <<"n1", "n2">>, !.bound = {"u2"}, !.refuses = TRUE]
Overlapping == [Bare EXCEPT !.names["u2"] = <<"n1", "n2">>, !.losses = 1, !.maxRestarts = 0, !.slow = FALSE, !.overlaps = TRUE]

MCLoads ==
    {[Load(HealCore, HealSlurm, HealMoves, 3) EXCEPT !.maxRestarts = 1],
     [Load(KnownCore, KnownSlurm, OtherMoves, 2) EXCEPT !.maxFaults = 1],
     New,
     [Load(HealCore, HealSlurm, HealMoves \cup {Mv("alloc", "a2", None)}, 3) EXCEPT !.maxFaults = 1, !.heals = FALSE],
     Joins, Reruns, Known, Overlapping}

\* The server restarts before the creation event is handled.
LostCreation == {[New EXCEPT !.maxRestarts = 1]}
=============================================================================
