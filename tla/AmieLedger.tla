------------------------------ MODULE AmieLedger ------------------------------
(***************************************************************************)
(* What the AMIE connector promises about each packet, seen from outside   *)
(* the retry machinery: a packet is accepted at most once, every core call *)
(* its handler makes has landed before the site acknowledges it, and it is *)
(* settled exactly once, as succeeded only after the acknowledgement.      *)
(*                                                                         *)
(* AmiePipeline, the model of the poller and the processor, is shown to    *)
(* implement this specification.                                           *)
(***************************************************************************)

CONSTANTS
    Packets,    \* the AMIE packets, named by packet_rec_id
    Informs     \* the ones whose handler makes no core call and sends no reply

VARIABLES
    verdict,    \* verdict[p]: what the site's tables say about p
    landed,     \* packets all of whose core calls committed at least once
    acked       \* packets AMIE holds a reply for

ledgerVars == <<verdict, landed, acked>>

LInit ==
    /\ verdict = [p \in Packets |-> "unknown"]
    /\ landed = {}
    /\ acked = {}

Accept(p) ==
    /\ verdict[p] = "unknown"
    /\ verdict' = [verdict EXCEPT ![p] = "pending"]
    /\ UNCHANGED <<landed, acked>>

Land(p) ==
    /\ verdict[p] = "pending"
    /\ landed' = landed \cup {p}
    /\ UNCHANGED <<verdict, acked>>

Acknowledge(p) ==
    /\ verdict[p] = "pending"
    /\ p \in landed \ Informs
    /\ acked' = acked \cup {p}
    /\ UNCHANGED <<verdict, landed>>

Succeed(p) ==
    /\ verdict[p] = "pending"
    /\ p \in acked \cup Informs
    /\ verdict' = [verdict EXCEPT ![p] = "succeeded"]
    /\ UNCHANGED <<landed, acked>>

Fail(p) ==
    /\ verdict[p] = "pending"
    /\ verdict' = [verdict EXCEPT ![p] = "failed"]
    /\ UNCHANGED <<landed, acked>>

LNext ==
    \E p \in Packets :
        Accept(p) \/ Land(p) \/ Acknowledge(p) \/ Succeed(p) \/ Fail(p)

LSpec == LInit /\ [][LNext]_ledgerVars

=============================================================================
