-------------------------- MODULE AmiePipelineProofs --------------------------
(***************************************************************************)
(* Proofs about AmiePipeline, for every set of packets and every bound.    *)
(*                                                                         *)
(* The invariants of the model-checking runs are not inductive by          *)
(* themselves: they need to know where the processor is.  Control adds     *)
(* that, and IInv is their conjunction.                                    *)
(***************************************************************************)
EXTENDS AmiePipeline, FiniteSetTheorems, TLAPS

\* Where the processor's locals stand at each program point.
Control ==
    /\ (cur = None) <=> (pc \in {"idle", "batch"})
    /\ pc = "idle" => batch = {}
    /\ cur \notin batch
    /\ pc = "handling" /\ cur \notin Informs /\ step = CoreCalls => cur \in landed
    /\ pc = "replied" => cur \in acked \cup Informs

\* An event exists exactly with its packet, and the processor works on events
\* that exist.
Existence ==
    /\ \A p \in Packets : packet[p].status = "ABSENT" <=> event[p].status = "ABSENT"
    /\ cur # None => event[cur].status # "ABSENT"

\* Until an acknowledgement is lost, an event has one committed transaction if it
\* succeeded and none otherwise, and a failing event has not been settled.
Unsettled ==
    lostAcks = 0 =>
        /\ \A p \in Packets :
              commits[p] = IF event[p].status = "SUCCEEDED" THEN 1 ELSE 0
        /\ cur # None => event[cur].status \in Pending

IInv ==
    /\ TypeOK
    /\ Control
    /\ Existence
    /\ Unsettled
    /\ AttemptsAccounted
    /\ TablesAgree
    /\ SnapshotFresh
    /\ ReplyMeansLanded
    /\ RunsAccounted

\* The backoff ComputeNextRetryAt schedules is a number of units, so that the
\* countdown of an event is a natural number.
LEMMA BackoffType ==
    ASSUME NEW n \in Nat
    PROVE  Backoff(n) \in Nat
<1>1. ASSUME NEW i \in 0..4 PROVE Doubled[i] \in Nat
  <2>1. i = 0 \/ i = 1 \/ i = 2 \/ i = 3 \/ i = 4
    BY <1>1
  <2>2. Doubled[i] = 2^i
    BY <1>1, Zenon DEF Doubled
  <2>3. 2^0 \in Nat /\ 2^1 \in Nat /\ 2^2 \in Nat /\ 2^3 \in Nat /\ 2^4 \in Nat
    OBVIOUS
  <2> QED
    BY <2>1, <2>2, <2>3, Zenon
<1> QED
  BY <1>1 DEF Backoff, BackoffCap

\* The position a new event gets in the created_at order is a natural number.
LEMMA CreatedType ==
    Cardinality({q \in Packets : event[q].status # "ABSENT"}) \in Nat
  BY PacketsAssumption, FS_Subset, FS_CardinalityType, Zenon

\* Creating a row of amie_processing_events, and updating one of amie_packets,
\* leaves a table.
LEMMA EventRowCreate ==
    ASSUME NEW f \in [Packets -> EventRow], NEW p \in Packets,
           NEW s \in EventStatus, NEW c \in Nat
    PROVE  [f EXCEPT ![p].status = s, ![p].created = c] \in [Packets -> EventRow]
  BY Zenon DEF EventRow

LEMMA PacketRowUpdate ==
    ASSUME NEW f \in [Packets -> PacketRow], NEW p \in Packets,
           NEW s \in PacketStatus
    PROVE  [f EXCEPT ![p].status = s] \in [Packets -> PacketRow]
  BY Zenon DEF PacketRow

\* An attempt that is not the last one is below the bound.
LEMMA BelowMax ==
    ASSUME NEW n \in Nat, n <= MaxAttempts
    PROVE  n < MaxAttempts \/ n = MaxAttempts
  BY BoundsAssumption

\* While attempts remain, the number of failures is not yet the last one allowed.
LEMMA LessDiffers ==
    ASSUME NEW n \in Nat, n < MaxAttempts
    PROVE  n # MaxAttempts
  BY BoundsAssumption

\* What the processing transaction changes when it commits, column by column.
CommitEffect(p) ==
    /\ event' \in [Packets -> EventRow]
    /\ packet' \in [Packets -> PacketRow]
    /\ commits' \in [Packets -> Nat]
    /\ \A q \in Packets \ {p} : /\ event'[q] = event[q]
                                /\ packet'[q] = packet[q]
                                /\ commits'[q] = commits[q]
    /\ event'[p].status = "SUCCEEDED"
    /\ event'[p].attempts = snap[p] + 1
    /\ event'[p].wait = 0
    /\ packet'[p].status = "DECODED"
    /\ packet'[p].retries = packet[p].retries
    /\ commits'[p] = commits[p] + 1

\* The writes of executeInTransaction have that effect.
LEMMA CommittedEffect ==
    ASSUME TypeOK, NEW p \in Packets, Committed(p)
    PROVE  CommitEffect(p)
<1>1. /\ event \in [Packets -> EventRow]
      /\ packet \in [Packets -> PacketRow]
      /\ commits \in [Packets -> Nat]
      /\ snap[p] + 1 \in Nat
  BY DEF TypeOK
<1>2. /\ event' = [event EXCEPT ![p].status = "SUCCEEDED",
                                ![p].attempts = snap[p] + 1,
                                ![p].wait = 0]
      /\ packet' = [packet EXCEPT ![p].status = "DECODED"]
      /\ commits' = [commits EXCEPT ![p] = @ + 1]
  BY Zenon DEF Committed
<1>3. event'[p] = [status |-> "SUCCEEDED", attempts |-> snap[p] + 1,
                   created |-> event[p].created, wait |-> 0]
  BY <1>1, <1>2, ZenonT(30) DEF EventRow
<1>4. event'[p] \in EventRow
  BY <1>1, <1>3 DEF EventRow, EventStatus
<1>5. /\ event' = [q \in Packets |-> event'[q]]
      /\ \A q \in Packets \ {p} : event'[q] = event[q]
  BY <1>1, <1>2, Zenon
<1>6. event' \in [Packets -> EventRow]
  BY <1>1, <1>4, <1>5, Zenon
<1>7. /\ packet' \in [Packets -> PacketRow]
      /\ \A q \in Packets \ {p} : packet'[q] = packet[q]
      /\ packet'[p].status = "DECODED"
      /\ packet'[p].retries = packet[p].retries
  BY <1>1, <1>2, Zenon DEF PacketRow, PacketStatus
<1>8. /\ commits' \in [Packets -> Nat]
      /\ \A q \in Packets \ {p} : commits'[q] = commits[q]
      /\ commits'[p] = commits[p] + 1
  BY <1>1, <1>2
<1> QED
  BY <1>3, <1>5, <1>6, <1>7, <1>8 DEF CommitEffect

\* What the transaction that records a failure changes, column by column.
FailureEffect(n) ==
    /\ event' \in [Packets -> EventRow]
    /\ packet' \in [Packets -> PacketRow]
    /\ errors' \in [Packets -> Nat]
    /\ \A q \in Packets \ {cur} : /\ event'[q] = event[q]
                                  /\ packet'[q] = packet[q]
                                  /\ errors'[q] = errors[q]
    /\ event'[cur].status = IF n < MaxAttempts THEN "RETRY_SCHEDULED"
                                               ELSE "PERMANENTLY_FAILED"
    /\ event'[cur].attempts = n
    /\ packet'[cur].status = IF n < MaxAttempts THEN packet[cur].status
                                                ELSE "FAILED"
    /\ packet'[cur].retries = n
    /\ errors'[cur] = errors[cur] + 1

\* The writes of recordFailureInNewTransaction have that effect.
LEMMA RecordFailureEffect ==
    ASSUME TypeOK, cur \in Packets, RecordFailure
    PROVE  FailureEffect(event[cur].attempts + 1)
<1> DEFINE n == event[cur].attempts + 1
           s == IF n < MaxAttempts THEN "RETRY_SCHEDULED" ELSE "PERMANENTLY_FAILED"
           w == IF n < MaxAttempts THEN Backoff(n) ELSE 0
           t == IF n < MaxAttempts THEN packet[cur].status ELSE "FAILED"
<1>1. /\ event \in [Packets -> EventRow]
      /\ packet \in [Packets -> PacketRow]
      /\ errors \in [Packets -> Nat]
  BY Zenon DEF TypeOK
<1>2. n \in Nat
  BY <1>1 DEF EventRow
<1>3. /\ event' = [event EXCEPT ![cur].status = s, ![cur].attempts = n,
                                ![cur].wait = w]
      /\ packet' = [packet EXCEPT ![cur].status = t, ![cur].retries = n]
      /\ errors' = [errors EXCEPT ![cur] = @ + 1]
  BY Zenon DEF RecordFailure, RecordVerdict
<1>4. s \in EventStatus /\ t \in PacketStatus
  BY <1>1, Zenon DEF EventStatus, PacketStatus, PacketRow
<1>5. w \in Nat
  BY <1>2, BackoffType, Zenon
<1> HIDE DEF n, s, w, t
<1>6. event'[cur] = [status |-> s, attempts |-> n,
                     created |-> event[cur].created, wait |-> w]
  BY <1>1, <1>3, Zenon DEF EventRow
<1>7. event'[cur] \in EventRow
  BY <1>1, <1>2, <1>4, <1>5, <1>6 DEF EventRow
<1>8. /\ event' = [q \in Packets |-> event'[q]]
      /\ \A q \in Packets \ {cur} : event'[q] = event[q]
  BY <1>1, <1>3, Zenon
<1>9. event' \in [Packets -> EventRow]
  BY <1>1, <1>7, <1>8, Zenon
<1>10. /\ packet' \in [Packets -> PacketRow]
       /\ \A q \in Packets \ {cur} : packet'[q] = packet[q]
       /\ packet'[cur].status = t
       /\ packet'[cur].retries = n
  BY <1>1, <1>2, <1>3, <1>4, Zenon DEF PacketRow
<1>11. /\ errors' \in [Packets -> Nat]
       /\ \A q \in Packets \ {cur} : errors'[q] = errors[q]
       /\ errors'[cur] = errors[cur] + 1
  BY <1>1, <1>3
<1> QED
  BY <1>6, <1>8, <1>9, <1>10, <1>11 DEF FailureEffect, n, s, t

\* The initial state satisfies the inductive invariant.
LEMMA InitIInv == Init => IInv
<1> SUFFICES ASSUME Init PROVE IInv
  OBVIOUS
<1> USE PacketsAssumption, BoundsAssumption DEF Init
<1>1. TypeOK
  BY DEF TypeOK, PacketRow, EventRow, PacketStatus, EventStatus, PC
<1>2. Control /\ Existence /\ Unsettled
  BY Zenon DEF Control, Existence, Unsettled
<1>3. AttemptsAccounted /\ TablesAgree /\ SnapshotFresh
  BY DEF AttemptsAccounted, TablesAgree, RowsAgree, SnapshotFresh
<1>4. ReplyMeansLanded /\ RunsAccounted
  BY DEF ReplyMeansLanded, RunsAccounted
<1> QED
  BY <1>1, <1>2, <1>3, <1>4, Zenon DEF IInv

\* Every step of the poller, the processor, the clock and the faults preserves
\* the inductive invariant.
LEMMA NextIInv == IInv /\ [Next]_vars => IInv'
<1> SUFFICES ASSUME IInv, [Next]_vars PROVE IInv'
  OBVIOUS
<1> USE PacketsAssumption, BoundsAssumption
    DEF IInv, pollVars, dbVars, localVars, seenVars
<1>1. ASSUME NEW p \in Packets, Issue(p) PROVE IInv'
  <2> USE <1>1 DEF Issue
  <2>1. TypeOK'
    BY Zenon DEF TypeOK, PacketRow, EventRow, PacketStatus, EventStatus, PC
  <2>2. /\ Control' /\ Existence' /\ Unsettled'
        /\ AttemptsAccounted' /\ TablesAgree' /\ SnapshotFresh'
        /\ ReplyMeansLanded' /\ RunsAccounted'
    BY DEF Control, Existence, Unsettled, AttemptsAccounted, TablesAgree, RowsAgree,
        SnapshotFresh, ReplyMeansLanded, RunsAccounted
  <2> QED
    BY <2>1, <2>2, Zenon
<1>2. CASE FetchInProgressPackets
  <2> USE <1>2 DEF FetchInProgressPackets
  <2>1. TypeOK'
    BY Zenon DEF TypeOK, PacketRow, EventRow, PacketStatus, EventStatus, PC
  <2>2. Control' /\ Existence' /\ Unsettled' /\ AttemptsAccounted'
    BY Zenon DEF Control, Existence, Unsettled, AttemptsAccounted
  <2>3. TablesAgree' /\ SnapshotFresh' /\ ReplyMeansLanded' /\ RunsAccounted'
    BY Zenon DEF TablesAgree, RowsAgree, SnapshotFresh, ReplyMeansLanded, RunsAccounted
  <2> QED
    BY <2>1, <2>2, <2>3, Zenon
<1>3. ASSUME NEW p \in Packets, ProcessIndividualPacket(p) PROVE IInv'
  <2> DEFINE n == Cardinality({q \in Packets : event[q].status # "ABSENT"})
  <2>1. n \in Nat
    BY CreatedType, Zenon
  <2>2. \/ UNCHANGED <<packet, event>>
        \/ /\ packet[p].status = "ABSENT"
           /\ packet' = [packet EXCEPT ![p].status = "NEW"]
           /\ event' = [event EXCEPT ![p].status = "NEW", ![p].created = n]
    BY <1>3, Zenon DEF ProcessIndividualPacket
  <2>3. /\ fetched' = fetched \ {p}
        /\ UNCHANGED <<issued, errors, localVars, seenVars, faults, lostAcks>>
    BY <1>3, Zenon DEF ProcessIndividualPacket
  <2> HIDE DEF n
  <2> USE <2>1, <2>2, <2>3
  <2>4. TypeOK'
    <3>1. packet' \in [Packets -> PacketRow]
      <4>1. [packet EXCEPT ![p].status = "NEW"] \in [Packets -> PacketRow]
        BY PacketRowUpdate, Zenon DEF TypeOK, PacketStatus
      <4> QED
        BY <4>1, Zenon DEF TypeOK
    <3>2. event' \in [Packets -> EventRow]
      <4>1. [event EXCEPT ![p].status = "NEW", ![p].created = n]
               \in [Packets -> EventRow]
        BY EventRowCreate, Zenon DEF TypeOK, EventStatus
      <4> QED
        BY <4>1, Zenon DEF TypeOK
    <3> QED
      BY <3>1, <3>2, Zenon DEF TypeOK
  <2>5. ASSUME NEW q \in Packets
        PROVE  /\ event'[q].attempts = event[q].attempts
               /\ packet'[q].status = "ABSENT" <=> event'[q].status = "ABSENT"
               /\ event[q].status # "ABSENT" => event'[q] = event[q]
               /\ event'[q].status = "SUCCEEDED" <=> event[q].status = "SUCCEEDED"
    <3>1. event[q] \in EventRow /\ packet[q] \in PacketRow
      BY Zenon DEF TypeOK
    <3>2. CASE UNCHANGED <<packet, event>> \/ q # p
      <4>1. event'[q] = event[q] /\ packet'[q] = packet[q]
        BY <3>2, Zenon DEF TypeOK
      <4> QED
        BY <4>1, Zenon DEF Existence
    <3>3. CASE ~UNCHANGED <<packet, event>> /\ q = p
      <4>1. /\ event'[p] = [event[p] EXCEPT !.status = "NEW", !.created = n]
            /\ packet'[p] = [packet[p] EXCEPT !.status = "NEW"]
            /\ event[p].status = "ABSENT"
        BY <3>3, Zenon DEF TypeOK, Existence
      <4> QED
        BY <3>1, <3>3, <4>1, Zenon DEF EventRow, PacketRow
    <3> QED
      BY <3>2, <3>3, Zenon
  <2>6. Existence' /\ Unsettled' /\ AttemptsAccounted' /\ RunsAccounted'
    BY <2>5 DEF TypeOK, Existence, Unsettled, AttemptsAccounted,
        RunsAccounted, Pending
  <2>7. TablesAgree'
    BY DEF TypeOK, EventRow, PacketRow, Existence, TablesAgree, RowsAgree
  <2>8. SnapshotFresh'
    BY DEF TypeOK, Existence, SnapshotFresh, Pending
  <2>9. Control' /\ ReplyMeansLanded'
    BY Zenon DEF Control, ReplyMeansLanded
  <2> QED
    BY <2>4, <2>6, <2>7, <2>8, <2>9, Zenon
<1>4. ASSUME NEW p \in Packets, PersistFails(p) PROVE IInv'
  <2> USE <1>4 DEF PersistFails
  <2>1. TypeOK'
    BY DEF TypeOK, PacketRow, EventRow, PacketStatus, EventStatus, PC
  <2>2. RunsAccounted'
    BY DEF TypeOK, EventRow, PacketRow, RunsAccounted
  <2>3. /\ Control' /\ Existence' /\ Unsettled'
        /\ AttemptsAccounted' /\ TablesAgree' /\ SnapshotFresh'
        /\ ReplyMeansLanded'
    BY ZenonT(40) DEF Control, Existence, Unsettled, AttemptsAccounted, TablesAgree, RowsAgree,
        SnapshotFresh, ReplyMeansLanded
  <2> QED
    BY <2>1, <2>2, <2>3, Zenon
<1>5. CASE Tick
  <2>1. ASSUME NEW p \in Packets
        PROVE  /\ event'[p] \in EventRow
               /\ event'[p].status = event[p].status
               /\ event'[p].attempts = event[p].attempts
               /\ event[p].wait = 0 => event'[p].wait = 0
    <3>1. event[p] \in EventRow
      BY Zenon DEF TypeOK
    <3>2. event'[p] = [event[p] EXCEPT !.wait = IF @ > 0 THEN @ - 1 ELSE 0]
      BY <1>5, Zenon DEF Tick
    <3> QED
      BY <3>1, <3>2 DEF EventRow
  <2>2. event' \in [Packets -> EventRow]
    BY <1>5, <2>1, Zenon DEF Tick
  <2>3. UNCHANGED <<pollVars, packet, errors, localVars, seenVars, faults, lostAcks>>
    BY <1>5, Zenon DEF Tick
  <2>4. TypeOK'
    BY <2>2, <2>3, Zenon DEF TypeOK
  <2>5. Existence' /\ Unsettled' /\ AttemptsAccounted'
    BY <2>1, <2>3, Zenon DEF TypeOK, Existence, Unsettled, AttemptsAccounted
  <2>6. TablesAgree' /\ SnapshotFresh' /\ RunsAccounted'
    <3>1. TablesAgree'
      BY <2>1, <2>3, ZenonT(40) DEF TablesAgree, RowsAgree
    <3>2. SnapshotFresh'
      BY <2>1, <2>3, Zenon DEF TypeOK, SnapshotFresh
    <3>3. RunsAccounted'
      BY <2>1, <2>3, Zenon DEF TypeOK, RunsAccounted
    <3> QED
      BY <3>1, <3>2, <3>3, Zenon
  <2>7. Control' /\ ReplyMeansLanded'
    BY <2>3, Zenon DEF Control, ReplyMeansLanded
  <2> QED
    BY <2>4, <2>5, <2>6, <2>7, Zenon
<1>6. CASE FindTop50EventsToProcess
  <2> USE <1>6 DEF FindTop50EventsToProcess, Due
  <2>1. TypeOK'
    BY Zenon DEF TypeOK, PacketRow, EventRow, PacketStatus, EventStatus, PC
  <2>2. Control'
    BY Zenon DEF TypeOK, EventRow, PacketRow, Control
  <2>3. SnapshotFresh'
    BY DEF TypeOK, EventRow, PacketRow, SnapshotFresh, Control, Pending
  <2>4. /\ Existence' /\ Unsettled' /\ AttemptsAccounted'
        /\ TablesAgree' /\ ReplyMeansLanded' /\ RunsAccounted'
    BY ZenonT(30) DEF Existence, Unsettled, AttemptsAccounted, TablesAgree, RowsAgree,
        ReplyMeansLanded, RunsAccounted
  <2> QED
    BY <2>1, <2>2, <2>3, <2>4, Zenon
<1>7. ASSUME NEW p \in Packets, BeginEvent(p) PROVE IInv'
  <2> USE <1>7 DEF BeginEvent
  <2>1. TypeOK'
    BY DEF TypeOK, PacketRow, EventRow, PacketStatus, EventStatus, PC
  <2>2. Control'
    BY Zenon DEF TypeOK, EventRow, PacketRow, Control
  <2>3. Existence'
    BY Zenon DEF TypeOK, EventRow, PacketRow, Existence, SnapshotFresh, Pending
  <2>4. Unsettled'
    BY Zenon DEF TypeOK, EventRow, PacketRow, Unsettled, SnapshotFresh
  <2>5. SnapshotFresh'
    BY Zenon DEF TypeOK, EventRow, PacketRow, SnapshotFresh
  <2>6. RunsAccounted'
    BY DEF TypeOK, EventRow, PacketRow, RunsAccounted, Control
  <2>7. AttemptsAccounted' /\ TablesAgree' /\ ReplyMeansLanded'
    BY Zenon DEF AttemptsAccounted, TablesAgree, RowsAgree, ReplyMeansLanded
  <2> QED
    BY <2>1, <2>2, <2>3, <2>4, <2>5, <2>6, <2>7, Zenon
<1>8. CASE BatchDone
  <2> USE <1>8 DEF BatchDone
  <2>1. TypeOK'
    BY Zenon DEF TypeOK, PacketRow, EventRow, PacketStatus, EventStatus, PC
  <2>2. Control'
    BY Zenon DEF TypeOK, EventRow, PacketRow, Control
  <2>3. SnapshotFresh'
    BY Zenon DEF TypeOK, EventRow, PacketRow, SnapshotFresh, Control
  <2>4. /\ Existence' /\ Unsettled' /\ AttemptsAccounted'
        /\ TablesAgree' /\ ReplyMeansLanded' /\ RunsAccounted'
    BY DEF Existence, Unsettled, AttemptsAccounted, TablesAgree, RowsAgree,
        ReplyMeansLanded, RunsAccounted
  <2> QED
    BY <2>1, <2>2, <2>3, <2>4, Zenon
<1>9. CASE CoreCall
  <2> USE <1>9 DEF CoreCall, CallsOf
  <2>1. TypeOK'
    BY DEF TypeOK, PacketRow, EventRow, PacketStatus, EventStatus, PC, Control
  <2>2. Control'
    BY Zenon DEF TypeOK, EventRow, PacketRow, Control
  <2>3. ReplyMeansLanded'
    BY Zenon DEF TypeOK, EventRow, PacketRow, ReplyMeansLanded
  <2>4. /\ Existence' /\ Unsettled' /\ AttemptsAccounted'
        /\ TablesAgree' /\ SnapshotFresh' /\ RunsAccounted'
    BY DEF Existence, Unsettled, AttemptsAccounted, TablesAgree, RowsAgree,
        SnapshotFresh, RunsAccounted
  <2> QED
    BY <2>1, <2>2, <2>3, <2>4, Zenon
<1>10. CASE Reply
  <2> USE <1>10 DEF Reply, CallsOf
  <2>1. TypeOK'
    BY Zenon DEF TypeOK, PacketRow, EventRow, PacketStatus, EventStatus, PC, Control
  <2>2. Control'
    BY Zenon DEF TypeOK, EventRow, PacketRow, Control
  <2>3. SnapshotFresh'
    BY Zenon DEF TypeOK, EventRow, PacketRow, SnapshotFresh
  <2>4. ReplyMeansLanded'
    BY Zenon DEF TypeOK, EventRow, PacketRow, ReplyMeansLanded, Control
  <2>5. /\ Existence' /\ Unsettled' /\ AttemptsAccounted'
        /\ TablesAgree' /\ RunsAccounted'
    BY ZenonT(30) DEF Existence, Unsettled, AttemptsAccounted, TablesAgree, RowsAgree, RunsAccounted
  <2> QED
    BY <2>1, <2>2, <2>3, <2>4, <2>5, Zenon
<1>11. CASE ReplyFails
  <2> USE <1>11 DEF ReplyFails, CallsOf
  <2>1. TypeOK'
    BY Zenon DEF TypeOK, PacketRow, EventRow, PacketStatus, EventStatus, PC, Control
  <2>2. Control'
    BY Zenon DEF TypeOK, EventRow, PacketRow, Control
  <2>3. SnapshotFresh'
    BY Zenon DEF TypeOK, EventRow, PacketRow, SnapshotFresh
  <2>4. ReplyMeansLanded'
    BY Zenon DEF TypeOK, EventRow, PacketRow, ReplyMeansLanded, Control
  <2>5. /\ Existence' /\ Unsettled' /\ AttemptsAccounted'
        /\ TablesAgree' /\ RunsAccounted'
    BY Zenon DEF Existence, Unsettled, AttemptsAccounted, TablesAgree, RowsAgree, RunsAccounted
  <2> QED
    BY <2>1, <2>2, <2>3, <2>4, <2>5, Zenon
<1>12. CASE HandlerFails
  <2> USE <1>12 DEF HandlerFails
  <2>1. TypeOK'
    BY Zenon DEF TypeOK, PacketRow, EventRow, PacketStatus, EventStatus, PC
  <2>2. Control'
    BY Zenon DEF TypeOK, EventRow, PacketRow, Control
  <2>3. SnapshotFresh'
    BY Zenon DEF TypeOK, EventRow, PacketRow, SnapshotFresh
  <2>4. /\ Existence' /\ Unsettled' /\ AttemptsAccounted'
        /\ TablesAgree' /\ ReplyMeansLanded' /\ RunsAccounted'
    BY DEF Existence, Unsettled, AttemptsAccounted, TablesAgree, RowsAgree,
        ReplyMeansLanded, RunsAccounted
  <2> QED
    BY <2>1, <2>2, <2>3, <2>4, Zenon
<1>13. CASE Commit
  <2>1. cur \in Packets
    BY <1>13, Zenon DEF Commit, TypeOK, Control
  <2>2. CommitEffect(cur)
    BY <1>13, <2>1, CommittedEffect, Zenon DEF Commit
  <2>3. /\ pc = "replied" /\ pc' = "batch" /\ cur' = None /\ step' = 0
        /\ UNCHANGED <<pollVars, errors, batch, snap, landed, acked, runs,
                       faults, lostAcks>>
    BY <1>13, Zenon DEF Commit
  <2> USE <2>1, <2>2, <2>3 DEF CommitEffect
  <2>4. TypeOK'
    BY DEF TypeOK, PC
  <2>5. Control' /\ Existence'
    BY DEF TypeOK, Control, Existence
  <2>6. event[cur].status \in Pending /\ event[cur].attempts = snap[cur]
    BY Zenon DEF SnapshotFresh
  <2>7. Unsettled'
    BY <2>6 DEF TypeOK, Unsettled, Pending
  <2>8. AttemptsAccounted'
    BY <2>6 DEF TypeOK, AttemptsAccounted
  <2>9. TablesAgree'
    <3>1. SUFFICES ASSUME lostAcks = 0 PROVE TablesAgree'
      BY Zenon DEF TablesAgree
    <3>2. commits[cur] = 0
      BY <2>6, <3>1, Zenon DEF Unsettled, Pending
    <3>3. snap[cur] = errors[cur] /\ errors[cur] < MaxAttempts
      <4>1. RowsAgree(cur)
        BY <3>1, Zenon DEF TablesAgree
      <4>2. errors[cur] \in Nat /\ snap[cur] = errors[cur]
        BY <2>6, <3>2 DEF TypeOK, AttemptsAccounted
      <4>3. errors[cur] < MaxAttempts
        <5>1. errors[cur] # MaxAttempts /\ errors[cur] <= MaxAttempts
          BY <2>6, <4>1, <4>2, Zenon DEF RowsAgree, Pending
        <5> QED
          BY <4>2, <5>1, BelowMax, Zenon
      <4> QED
        BY <4>2, <4>3, Zenon
    <3>4. ASSUME NEW q \in Packets, q # cur PROVE RowsAgree(q)'
      <4>1. /\ event'[q] = event[q] /\ packet'[q] = packet[q]
            /\ errors'[q] = errors[q]
        BY <3>4, Zenon
      <4>2. RowsAgree(q)
        BY <3>1, Zenon DEF TablesAgree
      <4> QED
        BY <4>1, <4>2, Zenon DEF RowsAgree
    <3>5. ASSUME NEW q \in Packets, q = cur PROVE RowsAgree(q)'
      <4>1. packet[q].retries = errors[q] /\ errors[q] \in Nat /\ snap[q] = errors[q]
        BY <3>1, <3>3, <3>5, Zenon DEF TypeOK, TablesAgree, RowsAgree
      <4>2. /\ event'[q].status = "SUCCEEDED" /\ event'[q].attempts = errors[q] + 1
            /\ packet'[q].status = "DECODED" /\ packet'[q].retries = errors[q]
            /\ errors'[q] = errors[q] /\ errors[q] < MaxAttempts
        BY <3>3, <3>5, <4>1, Zenon
      <4>3. /\ packet'[q].retries = errors'[q] /\ errors'[q] # MaxAttempts
            /\ event'[q].attempts <= MaxAttempts
        BY <4>1, <4>2
      <4> QED
        BY <4>2, <4>3, Zenon DEF RowsAgree
    <3> QED
      BY <3>4, <3>5, Zenon DEF TablesAgree
  <2>10. SnapshotFresh'
    BY ZenonT(30) DEF SnapshotFresh, Control
  <2>11. ReplyMeansLanded'
    BY Zenon DEF TypeOK, ReplyMeansLanded, Control
  <2>12. RunsAccounted'
    BY <2>6 DEF TypeOK, EventRow, RunsAccounted
  <2> QED
    BY <2>4, <2>5, <2>7, <2>8, <2>9, <2>10, <2>11, <2>12, Zenon
<1>14. CASE CommitAckLost
  <2>1. cur \in Packets
    BY <1>14, Zenon DEF CommitAckLost, TypeOK, Control
  <2>2. CommitEffect(cur)
    BY <1>14, <2>1, CommittedEffect, Zenon DEF CommitAckLost
  <2>3. /\ pc = "replied" /\ pc' = "failing"
        /\ lostAcks < MaxLostAcks /\ lostAcks' = lostAcks + 1
        /\ UNCHANGED <<pollVars, errors, batch, cur, snap, step, landed, acked,
                       runs, faults>>
    BY <1>14, Zenon DEF CommitAckLost
  <2> USE <2>1, <2>2, <2>3 DEF CommitEffect
  <2>4. TypeOK'
    BY DEF TypeOK, PC
  <2>5. Control' /\ Existence'
    BY ZenonT(30) DEF TypeOK, Control, Existence
  <2>6. event[cur].status \in Pending /\ event[cur].attempts = snap[cur]
    BY Zenon DEF SnapshotFresh
  <2>7. Unsettled'
    BY <2>6 DEF TypeOK, Unsettled, Pending
  <2>8. AttemptsAccounted'
    BY <2>6 DEF TypeOK, AttemptsAccounted
  <2>9. TablesAgree'
    BY DEF TypeOK, TablesAgree, RowsAgree
  <2>10. SnapshotFresh'
    BY ZenonT(40) DEF SnapshotFresh, Control
  <2>11. ReplyMeansLanded'
    BY Zenon DEF TypeOK, ReplyMeansLanded, Control
  <2>12. RunsAccounted'
    BY <2>6 DEF TypeOK, EventRow, RunsAccounted
  <2> QED
    BY <2>4, <2>5, <2>7, <2>8, <2>9, <2>10, <2>11, <2>12, Zenon
<1>15. CASE RecordFailure
  <2> DEFINE n == event[cur].attempts + 1
  <2>1. cur \in Packets
    BY <1>15, Zenon DEF RecordFailure, RecordVerdict, TypeOK, Control
  <2>2. FailureEffect(n)
    BY <1>15, <2>1, RecordFailureEffect, Zenon
  <2>3. /\ pc = "failing" /\ pc' = "batch" /\ cur' = None /\ step' = 0
        /\ UNCHANGED <<pollVars, batch, snap, seenVars, faults, lostAcks>>
    BY <1>15, Zenon DEF RecordFailure, RecordVerdict
  <2>4. n \in Nat /\ event[cur].attempts \in Nat /\ n = event[cur].attempts + 1
    BY <2>1 DEF TypeOK, EventRow
  <2> HIDE DEF n
  <2> USE <2>1, <2>2, <2>3, <2>4 DEF FailureEffect
  <2>5. TypeOK'
    BY DEF TypeOK, PC
  <2>6. Control' /\ Existence'
    BY Zenon DEF TypeOK, Control, Existence
  <2>7. Unsettled'
    BY DEF Unsettled, Pending
  <2>8. AttemptsAccounted'
    BY DEF TypeOK, AttemptsAccounted
  <2>9. TablesAgree'
    <3>1. SUFFICES ASSUME lostAcks = 0 PROVE TablesAgree'
      BY Zenon DEF TablesAgree
    <3>2. event[cur].status \in Pending /\ commits[cur] = 0
      BY <3>1, Zenon DEF Unsettled, Pending
    <3>3. n = errors[cur] + 1 /\ errors[cur] < MaxAttempts
      <4>1. errors[cur] # MaxAttempts
        BY <3>1, <3>2, Zenon DEF TablesAgree, RowsAgree, Pending
      <4>2. event[cur].attempts = errors[cur] /\ event[cur].attempts <= MaxAttempts
        <5>1. RowsAgree(cur) /\ event[cur].attempts = errors[cur] + commits[cur]
          BY <3>1, Zenon DEF TablesAgree, AttemptsAccounted
        <5> QED
          <6>1. errors[cur] \in Nat
            BY Zenon DEF TypeOK
          <6>2. event[cur].attempts <= MaxAttempts
            BY <5>1, Zenon DEF RowsAgree
          <6> QED
            BY <3>2, <5>1, <6>1, <6>2
      <4> QED
        BY <4>1, <4>2
    <3>4. packet[cur].status = "NEW"
      BY <3>1, <3>2, Zenon DEF TypeOK, PacketRow, PacketStatus, TablesAgree, RowsAgree, Pending
    <3>5. ASSUME NEW q \in Packets, q # cur PROVE RowsAgree(q)'
      <4>1. /\ event'[q] = event[q] /\ packet'[q] = packet[q]
            /\ errors'[q] = errors[q]
        BY <3>5, Zenon
      <4>2. RowsAgree(q)
        BY <3>1, Zenon DEF TablesAgree
      <4> QED
        BY <4>1, <4>2, Zenon DEF RowsAgree
    <3>6. ASSUME NEW q \in Packets, q = cur PROVE RowsAgree(q)'
      <4>1. /\ event'[q].attempts = n /\ packet'[q].retries = n
            /\ errors'[q] = n /\ n <= MaxAttempts /\ n > 0
        BY <3>3, <3>6 DEF TypeOK
      <4>2. CASE n < MaxAttempts
        <5>1. event'[q].status = "RETRY_SCHEDULED" /\ packet'[q].status = "NEW"
          BY <3>4, <3>6, <4>2, Zenon
        <5>2. /\ packet'[q].retries = errors'[q]
              /\ errors'[q] # MaxAttempts /\ errors'[q] > 0
              /\ event'[q].attempts <= MaxAttempts
          BY <4>1, <4>2, LessDiffers, Zenon DEF TypeOK
        <5> QED
          BY <5>1, <5>2, Zenon DEF RowsAgree
      <4>3. CASE n = MaxAttempts
        <5>1. event'[q].status = "PERMANENTLY_FAILED" /\ packet'[q].status = "FAILED"
          BY <3>6, <4>3
        <5>2. /\ packet'[q].retries = errors'[q]
              /\ errors'[q] = MaxAttempts /\ errors'[q] > 0
              /\ event'[q].attempts <= MaxAttempts
          BY <4>1, <4>3, Zenon
        <5> QED
          BY <5>1, <5>2, Zenon DEF RowsAgree
      <4> QED
        BY <4>1, <4>2, <4>3, BelowMax, Zenon
    <3> QED
      BY <3>5, <3>6, Zenon DEF TablesAgree
  <2>10. SnapshotFresh'
    BY Zenon DEF SnapshotFresh, Control
  <2>11. ReplyMeansLanded'
    BY Zenon DEF ReplyMeansLanded
  <2>12. RunsAccounted'
    BY DEF TypeOK, EventRow, RunsAccounted
  <2> QED
    BY <2>5, <2>6, <2>7, <2>8, <2>9, <2>10, <2>11, <2>12, Zenon
<1>16. CASE RecordFailureLost
  <2> USE <1>16 DEF RecordFailureLost
  <2>1. TypeOK'
    BY DEF TypeOK, PacketRow, EventRow, PacketStatus, EventStatus, PC
  <2>2. Control'
    BY Zenon DEF TypeOK, EventRow, PacketRow, Control
  <2>3. Existence'
    BY Zenon DEF TypeOK, EventRow, PacketRow, Existence
  <2>4. Unsettled'
    BY Zenon DEF TypeOK, EventRow, PacketRow, Unsettled
  <2>5. SnapshotFresh'
    BY Zenon DEF TypeOK, EventRow, PacketRow, SnapshotFresh
  <2>6. RunsAccounted'
    BY DEF TypeOK, EventRow, PacketRow, RunsAccounted
  <2>7. AttemptsAccounted' /\ TablesAgree' /\ ReplyMeansLanded'
    BY Zenon DEF AttemptsAccounted, TablesAgree, RowsAgree, ReplyMeansLanded
  <2> QED
    BY <2>1, <2>2, <2>3, <2>4, <2>5, <2>6, <2>7, Zenon
<1>17. CASE Crash
  <2> USE <1>17 DEF Crash
  <2>1. TypeOK'
    BY DEF TypeOK, PacketRow, EventRow, PacketStatus, EventStatus, PC
  <2>2. Control'
    BY Zenon DEF TypeOK, EventRow, PacketRow, Control
  <2>3. Existence'
    BY Zenon DEF TypeOK, EventRow, PacketRow, Existence
  <2>4. Unsettled'
    BY Zenon DEF TypeOK, EventRow, PacketRow, Unsettled
  <2>5. SnapshotFresh'
    BY Zenon DEF TypeOK, EventRow, PacketRow, SnapshotFresh
  <2>6. RunsAccounted'
    <3>1. \A p \in Packets : runs[p] \in Nat /\ event[p].attempts \in Nat /\ faults \in Nat
      BY DEF TypeOK, EventRow
    <3>2. None \notin Packets /\ cur' = None /\ faults' = faults + 1 /\ UNCHANGED <<runs, event>>
      OBVIOUS
    <3> QED
      BY <3>1, <3>2 DEF RunsAccounted
  <2>7. AttemptsAccounted' /\ TablesAgree' /\ ReplyMeansLanded'
    BY Zenon DEF AttemptsAccounted, TablesAgree, RowsAgree, ReplyMeansLanded
  <2> QED
    BY <2>1, <2>2, <2>3, <2>4, <2>5, <2>6, <2>7, Zenon
<1>18. CASE UNCHANGED vars
  BY <1>18, ZenonT(30) DEF vars, TypeOK, Control, Existence, Unsettled, AttemptsAccounted,
     TablesAgree, RowsAgree, SnapshotFresh, ReplyMeansLanded, RunsAccounted
<1> QED
  BY <1>1, <1>2, <1>3, <1>4, <1>5, <1>6, <1>7, <1>8, <1>9, <1>10, <1>11,
     <1>12, <1>13, <1>14, <1>15, <1>16, <1>17, <1>18, Zenon
     DEF Next, Poller, Processor, Faults

\* Every reachable state satisfies the inductive invariant.
LEMMA Invariance == Spec => []IInv
  BY InitIInv, NextIInv, PTL DEF Spec

-----------------------------------------------------------------------------
(* What the runs check on small instances, for every instance. *)

\* The tables and the locals of the poller and the processor are well typed.
THEOREM TypeCorrect == Spec => []TypeOK
<1>1. IInv => TypeOK
  BY Zenon DEF IInv
<1> QED
  BY Invariance, <1>1, PTL

\* The attempt counter is the recorded failures plus the committed transactions,
\* across the rollback in executeInTransaction and the recount in
\* recordFailureInNewTransaction.
THEOREM CounterCorrect == Spec => []AttemptsAccounted
<1>1. IInv => AttemptsAccounted
  BY Zenon DEF IInv
<1> QED
  BY Invariance, <1>1, PTL

\* amie_packets and amie_processing_events give the same verdict on every packet
\* until a commit acknowledgement is lost.
THEOREM TablesCorrect == Spec => []TablesAgree
<1>1. IInv => TablesAgree
  BY Zenon DEF IInv
<1> QED
  BY Invariance, <1>1, PTL

\* The row executeInTransaction writes back is never stale.
THEOREM SnapshotCorrect == Spec => []SnapshotFresh
<1>1. IInv => SnapshotFresh
  BY Zenon DEF IInv
<1> QED
  BY Invariance, <1>1, PTL

\* A reply to AMIE means the core calls committed, and success means a reply.
THEOREM ReplyCorrect == Spec => []ReplyMeansLanded
<1>1. IInv => ReplyMeansLanded
  BY Zenon DEF IInv
<1> QED
  BY Invariance, <1>1, PTL

\* Executions beyond the attempt counter are paid for by faults.
THEOREM RunsCorrect == Spec => []RunsAccounted
<1>1. IInv => RunsAccounted
  BY Zenon DEF IInv
<1> QED
  BY Invariance, <1>1, PTL

\* No handler is run inside its backoff or for a settled packet.
THEOREM DueCorrect == Spec => RunsOnlyWhenDue
<1>1. IInv /\ [Next]_vars =>
        [\A p \in Packets :
            runs'[p] > runs[p] => event[p].status \in Pending /\ event[p].wait = 0]_vars
  <2> SUFFICES ASSUME IInv, Next, NEW p \in Packets, runs'[p] > runs[p]
               PROVE  event[p].status \in Pending /\ event[p].wait = 0
    OBVIOUS
  <2>1. runs[p] \in Nat
    BY Zenon DEF IInv, TypeOK
  <2>2. BeginEvent(p)
    <3>1. PICK q \in Packets : BeginEvent(q) \/ runs' = runs
      <4>1. (\E q \in Packets : BeginEvent(q)) \/ runs' = runs
        BY Zenon DEF Next, Poller, Processor, Faults, Issue, FetchInProgressPackets,
               ProcessIndividualPacket, PersistFails, Tick,
               FindTop50EventsToProcess, BatchDone, CoreCall, Reply, ReplyFails,
               HandlerFails, Commit, CommitAckLost, Committed, RecordFailure,
               RecordVerdict, RecordFailureLost, Crash, seenVars
      <4> QED
        BY <4>1, Zenon
    <3>2. BeginEvent(q)
      BY <2>1, <3>1
    <3>3. q = p
      BY <2>1, <3>2 DEF BeginEvent, IInv, TypeOK
    <3> QED
      BY <3>2, <3>3, Zenon
  <2> QED
    BY <2>2, Zenon DEF BeginEvent, IInv, SnapshotFresh
<1> QED
  BY Invariance, <1>1, PTL DEF Spec, RunsOnlyWhenDue

\* Without faults the documented limit holds: at most MaxAttempts executions.
THEOREM AttemptsBoundedWithoutFaults ==
    ASSUME MaxFaults = 0, MaxLostAcks = 0
    PROVE  Spec => []AttemptsBounded
<1>1. IInv => AttemptsBounded
  <2> SUFFICES ASSUME IInv, NEW p \in Packets PROVE runs[p] <= MaxAttempts
    BY Zenon DEF AttemptsBounded
  <2> USE PacketsAssumption, BoundsAssumption DEF IInv, TypeOK, EventRow
  <2>1. faults = 0 /\ lostAcks = 0
    OBVIOUS
  <2>2. event[p].attempts <= MaxAttempts
    BY <2>1, Zenon DEF TablesAgree, RowsAgree
  <2>3. CASE cur = p
    <3>1. event[p].status \in Pending /\ commits[p] = 0
      BY <2>1, <2>3, Zenon DEF Unsettled, Pending
    <3>2. errors[p] # MaxAttempts
      BY <2>1, <3>1, Zenon DEF TablesAgree, RowsAgree, Pending
    <3>3. event[p].attempts = errors[p]
      BY <3>1 DEF AttemptsAccounted
    <3>4. runs[p] <= event[p].attempts + 1
      BY <2>1, <2>3 DEF RunsAccounted
    <3>5. /\ runs[p] \in Nat /\ event[p].attempts \in Nat /\ MaxAttempts \in Nat
          /\ event[p].attempts # MaxAttempts
      BY <3>2, <3>3, Zenon
    <3>6. \A r, n, m \in Nat : r <= n + 1 /\ n <= m /\ n # m => r <= m
      OBVIOUS
    <3> QED
      BY <2>2, <3>4, <3>5, <3>6, Zenon
  <2>4. CASE cur # p
    BY <2>1, <2>2, <2>4 DEF RunsAccounted
  <2> QED
    BY <2>3, <2>4, Zenon
<1> QED
  BY Invariance, <1>1, PTL

-----------------------------------------------------------------------------
(* Refinement. *)

\* The four verdicts are distinct, and every status has one.
LEMMA VerdictOfStatus ==
    /\ VerdictOf("ABSENT") = "unknown"
    /\ VerdictOf("NEW") = "pending"
    /\ VerdictOf("RETRY_SCHEDULED") = "pending"
    /\ VerdictOf("SUCCEEDED") = "succeeded"
    /\ VerdictOf("PERMANENTLY_FAILED") = "failed"
  BY Zenon DEF VerdictOf

\* An event recorded as succeeded belongs to a packet AMIE holds the reply of.
SucceededAcked ==
    \A p \in Packets : event[p].status = "SUCCEEDED" => p \in acked \cup Informs

\* Only the commit of a packet that has been replied to makes it succeed.
LEMMA SuccessIsAcked == Spec => []SucceededAcked
<1>1. Init => SucceededAcked
  BY DEF Init, SucceededAcked
<1>2. ASSUME IInv, SucceededAcked, [Next]_vars
      PROVE  SucceededAcked'
  <2> USE <1>2, PacketsAssumption DEF IInv, pollVars, dbVars, localVars, seenVars
  <2> SUFFICES ASSUME NEW q \in Packets, event'[q].status = "SUCCEEDED"
               PROVE  q \in acked' \cup Informs
    BY Zenon DEF SucceededAcked
  <2>1. ASSUME event[q].status = "SUCCEEDED", acked \subseteq acked'
        PROVE  q \in acked' \cup Informs
    BY <2>1, Zenon DEF SucceededAcked
  <2>2. ASSUME NEW p \in Packets, ProcessIndividualPacket(p)
        PROVE  q \in acked' \cup Informs
    <3>1. event[q].status = "SUCCEEDED" /\ acked' = acked
      BY <2>2 DEF ProcessIndividualPacket, TypeOK, EventRow
    <3> QED
      BY <2>1, <3>1, Zenon
  <2>3. CASE Tick
    BY <2>1, <2>3 DEF Tick, TypeOK, EventRow
  <2>4. CASE Commit \/ CommitAckLost
    <3>1. cur \in Packets /\ cur \in acked \cup Informs /\ acked' = acked
      BY <2>4, Zenon DEF Commit, CommitAckLost, Control, TypeOK
    <3>2. q # cur => event'[q].status = event[q].status
      BY <2>4, <3>1, Zenon DEF Commit, CommitAckLost, Committed, TypeOK, EventRow
    <3> QED
      BY <2>1, <3>1, <3>2, Zenon
  <2>5. CASE RecordFailure
    <3>1. cur \in Packets /\ acked' = acked
      BY <2>5, Zenon DEF RecordFailure, RecordVerdict, Control, TypeOK
    <3>2. event'[q].status = event[q].status \/ event'[q].status # "SUCCEEDED"
      BY <2>5, <3>1, RecordFailureEffect, Zenon DEF FailureEffect
    <3> QED
      BY <2>1, <3>1, <3>2, Zenon
  <2>6. CASE event' = event /\ acked \subseteq acked'
    BY <2>1, <2>6, Zenon
  <2>7. CASE Reply \/ ReplyFails \/ CoreCall \/ HandlerFails
    BY <2>6, <2>7, Zenon DEF Reply, ReplyFails, CoreCall, HandlerFails
  <2>8. ASSUME NEW p \in Packets, Issue(p) \/ PersistFails(p) \/ BeginEvent(p)
        PROVE  q \in acked' \cup Informs
    BY <2>6, <2>8, Zenon DEF Issue, PersistFails, BeginEvent
  <2>9. CASE \/ FetchInProgressPackets \/ FindTop50EventsToProcess \/ BatchDone
             \/ RecordFailureLost \/ Crash \/ UNCHANGED vars
    BY <2>6, <2>9, Zenon DEF FetchInProgressPackets, FindTop50EventsToProcess,
       BatchDone, RecordFailureLost, Crash, vars
  <2> QED
    BY <2>2, <2>3, <2>4, <2>5, <2>7, <2>8, <2>9, Zenon
       DEF Next, Poller, Processor, Faults
<1> QED
  BY Invariance, <1>1, <1>2, PTL DEF Spec

\* The poller and the processor implement AmieLedger: one acceptance, calls
\* before reply before success, one verdict.  Neither a crash nor a commit whose
\* acknowledgement is lost makes the processor take a verdict back.
THEOREM Refinement == Spec => ImplementsLedger
<1> DEFINE V == [p \in Packets |->
                    IF p = cur THEN "pending" ELSE VerdictOf(event[p].status)]
<1>1. Init => Ledger!LInit
  BY PacketsAssumption, VerdictOfStatus DEF Init, Ledger!LInit
<1>2. ASSUME IInv, SucceededAcked, [Next]_vars
      PROVE  [Ledger!LNext]_(Ledger!ledgerVars)
  <2> USE <1>2, PacketsAssumption, BoundsAssumption
      DEF IInv, pollVars, dbVars, localVars, seenVars
  <2>1. \A p \in Packets : event[p].status \in Pending => V[p] = "pending"
    BY VerdictOfStatus, Zenon DEF Pending
  <2>2. cur \in Packets => V[cur] = "pending"
    OBVIOUS
  <2>3. ASSUME UNCHANGED <<event, cur, landed, acked>>
        PROVE  UNCHANGED Ledger!ledgerVars
    BY <2>3, Zenon DEF Ledger!ledgerVars
  <2>4. ASSUME NEW p \in Packets, ProcessIndividualPacket(p)
        PROVE  [Ledger!LNext]_(Ledger!ledgerVars)
    <3>1. CASE packet[p].status # "ABSENT"
      BY <2>3, <2>4, <3>1, Zenon DEF ProcessIndividualPacket
    <3>2. CASE packet[p].status = "ABSENT"
      <4>1. event[p].status = "ABSENT" /\ p # cur /\ cur' = cur
        BY <2>4, <3>2, Zenon DEF Existence, ProcessIndividualPacket
      <4>2. \A q \in Packets : event'[q].status =
                IF q = p THEN "NEW" ELSE event[q].status
        BY <2>4, <3>2 DEF ProcessIndividualPacket, TypeOK, EventRow
      <4>3. V' = [V EXCEPT ![p] = "pending"]
        BY <4>1, <4>2, VerdictOfStatus, Zenon
      <4>4. V[p] = "unknown"
        BY <4>1, VerdictOfStatus, Zenon
      <4>5. Ledger!Accept(p)
        BY <2>4, <4>3, <4>4, Zenon DEF ProcessIndividualPacket, Ledger!Accept
      <4> QED
        BY <4>5, Zenon DEF Ledger!LNext
    <3> QED
      BY <3>1, <3>2, Zenon
  <2>5. CASE Tick
    <3>1. \A q \in Packets : event'[q].status = event[q].status
      BY <2>5, Zenon DEF Tick, TypeOK, EventRow
    <3>2. V' = V
      BY <2>5, <3>1 DEF Tick
    <3> QED
      BY <2>5, <3>2, Zenon DEF Tick, Ledger!ledgerVars
  <2>6. CASE CoreCall
    <3>1. cur \in Packets /\ V' = V
      BY <2>6, Zenon DEF CoreCall, Control, TypeOK
    <3>2. CASE landed' = landed
      BY <2>3, <2>6, <3>2, Zenon DEF CoreCall
    <3>3. CASE landed' = landed \cup {cur}
      BY <2>2, <2>6, <3>1, <3>3, Zenon DEF CoreCall, Ledger!LNext, Ledger!Land
    <3> QED
      BY <2>6, <3>2, <3>3, Zenon DEF CoreCall
  <2>7. CASE Reply \/ ReplyFails
    <3>1. cur \in Packets /\ V' = V
      BY <2>7, Zenon DEF Reply, ReplyFails, Control, TypeOK
    <3>2. CASE acked' = acked
      BY <2>3, <2>7, <3>2, Zenon DEF Reply, ReplyFails
    <3>3. CASE acked' = acked \cup {cur} /\ cur \notin Informs
      <4>1. cur \in landed
        BY <2>7, <3>3, Zenon DEF Reply, ReplyFails, CallsOf, Control
      <4>2. Ledger!Acknowledge(cur)
        BY <2>2, <2>7, <3>1, <3>3, <4>1, Zenon DEF Reply, ReplyFails, Ledger!Acknowledge
      <4> QED
        BY <3>1, <4>2, Zenon DEF Ledger!LNext
    <3> QED
      BY <2>7, <3>2, <3>3, Zenon DEF Reply, ReplyFails
  <2>8. CASE Commit
    <3>1. cur \in Packets /\ cur \in acked \cup Informs /\ cur' = None
      BY <2>8, Zenon DEF Commit, Control, TypeOK
    <3>2. \A q \in Packets : event'[q].status =
              IF q = cur THEN "SUCCEEDED" ELSE event[q].status
      BY <2>8, <3>1, Zenon DEF Commit, Committed, TypeOK, EventRow
    <3>3. V' = [V EXCEPT ![cur] = "succeeded"]
      BY <3>1, <3>2, VerdictOfStatus, Zenon
    <3>4. PICK p \in Packets : p = cur
      BY <3>1, Zenon
    <3>5. Ledger!Succeed(p)
      BY <2>2, <2>8, <3>1, <3>3, <3>4, Zenon DEF Commit, Ledger!Succeed
    <3> QED
      BY <3>5, Zenon DEF Ledger!LNext
  <2>9. CASE RecordFailure
    <3> DEFINE s == IF event[cur].attempts + 1 < MaxAttempts
                       THEN "RETRY_SCHEDULED" ELSE "PERMANENTLY_FAILED"
    <3>1. cur \in Packets /\ cur' = None
      BY <2>9, Zenon DEF RecordFailure, RecordVerdict, Control, TypeOK
    <3>2. \A q \in Packets : event'[q].status =
              IF q = cur THEN s ELSE event[q].status
      BY <2>9, <3>1, Zenon DEF RecordFailure, RecordVerdict, TypeOK, EventRow
    <3>3. UNCHANGED <<landed, acked>>
      BY <2>9, Zenon DEF RecordFailure, RecordVerdict
    <3>4. CASE s = "RETRY_SCHEDULED"
      <4>1. V' = V
        BY <3>1, <3>2, <3>4, VerdictOfStatus, Zenon
      <4> QED
        BY <3>3, <4>1, Zenon DEF Ledger!ledgerVars
    <3>5. CASE s = "PERMANENTLY_FAILED"
      <4>1. V' = [V EXCEPT ![cur] = "failed"]
        BY <3>1, <3>2, <3>5, VerdictOfStatus, Zenon
      <4>2. PICK p \in Packets : p = cur
        BY <3>1, Zenon
      <4>3. Ledger!Fail(p)
        BY <2>2, <3>1, <3>3, <4>1, <4>2, Zenon DEF Ledger!Fail
      <4> QED
        BY <4>3, Zenon DEF Ledger!LNext
    <3> QED
      BY <3>4, <3>5, Zenon
  <2>10. CASE CommitAckLost
    <3>1. cur \in Packets /\ cur' = cur
      BY <2>10, Zenon DEF CommitAckLost, Control, TypeOK
    <3>2. \A q \in Packets \ {cur} : event'[q].status = event[q].status
      BY <2>10, <3>1, Zenon DEF CommitAckLost, Committed, TypeOK, EventRow
    <3>3. V' = V
      BY <3>1, <3>2, Zenon
    <3> QED
      BY <2>10, <3>3, Zenon DEF CommitAckLost, Ledger!ledgerVars
  <2>11. ASSUME UNCHANGED <<event, landed, acked>>, cur' = None
         PROVE  [Ledger!LNext]_(Ledger!ledgerVars)
    <3>1. CASE cur = None
      BY <2>3, <2>11, <3>1, Zenon
    <3>2. ASSUME NEW p \in Packets, p = cur
          PROVE  [Ledger!LNext]_(Ledger!ledgerVars)
      <4>1. V' = [V EXCEPT ![p] = VerdictOf(event[p].status)] /\ V[p] = "pending"
        BY <2>11, <3>2, Zenon
      <4>2. CASE event[p].status \in Pending
        <5>1. VerdictOf(event[p].status) = "pending"
          BY <4>2, VerdictOfStatus, Zenon DEF Pending
        <5>2. V' = V
          BY <4>1, <5>1, Zenon
        <5> QED
          BY <2>11, <5>2, Zenon DEF Ledger!ledgerVars
      <4>3. CASE event[p].status = "SUCCEEDED"
        <5>1. p \in acked \cup Informs
          BY <3>2, <4>3, Zenon DEF SucceededAcked
        <5>2. V' = [V EXCEPT ![p] = "succeeded"]
          BY <4>1, <4>3, VerdictOfStatus, Zenon
        <5>3. Ledger!Succeed(p)
          BY <2>11, <4>1, <5>1, <5>2, Zenon DEF Ledger!Succeed
        <5> QED
          BY <5>3, Zenon DEF Ledger!LNext
      <4>4. CASE event[p].status = "PERMANENTLY_FAILED"
        <5>1. V' = [V EXCEPT ![p] = "failed"]
          BY <4>1, <4>4, VerdictOfStatus, Zenon
        <5>2. Ledger!Fail(p)
          BY <2>11, <4>1, <5>1, Zenon DEF Ledger!Fail
        <5> QED
          BY <5>2, Zenon DEF Ledger!LNext
      <4> QED
        BY <3>2, <4>2, <4>3, <4>4, Zenon
           DEF Existence, TypeOK, EventRow, EventStatus, Pending
    <3> QED
      BY <3>1, <3>2, Zenon DEF TypeOK
  <2>12. ASSUME NEW p \in Packets, BeginEvent(p)
         PROVE  [Ledger!LNext]_(Ledger!ledgerVars)
    <3>1. cur = None /\ cur' = p /\ UNCHANGED <<event, landed, acked>>
      BY <2>12, Zenon DEF BeginEvent, Control
    <3>2. V[p] = "pending"
      BY <2>1, <2>12, Zenon DEF BeginEvent, SnapshotFresh
    <3>3. V' = V
      BY <3>1, <3>2, Zenon
    <3> QED
      BY <3>1, <3>3, Zenon DEF Ledger!ledgerVars
  <2>13. CASE RecordFailureLost \/ Crash
    BY <2>11, <2>13, Zenon DEF RecordFailureLost, Crash
  <2>14. ASSUME NEW p \in Packets, Issue(p) \/ PersistFails(p)
         PROVE  [Ledger!LNext]_(Ledger!ledgerVars)
    BY <2>3, <2>14, Zenon DEF Issue, PersistFails
  <2>15. CASE \/ FetchInProgressPackets \/ FindTop50EventsToProcess \/ BatchDone
              \/ HandlerFails \/ UNCHANGED vars
    BY <2>3, <2>15, Zenon DEF FetchInProgressPackets, FindTop50EventsToProcess,
       BatchDone, HandlerFails, vars
  <2> QED
    BY <2>4, <2>5, <2>6, <2>7, <2>8, <2>9, <2>10, <2>12, <2>13, <2>14, <2>15, Zenon
       DEF Next, Poller, Processor, Faults
<1> QED
  BY Invariance, SuccessIsAcked, <1>1, <1>2, PTL
     DEF Spec, ImplementsLedger, Ledger!LSpec

=============================================================================
