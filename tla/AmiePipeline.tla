----------------------------- MODULE AmiePipeline -----------------------------
(***************************************************************************)
(* The AMIE connector's packet pipeline: the poller that copies in-progress*)
(* packets from the AMIE API into amie_packets and amie_processing_events, *)
(* and the processor that runs the packet's handler inside a transaction   *)
(* and records failures in a second one.                                   *)
(*                                                                         *)
(* The handler is kept to what the pipeline can tell apart: it makes       *)
(* CoreCalls calls into the core service, each of which commits in a       *)
(* transaction of its own, then replies to AMIE.  Only what it writes      *)
(* through the processor's transaction is undone when that rolls back.     *)
(***************************************************************************)
EXTENDS Integers, FiniteSets

CONSTANTS
    Packets,        \* the AMIE packets, named by packet_rec_id
    Informs,        \* the ones whose handler makes no core call and no reply
    MaxAttempts,    \* processor.MaxAttempts
    BatchSize,      \* the LIMIT of FindTop50EventsToProcess
    CoreCalls,      \* core calls a handler makes before it replies
    MaxFaults,      \* bound: crashes and database failures in a behaviour
    MaxLostAcks,    \* bound: commits that apply although Commit returns an error
    None            \* no packet

ASSUME PacketsAssumption ==
    /\ IsFiniteSet(Packets)
    /\ Informs \subseteq Packets
    /\ None \notin Packets
ASSUME BoundsAssumption ==
    /\ MaxAttempts \in Nat \ {0}
    /\ BatchSize \in Nat \ {0}
    /\ CoreCalls \in Nat \ {0}
    /\ MaxFaults \in Nat
    /\ MaxLostAcks \in Nat

VARIABLES
    issued,     \* packets AMIE has put in progress for this site (external)
    fetched,    \* the poller's list of packets still to look at
    packet,     \* amie_packets: status and retries
    event,      \* amie_processing_events: status, attempts, created_at, backoff
    errors,     \* amie_processing_errors: rows per packet
    pc,         \* where the processor goroutine is
    batch,      \* events of the current batch it has not started
    cur,        \* the event it is processing
    snap,       \* attempts of each event as the batch query read them (ewp)
    step,       \* core calls the running handler has made
    landed,     \* packets all of whose core calls committed at least once
    acked,      \* packets AMIE holds a reply for (external)
    runs,       \* handler executions per packet
    commits,    \* committed processing transactions per packet
    faults, lostAcks

pollVars  == <<issued, fetched>>
dbVars    == <<packet, event, errors>>
localVars == <<pc, batch, cur, snap, step>>
seenVars  == <<landed, acked, runs, commits>>
vars == <<pollVars, dbVars, localVars, seenVars, faults, lostAcks>>

PacketStatus == {"ABSENT", "NEW", "DECODED", "FAILED"}
EventStatus ==
    {"ABSENT", "NEW", "RETRY_SCHEDULED", "SUCCEEDED", "PERMANENTLY_FAILED"}
PacketRow == [status : PacketStatus, retries : Nat]
EventRow == [status : EventStatus, attempts : Nat, created : Nat, wait : Nat]
PC == {"idle", "batch", "handling", "replied", "failing"}

Init ==
    /\ issued = {}
    /\ fetched = {}
    /\ packet = [p \in Packets |-> [status |-> "ABSENT", retries |-> 0]]
    /\ event = [p \in Packets |->
                  [status |-> "ABSENT", attempts |-> 0, created |-> 0, wait |-> 0]]
    /\ errors = [p \in Packets |-> 0]
    /\ pc = "idle"
    /\ batch = {}
    /\ cur = None
    /\ snap = [p \in Packets |-> 0]
    /\ step = 0
    /\ landed = {}
    /\ acked = {}
    /\ runs = [p \in Packets |-> 0]
    /\ commits = [p \in Packets |-> 0]
    /\ faults = 0
    /\ lostAcks = 0

-----------------------------------------------------------------------------
(* The poller. *)

Issue(p) ==
    /\ p \notin issued
    /\ issued' = issued \cup {p}
    /\ UNCHANGED <<fetched, dbVars, localVars, seenVars, faults, lostAcks>>

\* AMIE lists every packet it has no reply for, and may still list others.
FetchInProgressPackets ==
    /\ fetched = {}
    /\ \E listed \in SUBSET issued :
          /\ issued \ acked \subseteq listed
          /\ listed # {}
          /\ fetched' = listed
    /\ UNCHANGED <<issued, dbVars, localVars, seenVars, faults, lostAcks>>

\* The dedup lookup, then packet and event saved in one transaction.
ProcessIndividualPacket(p) ==
    /\ p \in fetched
    /\ fetched' = fetched \ {p}
    /\ IF packet[p].status # "ABSENT"
          THEN UNCHANGED <<packet, event>>
          ELSE /\ packet' = [packet EXCEPT ![p].status = "NEW"]
               /\ event' = [event EXCEPT
                     ![p].status = "NEW",
                     ![p].created =
                        Cardinality({q \in Packets : event[q].status # "ABSENT"})]
    /\ UNCHANGED <<issued, errors, localVars, seenVars, faults, lostAcks>>

\* The lookup or the transaction fails: the packet waits for another poll.
PersistFails(p) ==
    /\ p \in fetched
    /\ faults < MaxFaults
    /\ faults' = faults + 1
    /\ fetched' = fetched \ {p}
    /\ UNCHANGED <<issued, dbVars, localVars, seenVars, lostAcks>>

-----------------------------------------------------------------------------
(* The processor. *)

\* Mutant of Tick: the countdown does not stop at zero.
TickPastZero ==
    /\ \E p \in Packets : event[p].wait > 0
    /\ event' = [p \in Packets |-> [event[p] EXCEPT !.wait = @ - 1]]
    /\ UNCHANGED <<pollVars, packet, errors, localVars, seenVars, faults, lostAcks>>

\* Time passes: every scheduled retry comes one backoff unit closer.
Tick ==
    /\ \E p \in Packets : event[p].wait > 0
    /\ event' = [p \in Packets |->
                   [event[p] EXCEPT !.wait = IF @ > 0 THEN @ - 1 ELSE 0]]
    /\ UNCHANGED <<pollVars, packet, errors, localVars, seenVars, faults, lostAcks>>

\* ComputeNextRetryAt, in units of BaseBackoffSeconds: MaxBackoffSeconds is 20.
BackoffCap == 20
Doubled == [exp \in 0..4 |-> 2^exp]   \* 2^5 is past the cap
Backoff(attempt) ==
    LET exp == IF attempt < 1 THEN 0 ELSE attempt - 1
    IN IF exp > 4 THEN BackoffCap ELSE Doubled[exp]

\* Mutants of Due: without the next_retry_at clause; without RETRY_SCHEDULED.
DueIgnoringBackoff ==
    {p \in Packets : event[p].status \in {"NEW", "RETRY_SCHEDULED"}}
DueOnlyNew == {p \in Packets : event[p].status = "NEW" /\ event[p].wait = 0}

Due ==
    {p \in Packets : /\ event[p].status \in {"NEW", "RETRY_SCHEDULED"}
                     /\ event[p].wait = 0}

Older(p, q) == event[p].created < event[q].created

FindTop50EventsToProcess ==
    /\ pc = "idle"
    /\ \E top \in SUBSET Due :
          /\ top # {}
          /\ \/ Cardinality(top) = BatchSize
             \/ Cardinality(top) < BatchSize /\ top = Due
          /\ \A p \in top, q \in Due \ top : Older(p, q)
          /\ batch' = top
    /\ snap' = [p \in Packets |-> IF p \in batch' THEN event[p].attempts ELSE 0]
    /\ pc' = "batch"
    /\ UNCHANGED <<pollVars, dbVars, cur, step, seenVars, faults, lostAcks>>

\* executeInTransaction up to Route; what it writes is not visible until Commit.
BeginEvent(p) ==
    /\ pc = "batch"
    /\ p \in batch
    /\ \A q \in batch \ {p} : Older(p, q)
    /\ batch' = batch \ {p}
    /\ cur' = p
    /\ step' = 0
    /\ runs' = [runs EXCEPT ![p] = @ + 1]
    /\ pc' = "handling"
    /\ UNCHANGED <<pollVars, dbVars, snap, landed, acked, commits, faults, lostAcks>>

BatchDone ==
    /\ pc = "batch"
    /\ batch = {}
    /\ pc' = "idle"
    /\ snap' = [p \in Packets |-> 0]
    /\ UNCHANGED <<pollVars, dbVars, batch, cur, step, seenVars, faults, lostAcks>>

CallsOf(p) == IF p \in Informs THEN 0 ELSE CoreCalls

\* One core service call of the handler; it commits by itself.
CoreCall ==
    /\ pc = "handling"
    /\ step < CallsOf(cur)
    /\ step' = step + 1
    /\ landed' = IF step' = CallsOf(cur) THEN landed \cup {cur} ELSE landed
    /\ UNCHANGED <<pollVars, dbVars, pc, batch, cur, snap, acked, runs, commits,
                   faults, lostAcks>>

\* ReplyToPacket succeeds, or the handler is one that sends no reply.
Reply ==
    /\ pc = "handling"
    /\ step = CallsOf(cur)
    /\ pc' = "replied"
    /\ acked' = IF cur \in Informs THEN acked ELSE acked \cup {cur}
    /\ UNCHANGED <<pollVars, dbVars, batch, cur, snap, step, landed, runs, commits,
                   faults, lostAcks>>

\* ReplyToPacket returns an error; AMIE may have taken the reply all the same.
ReplyFails ==
    /\ pc = "handling"
    /\ step = CallsOf(cur)
    /\ cur \notin Informs
    /\ pc' = "failing"
    /\ acked' \in {acked, acked \cup {cur}}
    /\ UNCHANGED <<pollVars, dbVars, batch, cur, snap, step, landed, runs, commits,
                   faults, lostAcks>>

\* Validation, a core call, an audit write or an update of the transaction
\* returns an error: TxFn rolls back.
HandlerFails ==
    /\ pc \in {"handling", "replied"}
    /\ pc' = "failing"
    /\ UNCHANGED <<pollVars, dbVars, batch, cur, snap, step, seenVars, faults, lostAcks>>

\* The writes of executeInTransaction, all from the batch query's row.
Committed(p) ==
    /\ event' = [event EXCEPT ![p].status = "SUCCEEDED",
                              ![p].attempts = snap[p] + 1,
                              ![p].wait = 0]
    /\ packet' = [packet EXCEPT ![p].status = "DECODED"]
    /\ commits' = [commits EXCEPT ![p] = @ + 1]

\* Mutant of Commit: the transaction commits without waiting for the reply.
CommitBeforeReply ==
    /\ pc \in {"handling", "replied"}
    /\ Committed(cur)
    /\ pc' = "batch"
    /\ cur' = None
    /\ step' = 0
    /\ UNCHANGED <<pollVars, errors, batch, snap, landed, acked, runs,
                   faults, lostAcks>>

Commit ==
    /\ pc = "replied"
    /\ Committed(cur)
    /\ pc' = "batch"
    /\ cur' = None
    /\ step' = 0
    /\ UNCHANGED <<pollVars, errors, batch, snap, landed, acked, runs,
                   faults, lostAcks>>

\* The transaction is applied but tx.Commit returns an error.
CommitAckLost ==
    /\ pc = "replied"
    /\ lostAcks < MaxLostAcks
    /\ lostAcks' = lostAcks + 1
    /\ Committed(cur)
    /\ pc' = "failing"
    /\ UNCHANGED <<pollVars, errors, batch, cur, snap, step, landed, acked, runs, faults>>

\* What the recording transaction writes: counter, verdict and error row.
RecordVerdict(effectiveAttempts, isRetryable) ==
    /\ pc = "failing"
    /\ event' = [event EXCEPT
           ![cur].status = IF isRetryable THEN "RETRY_SCHEDULED"
                                          ELSE "PERMANENTLY_FAILED",
           ![cur].attempts = effectiveAttempts,
           ![cur].wait = IF isRetryable THEN Backoff(effectiveAttempts) ELSE 0]
    /\ packet' = [packet EXCEPT
           ![cur].status = IF isRetryable THEN @ ELSE "FAILED",
           ![cur].retries = effectiveAttempts]
    /\ errors' = [errors EXCEPT ![cur] = @ + 1]
    /\ pc' = "batch"
    /\ cur' = None
    /\ step' = 0
    /\ UNCHANGED <<pollVars, batch, snap, seenVars, faults, lostAcks>>

\* Mutants of RecordFailure: the counter from the batch query's row; a retry too
\* many; the failure only logged.
RecordFailureFromOldRow == RecordVerdict(snap[cur] + 1, snap[cur] + 1 < MaxAttempts)
RecordFailureOneMore ==
    RecordVerdict(event[cur].attempts + 1, event[cur].attempts + 1 <= MaxAttempts)
RecordFailureOnlyLogged ==
    /\ pc = "failing"
    /\ pc' = "batch"
    /\ cur' = None
    /\ step' = 0
    /\ UNCHANGED <<pollVars, dbVars, batch, snap, seenVars, faults, lostAcks>>

\* recordFailureInNewTransaction reads the event again and counts from there.
RecordFailure ==
    LET effectiveAttempts == event[cur].attempts + 1
    IN  RecordVerdict(effectiveAttempts, effectiveAttempts < MaxAttempts)

\* The recording transaction fails; the error is logged and the batch goes on.
RecordFailureLost ==
    /\ pc = "failing"
    /\ faults < MaxFaults
    /\ faults' = faults + 1
    /\ pc' = "batch"
    /\ cur' = None
    /\ step' = 0
    /\ UNCHANGED <<pollVars, dbVars, batch, snap, seenVars, lostAcks>>

\* The server process stops and starts again: only the tables survive.
Crash ==
    /\ pc # "idle" \/ fetched # {}
    /\ faults < MaxFaults
    /\ faults' = faults + 1
    /\ fetched' = {}
    /\ pc' = "idle"
    /\ batch' = {}
    /\ cur' = None
    /\ snap' = [p \in Packets |-> 0]
    /\ step' = 0
    /\ UNCHANGED <<issued, dbVars, seenVars, lostAcks>>

Poller ==
    \/ FetchInProgressPackets
    \/ \E p \in Packets : ProcessIndividualPacket(p)

Processor ==
    \/ FindTop50EventsToProcess
    \/ \E p \in Packets : BeginEvent(p)
    \/ BatchDone
    \/ CoreCall
    \/ Reply
    \/ ReplyFails
    \/ HandlerFails
    \/ Commit
    \/ RecordFailure

Faults ==
    \/ \E p \in Packets : PersistFails(p)
    \/ CommitAckLost
    \/ RecordFailureLost
    \/ Crash

Next ==
    \/ \E p \in Packets : Issue(p)
    \/ Poller
    \/ Tick
    \/ Processor
    \/ Faults

Spec == Init /\ [][Next]_vars

\* Both tickers keep firing and the clock keeps running; nothing is assumed of
\* the upstream service or of the faults.
Fairness == WF_vars(Poller) /\ WF_vars(Processor) /\ WF_vars(Tick)

FairSpec == Spec /\ Fairness

-----------------------------------------------------------------------------
(* Properties. *)

Pending == {"NEW", "RETRY_SCHEDULED"}
Settled(p) == event[p].status \in {"SUCCEEDED", "PERMANENTLY_FAILED"}

\* Every variable holds a value of its column or local.  An event's attempts
\* are not capped here: that they stay within MaxAttempts is not a typing fact.
TypeOK ==
    /\ issued \subseteq Packets
    /\ fetched \subseteq issued
    /\ packet \in [Packets -> PacketRow]
    /\ event \in [Packets -> EventRow]
    /\ errors \in [Packets -> Nat]
    /\ pc \in PC
    /\ batch \subseteq Packets
    /\ cur \in Packets \cup {None}
    /\ snap \in [Packets -> Nat]
    /\ step \in 0..CoreCalls
    /\ landed \subseteq Packets
    /\ acked \subseteq Packets
    /\ runs \in [Packets -> Nat]
    /\ commits \in [Packets -> Nat]
    /\ faults \in 0..MaxFaults
    /\ lostAcks \in 0..MaxLostAcks

\* The attempt counter of an event is exactly the failures it has an error row
\* for plus the processing transactions that committed: rolling back the
\* increment in executeInTransaction and redoing it from a fresh read in
\* recordFailureInNewTransaction neither loses nor double counts one.
AttemptsAccounted ==
    \A p \in Packets : event[p].attempts = errors[p] + commits[p]

\* One packet's rows agree: DECODED exactly with SUCCEEDED, FAILED exactly with
\* PERMANENTLY_FAILED, the retries column counts the recorded failures, and the
\* verdict matches the counter (failed at MaxAttempts, retried below).
RowsAgree(p) ==
    /\ (packet[p].status = "ABSENT")  <=> (event[p].status = "ABSENT")
    /\ (packet[p].status = "DECODED") <=> (event[p].status = "SUCCEEDED")
    /\ (packet[p].status = "FAILED")  <=> (event[p].status = "PERMANENTLY_FAILED")
    /\ packet[p].retries = errors[p]
    /\ event[p].status = "PERMANENTLY_FAILED" <=> errors[p] = MaxAttempts
    /\ event[p].status \in {"ABSENT", "NEW"} => event[p].attempts = 0
    /\ event[p].status = "RETRY_SCHEDULED" => errors[p] > 0
    /\ event[p].attempts <= MaxAttempts

\* While no commit acknowledgement has been lost, amie_packets and
\* amie_processing_events agree on every packet.
TablesAgree == lostAcks = 0 => \A p \in Packets : RowsAgree(p)

\* The row the batch query read is still what the table holds when the
\* processor writes it back: executeInTransaction updates the event from that
\* old row, so a stale one would overwrite a newer counter or verdict.
SnapshotFresh ==
    \A p \in Packets :
        (p \in batch \/ (p = cur /\ pc # "failing")) =>
            /\ event[p].status \in Pending
            /\ event[p].wait = 0
            /\ event[p].attempts = snap[p]

\* AMIE holds a reply only for packets all of whose core calls have committed,
\* and a packet is recorded as succeeded only after its reply (informs send
\* none), through every crash, rollback and retry.
ReplyMeansLanded ==
    /\ acked \subseteq landed \ Informs
    /\ \A p \in Packets : commits[p] > 0 => p \in acked \cup Informs

\* A handler execution that is not in the attempt counter is paid for by a
\* fault: outside crashes and failed recordings every execution is counted, so
\* the only way past MaxAttempts is one extra execution per fault.
RunsAccounted ==
    \A p \in Packets :
        runs[p] <= event[p].attempts + faults + (IF cur = p THEN 1 ELSE 0)

\* No handler runs inside its event's backoff window, and none runs for a packet
\* that is already settled, however old the batch is.
RunsOnlyWhenDue ==
    [][\A p \in Packets :
         runs'[p] > runs[p] => event[p].status \in Pending /\ event[p].wait = 0]_vars

\* What the ledger calls an event's status.
VerdictOf(status) ==
    CASE status = "ABSENT" -> "unknown"
      [] status = "SUCCEEDED" -> "succeeded"
      [] status = "PERMANENTLY_FAILED" -> "failed"
      [] OTHER -> "pending"

\* The abstract promise of the pipeline, with the tables read as verdicts; the
\* packet the processor is working on has none until it lets go of it, so that a
\* commit whose acknowledgement was lost is not yet a success.
Ledger == INSTANCE AmieLedger WITH
    verdict <- [p \in Packets |-> IF p = cur THEN "pending" ELSE VerdictOf(event[p].status)]

\* The poller and the processor implement AmieLedger: one acceptance per packet,
\* calls before reply before success, one final verdict.
ImplementsLedger == Ledger!LSpec

\* Every packet AMIE issues is settled for good: no packet is starved by others
\* that keep failing, lost by a crash between two steps, or retried for ever.
EventuallySettled ==
    \A p \in Packets : (p \in issued) ~> [](Settled(p))

\* worker/processor.go:41-42 and README.md:204: at most MaxAttempts processing
\* attempts.
AttemptsBounded == \A p \in Packets : runs[p] <= MaxAttempts

\* worker/processor.go:247-248: when a failure is recorded, the processing
\* transaction was rolled back and the counter has its pre-increment value.
RereadIsPreIncrement == pc = "failing" => event[cur].attempts = snap[cur]
=============================================================================
