-------------------------------- MODULE Outbox --------------------------------
(***************************************************************************)
(* The transactional outbox of SQL Server (stream.OutboxEvent and its      *)
(* procedures) and the publisher workers that drain it: the claim, publish *)
(* and OnError tasks of the CDC handoff package, any number of which run   *)
(* at once.  A worker claims rows under a lease, sends them to the event   *)
(* gateway one by one, acknowledges each, and releases its claims when a   *)
(* task fails; it may crash or outlive its lease at any point.             *)
(***************************************************************************)
EXTENDS Naturals, FiniteSets

CONSTANTS
    Events,             \* stable event ids
    Workers,            \* publisher executions that may run at once
    ContractFailures,   \* events the gateway refuses for good
    MaxAttempts,        \* claims a row may see: 10 in usp_ClaimOutboxBatch
    MaxRows,            \* @max_rows
    MaxRetryCount       \* User::MaxRetryCount of the package

ASSUME OutboxAssumption ==
    /\ IsFiniteSet(Events)
    /\ ContractFailures \subseteq Events
    /\ MaxAttempts \in Nat \ {0}
    /\ MaxRows \in Nat \ {0}
    /\ MaxRetryCount \in Nat

VARIABLES
    outbox,         \* stream.OutboxEvent, by event_id (UQ_Outbox_EventId)
    tokens,         \* claim tokens drawn so far: NEWID() never repeats one
    worker,         \* what each publisher holds in memory
    bus,            \* the claims under which each event reached the bus
    quarantined     \* events in stream.QuarantineEvent

vars == <<outbox, tokens, worker, bus, quarantined>>

Statuses == {"ABSENT", "READY", "CLAIMED", "PUBLISHED", "FAILED", "QUARANTINED"}

\* "ABSENT" is an event without a row; token 0 is NULL; lapsed abstracts
\* claim_expires_at < sysutcdatetime().
OutboxRow == [id: Nat, status: Statuses, token: Nat, lapsed: BOOLEAN,
              attempts: 0..MaxAttempts]

\* todo holds the claimed rows loaded by the script that are not resolved,
\* sent the one the gateway has accepted and the worker has not acknowledged.
WorkerState == [phase: {"IDLE", "SENDING", "ERROR"}, token: Nat,
                todo: SUBSET Events, sent: SUBSET Events, retries: 0..MaxRetryCount]

IdleWorker == [phase |-> "IDLE", token |-> 0, todo |-> {}, sent |-> {}, retries |-> 0]

TypeOK ==
    /\ outbox \in [Events -> OutboxRow]
    /\ tokens \in Nat
    /\ worker \in [Workers -> WorkerState]
    /\ bus \in [Events -> SUBSET Nat]
    /\ quarantined \in SUBSET Events

Init ==
    /\ outbox = [e \in Events |-> [id |-> 0, status |-> "ABSENT", token |-> 0,
                                   lapsed |-> FALSE, attempts |-> 0]]
    /\ tokens = 0
    /\ worker = [w \in Workers |-> IdleWorker]
    /\ bus = [e \in Events |-> {}]
    /\ quarantined = {}

-------------------------------------------------------------------------------
\* Helpers over the table

Enqueued == {e \in Events : outbox[e].status # "ABSENT"}

\* Faulty: lapsed claims are not offered again.
ClaimableOnlyReleased ==
    {e \in Events : /\ outbox[e].status \in {"READY", "FAILED"}
                    /\ outbox[e].attempts < MaxAttempts}

\* Faulty: no limit on publish_attempt_count.
ClaimableForever ==
    {e \in Events : \/ outbox[e].status \in {"READY", "FAILED"}
                    \/ outbox[e].status = "CLAIMED" /\ outbox[e].lapsed}

Claimable ==
    {e \in Events :
        /\ \/ outbox[e].status \in {"READY", "FAILED"}
           \/ outbox[e].status = "CLAIMED" /\ outbox[e].lapsed
        /\ outbox[e].attempts < MaxAttempts}

\* SELECT TOP (@max_rows) ... ORDER BY outbox_event_id.
Candidates ==
    {e \in Claimable :
        Cardinality({f \in Claimable : outbox[f].id < outbox[e].id}) < MaxRows}

\* Faulty: the claim token is not compared.
HoldsAnyClaim(w, e) == outbox[e].status = "CLAIMED"

\* WHERE outbox_event_id = @outbox_event_id AND claim_token = @claim_token
\*   AND publish_status = 'CLAIMED'
HoldsClaim(w, e) ==
    /\ outbox[e].status = "CLAIMED"
    /\ outbox[e].token = worker[w].token

\* The script walks the claimed rows in outbox_event_id order.
IsNextRow(w, e) ==
    /\ worker[w].phase = "SENDING"
    /\ worker[w].sent = {}
    /\ e \in worker[w].todo
    /\ \A f \in worker[w].todo : outbox[e].id <= outbox[f].id

Loaded(token, rows) ==
    [phase |-> "SENDING", token |-> token, todo |-> rows, sent |-> {}, retries |-> 0]

Claimed(row, token) ==
    [row EXCEPT !.status = "CLAIMED", !.token = token, !.lapsed = FALSE,
                !.attempts = @ + 1]

Unclaimed(row, status) ==
    [row EXCEPT !.status = status, !.token = 0, !.lapsed = FALSE]

-------------------------------------------------------------------------------
\* Actions

\* A second call with the same event_id leaves the table as it is.  The check
\* and the INSERT are two statements; UQ_Outbox_EventId fails the slower of two
\* racing calls, which also leaves the table as it is.
EnqueueEvent(e) ==
    /\ outbox[e].status = "ABSENT"
    /\ outbox' = [outbox EXCEPT ![e] = [@ EXCEPT !.status = "READY",
                                                  !.id = Cardinality(Enqueued) + 1]]
    /\ UNCHANGED <<tokens, worker, bus, quarantined>>

\* Faulty: the attempt is counted when it fails, not when the row is claimed.
ClaimWithoutCounting(w) ==
    /\ worker[w].phase = "IDLE"
    /\ Candidates # {}
    /\ tokens' = tokens + 1
    /\ outbox' = [e \in Events |->
                    IF e \in Candidates
                    THEN [Claimed(outbox[e], tokens + 1) EXCEPT !.attempts = outbox[e].attempts]
                    ELSE outbox[e]]
    /\ worker' = [worker EXCEPT ![w] = Loaded(tokens + 1, Candidates)]
    /\ UNCHANGED <<bus, quarantined>>

\* One UPDATE under READPAST, UPDLOCK, ROWLOCK, so concurrent claims are
\* disjoint.  A call that finds no candidate changes nothing and is left out.
ClaimOutboxBatch(w) ==
    /\ worker[w].phase = "IDLE"
    /\ Candidates # {}
    /\ tokens' = tokens + 1
    /\ outbox' = [e \in Events |-> IF e \in Candidates THEN Claimed(outbox[e], tokens + 1)
                                                        ELSE outbox[e]]
    /\ worker' = [worker EXCEPT ![w] = Loaded(tokens + 1, Candidates)]
    /\ UNCHANGED <<bus, quarantined>>

\* Time passes the claim_expires_at that the rows of one claim share.
LeaseLapses(t) ==
    /\ \E e \in Events : outbox[e].status = "CLAIMED" /\ outbox[e].token = t
                         /\ ~outbox[e].lapsed
    /\ outbox' = [e \in Events |->
                    IF outbox[e].status = "CLAIMED" /\ outbox[e].token = t
                    THEN [outbox[e] EXCEPT !.lapsed = TRUE]
                    ELSE outbox[e]]
    /\ UNCHANGED <<tokens, worker, bus, quarantined>>

\* Faulty: the gateway publishes before it validates the contract.
PublishUnvalidated(w, e) ==
    /\ IsNextRow(w, e)
    /\ bus' = [bus EXCEPT ![e] = @ \union {worker[w].token}]
    /\ UNCHANGED <<outbox, tokens, worker, quarantined>>

\* The worker does not look at its lease before it sends.
Publish(w, e) ==
    /\ IsNextRow(w, e)
    /\ e \notin ContractFailures
    /\ bus' = [bus EXCEPT ![e] = @ \union {worker[w].token}]
    /\ worker' = [worker EXCEPT ![w].sent = {e}]
    /\ UNCHANGED <<outbox, tokens, quarantined>>

\* Faulty: a timeout is taken for a success.
PublishAssumed(w, e) ==
    /\ IsNextRow(w, e)
    /\ worker' = [worker EXCEPT ![w].sent = {e}]
    /\ UNCHANGED <<outbox, tokens, bus, quarantined>>

\* A retryable response or a timeout: the gateway may have published the event.
\* The script backs off and tries again until its retries are used up, and
\* then the task fails.
PublishInDoubt(w, e) ==
    /\ IsNextRow(w, e)
    /\ \/ UNCHANGED bus
       \/ /\ e \notin ContractFailures
          /\ bus' = [bus EXCEPT ![e] = @ \union {worker[w].token}]
    /\ \/ /\ worker[w].retries < MaxRetryCount
          /\ worker' = [worker EXCEPT ![w].retries = @ + 1]
       \/ /\ worker[w].retries = MaxRetryCount
          /\ worker' = [worker EXCEPT ![w].phase = "ERROR"]
    /\ UNCHANGED <<outbox, tokens, quarantined>>

\* usp_AcknowledgePublishedEvent: ROWCOUNT = 0 throws 51002, which fails the task.
AcknowledgePublishedEvent(w, e) ==
    /\ worker[w].phase = "SENDING"
    /\ e \in worker[w].sent
    /\ \/ /\ HoldsClaim(w, e)
          /\ outbox' = [outbox EXCEPT ![e] = Unclaimed(@, "PUBLISHED")]
          /\ worker' = [worker EXCEPT ![w].todo = @ \ {e}, ![w].sent = {}]
       \/ /\ ~HoldsClaim(w, e)
          /\ worker' = [worker EXCEPT ![w].phase = "ERROR"]
          /\ UNCHANGED outbox
    /\ UNCHANGED <<tokens, bus, quarantined>>

\* The permanent contract failure of the publish script, with the guard of the
\* acknowledgement: a worker that lost its claim fails its task.
QuarantineRow(w, e) ==
    /\ IsNextRow(w, e)
    /\ e \in ContractFailures
    /\ \/ /\ HoldsClaim(w, e)
          /\ outbox' = [outbox EXCEPT ![e] = Unclaimed(@, "QUARANTINED")]
          /\ quarantined' = quarantined \union {e}
          /\ worker' = [worker EXCEPT ![w].todo = @ \ {e}]
       \/ /\ ~HoldsClaim(w, e)
          /\ worker' = [worker EXCEPT ![w].phase = "ERROR"]
          /\ UNCHANGED <<outbox, quarantined>>
    /\ UNCHANGED <<tokens, bus>>

FinishBatch(w) ==
    /\ worker[w].phase = "SENDING"
    /\ worker[w].todo = {}
    /\ worker' = [worker EXCEPT ![w] = IdleWorker]
    /\ UNCHANGED <<outbox, tokens, bus, quarantined>>

\* Faulty: OnError releases the rows the run remembers, whoever has them now.
ReleaseRemembered(w) ==
    /\ worker[w].phase = "ERROR"
    /\ outbox' = [e \in Events |-> IF e \in worker[w].todo
                                   THEN Unclaimed(outbox[e], "FAILED")
                                   ELSE outbox[e]]
    /\ worker' = [worker EXCEPT ![w] = IdleWorker]
    /\ UNCHANGED <<tokens, bus, quarantined>>

\* OnError: every row still claimed under the token of the run goes to FAILED.
ReleaseClaims(w) ==
    /\ worker[w].phase = "ERROR"
    /\ outbox' = [e \in Events |-> IF HoldsClaim(w, e)
                                   THEN Unclaimed(outbox[e], "FAILED")
                                   ELSE outbox[e]]
    /\ worker' = [worker EXCEPT ![w] = IdleWorker]
    /\ UNCHANGED <<tokens, bus, quarantined>>

\* The process dies; neither the acknowledgement nor OnError runs.
Crash(w) ==
    /\ worker[w].phase # "IDLE"
    /\ worker' = [worker EXCEPT ![w] = IdleWorker]
    /\ UNCHANGED <<outbox, tokens, bus, quarantined>>

-------------------------------------------------------------------------------
WorkerStep(w) ==
    \/ ClaimOutboxBatch(w)
    \/ FinishBatch(w)
    \/ ReleaseClaims(w)
    \/ \E e \in Events : \/ Publish(w, e)
                         \/ AcknowledgePublishedEvent(w, e)
                         \/ QuarantineRow(w, e)

Next ==
    \/ \E e \in Events : EnqueueEvent(e)
    \/ \E w \in Workers : WorkerStep(w)
    \/ \E w \in Workers, e \in Events : PublishInDoubt(w, e)
    \/ \E w \in Workers : Crash(w)
    \/ \E t \in 1..tokens : LeaseLapses(t)

Spec == Init /\ [][Next]_vars

\* The job scheduler keeps starting the package and a run that is not stuck
\* goes on; wall-clock time passes.  Producers, failures and crashes owe nothing.
Fairness ==
    /\ \A w \in Workers : WF_vars(WorkerStep(w))
    /\ WF_vars(\E t \in 1..tokens : LeaseLapses(t))

FairSpec == Spec /\ Fairness

-------------------------------------------------------------------------------
\* What the relay promises, in terms of the table, the workers and the bus

Outcome(e) == CASE outbox[e].status = "PUBLISHED" -> "DONE"
                [] outbox[e].status = "QUARANTINED" -> "REFUSED"
                [] OTHER -> "OPEN"

Relay == INSTANCE EventRelay WITH
            accepted <- Enqueued,
            delivered <- {e \in Events : bus[e] # {}},
            outcome <- [e \in Events |-> Outcome(e)]

\* The table and its workers implement the at-least-once relay of EventRelay:
\* whatever leases lapse and workers crash, an event is concluded only after it
\* reached the bus, and a quarantined one never reaches it, before or after.
ImplementsRelay == Relay!Spec

\* Workers that hold the row in memory, with or without a valid claim on it.
Holders(e) == {w \in Workers : e \in worker[w].todo}

\* Claims under which the event was sent or may still be.
SendingClaims(e) == bus[e] \union {worker[w].token : w \in Holders(e)}

\* Every claim whose worker put the event on the bus was counted by
\* usp_ClaimOutboxBatch, the workers that still may send it included: a row is
\* never sent under more claims than publish_attempt_count says, so the limit
\* on attempts is a limit on sends even when leases are outlived.
SendsCounted ==
    \A e \in Events : Cardinality(SendingClaims(e)) <= outbox[e].attempts

\* The recorded outcome has its evidence: PUBLISHED only with the event on the
\* bus; QUARANTINED only with a QuarantineEvent row and nothing on the bus.
OutcomeHasEvidence ==
    \A e \in Events :
        /\ outbox[e].status = "PUBLISHED" => bus[e] # {}
        /\ outbox[e].status = "QUARANTINED" => e \in quarantined /\ bus[e] = {}

\* A row whose lease has not lapsed is changed by the worker that holds the
\* claim and by nobody else: not by another worker's claim, nor by the
\* acknowledgement or the OnError release of one that lost the row before.
LiveClaimIsExclusive ==
    [][\A e \in Events :
            /\ outbox[e].status = "CLAIMED" /\ ~outbox[e].lapsed
            /\ outbox'[e].status # "CLAIMED" \/ outbox'[e].token # outbox[e].token
            => \E w \in Workers : /\ worker[w].token = outbox[e].token
                                  /\ worker'[w] # worker[w]]_vars

\* A PUBLISHED or QUARANTINED row is never claimed, released or resolved again,
\* also not by workers that still hold it in memory.
ResolvedIsFinal ==
    [][\A e \in Events :
            outbox[e].status \in {"PUBLISHED", "QUARANTINED"} => outbox'[e] = outbox[e]]_vars

\* Published, quarantined, or out of attempts with nobody working on it.
Settled(e) ==
    \/ outbox[e].status \in {"PUBLISHED", "QUARANTINED"}
    \/ outbox[e].attempts = MaxAttempts /\ Holders(e) = {}

\* Every enqueued event is settled in the end, whatever crashes, and stays so:
\* the lapse of a lease gives back the rows of a dead worker, and rows that keep
\* failing at the head of the table do not starve the ones behind them.
EventuallySettled == \A e \in Events : e \in Enqueued ~> []Settled(e)

\* The claim task's promise that leases keep several publisher workers from
\* sending the same event (CDC_To_EventBus_Continuous_Handoff.dtsx.xml:232).
NoDoubleSend == \A e \in Events : Cardinality(bus[e]) <= 1
===============================================================================
