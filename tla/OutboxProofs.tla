----------------------------- MODULE OutboxProofs -----------------------------
(***************************************************************************)
(* Proofs about the outbox, for any number of events, workers, attempts,   *)
(* batch rows and retries.  The inductive invariant adds to the checked    *)
(* invariants what ties the memory of a worker to the table and the bus.   *)
(***************************************************************************)
EXTENDS Outbox, FiniteSetTheorems, TLAPS

\* A worker at rest remembers nothing; the row it sent is one it has to
\* resolve, and that event is on the bus under its claim.
WorkerInv(w) ==
    /\ worker[w].phase = "IDLE" => worker[w] = IdleWorker
    /\ worker[w].todo # {} => worker[w].token \in 1..tokens
    /\ worker[w].sent \subseteq worker[w].todo
    /\ \A e \in worker[w].todo : outbox[e].status # "ABSENT"
    /\ \A e \in worker[w].sent : worker[w].token \in bus[e]

WorkersInv == \A w \in Workers : WorkerInv(w)

\* What is on the bus was enqueued, passed the contract, and was sent under
\* a claim that exists.
BusInv ==
    \A e \in Events :
        /\ bus[e] \subseteq 1..tokens
        /\ bus[e] # {} => outbox[e].status # "ABSENT" /\ e \notin ContractFailures
        /\ outbox[e].status = "QUARANTINED" => e \in ContractFailures

IInv == TypeOK /\ WorkersInv /\ BusInv /\ OutcomeHasEvidence /\ SendsCounted

-------------------------------------------------------------------------------
\* A row that is taken off its claim is still a row.
LEMMA UnclaimedType ==
    ASSUME NEW row \in OutboxRow, NEW s \in Statuses
    PROVE  /\ Unclaimed(row, s) \in OutboxRow
           /\ Unclaimed(row, s).status = s
           /\ Unclaimed(row, s).attempts = row.attempts
  BY DEF Unclaimed, OutboxRow

\* A claimed row is still a row: there is room for one more attempt.
LEMMA ClaimedType ==
    ASSUME NEW row \in OutboxRow, row.attempts < MaxAttempts, NEW t \in Nat
    PROVE  /\ Claimed(row, t) \in OutboxRow
           /\ Claimed(row, t).status = "CLAIMED"
           /\ Claimed(row, t).attempts = row.attempts + 1
  <1>1. row.attempts + 1 \in 0..MaxAttempts
    BY OutboxAssumption DEF OutboxAssumption, OutboxRow
  <1> QED BY <1>1 DEF Claimed, OutboxRow, Statuses

\* A worker at rest is a worker.
LEMMA IdleWorkerType == IdleWorker \in WorkerState
  BY OutboxAssumption DEF IdleWorker, WorkerState

\* The columns of the table have the types of its definition, and no worker
\* is in a state the publish script does not have.
LEMMA TypeOKStep == TypeOK /\ [Next]_vars => TypeOK'
  <1> SUFFICES ASSUME TypeOK, [Next]_vars PROVE TypeOK'
    OBVIOUS
  <1>0. /\ outbox \in [Events -> OutboxRow]
        /\ tokens \in Nat
        /\ worker \in [Workers -> WorkerState]
        /\ bus \in [Events -> SUBSET Nat]
        /\ quarantined \in SUBSET Events
    BY DEF TypeOK
  <1>1. ASSUME NEW e \in Events, EnqueueEvent(e) PROVE TypeOK'
    <2>1. Cardinality(Enqueued) + 1 \in Nat
      <3>1. IsFiniteSet(Enqueued)
        BY OutboxAssumption, FS_Subset DEF OutboxAssumption, Enqueued
      <3> QED BY <3>1, FS_CardinalityType
    <2>2. [outbox[e] EXCEPT !.status = "READY", !.id = Cardinality(Enqueued) + 1]
             \in OutboxRow
      BY <1>0, <2>1 DEF OutboxRow, Statuses
    <2> QED BY <1>0, <1>1, <2>2 DEF EnqueueEvent, TypeOK
  <1>2. ASSUME NEW w \in Workers, ClaimOutboxBatch(w) PROVE TypeOK'
    <2>1. \A e \in Candidates : e \in Events /\ outbox[e].attempts < MaxAttempts
      BY DEF Candidates, Claimable
    <2>2. \A e \in Candidates : Claimed(outbox[e], tokens + 1) \in OutboxRow
      BY <1>0, <2>1, ClaimedType
    <2>3. Loaded(tokens + 1, Candidates) \in WorkerState
      BY <1>0, <2>1, OutboxAssumption DEF OutboxAssumption, WorkerState, Loaded
    <2> QED BY <1>0, <1>2, <2>2, <2>3 DEF ClaimOutboxBatch, TypeOK
  <1>3. ASSUME NEW t \in 1..tokens, LeaseLapses(t) PROVE TypeOK'
    <2>1. \A e \in Events : [outbox[e] EXCEPT !.lapsed = TRUE] \in OutboxRow
      BY <1>0 DEF OutboxRow
    <2> QED BY <1>0, <1>3, <2>1 DEF LeaseLapses, TypeOK
  <1>4. ASSUME NEW w \in Workers, NEW e \in Events, Publish(w, e) PROVE TypeOK'
    BY <1>0, <1>4 DEF Publish, WorkerState, TypeOK
  <1>5. ASSUME NEW w \in Workers, NEW e \in Events, PublishInDoubt(w, e) PROVE TypeOK'
    <2>1. worker' \in [Workers -> WorkerState]
      <3>1. CASE worker[w].retries < MaxRetryCount /\ worker' = [worker EXCEPT ![w].retries = @ + 1]
        <4>1. worker[w].retries + 1 \in 0..MaxRetryCount
          BY <1>0, <3>1, OutboxAssumption DEF WorkerState, OutboxAssumption
        <4>2. [worker[w] EXCEPT !.retries = @ + 1] \in WorkerState
          BY <1>0, <4>1 DEF WorkerState
        <4> QED BY <1>0, <3>1, <4>2
      <3>2. CASE worker' = [worker EXCEPT ![w].phase = "ERROR"]
        <4>1. [worker[w] EXCEPT !.phase = "ERROR"] \in WorkerState
          BY <1>0 DEF WorkerState
        <4> QED BY <1>0, <3>2, <4>1
      <3> QED BY <1>5, <3>1, <3>2 DEF PublishInDoubt
    <2>2. bus' \in [Events -> SUBSET Nat]
      BY <1>0, <1>5 DEF PublishInDoubt, WorkerState
    <2> QED BY <1>0, <1>5, <2>1, <2>2 DEF PublishInDoubt, TypeOK
  <1>6. ASSUME NEW w \in Workers, NEW e \in Events, AcknowledgePublishedEvent(w, e)
        PROVE TypeOK'
    <2>1. Unclaimed(outbox[e], "PUBLISHED") \in OutboxRow
      BY <1>0, UnclaimedType DEF Statuses
    <2>2. outbox' \in [Events -> OutboxRow]
      BY <1>0, <1>6, <2>1 DEF AcknowledgePublishedEvent
    <2>3. worker' \in [Workers -> WorkerState]
      BY <1>0, <1>6 DEF AcknowledgePublishedEvent, WorkerState
    <2> QED BY <1>0, <1>6, <2>2, <2>3 DEF AcknowledgePublishedEvent, TypeOK
  <1>7. ASSUME NEW w \in Workers, NEW e \in Events, QuarantineRow(w, e) PROVE TypeOK'
    <2>1. Unclaimed(outbox[e], "QUARANTINED") \in OutboxRow
      BY <1>0, UnclaimedType DEF Statuses
    <2>2. outbox' \in [Events -> OutboxRow] /\ quarantined' \in SUBSET Events
      BY <1>0, <1>7, <2>1 DEF QuarantineRow
    <2>3. worker' \in [Workers -> WorkerState]
      BY <1>0, <1>7 DEF QuarantineRow, WorkerState
    <2> QED BY <1>0, <1>7, <2>2, <2>3 DEF QuarantineRow, TypeOK
  <1>8. ASSUME NEW w \in Workers, FinishBatch(w) \/ Crash(w) PROVE TypeOK'
    BY <1>0, <1>8, IdleWorkerType DEF FinishBatch, Crash, TypeOK
  <1>9. ASSUME NEW w \in Workers, ReleaseClaims(w) PROVE TypeOK'
    <2>1. \A e \in Events : Unclaimed(outbox[e], "FAILED") \in OutboxRow
      BY <1>0, UnclaimedType DEF Statuses
    <2> QED BY <1>0, <1>9, <2>1, IdleWorkerType DEF ReleaseClaims, TypeOK
  <1>10. CASE UNCHANGED vars
    BY <1>10 DEF vars, TypeOK
  <1> QED
    BY <1>1, <1>2, <1>3, <1>4, <1>5, <1>6, <1>7, <1>8, <1>9, <1>10 DEF Next, WorkerStep

-------------------------------------------------------------------------------
\* Everything a step can do to one row, and who does it: nothing but the passing
\* of its lease, the insert, a claim, or the resolution by a worker that holds it.
RowStep(f) ==
    \/ /\ outbox'[f].status = outbox[f].status
       /\ outbox'[f].token = outbox[f].token
       /\ outbox'[f].attempts = outbox[f].attempts
       /\ outbox[f].status # "CLAIMED" => outbox'[f] = outbox[f]
    \/ /\ outbox[f].status = "ABSENT"
       /\ outbox'[f].status = "READY"
       /\ outbox'[f].attempts = outbox[f].attempts
    \/ /\ f \in Candidates
       /\ outbox'[f].status = "CLAIMED"
       /\ outbox'[f].attempts = outbox[f].attempts + 1
    \/ /\ outbox'[f].attempts = outbox[f].attempts
       /\ \E w \in Workers :
            /\ HoldsClaim(w, f)
            /\ worker'[w] # worker[w]
            /\ \/ outbox'[f].status = "PUBLISHED" /\ f \in worker[w].sent
               \/ /\ outbox'[f].status = "QUARANTINED"
                  /\ f \in ContractFailures /\ f \in quarantined'
               \/ outbox'[f].status = "FAILED"

LEMMA RowStepLemma ==
    ASSUME TypeOK, [Next]_vars, NEW f \in Events PROVE RowStep(f)
  <1>0. /\ outbox \in [Events -> OutboxRow]
        /\ worker \in [Workers -> WorkerState]
    BY DEF TypeOK
  <1>u. \A s \in Statuses : /\ Unclaimed(outbox[f], s).status = s
                           /\ Unclaimed(outbox[f], s).attempts = outbox[f].attempts
    BY <1>0, UnclaimedType
  <1>1. ASSUME NEW e \in Events, EnqueueEvent(e) PROVE RowStep(f)
    <2>1. outbox[f] \in OutboxRow
      BY <1>0
    <2>2. CASE f = e
      <3>1. outbox'[f] = [outbox[f] EXCEPT !.status = "READY", !.id = Cardinality(Enqueued) + 1]
        BY <1>0, <1>1, <2>2 DEF EnqueueEvent
      <3>2. outbox'[f].status = "READY" /\ outbox'[f].attempts = outbox[f].attempts
        BY <2>1, <3>1 DEF OutboxRow
      <3> QED BY <1>1, <2>2, <3>2 DEF EnqueueEvent, RowStep
    <2>3. CASE f # e
      BY <1>0, <1>1, <2>3 DEF EnqueueEvent, RowStep
    <2> QED BY <2>2, <2>3
  <1>2. ASSUME NEW w \in Workers, ClaimOutboxBatch(w) PROVE RowStep(f)
    <2>1. CASE f \in Candidates
      <3>1. outbox[f].attempts < MaxAttempts /\ tokens + 1 \in Nat
        BY <2>1 DEF Candidates, Claimable, TypeOK
      <3>2. outbox'[f] = Claimed(outbox[f], tokens + 1)
        BY <1>2, <2>1 DEF ClaimOutboxBatch
      <3> QED BY <1>0, <2>1, <3>1, <3>2, ClaimedType DEF RowStep
    <2>2. CASE f \notin Candidates
      BY <1>2, <2>2 DEF ClaimOutboxBatch, RowStep
    <2> QED BY <2>1, <2>2
  <1>3. ASSUME NEW t \in 1..tokens, LeaseLapses(t) PROVE RowStep(f)
    <2>1. CASE outbox'[f] = outbox[f]
      BY <2>1 DEF RowStep
    <2>2. CASE outbox'[f] # outbox[f]
      <3>1. outbox[f].status = "CLAIMED" /\ outbox'[f] = [outbox[f] EXCEPT !.lapsed = TRUE]
        BY <1>3, <2>2 DEF LeaseLapses
      <3> QED BY <1>0, <3>1 DEF OutboxRow, RowStep
    <2> QED BY <2>1, <2>2
  <1>4. ASSUME NEW w \in Workers, NEW e \in Events, AcknowledgePublishedEvent(w, e)
        PROVE RowStep(f)
    <2>1. CASE HoldsClaim(w, e) /\ f = e
      <3>1. outbox'[f] = Unclaimed(outbox[f], "PUBLISHED")
        BY <1>0, <1>4, <2>1 DEF AcknowledgePublishedEvent
      <3>2. f \in worker[w].sent /\ worker'[w].sent = {}
        BY <1>0, <1>4, <2>1 DEF AcknowledgePublishedEvent, WorkerState
      <3> QED BY <1>u, <2>1, <3>1, <3>2 DEF RowStep, Statuses
    <2>2. CASE ~(HoldsClaim(w, e) /\ f = e)
      BY <1>0, <1>4, <2>2 DEF AcknowledgePublishedEvent, RowStep
    <2> QED BY <2>1, <2>2
  <1>5. ASSUME NEW w \in Workers, NEW e \in Events, QuarantineRow(w, e) PROVE RowStep(f)
    <2>1. CASE HoldsClaim(w, e) /\ f = e
      <3>1. /\ outbox'[f] = Unclaimed(outbox[f], "QUARANTINED")
            /\ f \in ContractFailures /\ f \in quarantined'
        BY <1>0, <1>5, <2>1 DEF QuarantineRow
      <3>2. f \in worker[w].todo /\ f \notin worker'[w].todo
        BY <1>0, <1>5, <2>1 DEF QuarantineRow, IsNextRow, WorkerState
      <3> QED BY <1>u, <2>1, <3>1, <3>2 DEF RowStep, Statuses
    <2>2. CASE ~(HoldsClaim(w, e) /\ f = e)
      BY <1>0, <1>5, <2>2 DEF QuarantineRow, RowStep
    <2> QED BY <2>1, <2>2
  <1>6. ASSUME NEW w \in Workers, ReleaseClaims(w) PROVE RowStep(f)
    <2>1. CASE HoldsClaim(w, f)
      <3>1. outbox'[f] = Unclaimed(outbox[f], "FAILED")
        BY <1>6, <2>1 DEF ReleaseClaims
      <3>2. worker'[w] # worker[w]
        BY <1>0, <1>6 DEF ReleaseClaims, IdleWorker
      <3> QED BY <1>u, <2>1, <3>1, <3>2 DEF RowStep, Statuses
    <2>2. CASE ~HoldsClaim(w, f)
      BY <1>6, <2>2 DEF ReleaseClaims, RowStep
    <2> QED BY <2>1, <2>2
  <1>7. ASSUME UNCHANGED outbox PROVE RowStep(f)
    BY <1>7 DEF RowStep
  <1>8. ASSUME NEW w \in Workers, NEW e \in Events,
               Publish(w, e) \/ PublishInDoubt(w, e) \/ FinishBatch(w) \/ Crash(w)
        PROVE UNCHANGED outbox
    BY <1>8 DEF Publish, PublishInDoubt, FinishBatch, Crash
  <1> QED
    BY <1>1, <1>2, <1>3, <1>4, <1>5, <1>6, <1>7, <1>8 DEF Next, WorkerStep, vars

\* Only a publishing worker changes the bus.
LEMMA OnlyPublishingSends ==
    [Next]_vars => \/ \E w \in Workers, e \in Events : Publish(w, e) \/ PublishInDoubt(w, e)
                   \/ UNCHANGED bus
  BY DEF Next, WorkerStep, vars, EnqueueEvent, ClaimOutboxBatch, LeaseLapses,
         AcknowledgePublishedEvent, QuarantineRow, FinishBatch, ReleaseClaims, Crash

\* No step reuses a token.
LEMMA TokensGrow == TypeOK /\ [Next]_vars => tokens' \in Nat /\ tokens <= tokens'
  <1>1. ASSUME NEW w \in Workers, ClaimOutboxBatch(w) PROVE tokens' = tokens + 1
    BY <1>1 DEF ClaimOutboxBatch
  <1>2. ASSUME NEW w \in Workers, FinishBatch(w) \/ ReleaseClaims(w) \/ Crash(w)
        PROVE tokens' = tokens
    BY <1>2 DEF FinishBatch, ReleaseClaims, Crash
  <1>3. ASSUME NEW w \in Workers, NEW e \in Events,
               \/ Publish(w, e) \/ PublishInDoubt(w, e)
               \/ AcknowledgePublishedEvent(w, e) \/ QuarantineRow(w, e)
        PROVE tokens' = tokens
    BY <1>3 DEF Publish, PublishInDoubt, AcknowledgePublishedEvent, QuarantineRow
  <1>4. ASSUME (\E e \in Events : EnqueueEvent(e)) \/ (\E t \in 1..tokens : LeaseLapses(t))
        PROVE tokens' = tokens
    BY <1>4 DEF EnqueueEvent, LeaseLapses
  <1> SUFFICES ASSUME [Next]_vars PROVE tokens' = tokens \/ tokens' = tokens + 1
    BY DEF TypeOK
  <1> QED BY <1>1, <1>2, <1>3, <1>4 DEF Next, WorkerStep, vars

\* No step deletes a row or takes an event back from the bus.
LEMMA RowsAndCopiesStay ==
    ASSUME TypeOK, [Next]_vars, NEW f \in Events
    PROVE  /\ outbox[f].status # "ABSENT" => outbox'[f].status # "ABSENT"
           /\ bus[f] \subseteq bus'[f]
  <1>1. outbox[f].status # "ABSENT" => outbox'[f].status # "ABSENT"
    BY RowStepLemma DEF RowStep
  <1>2. ASSUME NEW w \in Workers, NEW e \in Events, Publish(w, e) \/ PublishInDoubt(w, e)
        PROVE bus[f] \subseteq bus'[f]
    BY <1>2 DEF Publish, PublishInDoubt, TypeOK
  <1>3. \/ \E w \in Workers, e \in Events : Publish(w, e) \/ PublishInDoubt(w, e)
        \/ UNCHANGED bus
    BY OnlyPublishingSends
  <1> QED BY <1>1, <1>2, <1>3

\* A worker that does not act keeps its invariant through any step.
LEMMA BystanderKeepsInv ==
    ASSUME TypeOK, [Next]_vars, NEW v \in Workers, WorkerInv(v), worker'[v] = worker[v]
    PROVE  WorkerInv(v)'
  <1>1. worker[v].todo \subseteq Events /\ worker[v].sent \subseteq Events /\ tokens \in Nat
    BY DEF TypeOK, WorkerState
  <1> QED BY <1>1, TokensGrow, RowsAndCopiesStay DEF WorkerInv, IdleWorker

\* What a worker remembers stays tied to the table and the bus: neither other
\* workers nor lapsing leases take away what it relies on.
LEMMA WorkersStep == TypeOK /\ WorkersInv /\ [Next]_vars => WorkersInv'
  <1> SUFFICES ASSUME TypeOK, WorkersInv, [Next]_vars, NEW v \in Workers,
                      worker'[v] # worker[v]
               PROVE  WorkerInv(v)'
    BY BystanderKeepsInv DEF WorkersInv
  <1>0. /\ outbox \in [Events -> OutboxRow]
        /\ tokens \in Nat
        /\ worker \in [Workers -> WorkerState]
        /\ bus \in [Events -> SUBSET Nat]
        /\ worker[v].todo \subseteq Events
        /\ worker[v].sent \subseteq Events
    BY DEF TypeOK, WorkerState
  <1>i. WorkerInv(v)
    BY DEF WorkersInv
  <1>m. /\ tokens' \in Nat /\ tokens <= tokens'
        /\ \A e \in Events : /\ outbox[e].status # "ABSENT" => outbox'[e].status # "ABSENT"
                             /\ bus[e] \subseteq bus'[e]
    BY TokensGrow, RowsAndCopiesStay
  <1>1. ASSUME ClaimOutboxBatch(v) PROVE WorkerInv(v)'
    <2>1. worker'[v] = Loaded(tokens + 1, Candidates) /\ tokens' = tokens + 1
      BY <1>0, <1>1 DEF ClaimOutboxBatch
    <2>2. \A e \in Candidates : e \in Events /\ outbox[e].status # "ABSENT"
      BY DEF Candidates, Claimable
    <2> QED BY <1>0, <1>m, <2>1, <2>2 DEF WorkerInv, Loaded
  <1>2. ASSUME NEW e \in Events, Publish(v, e) PROVE WorkerInv(v)'
    <2>1. worker'[v] = [worker[v] EXCEPT !.sent = {e}] /\ e \in worker[v].todo
          /\ worker[v].token \in bus'[e] /\ worker[v].phase = "SENDING"
      BY <1>0, <1>2 DEF Publish, IsNextRow
    <2> QED BY <1>0, <1>i, <1>m, <2>1 DEF WorkerInv, WorkerState
  <1>3. ASSUME NEW e \in Events, PublishInDoubt(v, e) PROVE WorkerInv(v)'
    <2>1. /\ worker'[v].phase # "IDLE"
          /\ worker'[v].todo = worker[v].todo
          /\ worker'[v].sent = worker[v].sent
          /\ worker'[v].token = worker[v].token
      BY <1>0, <1>3 DEF PublishInDoubt, IsNextRow, WorkerState
    <2> QED BY <1>0, <1>i, <1>m, <2>1 DEF WorkerInv
  <1>4. ASSUME NEW e \in Events, AcknowledgePublishedEvent(v, e) \/ QuarantineRow(v, e)
        PROVE WorkerInv(v)'
    <2>1. /\ worker'[v].phase # "IDLE"
          /\ worker'[v].todo \subseteq worker[v].todo
          /\ worker'[v].token = worker[v].token
          /\ worker'[v].sent \subseteq worker[v].sent
          /\ worker'[v].sent \subseteq worker'[v].todo
      BY <1>0, <1>4, <1>i
      DEF AcknowledgePublishedEvent, QuarantineRow, IsNextRow, WorkerState, WorkerInv
    <2> QED BY <1>0, <1>i, <1>m, <2>1 DEF WorkerInv
  <1>5. ASSUME FinishBatch(v) \/ Crash(v) \/ ReleaseClaims(v) PROVE WorkerInv(v)'
    <2>1. worker'[v] = IdleWorker
      BY <1>0, <1>5 DEF FinishBatch, Crash, ReleaseClaims
    <2> QED BY <2>1 DEF WorkerInv, IdleWorker
  <1>6. \/ ClaimOutboxBatch(v)
        \/ \E e \in Events : \/ Publish(v, e) \/ PublishInDoubt(v, e)
                             \/ AcknowledgePublishedEvent(v, e) \/ QuarantineRow(v, e)
        \/ FinishBatch(v) \/ Crash(v) \/ ReleaseClaims(v)
    <2>1. \A e \in Events : ~EnqueueEvent(e)
      BY DEF EnqueueEvent
    <2>2. \A t \in 1..tokens : ~LeaseLapses(t)
      BY DEF LeaseLapses
    <2>3. ~UNCHANGED vars
      BY DEF vars
    <2>4. \A w \in Workers \ {v} :
            /\ ~ClaimOutboxBatch(w) /\ ~FinishBatch(w) /\ ~Crash(w) /\ ~ReleaseClaims(w)
            /\ \A e \in Events : /\ ~Publish(w, e) /\ ~PublishInDoubt(w, e)
                                 /\ ~AcknowledgePublishedEvent(w, e) /\ ~QuarantineRow(w, e)
      BY <1>0 DEF ClaimOutboxBatch, FinishBatch, Crash, ReleaseClaims, Publish,
                  PublishInDoubt, AcknowledgePublishedEvent, QuarantineRow
    <2> QED BY <2>1, <2>2, <2>3, <2>4 DEF Next, WorkerStep
  <1> QED BY <1>1, <1>2, <1>3, <1>4, <1>5, <1>6

-------------------------------------------------------------------------------
\* What is on the bus was sent under a drawn token, belongs to a row and passed
\* the contract; only contract failures end as QUARANTINED.
LEMMA BusStep == TypeOK /\ WorkersInv /\ BusInv /\ [Next]_vars => BusInv'
  <1> SUFFICES ASSUME TypeOK, WorkersInv, BusInv, [Next]_vars, NEW f \in Events
               PROVE  /\ bus'[f] \subseteq 1..tokens'
                      /\ bus'[f] # {} => outbox'[f].status # "ABSENT" /\ f \notin ContractFailures
                      /\ outbox'[f].status = "QUARANTINED" => f \in ContractFailures
    BY DEF BusInv
  <1>0. /\ outbox \in [Events -> OutboxRow]
        /\ tokens \in Nat
        /\ worker \in [Workers -> WorkerState]
        /\ bus \in [Events -> SUBSET Nat]
    BY DEF TypeOK
  <1>i. /\ bus[f] \subseteq 1..tokens
        /\ bus[f] # {} => outbox[f].status # "ABSENT" /\ f \notin ContractFailures
        /\ outbox[f].status = "QUARANTINED" => f \in ContractFailures
    BY DEF BusInv
  <1>m. /\ tokens' \in Nat /\ tokens <= tokens'
        /\ outbox[f].status # "ABSENT" => outbox'[f].status # "ABSENT"
    BY TokensGrow, RowsAndCopiesStay
  <1>1. /\ bus'[f] \subseteq 1..tokens'
        /\ bus'[f] # {} => outbox'[f].status # "ABSENT" /\ f \notin ContractFailures
    <2>1. CASE bus'[f] = bus[f]
      BY <2>1, <1>0, <1>i, <1>m
    <2>2. CASE \E w \in Workers, e \in Events : Publish(w, e) \/ PublishInDoubt(w, e)
      <3> PICK w \in Workers, e \in Events : Publish(w, e) \/ PublishInDoubt(w, e)
        BY <2>2
      <3> SUFFICES ASSUME bus'[f] # bus[f] PROVE <1>1
        BY <2>1
      <3>1. /\ f = e
            /\ f \in worker[w].todo
            /\ f \notin ContractFailures
            /\ bus'[f] = bus[f] \union {worker[w].token}
        BY <1>0 DEF Publish, PublishInDoubt, IsNextRow
      <3>2. worker[w].token \in 1..tokens /\ outbox[f].status # "ABSENT"
        BY <3>1 DEF WorkersInv, WorkerInv
      <3> QED BY <1>0, <1>i, <1>m, <3>1, <3>2
    <2>3. (\E w \in Workers, e \in Events : Publish(w, e) \/ PublishInDoubt(w, e)) \/ UNCHANGED bus
      BY OnlyPublishingSends
    <2> QED BY <2>1, <2>2, <2>3
  <1>2. outbox'[f].status = "QUARANTINED" => f \in ContractFailures
    BY <1>i, RowStepLemma DEF RowStep
  <1> QED BY <1>1, <1>2

-------------------------------------------------------------------------------
\* A row is resolved by a worker that has the event on the bus, or by one that
\* met the contract failure, of which no copy is on the bus.
LEMMA EvidenceStep ==
    TypeOK /\ WorkersInv /\ BusInv /\ OutcomeHasEvidence /\ [Next]_vars => OutcomeHasEvidence'
  <1> SUFFICES ASSUME TypeOK, WorkersInv, BusInv, OutcomeHasEvidence, [Next]_vars,
                      NEW f \in Events
               PROVE  /\ outbox'[f].status = "PUBLISHED" => bus'[f] # {}
                      /\ outbox'[f].status = "QUARANTINED" => f \in quarantined' /\ bus'[f] = {}
    BY DEF OutcomeHasEvidence
  <1>b. BusInv'
    BY BusStep
  <1>q. quarantined \subseteq quarantined'
    BY DEF Next, WorkerStep, vars, EnqueueEvent, ClaimOutboxBatch, LeaseLapses, Publish,
           PublishInDoubt, AcknowledgePublishedEvent, QuarantineRow, FinishBatch,
           ReleaseClaims, Crash
  <1>s. \A w \in Workers : f \in worker[w].sent => bus[f] # {}
    BY DEF WorkersInv, WorkerInv
  <1>1. outbox'[f].status = "PUBLISHED" => bus'[f] # {}
    BY <1>s, RowStepLemma, RowsAndCopiesStay DEF RowStep, OutcomeHasEvidence
  <1>2. outbox'[f].status = "QUARANTINED" => f \in quarantined'
    BY <1>q, RowStepLemma DEF RowStep, OutcomeHasEvidence
  <1>3. outbox'[f].status = "QUARANTINED" => bus'[f] = {}
    BY <1>b DEF BusInv
  <1> QED BY <1>1, <1>2, <1>3

\* The claims under which an event may be on the bus only grow by a new claim,
\* which the row counts.
LEMMA SendingClaimsStep ==
    ASSUME TypeOK, WorkersInv, BusInv, [Next]_vars, NEW f \in Events
    PROVE  \/ SendingClaims(f)' \subseteq SendingClaims(f)
           \/ /\ SendingClaims(f)' \subseteq SendingClaims(f) \union {tokens + 1}
              /\ outbox'[f].attempts = outbox[f].attempts + 1
  <1> DEFINE Goal == \/ SendingClaims(f)' \subseteq SendingClaims(f)
                     \/ /\ SendingClaims(f)' \subseteq SendingClaims(f) \union {tokens + 1}
                        /\ outbox'[f].attempts = outbox[f].attempts + 1
  <1>0. /\ outbox \in [Events -> OutboxRow]
        /\ worker \in [Workers -> WorkerState]
        /\ bus \in [Events -> SUBSET Nat]
    BY DEF TypeOK
  <1>1. ASSUME NEW w \in Workers, ClaimOutboxBatch(w) PROVE Goal
    <2>1. /\ bus' = bus
          /\ worker' = [worker EXCEPT ![w] = Loaded(tokens + 1, Candidates)]
      BY <1>1 DEF ClaimOutboxBatch
    <2>2. SendingClaims(f)' \subseteq SendingClaims(f) \union
             (IF f \in Candidates THEN {tokens + 1} ELSE {})
      BY <1>0, <2>1 DEF SendingClaims, Holders, Loaded
    <2>3. f \in Candidates => outbox'[f].attempts = outbox[f].attempts + 1
      <3> SUFFICES ASSUME f \in Candidates PROVE outbox'[f].attempts = outbox[f].attempts + 1
        OBVIOUS
      <3>1. outbox[f].attempts < MaxAttempts /\ tokens + 1 \in Nat
        BY DEF Candidates, Claimable, TypeOK
      <3>2. outbox'[f] = Claimed(outbox[f], tokens + 1)
        BY <1>1 DEF ClaimOutboxBatch
      <3> QED BY <1>0, <3>1, <3>2, ClaimedType
    <2> QED BY <2>2, <2>3
  <1>2. ASSUME NEW w \in Workers, NEW e \in Events, Publish(w, e) \/ PublishInDoubt(w, e)
        PROVE Goal
    <2>1. /\ \A v \in Workers : /\ worker'[v].todo = worker[v].todo
                                /\ worker'[v].token = worker[v].token
          /\ bus'[f] \subseteq bus[f] \union (IF f = e THEN {worker[w].token} ELSE {})
          /\ w \in Holders(e)
      BY <1>0, <1>2 DEF Publish, PublishInDoubt, IsNextRow, Holders, WorkerState
    <2> QED BY <2>1 DEF SendingClaims, Holders
  <1>3. ASSUME UNCHANGED bus,
               \A v \in Workers :
                    /\ worker'[v].todo \subseteq worker[v].todo
                    /\ worker'[v].token = worker[v].token \/ worker'[v].todo = {}
        PROVE Goal
    BY <1>3 DEF SendingClaims, Holders
  <1>4. ASSUME NEW w \in Workers, NEW e \in Events,
               AcknowledgePublishedEvent(w, e) \/ QuarantineRow(w, e)
        PROVE Goal
    BY <1>0, <1>3, <1>4 DEF AcknowledgePublishedEvent, QuarantineRow, WorkerState
  <1>5. ASSUME NEW w \in Workers, FinishBatch(w) \/ ReleaseClaims(w) \/ Crash(w) PROVE Goal
    BY <1>0, <1>3, <1>5 DEF FinishBatch, ReleaseClaims, Crash, IdleWorker
  <1>6. ASSUME UNCHANGED <<worker, bus>> PROVE Goal
    BY <1>3, <1>6
  <1>7. ASSUME (\E e \in Events : EnqueueEvent(e)) \/ (\E t \in 1..tokens : LeaseLapses(t))
        PROVE UNCHANGED <<worker, bus>>
    BY <1>7 DEF EnqueueEvent, LeaseLapses
  <1> QED
    BY <1>1, <1>2, <1>4, <1>5, <1>6, <1>7 DEF Next, WorkerStep, vars

\* Therefore the attempts of a row keep counting the claims that can send it.
LEMMA SendsStep ==
    TypeOK /\ WorkersInv /\ BusInv /\ SendsCounted /\ [Next]_vars => SendsCounted'
  <1> SUFFICES ASSUME TypeOK, WorkersInv, BusInv, SendsCounted, [Next]_vars,
                      NEW f \in Events
               PROVE  Cardinality(SendingClaims(f)') <= outbox'[f].attempts
    BY DEF SendsCounted
  <1> DEFINE S == SendingClaims(f)
             n == outbox[f].attempts
  <1>1. IsFiniteSet(S)
    <2>1. S \subseteq 1..tokens
      BY DEF SendingClaims, Holders, WorkersInv, WorkerInv, BusInv
    <2>2. 1 \in Int /\ tokens \in Int
      BY DEF TypeOK
    <2>3. IsFiniteSet(1..tokens)
      BY <2>2, FS_Interval
    <2> QED BY <2>1, <2>3, FS_Subset
  <1>2. n \in Nat /\ Cardinality(S) \in Nat /\ Cardinality(S) <= n
    BY <1>1, FS_CardinalityType DEF TypeOK, OutboxRow, SendsCounted
  <1>3. CASE S' \subseteq S
    <2>1. Cardinality(S') \in Nat /\ Cardinality(S') <= Cardinality(S)
      BY <1>1, <1>3, FS_Subset, FS_CardinalityType
    <2>2. outbox'[f].attempts \in {n, n + 1}
      BY RowStepLemma DEF RowStep
    <2> QED BY <1>2, <2>1, <2>2
  <1>4. CASE S' \subseteq S \union {tokens + 1} /\ outbox'[f].attempts = n + 1
    <2>1. /\ IsFiniteSet(S \union {tokens + 1})
          /\ Cardinality(S \union {tokens + 1}) \in {Cardinality(S), Cardinality(S) + 1}
      BY <1>1, FS_AddElement
    <2>2. Cardinality(S') \in Nat /\ Cardinality(S') <= Cardinality(S \union {tokens + 1})
      BY <2>1, <1>4, FS_Subset, FS_CardinalityType
    <2> QED BY <1>2, <1>4, <2>1, <2>2
  <1> QED BY <1>3, <1>4, SendingClaimsStep

-------------------------------------------------------------------------------
\* The inductive invariant holds in every reachable state.
THEOREM Invariance == Spec => []IInv
  <1>1. Init => TypeOK
    BY OutboxAssumption, IdleWorkerType DEF OutboxAssumption, Init, TypeOK, OutboxRow, Statuses
  <1>2. Init => WorkersInv /\ BusInv /\ OutcomeHasEvidence
    BY DEF Init, WorkersInv, WorkerInv, BusInv, OutcomeHasEvidence, IdleWorker
  <1>3. Init => SendsCounted
    <2> SUFFICES ASSUME Init, NEW e \in Events
                 PROVE Cardinality(SendingClaims(e)) <= outbox[e].attempts
      BY DEF SendsCounted
    <2>1. SendingClaims(e) = {} /\ outbox[e].attempts = 0
      BY DEF Init, SendingClaims, Holders, IdleWorker
    <2> QED BY <2>1, FS_EmptySet
  <1>4. IInv /\ [Next]_vars => IInv'
    BY TypeOKStep, WorkersStep, BusStep, EvidenceStep, SendsStep DEF IInv
  <1>5. Init => IInv
    BY <1>1, <1>2, <1>3 DEF IInv
  <1> QED BY <1>4, <1>5, PTL DEF Spec

\* The outbox table and the memory of its workers are always well typed; in
\* particular no claim takes a row past MaxAttempts.
THEOREM TypeCorrect == Spec => []TypeOK
  BY Invariance, PTL DEF IInv

\* An event is sent under no more claims than its publish_attempt_count, for
\* any number of workers that outlive their leases.
THEOREM SendsAreCounted == Spec => []SendsCounted
  BY Invariance, PTL DEF IInv

\* PUBLISHED means on the bus, QUARANTINED means in quarantine and never on it.
THEOREM OutcomesHaveEvidence == Spec => []OutcomeHasEvidence
  BY Invariance, PTL DEF IInv

\* A live claim is ended by its holder only.
THEOREM LiveClaimsAreExclusive == Spec => LiveClaimIsExclusive
  <1> DEFINE A == \A e \in Events :
                    /\ outbox[e].status = "CLAIMED" /\ ~outbox[e].lapsed
                    /\ outbox'[e].status # "CLAIMED" \/ outbox'[e].token # outbox[e].token
                    => \E w \in Workers : /\ worker[w].token = outbox[e].token
                                          /\ worker'[w] # worker[w]
  <1>1. TypeOK /\ [Next]_vars => A
    <2> SUFFICES ASSUME TypeOK, [Next]_vars, NEW e \in Events,
                        outbox[e].status = "CLAIMED", ~outbox[e].lapsed,
                        outbox'[e].status # "CLAIMED" \/ outbox'[e].token # outbox[e].token
                 PROVE  \E w \in Workers : /\ worker[w].token = outbox[e].token
                                           /\ worker'[w] # worker[w]
      OBVIOUS
    <2>1. e \notin Candidates
      BY DEF Candidates, Claimable
    <2> QED BY <2>1, RowStepLemma DEF RowStep, HoldsClaim
  <1>2. TypeOK /\ [Next]_vars => [A]_vars
    BY <1>1
  <1> QED BY <1>2, TypeCorrect, PTL DEF Spec, LiveClaimIsExclusive

\* A resolved row is never touched again.
THEOREM ResolvedStaysResolved == Spec => ResolvedIsFinal
  <1> DEFINE A == \A e \in Events :
                    outbox[e].status \in {"PUBLISHED", "QUARANTINED"} => outbox'[e] = outbox[e]
  <1>1. TypeOK /\ [Next]_vars => A
    <2> SUFFICES ASSUME TypeOK, [Next]_vars, NEW e \in Events,
                        outbox[e].status \in {"PUBLISHED", "QUARANTINED"}
                 PROVE  outbox'[e] = outbox[e]
      OBVIOUS
    <2>1. e \notin Candidates
      BY DEF Candidates, Claimable
    <2> QED BY <2>1, RowStepLemma DEF RowStep, HoldsClaim
  <1>2. TypeOK /\ [Next]_vars => [A]_vars
    BY <1>1
  <1> QED BY <1>2, TypeCorrect, PTL DEF Spec, ResolvedIsFinal

-------------------------------------------------------------------------------
\* The table and its workers implement the relay

\* A step that keeps every row's existence and outcome and the bus is a stutter.
LEMMA RelayStutter ==
    ASSUME \A f \in Events : /\ (outbox'[f].status = "ABSENT") = (outbox[f].status = "ABSENT")
                            /\ Outcome(f)' = Outcome(f),
           UNCHANGED bus
    PROVE  UNCHANGED Relay!vars
  BY DEF Relay!vars, Enqueued

\* Resolving a claimed row changes the outcome of that row only.
LEMMA RelayResolution ==
    ASSUME TypeOK, NEW e \in Events, outbox[e].status = "CLAIMED",
           NEW s \in {"PUBLISHED", "QUARANTINED"},
           outbox' = [outbox EXCEPT ![e] = Unclaimed(@, s)], UNCHANGED bus
    PROVE  /\ e \in Enqueued /\ Outcome(e) = "OPEN"
           /\ Enqueued' = Enqueued
           /\ {f \in Events : bus[f] # {}}' = {f \in Events : bus[f] # {}}
           /\ [f \in Events |-> Outcome(f)]' =
                 [[f \in Events |-> Outcome(f)] EXCEPT
                    ![e] = IF s = "PUBLISHED" THEN "DONE" ELSE "REFUSED"]
  <1>1. Unclaimed(outbox[e], s).status = s
    BY UnclaimedType DEF TypeOK, Statuses
  <1>2. \A f \in Events : outbox'[f].status = IF f = e THEN s ELSE outbox[f].status
    BY <1>1 DEF TypeOK
  <1>3. e \in Enqueued /\ Outcome(e) = "OPEN"
    BY DEF Enqueued, Outcome
  <1>4. Enqueued' = Enqueued
    BY <1>2 DEF Enqueued
  <1>5. \A f \in Events : Outcome(f)' =
            IF f = e THEN IF s = "PUBLISHED" THEN "DONE" ELSE "REFUSED" ELSE Outcome(f)
    BY <1>2 DEF Outcome
  <1> QED BY <1>3, <1>4, <1>5

\* Every step of the outbox is a step of the relay or leaves it as it is.
LEMMA RelayStep == IInv /\ [Next]_vars => [Relay!Next]_(Relay!vars)
  <1> SUFFICES ASSUME IInv, [Next]_vars PROVE Relay!Next \/ UNCHANGED Relay!vars
    OBVIOUS
  <1>0. /\ TypeOK /\ WorkersInv /\ BusInv /\ OutcomeHasEvidence
        /\ outbox \in [Events -> OutboxRow]
        /\ bus \in [Events -> SUBSET Nat]
    BY DEF IInv, TypeOK
  <1>1. ASSUME NEW e \in Events, EnqueueEvent(e) PROVE Relay!Accept(e)
    <2>1. [outbox[e] EXCEPT !.status = "READY", !.id = Cardinality(Enqueued) + 1].status = "READY"
      <3>1. outbox[e] \in OutboxRow
        BY <1>0
      <3> QED BY <3>1 DEF OutboxRow
    <2>2. \A f \in Events : outbox'[f].status = IF f = e THEN "READY" ELSE outbox[f].status
      BY <1>0, <1>1, <2>1 DEF EnqueueEvent
    <2>3. outbox[e].status = "ABSENT" /\ UNCHANGED bus
      BY <1>1 DEF EnqueueEvent
    <2>4. Enqueued' = Enqueued \union {e} /\ e \notin Enqueued
      BY <2>2, <2>3 DEF Enqueued
    <2>5. \A f \in Events : Outcome(f)' = Outcome(f)
      BY <2>2, <2>3 DEF Outcome
    <2> QED BY <2>3, <2>4, <2>5 DEF Relay!Accept
  <1>2. ASSUME NEW w \in Workers, ClaimOutboxBatch(w) PROVE UNCHANGED Relay!vars
    <2>1. \A f \in Events : f \in Candidates =>
                /\ outbox'[f].status = "CLAIMED"
                /\ outbox[f].status \in {"READY", "FAILED", "CLAIMED"}
      <3> SUFFICES ASSUME NEW f \in Candidates
                   PROVE /\ outbox'[f].status = "CLAIMED"
                         /\ outbox[f].status \in {"READY", "FAILED", "CLAIMED"}
        OBVIOUS
      <3>1. /\ outbox[f] \in OutboxRow /\ outbox[f].attempts < MaxAttempts
            /\ tokens + 1 \in Nat /\ outbox[f].status \in {"READY", "FAILED", "CLAIMED"}
            /\ f \in Events
        BY <1>0 DEF Candidates, Claimable, TypeOK
      <3>2. outbox'[f] = Claimed(outbox[f], tokens + 1)
        BY <1>2, <3>1 DEF ClaimOutboxBatch
      <3> QED BY <3>1, <3>2, ClaimedType
    <2>2. \A f \in Events : f \notin Candidates => outbox'[f] = outbox[f]
      BY <1>2 DEF ClaimOutboxBatch
    <2>3. \A f \in Events : /\ (outbox'[f].status = "ABSENT") = (outbox[f].status = "ABSENT")
                           /\ Outcome(f)' = Outcome(f)
      BY <2>1, <2>2 DEF Outcome
    <2>4. UNCHANGED bus
      BY <1>2 DEF ClaimOutboxBatch
    <2> QED BY <2>3, <2>4, RelayStutter
  <1>3. ASSUME NEW t \in 1..tokens, LeaseLapses(t) PROVE UNCHANGED Relay!vars
    <2>1. \A f \in Events : outbox'[f].status = outbox[f].status
      BY <1>0, <1>3 DEF LeaseLapses, OutboxRow
    <2>2. \A f \in Events : Outcome(f)' = Outcome(f)
      BY <2>1 DEF Outcome
    <2>3. UNCHANGED bus
      BY <1>3 DEF LeaseLapses
    <2> QED BY <2>1, <2>2, <2>3, RelayStutter
  <1>4. ASSUME NEW w \in Workers, NEW e \in Events, Publish(w, e) \/ PublishInDoubt(w, e)
        PROVE Relay!Deliver(e) \/ UNCHANGED Relay!vars
    <2>1. UNCHANGED outbox /\ e \in worker[w].todo
      BY <1>4 DEF Publish, PublishInDoubt, IsNextRow
    <2>2. CASE UNCHANGED bus
      BY <2>1, <2>2, RelayStutter DEF Outcome
    <2>3. CASE bus' # bus
      <3>1. e \notin ContractFailures
            /\ bus' = [bus EXCEPT ![e] = @ \union {worker[w].token}]
        BY <1>4, <2>3 DEF Publish, PublishInDoubt
      <3>2. e \in Enqueued /\ Outcome(e) # "REFUSED"
        BY <1>0, <2>1, <3>1 DEF WorkersInv, WorkerInv, Enqueued, BusInv, Outcome
      <3>3. {f \in Events : bus'[f] # {}} = {f \in Events : bus[f] # {}} \union {e}
        BY <1>0, <3>1
      <3>4. Enqueued' = Enqueued /\ \A f \in Events : Outcome(f)' = Outcome(f)
        BY <2>1 DEF Enqueued, Outcome
      <3> QED BY <3>2, <3>3, <3>4 DEF Relay!Deliver
    <2> QED BY <2>2, <2>3
  <1>5. ASSUME NEW w \in Workers, NEW e \in Events, AcknowledgePublishedEvent(w, e)
        PROVE Relay!Conclude(e) \/ UNCHANGED Relay!vars
    <2>1. CASE HoldsClaim(w, e)
      <3>1. /\ outbox[e].status = "CLAIMED" /\ UNCHANGED bus
            /\ outbox' = [outbox EXCEPT ![e] = Unclaimed(@, "PUBLISHED")]
        BY <1>5, <2>1 DEF AcknowledgePublishedEvent, HoldsClaim
      <3>2. bus[e] # {}
        BY <1>0, <1>5 DEF AcknowledgePublishedEvent, WorkersInv, WorkerInv
      <3> QED BY <1>0, <3>1, <3>2, RelayResolution DEF Relay!Conclude
    <2>2. CASE ~HoldsClaim(w, e)
      BY <1>5, <2>2, RelayStutter DEF AcknowledgePublishedEvent, Outcome
    <2> QED BY <2>1, <2>2
  <1>6. ASSUME NEW w \in Workers, NEW e \in Events, QuarantineRow(w, e)
        PROVE Relay!Refuse(e) \/ UNCHANGED Relay!vars
    <2>1. CASE HoldsClaim(w, e)
      <3>1. /\ outbox[e].status = "CLAIMED" /\ UNCHANGED bus
            /\ outbox' = [outbox EXCEPT ![e] = Unclaimed(@, "QUARANTINED")]
        BY <1>6, <2>1 DEF QuarantineRow, HoldsClaim
      <3>2. bus[e] = {}
        BY <1>0, <1>6 DEF QuarantineRow, BusInv
      <3> QED BY <1>0, <3>1, <3>2, RelayResolution DEF Relay!Refuse
    <2>2. CASE ~HoldsClaim(w, e)
      BY <1>6, <2>2, RelayStutter DEF QuarantineRow, Outcome
    <2> QED BY <2>1, <2>2
  <1>7. ASSUME NEW w \in Workers, FinishBatch(w) \/ Crash(w) PROVE UNCHANGED Relay!vars
    BY <1>7, RelayStutter DEF FinishBatch, Crash, Outcome
  <1>8. ASSUME NEW w \in Workers, ReleaseClaims(w) PROVE UNCHANGED Relay!vars
    <2>1. \A f \in Events : HoldsClaim(w, f) =>
                outbox[f].status = "CLAIMED" /\ outbox'[f].status = "FAILED"
      BY <1>0, <1>8, UnclaimedType DEF ReleaseClaims, HoldsClaim, Statuses
    <2>2. \A f \in Events : ~HoldsClaim(w, f) => outbox'[f] = outbox[f]
      BY <1>8 DEF ReleaseClaims
    <2>3. \A f \in Events : /\ (outbox'[f].status = "ABSENT") = (outbox[f].status = "ABSENT")
                           /\ Outcome(f)' = Outcome(f)
      BY <2>1, <2>2 DEF Outcome
    <2>4. UNCHANGED bus
      BY <1>8 DEF ReleaseClaims
    <2> QED BY <2>3, <2>4, RelayStutter
  <1>9. CASE UNCHANGED vars
    BY <1>9, RelayStutter DEF vars, Outcome
  <1> QED
    BY <1>1, <1>2, <1>3, <1>4, <1>5, <1>6, <1>7, <1>8, <1>9 DEF Next, WorkerStep, Relay!Next

\* For any workers, leases and crashes the outbox is an at-least-once relay.
THEOREM OutboxImplementsRelay == Spec => ImplementsRelay
  <1>1. Init => Relay!Init
    BY DEF Init, Relay!Init, Enqueued, Outcome
  <1>2. IInv /\ [Next]_vars => [Relay!Next]_(Relay!vars)
    BY RelayStep
  <1> QED BY <1>1, <1>2, Invariance, PTL DEF Spec, Relay!Spec, ImplementsRelay
===============================================================================
