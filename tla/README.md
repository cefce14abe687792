# Verification of the gaming and hospitality data platform

TLA+ models of the platform's event and merge core, checked with TLC and, where
it matters most, proved with TLAPS. Paths are relative to the repository; the
directory `src/resort_platform` of the repository is abbreviated `rp`.

## The system

The platform moves changes of hotel, gaming and rewards systems (DB2, SQL
Server) to an event bus, to lake zones and to canonical current rows. Its own
logic is in a handful of places; the rest is schemas, stateless queries,
infrastructure and scoring functions.

| Component | State | Operations | Interacts with |
|---|---|---|---|
| Outbox (`sqlserver/continuous_querying/operational_streaming_support.sql:23-246`) | `stream.OutboxEvent`: status, claim token, lease, attempts; `stream.QuarantineEvent` | `usp_EnqueueEvent`, `usp_ClaimOutboxBatch`, `usp_AcknowledgePublishedEvent`, OnError release | business transactions, publisher workers |
| Publisher workers (`ssis/continuous_handoff/...dtsx.xml` tasks 06, 07, OnError) | claim token, loaded rows, retries | claim, send, acknowledge, quarantine, release | the outbox; the event gateway by HTTP |
| CDC handoff package (same `dtsx`, tasks 00-10) | low and high watermark, staged rows, `ctl.SourceWatermark` | read watermark, capture maximum, extract, load outbox, publish, reconcile, commit | DB2 writers, outbox, other executions |
| Consumer ledger and session merge (same SQL file as the outbox, 55-67, 122-136, 248-356) | `stream.ConsumerLedger`, `curated.GamingSessionCurrent` | `usp_RegisterConsumerDelivery`, `usp_MergeGamingSession` | the bus, racing consumer instances |
| Canonical pipeline (`rp/production_reference.py`) | remembered hashes, rows, audit, metrics | `process`: remember, route, normalize, merge, reconcile | its caller, who may submit a batch again |
| Pub/Sub reference (`gcp/pubsub/production_reference.py`, `replay.py`) | paused ordering keys, messages handed over; seen event ids per instance | `publish_sync`, `retry`, `publish_many`, `process_push`, seek | Pub/Sub redelivery, dead letters |
| Event gateway, push consumer, medallion storage (`rp/services`, `rp/storage`) | immutable objects per hour | land then publish; validate, quarantine or write bronze | callers, Pub/Sub, GCS |
| Spark query groups (`streaming/continuous_querying`) | four checkpoints per domain, deduplication state, current and history tables, the supervisor's list | micro-batches: raw, clean, quarantine, merge; start, stop on a signal | topic with retention, Delta tables |
| Dataflow pipelines (`gcp/dataflow`) | windows and accumulators | validate, window, keep latest, append | Pub/Sub, BigQuery |
| Migration control plane (`cloud_migration/production_reference`) | wave status, evidence, checkpoints per workload | ready, start, dual run, validate, checkpoint, cut over, complete, roll back | operators |
| Hotel load (`ssis/packages/HotelReservations_Incremental.dtsx`, `sqlserver/procedures`, `adf/factory/pipeline/pl_hotel_db2_to_cloud.json`) | one watermark for two routes, staging per run, `dw.fact_reservation`, `dq.quarantine`, landing folder | bound, extract, validate, merge with the watermark, reconcile, commit; copy, validate, commit | DB2 writers, overlapping runs of both routes |
| Landing package (`ssis/production_reference/enterprise_packages.dtsx.xml:34-115`, `sqlserver/production_reference/enterprise_warehouse.sql:218-323`) | `ctl.pipeline_watermark` with low and announced high value, landing and quarantine files | `usp_begin_pipeline`, read bounds, extract, split, land, quarantine, `usp_commit_pipeline` | DB2 writers, overlapping runs |

Hard behaviours: leases that lapse under a live worker; crashes between two
statements; races between a check and an insert; uncommitted reads of a table
that is being written; redelivery, reordering and ties of versions; an exception
in the middle of a batch; overlapping runs of one pipeline; watermarks.

What makes each component correct:

- *Outbox*: an accepted event is concluded only after it was sent, a refused one
  is never sent; a live claim belongs to one worker; nothing is lost, and every
  row is settled in the end; the number of sends is bounded by the attempts.
- *CDC handoff*: no version of a row is left behind the watermark unless it is in
  the outbox or in quarantine.
- *Consumer ledger*: at most one merge per event; the newest version stays; what
  was acknowledged was merged.
- *Canonical pipeline*: rows depend on the set of merged records, not on their
  order; the metrics tell the truth; a balanced reconciliation can be trusted.
- *Publisher and subscribers*: ids are returned only for what is on the topic; a
  handler starts a bounded number of times; what was acknowledged was handled, or
  it is known why not; windows lose and repeat nothing in silence.
- *Gateway, consumer*: what was answered as done has its effect.
- *Spark groups*: for every row of a committed batch the current table has one of its
  key that is not older, current rows are in the history, loads of one batch are equal,
  outputs hold each record once, every row is clean, in quarantine or was late for its
  batch, a stop reaches every group that was started. Uniqueness of keys in the current
  table, a path for late rows and unrepeated history rows are not among them: the code
  does not give them (see Findings).
- *Migration registry*: a cutover rests on evidence and a checkpoint of the
  workload, after the dependencies.
- *Batch pipelines*: no version of a row lies behind the watermark outside every
  target, whatever overlaps, fails or is tried again.

## Modules

| Module | Models |
|---|---|
| `EventRelay` | abstract at-least-once relay: accept, deliver, conclude, refuse |
| `Outbox` | outbox table and publisher workers; refines `EventRelay` |
| `OutboxProofs` | proofs about `Outbox` |
| `BoundedExtract` | the DB2 table, its writers, the watermark and what the packages share: bound, extract, fail |
| `CdcHandoff` | the CDC package over an outbox reduced to accepted and resolved events |
| `HotelIncremental` | the hotel load along both routes, and the landing package |
| `LegacyBatches` | composes the three pipelines over `BoundedExtract` |
| `LegacyBatchesProofs` | proofs about `LegacyBatches` |
| `MergeOrder` | the two orders by which versions are compared |
| `CanonicalPipeline` | `EnterprisePipeline` and `CanonicalMergeStore` |
| `CanonicalPipelineProofs` | proofs about `CanonicalPipeline` |
| `SessionLedger` | consumer ledger and gaming session merge |
| `SessionLedgerProofs` | proofs about `SessionLedger` |
| `MigrationRegistry` | the migration waves and their cutover gate |
| `MigrationRegistryProofs` | proofs about `MigrationRegistry` |
| `EventIngest` | gateway, topic and push consumer over immutable objects |
| `EventIngestProofs` | proofs about `EventIngest` |
| `StreamContract` | validity and reason of a streamed row in three-valued logic |
| `QuerySupervisor` | the driver process that starts and stops query groups |
| `StreamQueryGroup` | the four queries of a group under the supervisor |
| `StreamQueryGroupProofs` | proofs about `StreamQueryGroup` |
| `MessageTopic` | abstract topic: accepted messages are appended one at a time |
| `TopicPublisher` | `publish_sync` under `retry`, `publish_many`; refines `MessageTopic` |
| `PushProcessing` | `process_push` behind a push subscription, seek |
| `DataflowWindows` | the Dataflow pipeline of a domain in its three window modes |
| `TopicSubscribers` | composes the publisher and the two subscriptions over one topic |
| `TopicSubscribersProofs` | proofs about `TopicSubscribers` |
| `MC...` | constants for TLC |

### Outbox

`outbox[e]` is the row of event `e`: its status (`ABSENT` before the insert), the
claim token as a number (`NEWID()` never repeats one), `lapsed` for
`claim_expires_at < now`, and `publish_attempt_count`. `worker[w]` is what one
execution of tasks 06 and 07 holds in memory: its token, the claimed rows it has
not resolved (`todo`), the row it has sent and not acknowledged (`sent`) and its
retries. `bus[e]` records under which claims the event was put on the bus.

Each procedure is one action because each is one UPDATE, or a check and an INSERT
whose race the unique key settles. Sending and acknowledging are two actions, and
a crash or a lapse may come between them. A retryable response or a timeout
(`PublishInDoubt`) leaves open whether the gateway had published. OnError
releases the rows of the run's token. Permanent contract failures are
quarantined; the package gives only pseudocode for this branch, and the model
gives it the guard of the acknowledgement, so that a worker that lost its claim
fails instead of resolving a row it no longer has.

### Batch pipelines

`BoundedExtract` holds the DB2 table. Its transactions draw a `SOURCE_SEQUENCE`,
write one row and commit or roll back; this part is external, and it is assumed that
drawing and writing are one step (were they two, a sequence could appear below a
captured maximum, and no bounded window would be safe). `run[r]` is one execution:
its task (`phase`), its bounds, the rows it has still to read (`scan`) and what it
staged. The extract reads row by row and sees uncommitted writes (`WITH UR`).
`Fail` is OnError, an exhausted retry or a crash in any task; a later run starts
from the watermark.

`CdcHandoff` adds the tasks of the handoff package. The reconciliation counts a
staged event as explained when it is published, quarantined, or was in the outbox
before, so the watermark may pass events that a failed earlier run left in the
outbox: they are the outbox's to settle. `usp_CommitSourceWatermark` is not in the
repository and may or may not refuse a lower value; both are allowed. Of the outbox
the model keeps `accepted` and `resolved`, the events whose outcome in `EventRelay`
is not open.

`HotelIncremental` adds two packages.

- The hotel load has two routes with one watermark, `hotel_reservation_incremental`.
  The SSIS route stages rows per run, quarantines the refused ones, merges by
  `source_sequence`, and moves the watermark in the transaction of the merge
  (`usp_merge_reservation.sql:55`), before `usp_reconcile_pipeline` has looked at the
  counts, then again at its end. The Data Factory route copies rows to the landing
  folder, with retries that start the copy again, calls an endpoint that is not in
  the repository, and commits. Neither compares the watermark with the value it
  sets, so runs may move it back, which costs work and no rows.
- The landing package captures no bound itself: whoever calls it passes one to
  `usp_begin_pipeline`, which is taken to be the maximum query of
  `enterprise_extracts.sql:23-25`, evaluated at any time before. `begin` writes the
  bound into the control row (`announced`) and locks nobody out, although the task is
  called `AcquireRunLock`; the next task reads both bounds from that row, and so
  perhaps those of another run. `QuarantineRejects` is not a predecessor of any task:
  it may come before or after the reconciliation, or fail. What keeps its rows from
  being passed unseen is the comparison of the counts in `usp_commit_pipeline`, that
  is, `staged = {}` in `CommitPipeline`. `audit.usp_reconcile_run` and
  `ctl.usp_end_pipeline` are not in the repository and pass or fail.

The pipelines share no table, so `LegacyBatches` gives a behaviour one of them: every
execution takes the handoff, or every one the landing package, or each one a route of
the hotel load. The two exceptions in `NoGap` and `NothingSkipped` are facts of the
code. `undone` are rows whose last write was rolled back: a lock-free read may have
seen it, and the version it hid is then behind the watermark. `postdated` are rows
that the SSIS query leaves out because their time lies more than five minutes ahead
(`hotel_reservation_incremental.sql:22`), while the captured maximum counts them.

### Canonical pipeline

An envelope is a record with the fields by which the code tells envelopes apart:
event id, business key, version, update time, whether its body is valid,
invalid, unparsable by a validator (`malformed`) or by `_normalize`
(`unversioned`), when its event time stops being in the future, and `delivery`
for the trace and offset fields that the hash covers. One action handles one
envelope to the end of the loop body. An exception ends the call, and its
outputs are lost while store and metrics stay.

### Session ledger

Instances of one consumer take deliveries of any event at any time. The check and
the insert of `usp_RegisterConsumerDelivery` are two actions, because without an
enclosing transaction the lock hints last for one statement; the primary key
fails the slower insert. The caller of the procedures is not in the repository:
it is assumed to skip the merge of a duplicate. The SQL merge breaks exact ties
of version and time by arrival, where `lake/merge/README.md:12` wants the event
id to decide; `NewestVersionStays` therefore promises the newest version, not a
unique row.

### Migration registry

One action per method; a method that raises changes nothing and is an action that
is not enabled, and `cutover` is split by its decision. `status` is a partial
function on ids: the constructor iterates its argument twice, so a generator
leaves it empty, and `validate`, `mark_ready`, `cutover` and `rollback` write
entries that were not there. `Strangers` are ids that no workload has and that
some methods accept. An evidence is the four results that `cutover_ready` reads;
times, counts and the contents of checkpoints are left out.

The registry permits much: a workload may be cut over without having been ready,
started or run in parallel, and again after a rollback on the old evidence. The
invariants say what it does guarantee.

### Event ingest

Both services are stateless. `landing` and `bronze` hold object names, that is
pairs of event and hour, because `write_json` puts both in the name and uploads
only if the object does not exist. A request names its object, lands it and
publishes in separate steps; the failing variants of the steps leave open whether
the write or the publish took effect. The subscription is external except for its
limit on attempts in Terraform: a message is `out` while a push is awaited, may be
given up while the consumer still works on it, and counts a late answer only while
another push is awaited. `consume` never reaches its quarantine branch, since the
models it validates with guarantee all that its quality rules ask, so a malformed
message fails until it is dead-lettered. `orphaned` records the objects of
requests that failed between landing and publish.

### Stream query group

Each of the four queries has a checkpoint (first offset, end of the last committed
batch, end of the planned one), and the two stateful ones a state with watermark and
remembered rows. A batch is planned with any end, and once planned is repeated with
the same end until it commits; stop, crash and failure leave it planned. Any query of
any spec may be stopped by the supervisor, in the order of its list, or end with an
exception, at any step; `MaxFailures` bounds the exceptions. Writing the
Delta output, inserting into the history, merging into the current table and
committing are separate steps. Delta outputs remember the last batch id, as the
streaming sink does; the history and current tables do not, since `merge_batch`
writes them in two statements of a `foreachBatch`. Spark's checkpointing, watermark
and Delta sink are modelled from their use. Records may come behind the watermark,
and retention may remove records before they are read (`failOnDataLoss` is false). The
batch is not persisted: history and merge each read it, so a record that retention takes
in between, or before the batch is repeated, is in the history and may never reach the
current table. `NewestSurvives` excepts such rows. A row of the history carries, besides
its batch id, the life of the driver that loaded it, for `_history_loaded_at`: so the
rows that a repeated INSERT adds are seen, and `RepeatsAreWhole` compares the loads. A
life loads a batch at most once, since a query that ends is not started again in it.
`late` is an auxiliary variable: it records which valid offsets were behind the watermark
in force when the clean output was given their batch, and no guard reads it. With it
`SplitIsTotal` does not excuse a row that only the watermark of its own batch has passed.
`promised` records which groups were complete at the signal, for `PromisedStop`.

The queries share nothing but the topic, so `observed` picks those whose batches a
behaviour shows, and the supervisor runs with all of them. `QuerySupervisor` boots,
launches the queries of each group one after the other, and runs its signal handler
between any two steps of `start`. The handler stops what `self.queries` holds; a group
under construction is not in it yet, so `PromisedStop` speaks of the groups that were
complete when the signal came.

### Publisher, push endpoint and Dataflow

`TopicPublisher` follows a call from its first try to its answer; `publish_sync` is
retried as `retry` does, and `publish_many` hands messages over in order, and fails
on the first refused message or failed future. A failed future pauses the ordering
key of the client until the process ends.

`PushProcessing` gives each instance its in-memory `IdempotencyStore`. The caller of
`process_push` is not in the repository: it is taken to acknowledge every status but
`retry` and to process one push at a time. The subscription is external but for the
limit on attempts in Terraform; the order of delivery is not restricted, though the
Terraform turns ordering on, so more is allowed than can happen. A seek acknowledges what was published before
its time and delivers the rest anew, given that the topic retains messages.

`DataflowWindows` takes messages in any order. Beam's watermark, default trigger,
discarding panes, merging of sessions and expiry are external. A pane is a window of
an event id with the members it has not output; a row remembers the pane it came of.
`LatestEvent` keeps an event with the greatest time, and among equal times any of
them, as the order in which accumulators merge is not fixed.

Subscriptions neither act on each other nor on the publisher, so in
`TopicSubscribers` a behaviour shows one `subject`. The topic of a subscription grows
as `MessageTopic` allows, which is what the publisher is shown to implement.

## Runs

| Run | Shows | Bounds |
|---|---|---|
| `outbox_safety` | type, evidence, counted sends, exclusive live claims, final outcomes, refinement of `EventRelay` | 2 workers, 2 events (one a contract failure), 3 attempts, 1 retry |
| `outbox_progress` | every enqueued event is settled for good | 2 workers, 2 events, 2 attempts, claims of 1 row |
| `outbox_double_send` | counterexample to "multiple publisher workers cannot double-send work" | 2 workers, 2 events |
| `legacy_batches` | no version behind the watermark outside every target, in the handoff, the hotel load and the landing package | 2 executions, 2 rows (one invalid), 3 writes for the handoff, 2 for the others |
| `cdc_rollback_gap` | counterexample: a rolled back write leaves a committed version behind | same |
| `stream_group` | outputs hold records once, the split loses only late rows, no recorded row is newer than the current ones of its key, current rows are in the history, loads of a batch are equal, a stop reaches the groups it must | 4 topics of 2 or 3 records out of 4 rows of one key, 2 groups, 2 processes, 1 exception, 1 expired record |
| `topic_subscribers` | the publisher implements a topic; handlers run a bounded number of times, acknowledged means handled or excused, windows account for what they took | 10 messages, 3 on the topic, 3 tries; 2 instances, 2 attempts, 2 restarts, 1 seek; windows of 2 with period 1, lateness 1, time up to 6 |
| `canonical_merge` | newest rows, honest metrics, trustworthy balance | 7 envelopes, batches of up to 2, 3 calls, 2 clock values |
| `canonical_loss` | counterexample: an exception loses an envelope on resubmission | 3 envelopes, 2 calls |
| `session_ledger` | one merge per event, newest version, acknowledged means merged | 2 instances, 3 events with a tie and a clock inversion, 3 deliveries each |
| `migration_registry` | cutovers rest on evidence, waves follow dependencies, whatever unknown ids are passed | 2 workloads, one dependent, 1 unknown id, 3 kinds of evidence, 3 validations each |
| `event_ingest` | one publish per landed object; an accepting or acknowledging answer has its effect | 1 event and 1 malformed message, 2 handlers, 2 pushes at a time, 3 requests, 3 attempts, 2 hours |

Why the bounds are enough: the outbox hazards need one worker that lost a row and
one that took it over, a third attempt lets both lose it, and two rows show that
one row's failure does not disturb the other. In the batch pipelines a gap needs a
row that is read while it moves and a second one that carries the maximum; three
writes let each row be written and one of them move again, and for the other two
pipelines two writes suffice for a version that is passed while the other row is
refused, skipped or overtaken; two executions are what it takes to overwrite a bound
or to put a watermark back. In the stream group three records are cut into batches in
every way, tie, supersede each other, jump the watermark or repeat; of two groups one
is complete when the other starts, so that a stop finds one in the list and the other not,
and a second process repeats what the first left after a stop, a crash or an exception.
The subscribers need a message twice, two instances that each know it or not, and
three event times that fall in one, two or separate windows and merge two sessions
into one. In the
canonical pipeline every route is represented by an envelope, ties and
redeliveries by pairs, and three calls let a batch be submitted again twice. In
the session ledger a race needs two instances and a late duplicate a third
delivery. In the registry a third validation lets a failed one follow or split two
that passed. Events of the ingest do not share objects, so one event is enough;
its three requests are a race and a retry, and two hours put each of them on
either side of the change.

Deadlock checking is off in all runs: producers, writers and callers may stop,
and the bounds stop them.

Fairness is assumed only in `outbox_progress`. Weak fairness of each worker's
steps: the job scheduler starts the package again and again and a running task
goes on. Weak fairness of the lapse: wall-clock time passes. Crashes, doubtful
responses and enqueues are not fair, and may happen at every step; the limit on
attempts is what ends a row that crashes forever. For the other components no
liveness is claimed: a Spark merge that finds two rows for one current row fails forever, a
subscription gives up, a package waits for its operator.

## Findings

- `outbox_double_send`: a lease does not prevent double sends, it bounds them.
- `cdc_rollback_gap`: uncommitted reads and a rollback lose a committed version.
- `canonical_loss`: remembering before validating loses envelopes that raise.

The entries in `PROJECT.json` quote the statements they contradict.

Other places where code and words differ, met while modelling:

- `docs/architecture.md:23` has watermarks advance only after merge and
  reconciliation; `usp_merge_reservation.sql:55` moves it and sets the run to
  SUCCEEDED in the merge. `NothingSkipped` holds in spite of it.
- `usp_merge_reservation.sql:64` records `@@ROWCOUNT` after the update of the
  watermark, so `target_rows` is the count of that update and not of the merge.
- SSIS and Data Factory share a watermark: what one has loaded the other never reads,
  so neither target alone is complete. `NothingSkipped` asks for one of them.
- A row that the SSIS query leaves out as postdated is not read by any later run
  unless it changes again, once the watermark has passed it.
- `docs/architecture.md:25` rests redelivery on unique targets; the pipeline dedupes per
  window and appends to its table (`continuous_streaming_pipeline.py:264`), so in sliding
  windows one event has a row per window. `CountedOnce` and `SecondRowIsLate` say what
  holds within a window.
- `streaming/continuous_querying/README.md:145` asks for an explicit path for events beyond
  the lateness horizon: "quarantine, correction, replay, or business-specific
  reconciliation". A valid event behind the watermark of its batch has none: the stateful
  queries drop it (`continuous_streaming_reference.py:301`), quarantine takes refused rows
  only, and the raw output is all that holds it. `SplitIsTotal` excepts exactly those rows.
- `lake/merge/README.md:9-13` and `merge_policy.yml` (`deterministic_upsert`, match keys,
  `STALE_IGNORED`) have one current row per business key, and stale arrivals not applied.
  `merge_batch` inserts every row of a batch whose key it finds not matched (line 379): two
  versions of a new key in one batch become two current rows, one of them stale, and the
  model reaches that state. `NewestSurvives` promises one row that is not older, not that
  no stale one is beside it. If the key is current and both versions would update its row,
  MERGE fails, and so does every retry, since the batch is planned with the same end.
- `continuous_streaming_reference.py:5` names "replay-safe sinks". The history is none: a
  batch that is interrupted after its INSERT (line 357) inserts its rows again, once per
  life of the driver. `RepeatsAreWhole` bounds what a repetition adds.
- `streaming/continuous_querying/README.md:48` names graceful shutdown. A signal while
  `start` is launching stops the complete groups only: the group under way is not in the
  list yet, `start` goes on with it and with the later ones when `stop` has returned, and a
  second signal does nothing (lines 453-455). `PromisedStop` says what is left of it.
- `LatestEvent` keeps the later arrival among equal event times, so the winner of a tie
  depends on the order in which accumulators are merged. `RowIsLatest` permits any of the
  tied ones.
- `AcquireRunLock` locks nobody out. Overlapping runs are safe because every bound is
  captured before any scan that uses it, and because the commit checks the counts.

## Proofs

`OutboxProofs` proves, for any finite set of events, any set of workers and any
limits (`OutboxAssumption`), every safety property of `outbox_safety`:

- `TypeCorrect`, `SendsAreCounted`, `OutcomesHaveEvidence` as invariants,
- `LiveClaimsAreExclusive`, `ResolvedStaysResolved` as action properties,
- `OutboxImplementsRelay`: the outbox implements `EventRelay`.

None of the invariants is inductive alone: that a PUBLISHED row is on the bus
depends on what the worker remembers having sent, and that a quarantined event
never reaches the bus depends on the contract being checked before each send.
`IInv` adds `WorkersInv` (a worker's memory: its token exists, what it sent is
among what it has to resolve, its rows exist, its sent event is on the bus under
its token) and `BusInv` (what is on the bus was enqueued, passes the contract, and
was sent under a claim that exists). `RowStepLemma` classifies what a step may do
to one row; the action properties and the refinement are read off it.

`CanonicalPipelineProofs` proves, for any finite set of envelopes, any batch length
and any number of calls (`PipelineAssumption`), every safety property of
`canonical_merge`: `PipelineTypeCorrect`, `RowsStayNewest`, `CountsAlwaysMatchStore`
and `BalanceCanBeTrusted`. `BalancedMeansAccounted` speaks of the time between calls;
`AccountInv` extends it over a running call, whose quarantine outputs are not
returned yet, and `SupportInv` says that those outputs end with the call and that
the counted sets are finite. That an exception opens a gap which no later step
closes (`GapStays`) is what makes the reconciliation trustworthy, and it rests on
`CountsMatchStore`. The merge keeps the newest row because `EventNewer` is total on
records of one key (`EventOrderTotal`) and transitive (`EventOrderTransitive`).

`MigrationRegistryProofs` proves the safety properties of `migration_registry` for
any workloads, any dependency graph and any evidence (`RegistryAssumption`):
`RegistryTypeCorrect`, `CutoverRestsOnEvidence` and `WavesFollowDependencies`, and
`StrangersStayOut`, which is proved only. Only their conjunction `IInv` is inductive.
A workload becomes ready because its dependencies are complete; that a complete
workload has evidence is `CutoverHasEvidence`; that the evidence outlives the status
is `OnceValidatedStays` (histories only grow at their end); and that the dependencies
of a started id are defined at all needs `StrangersNeverMigrate`.

`TopicSubscribersProofs` proves for any messages, instances, windows and limits
`SpecTypeOK`, `SpecConfirmedIsPublished`, `SpecRunsAreBounded`,
`SpecAckedIsHandledOrRaised`, `SpecTakenIsAccounted`, `SpecCountedOnce`,
`SpecRowIsLatest`, `SpecSecondRowIsLate` and `SpecImplementsTopic`. Its `IInv` has a part for each
component: what a call has handed over is on the topic (`ListHandedOverStep`); for
each event the started handlers are counted by the instances that do not remember it
and the restarts (`RunsStep`); an id in a store is running there, processed or raised
(`AckedStep`), which is also why a restart in the middle of a handler loses nothing.
The pipeline's part is about windows:

- *Panes are apart* (`PanesOK`). Open panes of one event id do not overlap in sessions,
  and differ in their start in the other modes, so a window has one open pane
  (`OnePane`). A pane spans exactly what it joins (`PaneWithSpan`), for which the least
  and the greatest of its bounds must exist: every bound of a pane is an integer, and
  all of them lie in an interval (`PanesBounded`). What a new element opens stays apart
  from what it did not join (`ApartFromJoined`).
- *Nothing read is lost* (`AccountedStep`). Merging keeps the members of every pane it
  joins within a wider one, firing leaves them in the row, and the watermark only
  decides between a pane and `dropped` when the element comes.
- *Nothing counts twice* (`CountStep`; `CountedOnce` is proved only). What panes share
  they have in windows that start elsewhere, and in sessions they share nothing
  (`PanesShare`): a new pane has the start of the one it joins, so it shares only what
  that one shared (`OpenedElsewhere`), and firing empties the pane it writes.
- *A second row is late* (`RowsOKStep`). `SecondRowIsLate` is not inductive: from a state
  where a window has fired and is still open under other bounds, an element in time
  could reach it. The strengthening `RowsOK` says that the window of a row lies within
  an open pane or has expired (`RowIsCovered`); so nothing that opens later lies strictly
  within it (`NoneInside`); so what comes for that window comes after its end
  (`AfterRowIsLate`).
- *A row is a maximum of its pane* (`SelectableIsLatest`, `LatestStep`).

`LegacyBatchesProofs` proves for any finite set of rows and any executions
`SpecTypeOK`, `SpecNoGap` and `SpecNothingSkipped`. The two gap properties are one
invariant over `Owed`, the rows that a pipeline owes, and `Held`, those whose visible
version is in a target. `RunShape` keeps bounds in the past and one staged version
per row; `RunReach` says that every owed row up to a run's low watermark is held,
every scanned one of its window is held or staged, and after the run has applied what
it staged all are held. A write moves a row above every bound that exists, because
bounds are captured values (`announced <= sequence` for the control row), and only
then is it not held: `RunStable` carries this over to all other executions at once,
so each action is examined for its own run only. In the landing package rejected rows
may be neither landed nor quarantined when the run is ready; `CommitPipelineKeeps` is
where the check of the counts is needed.

`SessionLedgerProofs` proves for any finite set of events, any instances and any
number of deliveries `LedgerTypeCorrect`, `MergesAtMostOnce`, `NewestStays` and
`AcknowledgedIsMerged`. Every instance that has yet to register owns a delivery that
the ledger does not count (`DeliveriesCount`); the one whose insert succeeded is the
only one to merge (`OneMerger`); and a row of the ledger is the trace of a merge that
is done, under way, or cut off (`RegisteredIsSettled`), which is why only a crash
between the two procedures can leave an acknowledged event unmerged.

`EventIngestProofs` proves for any events, handlers, pushes and hours
`IngestTypeCorrect`, `LandingIsAccounted` and `AnswersCanBeTrusted`. The objects of an
event, its messages, the requests that have landed one and the orphans are finite sets
that balance (`LandingFits`), because a landed object belongs to one request
(`RequestsOwn`). A push names the object of its message (`PushesMatch`), and what is on
the topic was landed before.

`StreamQueryGroupProofs` proves every property of `stream_group`, for any topics,
query groups, delays and retention.

- *Outputs.* An output is given the topic up to `OutputEnd`, which moves in the step
  that writes a batch: committing it, planning it again or losing the driver changes
  nothing (`OutputSteps`). What the clean output holds is remembered by the state that
  goes with it or is behind its watermark (`CleanInv`), so it is not taken twice; that a
  watermark is well defined and never goes back is `WatermarkGrows`. A valid row it was
  given and does not hold was late when it was given (`CleanInv` again): a batch that is
  repeated is not given again, so later watermarks do not matter.
- *Split.* `SplitLosesNothing` assumes `ComparesOnlyRequired`: only then is validity
  never unknown (`ValidityIsKnown`). `default_specs` keeps to it; `EventContract` does
  not ask for it.
- *Tables.* The rows that an interrupted batch has put into the history will be read
  again and are still fresh, unless retention has taken them (`HistoryInv`, `FreshStays`);
  and all that the batch would bring now is in each of its loads (`Complements`,
  `FreshRowsShrink`), which makes a further load equal to them.
  What MERGE covers stays covered because superseding is transitive enough
  (`SupersedesOrder`).
- *Supervisor.* The list of queries is the union of the complete groups
  (`SupervisorInv`), and a query launched after the signal is not among them. `stop`
  returns when no query of the list runs, and none of these is launched again in its life.

Three assumptions carry these proofs and are checked by the runs on their constants:
copies of an event are equal in what the queries read (`CopiesAssumption`), the names of
queries of different specs differ, and there is a spec (`SupervisorAssumption`).

Only model-checked: `EventuallySettled`, since liveness under fairness is outside the
proof system. Every other property of a passing run is a theorem.

## Not modelled

Listed with reasons in `PROJECT.json`:

- stateless queries, views and schemas (Azure Stream Analytics, dbt, the other DB2
  extracts, health views), Terraform (but for the limits of subscriptions), machine
  learning, FinOps, agents, digital twin: nothing in them changes state in an order
  that matters;
- `usp_ReconcileStreamBatch` and `audit.StreamBatch`: no writer in the repository;
- the packages for gaming, rewards and payments: tasks without statements;
- the Data Factory orchestrators: they call procedures that are not in the repository;
- `core.usp_merge_hotel_reservation` has no caller, and `dw.usp_merge_guest_scd2`
  reads a staging table that nothing fills;
- of `rp/quality.py`, everything: a payload that the gateway's models accept passes
  its rules.

## Plan

1. Outbox, canonical pipeline, consumer ledger, migration registry, event ingest,
   batch pipelines, stream query group, publisher and subscribers: done.
2. Proofs for all of them: done; every safety property of the passing runs is a theorem.
3. Next: the lemmas that the proofs of different components share, in a module of
   their own.
