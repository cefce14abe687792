--------------------------- MODULE StreamQueryGroup ---------------------------
(***************************************************************************)
(* The four queries that start_query_group runs over one topic, under      *)
(* their supervisor.  Each reads the topic on its own, in micro-batches,   *)
(* and keeps its own checkpoint: what it has committed, the end of the     *)
(* batch it has planned, and the state of its deduplication.               *)
(*                                                                         *)
(* The topic is given as a whole: a batch may end anywhere, so it also     *)
(* stands for a topic that is still growing.  The queries share nothing    *)
(* but the topic; observed names those whose batches a behaviour shows.    *)
(***************************************************************************)
EXTENDS QuerySupervisor, StreamContract

CONSTANTS
    Rows,           \* [event_id, business_key, version, updated, time, fields]
    Streams,        \* sequences of rows that the topic may hold
    FirstOffsets,   \* where startingOffsets may resolve to
    Observed,       \* sets of queries
    Delay,          \* spec.watermark_delay
    MaxExpired      \* bound on the records that retention removes

Appending == {"raw", "clean", "quarantine"}
Stateful == {"clean", "merge"}
Queries == Appending \union {"merge"}

ASSUME GroupAssumption ==
    /\ \A row \in Rows : /\ row.version \in Nat /\ row.updated \in Nat /\ row.time \in Nat \ {0}
                         /\ row.fields \in [Fields -> Condition]
    /\ Streams \subseteq Seq(Rows)
    /\ FirstOffsets \subseteq Nat
    /\ Observed \subseteq SUBSET Queries
    /\ Delay \in Nat \ {0}
    /\ MaxExpired \in Nat

\* Copies of an event are equal in what the queries read.
ASSUME CopiesAssumption ==
    \A row, copy \in Rows : row.event_id = copy.event_id => row = copy

VARIABLES
    topic,          \* the records, in the order of their offsets
    expired,        \* the offsets up to here are gone
    observed,
    checkpoint,     \* per query: first offset, end of the last committed batch, end of the planned one, batch id
    phase,          \* what the running query has done of its batch
    appended,       \* per Delta output: how many copies of each offset it holds
    late,           \* offsets that the clean output left out for the watermark of their batch
    transaction,    \* per Delta output: the last batch id it holds
    state,          \* per stateful query: rows remembered, watermark, as of the last commit
    draft,          \* the state that the batch under way has written
    history,        \* rows of the history table, with _stream_batch_id and the life that loaded them
    current         \* the current table: from the event that inserted a row to the row

groupVars == <<topic, expired, observed, checkpoint, phase, appended, late, transaction,
               state, draft, history, current>>
tables == <<appended, late, transaction, history, current>>
groupVarsButPhase == <<topic, expired, observed, checkpoint, tables, state, draft>>
vars == <<supervisorVars, groupVars>>

EventIds == {row.event_id : row \in Rows}

DedupeState == [seen: SUBSET Rows, watermark: Nat]
EmptyState == [seen |-> {}, watermark |-> 0]

TypeOK ==
    /\ SupervisorTypeOK
    /\ topic \in Streams
    /\ expired \in 0..MaxExpired
    /\ observed \in Observed
    /\ checkpoint \in [Queries -> [first: Nat, done: Nat, end: Nat, batch: Nat]]
    /\ \A q \in Queries : checkpoint[q].first <= checkpoint[q].done
                          /\ checkpoint[q].done <= checkpoint[q].end
    /\ phase \in [Queries -> {"idle", "planned", "recorded", "written"}]
    /\ appended \in [Appending -> [DOMAIN topic -> Nat]]
    /\ late \subseteq DOMAIN topic
    /\ transaction \in [Appending -> Nat]
    /\ state \in [Stateful -> DedupeState]
    /\ draft \in [Stateful -> DedupeState]
    /\ history \subseteq [batch: Nat, row: Rows, loaded: Nat]
    /\ DOMAIN current \subseteq EventIds
    /\ \A e \in DOMAIN current : current[e] \in Rows

Init ==
    /\ SupervisorInit
    /\ topic \in Streams
    /\ expired = 0
    /\ observed \in Observed
    /\ \E first \in [Queries -> FirstOffsets \union {0}] :
        /\ \A q \in Queries : IF q \in observed THEN first[q] \in FirstOffsets ELSE first[q] = 0
        /\ checkpoint = [q \in Queries |->
                [first |-> first[q], done |-> first[q], end |-> first[q], batch |-> 0]]
    /\ phase = [q \in Queries |-> "idle"]
    /\ appended = [q \in Appending |-> [o \in DOMAIN topic |-> 0]]
    /\ late = {}
    /\ transaction = [q \in Appending |-> 0]
    /\ state = [q \in Stateful |-> EmptyState]
    /\ draft = [q \in Stateful |-> EmptyState]
    /\ history = {}
    /\ current = [e \in {} |-> e]

-------------------------------------------------------------------------------
\* Batches

\* The number of the batch that is planned or comes next, from 1.
BatchId(q) == checkpoint[q].batch + 1

\* Offsets of the planned batch that can still be read: failOnDataLoss is false.
Readable(q) ==
    {o \in DOMAIN topic : checkpoint[q].done < o /\ o <= checkpoint[q].end /\ expired < o}

\* The watermark trails the latest valid row, duplicates and late rows included.
Latest(times) == CHOOSE t \in times : \A u \in times : u <= t

NextWatermark(q) ==
    Latest({topic[o].time : o \in {p \in Readable(q) : IsClean(topic[p])}}
           \union {state[q].watermark + Delay}) - Delay

\* Faulty: the watermark that a batch moves decides on the rows of that batch.
InTimeAfterwards(q) == {o \in Readable(q) : IsClean(topic[o]) /\ topic[o].time > NextWatermark(q)}

\* withWatermark and dropDuplicatesWithinWatermark: valid rows that are not behind the
\* watermark left by the batches before, one for each event id that is not remembered.
InTime(q) == {o \in Readable(q) : IsClean(topic[o]) /\ topic[o].time > state[q].watermark}

\* Valid rows behind the watermark in force: the stateful queries drop them.
Behind(q) == {o \in Readable(q) : IsClean(topic[o]) /\ topic[o].time <= state[q].watermark}

\* Faulty: duplicates are dropped within a batch only.
FreshInBatch(q) ==
    {o \in InTime(q) : \A p \in InTime(q) : topic[p].event_id = topic[o].event_id => o <= p}

Fresh(q) ==
    {o \in InTime(q) :
        /\ \A row \in state[q].seen : row.event_id # topic[o].event_id
        /\ \A p \in InTime(q) : topic[p].event_id = topic[o].event_id => o <= p}

FreshRows(q) == {topic[o] : o \in Fresh(q)}

\* What each query makes of its batch.
Output(q) ==
    CASE q = "raw" -> Readable(q)
      [] q = "quarantine" -> {o \in Readable(q) : IsRefused(topic[o])}
      [] OTHER -> Fresh(q)

\* A row is remembered until the watermark has passed its time by the delay.
NextSeen(q) ==
    {row \in state[q].seen \union FreshRows(q) : row.time + Delay > state[q].watermark}

\* Executing the plan of a batch writes the next version of its state.
WriteState(q) ==
    draft' = IF q \in Stateful
             THEN [draft EXCEPT ![q] = [seen |-> NextSeen(q), watermark |-> NextWatermark(q)]]
             ELSE draft

Running(q) == q \in active \intersect observed

\* Faulty: after an interruption the batch is planned anew, from what the topic holds then.
PlanAnew(q) ==
    /\ Running(q) /\ phase[q] = "idle"
    /\ \E end \in (checkpoint[q].done + 1)..Len(topic) :
            checkpoint' = [checkpoint EXCEPT ![q].end = end]
    /\ phase' = [phase EXCEPT ![q] = "planned"]
    /\ UNCHANGED <<supervisorVars, topic, expired, observed, tables, state, draft>>

\* A new batch, or the planned one again after an interruption.
Plan(q) ==
    /\ Running(q) /\ phase[q] = "idle"
    /\ \/ /\ checkpoint[q].done = checkpoint[q].end
          /\ \E end \in (checkpoint[q].end + 1)..Len(topic) :
                checkpoint' = [checkpoint EXCEPT ![q].end = end]
       \/ /\ checkpoint[q].done # checkpoint[q].end
          /\ UNCHANGED checkpoint
    /\ phase' = [phase EXCEPT ![q] = "planned"]
    /\ UNCHANGED <<supervisorVars, topic, expired, observed, tables, state, draft>>

\* Faulty: the output does not know the batches it holds.
AppendAgain(q) ==
    /\ Running(q) /\ phase[q] = "planned"
    /\ appended' = [appended EXCEPT ![q] =
            [o \in DOMAIN topic |-> IF o \in Output(q) THEN @[o] + 1 ELSE @[o]]]
    /\ late' = IF q = "clean" THEN late \union Behind(q) ELSE late
    /\ transaction' = [transaction EXCEPT ![q] = BatchId(q)]
    /\ WriteState(q)
    /\ phase' = [phase EXCEPT ![q] = "written"]
    /\ UNCHANGED <<supervisorVars, topic, expired, observed, checkpoint, state, history, current>>

\* append_stream: rows and batch id go to the Delta output in one transaction, once.
AppendBatch(q) ==
    /\ Running(q) /\ phase[q] = "planned"
    /\ IF transaction[q] < BatchId(q)
       THEN /\ appended' = [appended EXCEPT ![q] =
                    [o \in DOMAIN topic |-> IF o \in Output(q) THEN @[o] + 1 ELSE @[o]]]
            /\ late' = IF q = "clean" THEN late \union Behind(q) ELSE late
            /\ transaction' = [transaction EXCEPT ![q] = BatchId(q)]
            /\ WriteState(q)
       ELSE UNCHANGED <<appended, late, transaction, draft>>
    /\ phase' = [phase EXCEPT ![q] = "written"]
    /\ UNCHANGED <<supervisorVars, topic, expired, observed, checkpoint, state, history, current>>

\* merge_batch returns at once when the batch is empty.
EmptyBatch ==
    /\ Running("merge") /\ phase["merge"] = "planned"
    /\ Fresh("merge") = {}
    /\ WriteState("merge")
    /\ phase' = [phase EXCEPT !["merge"] = "written"]
    /\ UNCHANGED <<supervisorVars, topic, expired, observed, checkpoint, tables, state>>

\* INSERT INTO the history table; _history_loaded_at tells the loads of a batch apart.
InsertHistory ==
    /\ Running("merge") /\ phase["merge"] = "planned"
    /\ Fresh("merge") # {}
    /\ history' = history \union 
            {[batch |-> BatchId("merge"), row |-> row, loaded |-> lives] : row \in FreshRows("merge")}
    /\ WriteState("merge")
    /\ phase' = [phase EXCEPT !["merge"] = "recorded"]
    /\ UNCHANGED <<supervisorVars, topic, expired, observed, checkpoint, appended, late, transaction,
                   state, current>>

\* The MATCHED condition; an update time of 0 is a null, and comparing it is not true.
Supersedes(s, t) ==
    \/ s.version > t.version
    \/ s.version = t.version /\ t.updated # 0 /\ s.updated > t.updated

\* Rows of the batch that match the current row of e on the business key, and those
\* that would update it.
Matching(e) == {row \in FreshRows("merge") : row.business_key = current[e].business_key}

\* Faulty: a matched row is updated whatever the versions.
UpdatingAny(e) == Matching(e)

Updating(e) == {row \in Matching(e) : Supersedes(row, current[e])}

NotMatched == {row \in FreshRows("merge") :
                    \A e \in DOMAIN current : current[e].business_key # row.business_key}

\* Faulty: the current table is merged before the history is written.
MergeFirst ==
    /\ Running("merge") /\ phase["merge"] \in {"planned", "recorded"}
    /\ \A e \in DOMAIN current : \A r, s \in Updating(e) : r = s
    /\ current' = [e \in DOMAIN current \union {row.event_id : row \in NotMatched} |->
            IF e \in DOMAIN current
            THEN IF Updating(e) = {} THEN current[e] ELSE CHOOSE row \in Updating(e) : TRUE
            ELSE CHOOSE row \in NotMatched : row.event_id = e]
    /\ UNCHANGED <<supervisorVars, topic, expired, observed, checkpoint, phase, appended,
                   late, transaction, state, draft, history>>

\* MERGE reads the batch again.  It fails when two of its rows would update one row.
MergeBatch ==
    /\ Running("merge") /\ phase["merge"] = "recorded"
    /\ \A e \in DOMAIN current : \A r, s \in Updating(e) : r = s
    /\ current' = [e \in DOMAIN current \union {row.event_id : row \in NotMatched} |->
            IF e \in DOMAIN current
            THEN IF Updating(e) = {} THEN current[e] ELSE CHOOSE row \in Updating(e) : TRUE
            ELSE CHOOSE row \in NotMatched : row.event_id = e]
    /\ WriteState("merge")
    /\ phase' = [phase EXCEPT !["merge"] = "written"]
    /\ UNCHANGED <<supervisorVars, topic, expired, observed, checkpoint, appended, late, transaction,
                   state, history>>

\* Faulty: the next batch starts at the end of the topic.
CommitLatest(q) ==
    /\ Running(q) /\ phase[q] = "written"
    /\ checkpoint' = [checkpoint EXCEPT ![q].done = Len(topic), ![q].batch = @ + 1]
    /\ state' = IF q \in Stateful THEN [state EXCEPT ![q] = draft[q]] ELSE state
    /\ phase' = [phase EXCEPT ![q] = "idle"]
    /\ UNCHANGED <<supervisorVars, topic, expired, observed, tables, draft>>

\* The commit log makes the batch and its state final.
Commit(q) ==
    /\ Running(q) /\ phase[q] = "written"
    /\ checkpoint' = [checkpoint EXCEPT ![q] =
            [first |-> @.first, done |-> @.end, end |-> @.end, batch |-> BatchId(q)]]
    /\ state' = IF q \in Stateful THEN [state EXCEPT ![q] = draft[q]] ELSE state
    /\ phase' = [phase EXCEPT ![q] = "idle"]
    /\ UNCHANGED <<supervisorVars, topic, expired, observed, tables, draft>>

\* Retention removes the oldest record.
Expire ==
    /\ expired < MaxExpired /\ expired < Len(topic)
    /\ expired' = expired + 1
    /\ UNCHANGED <<supervisorVars, topic, observed, checkpoint, phase, tables, state, draft>>

-------------------------------------------------------------------------------
\* What happens to the batches under way: a query that ends leaves its batch planned and
\* not committed.  Exceptions come from anywhere; MERGE always raises one when two rows of
\* the batch would update one row, and whether two matching rows of which one updates are
\* already too many depends on the release.
CutOff(S) ==
    /\ phase' = [q \in Queries |-> IF q \in S THEN "idle" ELSE phase[q]]
    /\ UNCHANGED groupVarsButPhase

Stop(q) ==
    /\ StopQuery(q)
    /\ CutOff({q})

Fails(q) ==
    /\ QueryFails(q)
    /\ CutOff({q})

Crash ==
    /\ DriverDies
    /\ CutOff(Queries)

Supervise ==
    /\ Boot \/ Launch \/ GroupStarted \/ Signal \/ StopReturns
    /\ UNCHANGED groupVars

Next ==
    \/ \E q \in Queries : Plan(q) \/ Commit(q)
    \/ \E q \in Appending : AppendBatch(q)
    \/ EmptyBatch
    \/ InsertHistory
    \/ MergeBatch
    \/ Expire
    \/ \E q \in AllQueries : Stop(q) \/ Fails(q)
    \/ Crash
    \/ Supervise

Spec == Init /\ [][Next]_vars

-------------------------------------------------------------------------------
\* Offsets of committed batches that retention cannot have hidden.
Passed(q) == {o \in DOMAIN topic : checkpoint[q].first < o /\ o <= checkpoint[q].done /\ expired < o}

Holds(q, o) == IF q \in Appending THEN appended[q][o] > 0
               ELSE \E h \in history : h.row = topic[o]

\* Whatever is interrupted and planned again, the Delta outputs hold a record at most
\* once, the clean output an event at most once, and the raw output every record
\* that its query has passed.
AppendedOnce ==
    /\ \A q \in Appending : \A o \in DOMAIN topic : appended[q][o] <= 1
    /\ \A o, p \in DOMAIN topic :
            appended["clean"][o] > 0 /\ appended["clean"][p] > 0
            /\ topic[o].event_id = topic[p].event_id => o = p
    /\ \A o \in Passed("raw") : Holds("raw", o)

\* Every record that both have passed is in quarantine or its event is in the clean
\* output, and never both, but for valid rows that were behind the watermark which the
\* batches before theirs had left: a row is not measured by the watermark that its own
\* batch moves, however its batch is interrupted and read again.
SplitIsTotal ==
    \A o \in Passed("clean") \intersect Passed("quarantine") :
        /\ Holds("quarantine", o) => \A p \in DOMAIN topic :
                Holds("clean", p) => topic[p].event_id # topic[o].event_id
        /\ \/ Holds("quarantine", o)
           \/ \E p \in DOMAIN topic : Holds("clean", p) /\ topic[p].event_id = topic[o].event_id
           \/ o \in late

\* Every current row is in the history, although the two statements read the batch
\* one after the other and the batch may be interrupted between them.
CurrentIsInHistory ==
    \A e \in DOMAIN current : \E h \in history : h.row = current[e]

\* Of the history rows of committed batches none is newer than all current rows of
\* its business key, in whatever order batches were cut, failed and repeated, unless
\* retention has taken a copy of it: the merge that follows may then not find it.
NewestSurvives ==
    \A h \in history :
        h.batch <= checkpoint["merge"].batch
        => \/ \E e \in DOMAIN current : /\ current[e].business_key = h.row.business_key
                                        /\ ~Supersedes(h.row, current[e])
           \/ \E o \in 1..expired : topic[o] = h.row

\* A row that comes again is not recorded again by a later batch: an event is in the
\* history of two batches only if retention took a copy of it in between.
HistoryUnderOneBatch ==
    \A g, h \in history :
        g.row.event_id = h.row.event_id /\ g.batch # h.batch
        => \E o \in 1..expired : topic[o].event_id = g.row.event_id

\* INSERT does not look whether the history holds its batch already, so a batch that is
\* interrupted after it is recorded again.  Its loads are equal: one that differs would
\* leave rows in the history that no merge has seen.  Only a row of which retention has
\* taken a copy may be missing from a load.
RepeatsAreWhole ==
    \A g, h \in history :
        g.batch = h.batch
        => \/ [h EXCEPT !.row = g.row] \in history
           \/ \E o \in 1..expired : topic[o] = g.row
===============================================================================
