----------------------- MODULE StreamQueryGroupProofs -----------------------
(***************************************************************************)
(* Proofs about a query group and its supervisor, for any topics, query    *)
(* groups, delays and retention: outputs hold records once, the split      *)
(* loses nothing, the newest rows survive in the current table, and a stop *)
(* reaches every group that was complete at the signal.                    *)
(***************************************************************************)
EXTENDS StreamQueryGroup, WellFoundedInduction, TLAPS

-------------------------------------------------------------------------------
\* Numbers

LEMMA LeastNumber ==
    ASSUME NEW S \in SUBSET Nat, S # {}
    PROVE  \E m \in S : \A n \in S : m <= n
<1>1. PICK m \in S : \A n \in S : ~(<<n, m>> \in OpToRel(<, Nat))
    BY NatLessThanWellFounded, WFMin
<1>2. \A n \in S : ~(n < m)
    BY <1>1 DEF OpToRel
<1> QED BY <1>2

LEMMA GreatestNumber ==
    ASSUME NEW S \in SUBSET Nat, S # {}, NEW b \in Nat, \A n \in S : n <= b
    PROVE  Latest(S) \in S /\ \A n \in S : n <= Latest(S)
<1> DEFINE Bounds == {u \in Nat : \A n \in S : n <= u}
<1>1. PICK u \in Bounds : \A v \in Bounds : u <= v
    BY LeastNumber
<1>2. u \in S
  <2> SUFFICES ASSUME u \notin S PROVE FALSE
      OBVIOUS
  <2>1. \A n \in S : n \in Nat /\ n < u
      BY <1>1
  <2>2. u \in Nat /\ u # 0
    <3>1. PICK n \in S : TRUE
        OBVIOUS
    <3> QED BY <2>1, <3>1
  <2>3. u - 1 \in Bounds
      BY <2>1, <2>2
  <2> QED BY <1>1, <2>2, <2>3
<1> QED BY <1>1, <1>2 DEF Latest

\* Up to offset n the times of the topic are bounded.
BoundedTo(n) == \E b \in Nat : \A o \in 1..n : topic[o].time <= b

LEMMA TimesAreBounded ==
    ASSUME topic \in Seq(Rows)
    PROVE  \E b \in Nat : \A o \in DOMAIN topic : topic[o].time <= b
<1> DEFINE Open == {n \in 0..Len(topic) : ~BoundedTo(n)}
<1>0. /\ DOMAIN topic = 1..Len(topic) /\ Len(topic) \in Nat
      /\ \A o \in 1..Len(topic) : topic[o].time \in Nat
    BY GroupAssumption
<1>1. \A n \in 1..Len(topic) : BoundedTo(n - 1) => BoundedTo(n)
  <2> SUFFICES ASSUME NEW n \in 1..Len(topic),
                      NEW b \in Nat, \A o \in 1..(n - 1) : topic[o].time <= b
               PROVE  \E c \in Nat : \A o \in 1..n : topic[o].time <= c
      BY DEF BoundedTo
  <2>1. \A o \in 1..n : o = n \/ o \in 1..(n - 1)
      BY <1>0
  <2>2. CASE topic[n].time <= b
      BY <2>1, <2>2
  <2>3. CASE ~(topic[n].time <= b)
    <3>1. \A o \in 1..n : o \in 1..Len(topic)
        BY <1>0
    <3>2. \A o \in 1..n : topic[o].time <= topic[n].time
        BY <1>0, <2>1, <2>3, <3>1
    <3> QED BY <1>0, <3>2
  <2> QED BY <2>2, <2>3
<1>2. BoundedTo(0)
    BY DEF BoundedTo
<1>3. Open = {}
  <2> SUFFICES ASSUME Open # {} PROVE FALSE
      OBVIOUS
  <2>1. PICK n \in Open : \A k \in Open : n <= k
    <3> Open \in SUBSET Nat
        BY <1>0
    <3> HIDE DEF Open
    <3> QED BY LeastNumber
  <2>2. n \in 1..Len(topic)
      BY <1>0, <1>2
  <2>3. n - 1 \in Open
      BY <1>0, <1>1, <2>2
  <2> QED BY <2>1, <2>2, <2>3
<1>4. BoundedTo(Len(topic))
    BY <1>0, <1>3
<1> QED BY <1>0, <1>4 DEF BoundedTo

-------------------------------------------------------------------------------
\* Deduplication

LEMMA TopicFacts ==
    ASSUME TypeOK
    PROVE  /\ topic \in Seq(Rows)
           /\ DOMAIN topic = 1..Len(topic) /\ Len(topic) \in Nat
           /\ \A o \in DOMAIN topic : topic[o] \in Rows /\ topic[o].time \in Nat \ {0}
           /\ \A o, p \in DOMAIN topic : topic[o].event_id = topic[p].event_id => topic[o] = topic[p]
<1>1. topic \in Seq(Rows)
    BY GroupAssumption DEF TypeOK
<1>2. \A o \in DOMAIN topic : topic[o] \in Rows
    BY <1>1
<1> QED BY <1>1, <1>2, GroupAssumption, CopiesAssumption

\* A row is in the state, or so old that the state has forgotten it or never takes it.
Remembers(s, row) == row \in s.seen \/ row.time <= s.watermark

NextState(q) == [seen |-> NextSeen(q), watermark |-> NextWatermark(q)]

LEMMA StateFacts ==
    ASSUME TypeOK, NEW q \in Stateful
    PROVE  /\ state[q].seen \subseteq Rows /\ state[q].watermark \in Nat
           /\ draft[q].seen \subseteq Rows /\ draft[q].watermark \in Nat
  BY DEF TypeOK, DedupeState

LEMMA FreshFacts ==
    ASSUME TypeOK, NEW q
    PROVE  /\ Fresh(q) \subseteq InTime(q)
           /\ InTime(q) \subseteq Readable(q)
           /\ Readable(q) \subseteq DOMAIN topic
           /\ FreshRows(q) \subseteq Rows
  BY TopicFacts DEF Fresh, InTime, Readable, FreshRows

\* The watermark never goes back.
LEMMA WatermarkGrows ==
    ASSUME TypeOK, NEW q \in Stateful
    PROVE  NextWatermark(q) \in Nat /\ state[q].watermark <= NextWatermark(q)
<1> DEFINE known == state[q].watermark + Delay
           Times == {topic[o].time : o \in {p \in Readable(q) : IsClean(topic[p])}} \union {known}
<1>1. known \in Nat /\ Delay \in Nat /\ state[q].watermark \in Nat
    BY StateFacts, GroupAssumption
<1> HIDE DEF known
<1>2. Times \in SUBSET Nat
    BY <1>1, TopicFacts, FreshFacts
<1>3. PICK b \in Nat : \A o \in DOMAIN topic : topic[o].time <= b
    BY TopicFacts, TimesAreBounded
<1>4. known + b \in Nat /\ \A t \in Times : t <= known + b
    BY <1>1, <1>3, TopicFacts, FreshFacts
<1>5. known \in Times
    OBVIOUS
<1> HIDE DEF Times
<1>6. Latest(Times) \in Nat /\ known <= Latest(Times)
    BY <1>2, <1>4, <1>5, GreatestNumber
<1>7. NextWatermark(q) = Latest(Times) - Delay
    BY DEF NextWatermark, Times, known
<1> QED BY <1>1, <1>6, <1>7 DEF known

LEMMA NextStateFacts ==
    ASSUME TypeOK, NEW q \in Stateful
    PROVE  NextState(q) \in DedupeState
<1>1. NextSeen(q) \subseteq Rows
    BY StateFacts, FreshFacts DEF NextSeen
<1> QED BY <1>1, WatermarkGrows DEF NextState, DedupeState

\* What a state remembers the next one does.
LEMMA MemoryStays ==
    ASSUME TypeOK, NEW q \in Stateful, NEW row \in Rows, Remembers(state[q], row)
    PROVE  Remembers(NextState(q), row)
<1>1. row.time \in Nat /\ Delay \in Nat \ {0}
    BY GroupAssumption
<1>2. NextWatermark(q) \in Nat /\ state[q].watermark \in Nat
      /\ state[q].watermark <= NextWatermark(q)
    BY WatermarkGrows, StateFacts
<1>3. CASE row.time + Delay > state[q].watermark /\ row \in state[q].seen
    BY <1>3 DEF Remembers, NextState, NextSeen
<1>4. CASE row.time <= state[q].watermark
    BY <1>1, <1>2, <1>4 DEF Remembers, NextState
<1>5. CASE ~(row.time + Delay > state[q].watermark)
    BY <1>1, <1>2, <1>5 DEF Remembers, NextState
<1> QED BY <1>3, <1>4, <1>5 DEF Remembers

\* Among the offsets of an event in time one is the first.
LEMMA InTimeIsTaken ==
    ASSUME TypeOK, NEW q \in Stateful, NEW o \in InTime(q)
    PROVE  topic[o] \in state[q].seen \union FreshRows(q)
<1>1. CASE \E row \in state[q].seen : row.event_id = topic[o].event_id
  <2>1. PICK row \in state[q].seen : row.event_id = topic[o].event_id
      BY <1>1
  <2>2. row = topic[o]
      BY <2>1, StateFacts, FreshFacts, TopicFacts, CopiesAssumption
  <2> QED BY <2>1, <2>2
<1>2. CASE \A row \in state[q].seen : row.event_id # topic[o].event_id
  <2> DEFINE Copies == {p \in InTime(q) : topic[p].event_id = topic[o].event_id}
  <2>1. Copies \in SUBSET Nat /\ Copies # {}
      BY FreshFacts, TopicFacts
  <2>2. PICK p \in Copies : \A r \in Copies : p <= r
    <3> HIDE DEF Copies
    <3> QED BY <2>1, LeastNumber
  <2>3. p \in Fresh(q) /\ topic[p] = topic[o]
      BY <1>2, <2>2, FreshFacts, TopicFacts DEF Fresh
  <2> QED BY <2>3 DEF FreshRows
<1> QED BY <1>1, <1>2

\* Every valid row of a batch is remembered by the state that the batch leaves.
LEMMA BatchIsRemembered ==
    ASSUME TypeOK, NEW q \in Stateful, NEW o \in Readable(q), IsClean(topic[o])
    PROVE  Remembers(NextState(q), topic[o])
<1>1. topic[o] \in Rows /\ topic[o].time \in Nat /\ Delay \in Nat /\ state[q].watermark \in Nat
    BY FreshFacts, TopicFacts, StateFacts, GroupAssumption
<1>2. CASE topic[o].time <= state[q].watermark \/ topic[o] \in state[q].seen
    BY <1>1, <1>2, MemoryStays DEF Remembers
<1>3. CASE topic[o].time > state[q].watermark /\ topic[o] \notin state[q].seen
  <2>1. topic[o] \in FreshRows(q)
      BY <1>3, InTimeIsTaken DEF InTime
  <2> QED BY <1>1, <1>3, <2>1 DEF Remembers, NextState, NextSeen
<1> QED BY <1>1, <1>2, <1>3

\* What is remembered is not taken again.
LEMMA RememberedIsStale ==
    ASSUME TypeOK, NEW q \in Stateful, NEW o \in Fresh(q)
    PROVE  ~Remembers(state[q], topic[o])
<1>1. topic[o].time \in Nat /\ state[q].watermark \in Nat
    BY FreshFacts, TopicFacts, StateFacts
<1> QED BY <1>1 DEF Remembers, Fresh, InTime

\* Retention takes copies; as long as none of o's row is gone, o stays fresh.
LEMMA FreshStays ==
    ASSUME TypeOK, TypeOK', topic' = topic, expired \in Nat, expired' \in Nat, expired <= expired',
           NEW q \in Stateful, checkpoint'[q] = checkpoint[q], state'[q] = state[q],
           NEW o \in Fresh(q),
           \A p \in 1..expired' : topic[p] # topic[o]
    PROVE  o \in Fresh(q)'
<1>1. InTime(q)' \subseteq InTime(q)
  <2>1. Readable(q)' \subseteq Readable(q)
      BY TopicFacts DEF Readable
  <2> QED BY <2>1 DEF InTime
<1>2. o \in InTime(q)'
  <2>1. o \in 1..Len(topic)
      BY FreshFacts, TopicFacts
  <2>2. expired' < o
      BY <2>1
  <2> QED BY <2>2 DEF Fresh, InTime, Readable
<1> QED BY <1>1, <1>2 DEF Fresh

\* Retention makes nothing fresh that was not, in rows.
LEMMA FreshRowsShrink ==
    ASSUME TypeOK, TypeOK', topic' = topic, expired \in Nat, expired' \in Nat, expired <= expired',
           NEW q \in Stateful, checkpoint'[q] = checkpoint[q], state'[q] = state[q]
    PROVE  FreshRows(q)' \subseteq FreshRows(q)
<1> SUFFICES ASSUME NEW o \in Fresh(q)' PROVE topic[o] \in FreshRows(q)
    BY DEF FreshRows
<1>1. o \in InTime(q)
  <2>1. Readable(q)' \subseteq Readable(q)
      BY TopicFacts DEF Readable
  <2> QED BY <2>1 DEF Fresh, InTime
<1>2. topic[o] \notin state[q].seen
    BY DEF Fresh
<1> QED BY <1>1, <1>2, InTimeIsTaken

-------------------------------------------------------------------------------
\* The supervisor

\* Specs whose groups are started.
Complete == IF driver = "waiting" THEN DOMAIN QueryGroups ELSE 1..(group - 1)

\* The supervisor's list holds exactly their queries, and among them all promised ones.
SupervisorInv ==
    /\ SupervisorTypeOK
    /\ queries = UNION {QueriesOf(g) : g \in Complete}
    /\ promised \subseteq queries
    /\ PromisedStop

SupervisorNext ==
    \/ Boot \/ Launch \/ GroupStarted \/ Signal \/ StopReturns \/ DriverDies
    \/ \E q \in AllQueries : StopQuery(q) \/ QueryFails(q)

LEMMA GroupFacts ==
    /\ DOMAIN QueryGroups = 1..Len(QueryGroups)
    /\ Len(QueryGroups) \in Nat \ {0}
    /\ \A g \in DOMAIN QueryGroups :
            /\ DOMAIN QueryGroups[g] = 1..Len(QueryGroups[g])
            /\ Len(QueryGroups[g]) \in Nat
            /\ QueriesOf(g) \subseteq AllQueries
<1>1. QueryGroups \in Seq(Seq(AllQueries)) /\ QueryGroups # <<>>
    BY SupervisorAssumption
<1>2. DOMAIN QueryGroups = 1..Len(QueryGroups) /\ Len(QueryGroups) \in Nat \ {0}
    BY <1>1
<1>3. \A g \in DOMAIN QueryGroups : QueryGroups[g] \in Seq(AllQueries)
    BY <1>1, <1>2
<1>4. \A g \in DOMAIN QueryGroups : QueriesOf(g) \subseteq AllQueries
    BY DEF AllQueries
<1> QED BY <1>2, <1>3, <1>4

LEMMA SupervisorStarts == SupervisorInit => SupervisorInv
<1> SUFFICES ASSUME SupervisorInit PROVE SupervisorInv
    OBVIOUS
<1>1. group = 1 /\ 0 \in 0..Len(QueryGroups[1]) /\ 1 \in 1..Len(QueryGroups)
    BY GroupFacts DEF SupervisorInit
<1>2. Complete = {}
    BY <1>1 DEF SupervisorInit, Complete
<1>3. 0 \in 0..MaxLives /\ 0 \in 0..MaxFailures
    BY SupervisorAssumption
<1> QED BY <1>1, <1>2, <1>3 DEF SupervisorInit, SupervisorInv, SupervisorTypeOK, PromisedStop

LEMMA LaunchKeeps == SupervisorInv /\ Launch => SupervisorInv'
<1> SUFFICES ASSUME SupervisorInv, Launch PROVE SupervisorInv'
    OBVIOUS
<1> USE DEF SupervisorInv, SupervisorTypeOK
<1> DEFINE q == QueryGroups[group][launched + 1]
<1>1. /\ group \in DOMAIN QueryGroups
      /\ launched + 1 \in DOMAIN QueryGroups[group]
      /\ launched + 1 \in 0..Len(QueryGroups[group])
    BY GroupFacts DEF Launch
<1>2. q \in QueriesOf(group) /\ q \in AllQueries
    BY <1>1, GroupFacts DEF QueriesOf
<1>3. Complete = 1..(group - 1) /\ Complete' = Complete
    BY DEF Launch, Complete
<1>4. \A g \in Complete : g \in DOMAIN QueryGroups /\ g # group
    BY <1>1, <1>3, GroupFacts
<1>5. q \notin queries
    BY <1>1, <1>2, <1>4, SupervisorAssumption
<1> HIDE DEF q
<1>6. active' = active \union {q}
    BY DEF Launch, q
<1>7. PromisedStop'
    BY <1>5, <1>6 DEF Launch, PromisedStop
<1>8. SupervisorTypeOK'
    BY <1>1, <1>2, <1>6 DEF Launch
<1> QED BY <1>3, <1>7, <1>8 DEF Launch

LEMMA GroupStartedKeeps == SupervisorInv /\ GroupStarted => SupervisorInv'
<1> SUFFICES ASSUME SupervisorInv, GroupStarted PROVE SupervisorInv'
    OBVIOUS
<1> USE DEF SupervisorInv, SupervisorTypeOK
<1>1. group \in DOMAIN QueryGroups /\ QueriesOf(group) \subseteq AllQueries
    BY GroupFacts
<1>2. Complete' = Complete \union {group}
    BY GroupFacts DEF GroupStarted, Complete
<1>3. queries' = UNION {QueriesOf(g) : g \in Complete'}
    BY <1>2 DEF GroupStarted
<1>4. group' \in 1..Len(QueryGroups) /\ launched' \in 0..Len(QueryGroups[group'])
    BY GroupFacts DEF GroupStarted
<1>5. driver' \in {"down", "starting", "waiting"}
    BY DEF GroupStarted
<1>6. SupervisorTypeOK'
    BY <1>1, <1>4, <1>5 DEF GroupStarted
<1> QED BY <1>3, <1>6 DEF GroupStarted, PromisedStop

LEMMA SupervisorStep ==
    SupervisorInv /\ (SupervisorNext \/ UNCHANGED supervisorVars) => SupervisorInv'
<1> SUFFICES ASSUME SupervisorInv, SupervisorNext \/ UNCHANGED supervisorVars
             PROVE  SupervisorInv'
    OBVIOUS
<1> USE DEF SupervisorInv, SupervisorTypeOK
<1>1. /\ 1 \in 1..Len(QueryGroups) /\ 0 \in 0..Len(QueryGroups[1])
      /\ 1..(1 - 1) = {}
    BY GroupFacts
<1>2. CASE Boot
  <2>1. lives' \in 0..MaxLives
      BY <1>2, SupervisorAssumption DEF Boot
  <2>2. SupervisorTypeOK'
      BY <1>1, <1>2, <2>1 DEF Boot
  <2>3. Complete' = {}
      BY <1>1, <1>2 DEF Boot, Complete
  <2> QED BY <1>2, <2>2, <2>3 DEF Boot, PromisedStop
<1>3. CASE Signal
  <2>1. Complete' = Complete
      BY <1>3 DEF Signal, Complete
  <2>2. promised' = UNION {QueriesOf(g) : g \in Complete}
      BY <1>3 DEF Signal, Complete, AllQueries
  <2>3. SupervisorTypeOK'
      BY <1>3, <2>2 DEF Signal
  <2> QED BY <1>3, <2>1, <2>2, <2>3 DEF Signal, PromisedStop
<1>4. CASE StopReturns
  <2>1. PromisedStop'
      BY <1>4 DEF StopReturns, PromisedStop
  <2>2. SupervisorTypeOK' /\ Complete' = Complete
      BY <1>4 DEF StopReturns, Complete
  <2> QED BY <1>4, <2>1, <2>2 DEF StopReturns
<1>5. CASE DriverDies
  <2>1. SupervisorTypeOK'
      BY <1>1, <1>5 DEF DriverDies
  <2>2. Complete' = {}
      BY <1>1, <1>5 DEF DriverDies, Complete
  <2> QED BY <1>5, <2>1, <2>2 DEF DriverDies, PromisedStop
<1>6. ASSUME NEW q \in AllQueries, StopQuery(q) \/ QueryFails(q) PROVE SupervisorInv'
  <2>1. active' = active \ {q} /\ UNCHANGED <<driver, group, launched, queries, stopping, promised, lives>>
      BY <1>6 DEF StopQuery, QueryFails
  <2>2. failures' \in 0..MaxFailures
      BY <1>6, SupervisorAssumption DEF StopQuery, QueryFails
  <2>3. SupervisorTypeOK' /\ Complete' = Complete
      BY <2>1, <2>2 DEF Complete
  <2> QED BY <2>1, <2>3 DEF PromisedStop
<1>7. CASE UNCHANGED supervisorVars
    BY <1>7 DEF supervisorVars, Complete, PromisedStop
<1> QED BY <1>2, <1>3, <1>4, <1>5, <1>6, <1>7, LaunchKeeps, GroupStartedKeeps DEF SupervisorNext

-------------------------------------------------------------------------------
\* Steps and types

Checkpoints == [first: Nat, done: Nat, end: Nat, batch: Nat]
Phases == {"idle", "planned", "recorded", "written"}

\* A query handles its batch.
BatchStep(q) ==
    \/ Plan(q)
    \/ Commit(q)
    \/ q \in Appending /\ AppendBatch(q)
    \/ q = "merge" /\ (EmptyBatch \/ InsertHistory \/ MergeBatch)

\* Batches are cut off, or a record expires.
Interruption ==
    /\ UNCHANGED <<topic, observed, checkpoint, tables, state, draft>>
    /\ expired' \in {expired, expired + 1} \intersect (0..MaxExpired)
    /\ phase' \in [Queries -> Phases]
    /\ \A q \in Queries : phase'[q] \in {phase[q], "idle"}

LEMMA StepKinds ==
    ASSUME TypeOK, [Next]_vars
    PROVE  (\E q \in Queries : BatchStep(q)) \/ Interruption
<1> USE DEF TypeOK, Phases
<1>1. ASSUME NEW q \in Queries, Plan(q) \/ Commit(q) PROVE \E p \in Queries : BatchStep(p)
    BY <1>1 DEF BatchStep
<1>2. ASSUME NEW q \in Appending, AppendBatch(q) PROVE \E p \in Queries : BatchStep(p)
    BY <1>2 DEF BatchStep, Queries
<1>3. CASE EmptyBatch \/ InsertHistory \/ MergeBatch
    BY <1>3 DEF BatchStep, Queries
<1>4. ASSUME NEW S, CutOff(S) PROVE Interruption
    BY <1>4 DEF CutOff, Interruption, groupVarsButPhase
<1>5. CASE Expire
  <2>1. expired' \in {expired, expired + 1} \intersect (0..MaxExpired)
      BY <1>5, GroupAssumption DEF Expire
  <2> QED BY <1>5, <2>1 DEF Expire, Interruption
<1>6. ASSUME NEW q \in AllQueries, Stop(q) \/ Fails(q) PROVE Interruption
    BY <1>4, <1>6 DEF Stop, Fails
<1>7. CASE Crash
    BY <1>4, <1>7 DEF Crash
<1>8. CASE Supervise \/ UNCHANGED vars
  <2>1. UNCHANGED groupVars
      BY <1>8 DEF Supervise, vars
  <2> QED BY <2>1 DEF groupVars, tables, Interruption
<1> QED BY <1>1, <1>2, <1>3, <1>5, <1>6, <1>7, <1>8 DEF Next

\* Every step is one of the supervisor, or leaves its variables alone.
LEMMA SupervisorMoves ==
    ASSUME [Next]_vars
    PROVE  SupervisorNext \/ UNCHANGED supervisorVars
<1>1. ASSUME NEW q \in Queries, Plan(q) \/ Commit(q) PROVE UNCHANGED supervisorVars
    BY <1>1 DEF Plan, Commit
<1>2. ASSUME NEW q \in Appending, AppendBatch(q) PROVE UNCHANGED supervisorVars
    BY <1>2 DEF AppendBatch
<1>3. CASE EmptyBatch \/ InsertHistory \/ MergeBatch \/ Expire
    BY <1>3 DEF EmptyBatch, InsertHistory, MergeBatch, Expire
<1>4. ASSUME NEW q \in AllQueries, Stop(q) \/ Fails(q) PROVE SupervisorNext
    BY <1>4 DEF Stop, Fails, SupervisorNext
<1>5. CASE Crash \/ Supervise \/ UNCHANGED vars
    BY <1>5 DEF Crash, Supervise, vars, SupervisorNext
<1> QED BY <1>1, <1>2, <1>3, <1>4, <1>5 DEF Next

\* What planning and committing do to the checkpoints.
LEMMA PlanEffect ==
    ASSUME TypeOK, NEW q \in Queries, Plan(q)
    PROVE  /\ checkpoint' \in [Queries -> Checkpoints]
           /\ \A p \in Queries \ {q} : checkpoint'[p] = checkpoint[p]
           /\ checkpoint'[q].first = checkpoint[q].first
           /\ checkpoint'[q].done = checkpoint[q].done
           /\ checkpoint'[q].batch = checkpoint[q].batch
           /\ checkpoint[q].done < checkpoint'[q].end
           /\ checkpoint[q].done # checkpoint[q].end => checkpoint'[q] = checkpoint[q]
<1>0. /\ checkpoint \in [Queries -> Checkpoints] /\ checkpoint[q] \in Checkpoints
      /\ checkpoint[q].done <= checkpoint[q].end
    BY DEF TypeOK, Checkpoints
<1>1. CASE checkpoint[q].done # checkpoint[q].end
  <2>1. checkpoint' = checkpoint
      BY <1>1 DEF Plan
  <2> QED BY <1>0, <1>1, <2>1 DEF Checkpoints
<1>2. CASE checkpoint[q].done = checkpoint[q].end
  <2>1. PICK end \in (checkpoint[q].end + 1)..Len(topic) :
            checkpoint' = [checkpoint EXCEPT ![q].end = end]
      BY <1>2 DEF Plan
  <2> DEFINE c == [first |-> checkpoint[q].first, done |-> checkpoint[q].done,
                   end |-> end, batch |-> checkpoint[q].batch]
  <2>2. /\ c \in Checkpoints /\ c.first = checkpoint[q].first /\ c.done = checkpoint[q].done
        /\ c.end = end /\ c.batch = checkpoint[q].batch
      BY <1>0, <2>1, TopicFacts DEF Checkpoints
  <2>3. checkpoint' = [checkpoint EXCEPT ![q] = c]
    <3>1. c = [checkpoint[q] EXCEPT !.end = end]
        BY <1>0 DEF Checkpoints
    <3> QED BY <2>1, <3>1
  <2>4. checkpoint[q].done < end
      BY <1>0, <1>2, <2>1, TopicFacts DEF Checkpoints
  <2> HIDE DEF c
  <2> QED BY <1>0, <1>2, <2>2, <2>3, <2>4
<1> QED BY <1>1, <1>2

LEMMA CommitEffect ==
    ASSUME TypeOK, NEW q \in Queries, Commit(q)
    PROVE  /\ checkpoint' \in [Queries -> Checkpoints]
           /\ \A p \in Queries \ {q} : checkpoint'[p] = checkpoint[p]
           /\ checkpoint'[q].first = checkpoint[q].first
           /\ checkpoint'[q].done = checkpoint[q].end
           /\ checkpoint'[q].end = checkpoint[q].end
           /\ checkpoint'[q].batch = checkpoint[q].batch + 1
<1> DEFINE c == [first |-> checkpoint[q].first, done |-> checkpoint[q].end,
                 end |-> checkpoint[q].end, batch |-> checkpoint[q].batch + 1]
<1>1. checkpoint \in [Queries -> Checkpoints] /\ checkpoint[q] \in Checkpoints
    BY DEF TypeOK, Checkpoints
<1>2. /\ c \in Checkpoints /\ c.first = checkpoint[q].first /\ c.done = checkpoint[q].end
      /\ c.end = checkpoint[q].end /\ c.batch = checkpoint[q].batch + 1
    BY <1>1 DEF Checkpoints
<1>3. checkpoint' = [checkpoint EXCEPT ![q] = c]
    BY DEF Commit, BatchId
<1> HIDE DEF c
<1> QED BY <1>1, <1>2, <1>3

LEMMA WriteStateEffect ==
    ASSUME TypeOK, NEW q \in Queries, WriteState(q)
    PROVE  /\ draft' \in [Stateful -> DedupeState]
           /\ q \in Stateful => draft'[q] = NextState(q)
           /\ \A p \in Stateful \ {q} : draft'[p] = draft[p]
<1>1. draft \in [Stateful -> DedupeState]
    BY DEF TypeOK
<1>2. CASE q \in Stateful
  <2>1. draft' = [draft EXCEPT ![q] = NextState(q)]
      BY <1>2 DEF WriteState, NextState
  <2> QED BY <1>1, <1>2, <2>1, NextStateFacts
<1>3. CASE q \notin Stateful
    BY <1>1, <1>3 DEF WriteState
<1> QED BY <1>2, <1>3

\* What MERGE does to the current table: a row is updated by the one row that supersedes
\* it, and rows of new keys are inserted under their event ids.
LEMMA MergeEffect ==
    ASSUME TypeOK, MergeBatch,
           \A row \in NotMatched : row.event_id \notin DOMAIN current
    PROVE  /\ DOMAIN current' = DOMAIN current \union {row.event_id : row \in NotMatched}
           /\ \A e \in DOMAIN current :
                \/ current'[e] = current[e] /\ Updating(e) = {}
                \/ current'[e] \in Updating(e) /\ \A row \in Updating(e) : row = current'[e]
           /\ \A row \in NotMatched : current'[row.event_id] = row
<1> DEFINE merged(e) ==
            IF e \in DOMAIN current
            THEN IF Updating(e) = {} THEN current[e] ELSE CHOOSE row \in Updating(e) : TRUE
            ELSE CHOOSE row \in NotMatched : row.event_id = e
<1>1. current' = [e \in DOMAIN current \union {row.event_id : row \in NotMatched} |-> merged(e)]
    BY DEF MergeBatch
<1>2. \A e \in DOMAIN current :
        \/ merged(e) = current[e] /\ Updating(e) = {}
        \/ merged(e) \in Updating(e) /\ \A row \in Updating(e) : row = merged(e)
  <2> TAKE e \in DOMAIN current
  <2>1. \A r, s \in Updating(e) : r = s
      BY DEF MergeBatch
  <2> QED BY <2>1
<1>3. \A row \in NotMatched : merged(row.event_id) = row
  <2> TAKE row \in NotMatched
  <2>1. \A r \in NotMatched : r.event_id = row.event_id => r = row
      BY FreshFacts, CopiesAssumption DEF NotMatched
  <2>2. merged(row.event_id) = CHOOSE r \in NotMatched : r.event_id = row.event_id
      OBVIOUS
  <2> HIDE DEF merged
  <2> QED BY <2>1, <2>2
<1> HIDE DEF merged
<1> QED BY <1>1, <1>2, <1>3

\* A current row shares its business key with the event that inserted it.
CurrentHasOrigin ==
    \A e \in DOMAIN current : \E h \in history :
        h.row.event_id = e /\ h.row.business_key = current[e].business_key

LEMMA NewKeysAreNewEvents ==
    ASSUME TypeOK, CurrentHasOrigin, NEW row \in NotMatched
    PROVE  row.event_id \notin DOMAIN current
<1> SUFFICES ASSUME row.event_id \in DOMAIN current PROVE FALSE
    OBVIOUS
<1>1. PICK h \in history : /\ h.row.event_id = row.event_id
                           /\ h.row.business_key = current[row.event_id].business_key
    BY DEF CurrentHasOrigin
<1>2. h.row \in Rows /\ row \in Rows
    BY FreshFacts DEF TypeOK, NotMatched
<1>3. h.row = row
    BY <1>1, <1>2, CopiesAssumption
<1> QED BY <1>1, <1>3 DEF NotMatched

LEMMA TypeStep ==
    ASSUME TypeOK, SupervisorInv', CurrentHasOrigin, [Next]_vars
    PROVE  TypeOK'
<1>0. SupervisorTypeOK'
    BY DEF SupervisorInv
<1> USE DEF Phases
<1>1. CASE Interruption
    BY <1>0, <1>1 DEF TypeOK, Interruption, tables
<1>2. ASSUME NEW q \in Queries, Plan(q) PROVE TypeOK'
  <2>1. /\ checkpoint' \in [Queries -> Checkpoints]
        /\ \A p \in Queries : checkpoint'[p].first <= checkpoint'[p].done
                              /\ checkpoint'[p].done <= checkpoint'[p].end
    <3>1. \A p \in Queries : checkpoint[p] \in Checkpoints /\ checkpoint'[p] \in Checkpoints
        BY <1>2, PlanEffect DEF TypeOK, Checkpoints
    <3> QED BY <1>2, <3>1, PlanEffect DEF TypeOK, Checkpoints
  <2>2. phase' \in [Queries -> Phases]
      BY <1>2 DEF Plan, TypeOK
  <2> QED BY <1>0, <1>2, <2>1, <2>2 DEF Plan, TypeOK, tables, Checkpoints
<1>3. ASSUME NEW q \in Queries, Commit(q) PROVE TypeOK'
  <2>1. /\ checkpoint' \in [Queries -> Checkpoints]
        /\ \A p \in Queries : checkpoint'[p].first <= checkpoint'[p].done
                              /\ checkpoint'[p].done <= checkpoint'[p].end
    <3>1. \A p \in Queries : checkpoint[p] \in Checkpoints /\ checkpoint'[p] \in Checkpoints
        BY <1>3, CommitEffect DEF TypeOK, Checkpoints
    <3> QED BY <1>3, <3>1, CommitEffect DEF TypeOK, Checkpoints
  <2>2. phase' \in [Queries -> Phases] /\ state' \in [Stateful -> DedupeState]
      BY <1>3 DEF Commit, TypeOK
  <2> QED BY <1>0, <1>3, <2>1, <2>2 DEF Commit, TypeOK, tables, Checkpoints
<1>4. ASSUME NEW q \in Appending, AppendBatch(q) PROVE TypeOK'
  <2>0. q \in Queries /\ BatchId(q) \in Nat
      BY DEF Queries, TypeOK, BatchId
  <2>1. appended' \in [Appending -> [DOMAIN topic -> Nat]] /\ transaction' \in [Appending -> Nat]
    <3> DEFINE copies == [o \in DOMAIN topic |->
                            IF o \in Output(q) THEN appended[q][o] + 1 ELSE appended[q][o]]
    <3>1. copies \in [DOMAIN topic -> Nat]
        BY DEF TypeOK
    <3>2. \/ appended' = [appended EXCEPT ![q] = copies]
          \/ appended' = appended
        BY <1>4 DEF AppendBatch
    <3> HIDE DEF copies
    <3>3. appended' \in [Appending -> [DOMAIN topic -> Nat]]
        BY <3>1, <3>2 DEF TypeOK
    <3>4. transaction' \in [Appending -> Nat]
        BY <1>4, <2>0 DEF AppendBatch, TypeOK
    <3> QED BY <3>3, <3>4
  <2>2. draft' \in [Stateful -> DedupeState] /\ phase' \in [Queries -> Phases]
      BY <1>4, <2>0, WriteStateEffect DEF AppendBatch, TypeOK
  <2>3. late' \subseteq DOMAIN topic
      BY <1>4, FreshFacts DEF AppendBatch, TypeOK, Behind
  <2> QED BY <1>0, <1>4, <2>1, <2>2, <2>3 DEF AppendBatch, TypeOK
<1>5. CASE EmptyBatch
  <2>1. draft' \in [Stateful -> DedupeState] /\ phase' \in [Queries -> Phases]
      BY <1>5, WriteStateEffect DEF EmptyBatch, TypeOK, Queries
  <2> QED BY <1>0, <1>5, <2>1 DEF EmptyBatch, TypeOK, tables
<1>6. CASE InsertHistory
  <2>1. draft' \in [Stateful -> DedupeState] /\ phase' \in [Queries -> Phases]
      BY <1>6, WriteStateEffect DEF InsertHistory, TypeOK, Queries
  <2>2. BatchId("merge") \in Nat /\ lives \in Nat
      BY SupervisorAssumption DEF BatchId, TypeOK, SupervisorTypeOK, Queries
  <2>3. history' \subseteq [batch: Nat, row: Rows, loaded: Nat]
      BY <1>6, <2>2, FreshFacts DEF InsertHistory, TypeOK
  <2> QED BY <1>0, <1>6, <2>1, <2>3 DEF InsertHistory, TypeOK
<1>7. CASE MergeBatch
  <2>1. draft' \in [Stateful -> DedupeState] /\ phase' \in [Queries -> Phases]
      BY <1>7, WriteStateEffect DEF MergeBatch, TypeOK, Queries
  <2>2. NotMatched \subseteq Rows /\ \A e \in DOMAIN current : Updating(e) \subseteq Rows
      BY FreshFacts DEF NotMatched, Updating, Matching
  <2>3. DOMAIN current' \subseteq EventIds /\ \A e \in DOMAIN current' : current'[e] \in Rows
      BY <1>7, <2>2, MergeEffect, NewKeysAreNewEvents DEF TypeOK, EventIds
  <2> QED BY <1>0, <1>7, <2>1, <2>3 DEF MergeBatch, TypeOK
<1> QED BY <1>1, <1>2, <1>3, <1>4, <1>5, <1>6, <1>7, StepKinds DEF BatchStep

-------------------------------------------------------------------------------
\* Delta outputs

\* The output holds the planned batch, which is not committed.
Wrote(q) == transaction[q] = BatchId(q)

\* The output knows its last batch, and what is written was planned.
BatchShape ==
    \A q \in Appending :
        /\ transaction[q] <= BatchId(q)
        /\ phase[q] # "recorded"
        /\ phase[q] = "written" => Wrote(q)
        /\ Wrote(q) \/ phase[q] # "idle" => checkpoint[q].done < checkpoint[q].end

\* Up to here the output was given what the topic held.
OutputEnd(q) == IF Wrote(q) THEN checkpoint[q].end ELSE checkpoint[q].done

\* What the query knows of the clean output.
Memory == IF Wrote("clean") THEN draft["clean"] ELSE state["clean"]

\* A step does nothing to a query, but for cutting off its batch.
Kept(q) ==
    /\ topic' = topic
    /\ checkpoint'[q] = checkpoint[q]
    /\ phase'[q] \in {phase[q], "idle"}
    /\ expired <= expired'
    /\ q \in Appending => appended'[q] = appended[q] /\ transaction'[q] = transaction[q]
    /\ q = "clean" => late' = late
    /\ q \in Stateful => state'[q] = state[q] /\ draft'[q] = draft[q]
    /\ q = "merge" => UNCHANGED <<history, current>>

LEMMA OtherQueriesKept ==
    ASSUME TypeOK, [Next]_vars, NEW q \in Queries
    PROVE  BatchStep(q) \/ Kept(q)
<1>0. /\ expired \in Nat
      /\ checkpoint \in [Queries -> Checkpoints]
      /\ phase \in [Queries -> Phases]
      /\ DOMAIN appended = Appending /\ DOMAIN transaction = Appending
      /\ DOMAIN state = Stateful
    BY GroupAssumption DEF TypeOK, Checkpoints, Phases
<1>1. CASE Interruption
    BY <1>0, <1>1 DEF Interruption, Kept, tables
<1>2. ASSUME NEW p \in Queries, BatchStep(p), p # q PROVE Kept(q)
  <2>1. CASE Plan(p)
    <3>1. checkpoint'[q] = checkpoint[q]
        BY <1>2, <2>1, PlanEffect
    <3> QED BY <1>0, <1>2, <2>1, <3>1 DEF Plan, Kept, tables
  <2>2. CASE Commit(p)
    <3>1. checkpoint'[q] = checkpoint[q]
        BY <1>2, <2>2, CommitEffect
    <3> QED BY <1>0, <1>2, <2>2, <3>1 DEF Commit, Kept, tables
  <2>3. CASE p \in Appending /\ AppendBatch(p)
    <3>1. q \in Stateful => draft'[q] = draft[q]
        BY <1>2, <2>3, WriteStateEffect DEF AppendBatch
    <3> QED BY <1>0, <1>2, <2>3, <3>1 DEF AppendBatch, Kept
  <2>4. CASE p = "merge" /\ (EmptyBatch \/ InsertHistory \/ MergeBatch)
    <3>1. WriteState(p) /\ q # "merge"
        BY <1>2, <2>4 DEF EmptyBatch, InsertHistory, MergeBatch
    <3>2. q \in Stateful => draft'[q] = draft[q]
        BY <1>2, <3>1, WriteStateEffect
    <3> QED BY <1>0, <1>2, <2>4, <3>1, <3>2 DEF EmptyBatch, InsertHistory, MergeBatch, Kept, tables
  <2> QED BY <1>2, <2>1, <2>2, <2>3, <2>4 DEF BatchStep
<1> QED BY <1>1, <1>2, StepKinds

\* Nothing happens to an output.
OutputKept(q) ==
    /\ topic' = topic
    /\ expired \in Nat /\ expired' \in Nat /\ expired <= expired'
    /\ checkpoint'[q].first = checkpoint[q].first
    /\ appended'[q] = appended[q]
    /\ OutputEnd(q)' = OutputEnd(q)
    /\ q = "clean" => Memory' = Memory /\ late' = late

\* It takes a batch.
OutputGrows(q) ==
    /\ topic' = topic
    /\ expired' = expired
    /\ checkpoint'[q] = checkpoint[q]
    /\ appended'[q] = [o \in DOMAIN topic |->
            IF o \in Output(q) THEN appended[q][o] + 1 ELSE appended[q][o]]
    /\ OutputEnd(q) = checkpoint[q].done
    /\ OutputEnd(q)' = checkpoint[q].end
    /\ q = "clean" => /\ Memory = state["clean"] /\ Memory' = NextState("clean")
                      /\ late' = late \union Behind("clean")

\* Planning, committing and interruptions change no output, and a repeated batch none
\* that holds it.
LEMMA OutputSteps ==
    ASSUME TypeOK, TypeOK', BatchShape, [Next]_vars, NEW q \in Appending
    PROVE  OutputKept(q) \/ OutputGrows(q)
<1>0. /\ q \in Queries /\ checkpoint[q] \in Checkpoints /\ checkpoint'[q] \in Checkpoints
      /\ BatchId(q) \in Nat /\ transaction[q] \in Nat /\ transaction[q] <= BatchId(q)
      /\ expired \in Nat /\ expired' \in Nat
      /\ q = "clean" => q \in Stateful
  <2>1. q \in Queries /\ (q = "clean" => q \in Stateful)
      BY DEF Queries, Stateful
  <2>2. /\ checkpoint[q] \in Checkpoints /\ checkpoint'[q] \in Checkpoints
        /\ expired \in Nat /\ expired' \in Nat /\ transaction[q] \in Nat
      BY <2>1, GroupAssumption DEF TypeOK, Checkpoints
  <2>3. BatchId(q) \in Nat
      BY <2>2 DEF BatchId, Checkpoints
  <2> QED BY <2>1, <2>2, <2>3 DEF BatchShape
<1>1. CASE Kept(q)
  <2>1. Wrote(q)' = Wrote(q) /\ OutputEnd(q)' = OutputEnd(q)
      BY <1>1 DEF Kept, Wrote, BatchId, OutputEnd
  <2>2. q = "clean" => Memory' = Memory
      BY <1>0, <1>1, <2>1 DEF Kept, Memory
  <2> QED BY <1>0, <1>1, <2>1, <2>2 DEF Kept, OutputKept
<1>2. CASE Plan(q)
  <2>1. appended' = appended /\ late' = late /\ transaction' = transaction
        /\ topic' = topic /\ expired' = expired
        /\ state' = state /\ draft' = draft
      BY <1>2 DEF Plan, tables
  <2>2. Wrote(q)' = Wrote(q)
      BY <1>0, <1>2, <2>1, PlanEffect DEF Wrote, BatchId
  <2>3. Wrote(q) => checkpoint'[q] = checkpoint[q]
      BY <1>0, <1>2, PlanEffect DEF BatchShape, Checkpoints
  <2>4. OutputEnd(q)' = OutputEnd(q) /\ checkpoint'[q].first = checkpoint[q].first
      BY <1>0, <1>2, <2>2, <2>3, PlanEffect DEF OutputEnd
  <2>5. q = "clean" => Memory' = Memory
      BY <2>1, <2>2 DEF Memory
  <2> QED BY <1>0, <2>1, <2>4, <2>5 DEF OutputKept
<1>3. CASE Commit(q)
  <2>1. appended' = appended /\ late' = late /\ transaction' = transaction
        /\ topic' = topic /\ expired' = expired
        /\ draft' = draft
      BY <1>3 DEF Commit, tables
  <2>2. Wrote(q)
      BY <1>3 DEF Commit, BatchShape
  <2>3. ~Wrote(q)'
      BY <1>0, <1>3, <2>1, <2>2, CommitEffect DEF Wrote, BatchId, Checkpoints
  <2>4. OutputEnd(q)' = OutputEnd(q) /\ checkpoint'[q].first = checkpoint[q].first
      BY <1>0, <1>3, <2>2, <2>3, CommitEffect DEF OutputEnd
  <2>5. q = "clean" => Memory' = Memory
    <3>1. q = "clean" => state'[q] = draft[q]
        BY <1>0, <1>3 DEF Commit, TypeOK
    <3> QED BY <2>2, <2>3, <3>1 DEF Memory
  <2> QED BY <1>0, <2>1, <2>4, <2>5 DEF OutputKept
<1>4. CASE AppendBatch(q)
  <2>1. topic' = topic /\ expired' = expired /\ checkpoint' = checkpoint /\ state' = state
      BY <1>4 DEF AppendBatch
  <2>2. CASE transaction[q] < BatchId(q)
    <3>1. ~Wrote(q) /\ Wrote(q)'
        BY <1>0, <1>4, <2>1, <2>2 DEF AppendBatch, Wrote, BatchId, TypeOK
    <3>2. q = "clean" => /\ Memory = state["clean"] /\ Memory' = NextState("clean")
                         /\ late' = late \union Behind("clean")
      <4>1. q = "clean" => draft'[q] = NextState(q)
          BY <1>0, <1>4, <2>2, WriteStateEffect DEF AppendBatch
      <4> QED BY <1>4, <2>2, <3>1, <4>1 DEF Memory, AppendBatch
    <3>3. appended'[q] = [o \in DOMAIN topic |->
                IF o \in Output(q) THEN appended[q][o] + 1 ELSE appended[q][o]]
        BY <1>4, <2>2 DEF AppendBatch, TypeOK
    <3> QED BY <2>1, <3>1, <3>2, <3>3 DEF OutputGrows, OutputEnd
  <2>3. CASE ~(transaction[q] < BatchId(q))
    <3>1. appended' = appended /\ late' = late /\ transaction' = transaction /\ draft' = draft
        BY <1>4, <2>3 DEF AppendBatch
    <3>2. Wrote(q)' = Wrote(q)
        BY <2>1, <3>1 DEF Wrote, BatchId
    <3> QED BY <1>0, <2>1, <3>1, <3>2 DEF OutputKept, OutputEnd, Memory
  <2> QED BY <2>2, <2>3
<1>5. q # "merge"
    BY DEF Appending
<1> QED BY <1>0, <1>1, <1>2, <1>3, <1>4, <1>5, OtherQueriesKept DEF BatchStep

LEMMA BatchShapeStep ==
    ASSUME TypeOK, TypeOK', BatchShape, [Next]_vars
    PROVE  BatchShape'
<1> SUFFICES ASSUME NEW q \in Appending
             PROVE  /\ transaction'[q] <= BatchId(q)'
                    /\ phase'[q] # "recorded"
                    /\ phase'[q] = "written" => Wrote(q)'
                    /\ Wrote(q)' \/ phase'[q] # "idle" => checkpoint'[q].done < checkpoint'[q].end
    BY DEF BatchShape
<1>0. /\ q \in Queries /\ q # "merge" /\ checkpoint[q] \in Checkpoints /\ checkpoint'[q] \in Checkpoints
      /\ BatchId(q) \in Nat /\ transaction[q] \in Nat /\ transaction[q] <= BatchId(q)
      /\ phase'[q] \in Phases
    BY DEF TypeOK, Checkpoints, Queries, BatchShape, BatchId, Appending, Phases
<1>1. CASE Kept(q)
    BY <1>0, <1>1 DEF Kept, Wrote, BatchId, BatchShape
<1>2. CASE Plan(q)
  <2>1. transaction' = transaction /\ phase'[q] = "planned"
      BY <1>0, <1>2 DEF Plan, tables, TypeOK
  <2> QED BY <1>0, <1>2, <2>1, PlanEffect DEF Wrote, BatchId, BatchShape
<1>3. CASE Commit(q)
  <2>1. transaction' = transaction /\ phase'[q] = "idle" /\ Wrote(q)
      BY <1>0, <1>3 DEF Commit, tables, TypeOK, BatchShape
  <2> QED BY <1>0, <1>3, <2>1, CommitEffect DEF Wrote, BatchId, BatchShape, Checkpoints
<1>4. CASE AppendBatch(q)
  <2>1. /\ checkpoint' = checkpoint /\ phase'[q] = "written" /\ phase[q] = "planned"
      BY <1>0, <1>4 DEF AppendBatch, TypeOK
  <2>2. transaction'[q] = BatchId(q)
    <3>1. CASE transaction[q] < BatchId(q)
        BY <1>4, <3>1 DEF AppendBatch, TypeOK
    <3>2. CASE ~(transaction[q] < BatchId(q))
        BY <1>0, <1>4, <3>2 DEF AppendBatch
    <3> QED BY <3>1, <3>2
  <2> QED BY <1>0, <2>1, <2>2 DEF Wrote, BatchId, BatchShape
<1> QED BY <1>0, <1>1, <1>2, <1>3, <1>4, OtherQueriesKept DEF BatchStep

\* Offsets that an output was given and that retention cannot have hidden.
Given(q) == {o \in DOMAIN topic : checkpoint[q].first < o /\ o <= OutputEnd(q) /\ expired < o}

In(q, o) == appended[q][o] > 0

CopiesInv ==
    \A q \in Appending : \A o \in DOMAIN topic :
        appended[q][o] <= 1 /\ (In(q, o) => o <= OutputEnd(q))

RawInv == \A o \in Given("raw") : In("raw", o)

QuarantineInv ==
    /\ \A o \in Given("quarantine") : IsRefused(topic[o]) => In("quarantine", o)
    /\ \A o \in DOMAIN topic : In("quarantine", o) => IsRefused(topic[o])

\* The clean output holds what its query remembers to have taken, and whatever it does
\* hold is remembered.
CleanInv ==
    /\ \A o \in DOMAIN topic :
            In("clean", o) => IsClean(topic[o]) /\ Remembers(Memory, topic[o])
    /\ \A o, p \in DOMAIN topic :
            In("clean", o) /\ In("clean", p) /\ topic[o].event_id = topic[p].event_id => o = p
    /\ \A row \in Memory.seen : \E p \in DOMAIN topic : In("clean", p) /\ topic[p] = row
    /\ \A o \in Given("clean") : IsClean(topic[o]) =>
            \/ o \in late
            \/ \E p \in DOMAIN topic : In("clean", p) /\ topic[p] = topic[o]

OutputsInv == BatchShape /\ CopiesInv /\ RawInv /\ QuarantineInv /\ CleanInv

\* A step may hide offsets from an output, and gives it those of its batch.
LEMMA KeptEffect ==
    ASSUME TypeOK, NEW q \in Appending, OutputKept(q)
    PROVE  /\ DOMAIN topic' = DOMAIN topic
           /\ Given(q)' \subseteq Given(q)
           /\ \A o \in DOMAIN topic : In(q, o)' <=> In(q, o)
<1>1. \A o \in DOMAIN topic : o \in Nat
    BY TopicFacts
<1> QED BY <1>1 DEF OutputKept, Given, In

LEMMA GrowsEffect ==
    ASSUME TypeOK, CopiesInv, NEW q \in Appending, OutputGrows(q)
    PROVE  /\ DOMAIN topic' = DOMAIN topic
           /\ Given(q)' \subseteq Given(q) \union Readable(q)
           /\ Output(q) \subseteq Readable(q)
           /\ \A o \in Readable(q) : ~In(q, o)
           /\ \A o \in DOMAIN topic : In(q, o)' <=> In(q, o) \/ o \in Output(q)
           /\ \A o \in DOMAIN topic :
                appended'[q][o] <= 1 /\ (In(q, o)' => o <= OutputEnd(q)')
<1>1. /\ checkpoint[q] \in Checkpoints /\ checkpoint[q].done <= checkpoint[q].end
      /\ expired \in Nat
      /\ \A o \in DOMAIN topic : o \in Nat /\ appended[q][o] \in Nat
    BY TopicFacts, GroupAssumption DEF TypeOK, Checkpoints, Queries
<1>2. Output(q) \subseteq Readable(q) /\ Readable(q) \subseteq DOMAIN topic
  <2>1. Fresh(q) \subseteq Readable(q)
      BY FreshFacts
  <2> QED BY <2>1 DEF Output, Readable
<1>3. Given(q)' \subseteq Given(q) \union Readable(q)
    BY <1>1 DEF OutputGrows, Given, Readable, Checkpoints
<1>4. \A o \in Readable(q) : appended[q][o] = 0
  <2> TAKE o \in Readable(q)
  <2>1. o \in DOMAIN topic /\ checkpoint[q].done < o
      BY DEF Readable
  <2>2. ~In(q, o)
      BY <1>1, <2>1 DEF CopiesInv, OutputGrows, Checkpoints
  <2> QED BY <1>1, <2>1, <2>2 DEF In
<1>5. \A o \in DOMAIN topic :
        appended'[q][o] = IF o \in Output(q) THEN appended[q][o] + 1 ELSE appended[q][o]
    BY DEF OutputGrows
<1>6. \A o \in DOMAIN topic : In(q, o)' <=> In(q, o) \/ o \in Output(q)
    BY <1>1, <1>5 DEF In
<1>7. \A o \in DOMAIN topic :
        appended'[q][o] <= 1 /\ (In(q, o)' => o <= OutputEnd(q)')
  <2> TAKE o \in DOMAIN topic
  <2>1. CASE o \in Output(q)
    <3>1. appended'[q][o] = 1
        BY <1>2, <1>4, <1>5, <2>1
    <3>2. o <= OutputEnd(q)'
        BY <1>2, <2>1 DEF OutputGrows, Readable
    <3> QED BY <3>1, <3>2
  <2>2. CASE o \notin Output(q)
    <3>1. appended'[q][o] = appended[q][o] /\ (In(q, o)' => In(q, o))
        BY <1>5, <1>6, <2>2
    <3>2. In(q, o) => o <= checkpoint[q].done
        BY DEF CopiesInv, OutputGrows
    <3>3. In(q, o) => o <= checkpoint[q].end
        BY <1>1, <3>2 DEF Checkpoints
    <3> QED BY <3>1, <3>3 DEF CopiesInv, OutputGrows
  <2> QED BY <2>1, <2>2
<1>8. \A o \in Readable(q) : ~In(q, o)
    BY <1>4 DEF In
<1> QED BY <1>2, <1>3, <1>6, <1>7, <1>8 DEF OutputGrows

LEMMA CopiesStep ==
    ASSUME TypeOK, TypeOK', OutputsInv, [Next]_vars
    PROVE  CopiesInv'
<1> SUFFICES ASSUME NEW q \in Appending, NEW o \in DOMAIN topic'
             PROVE  appended'[q][o] <= 1 /\ (In(q, o)' => o <= OutputEnd(q)')
    BY DEF CopiesInv
<1>1. CASE OutputKept(q)
    BY <1>1, KeptEffect DEF OutputsInv, CopiesInv, OutputKept
<1>2. CASE OutputGrows(q)
    BY <1>2, GrowsEffect DEF OutputsInv
<1> QED BY <1>1, <1>2, OutputSteps DEF OutputsInv

LEMMA RawStep ==
    ASSUME TypeOK, TypeOK', OutputsInv, [Next]_vars
    PROVE  RawInv'
<1> USE DEF OutputsInv, RawInv
<1>0. "raw" \in Appending
    BY DEF Appending
<1>1. CASE OutputKept("raw")
    BY <1>0, <1>1, KeptEffect DEF Given
<1>2. CASE OutputGrows("raw")
  <2>1. Output("raw") = Readable("raw")
      BY DEF Output
  <2> QED BY <1>0, <1>2, <2>1, GrowsEffect DEF Given
<1> QED BY <1>0, <1>1, <1>2, OutputSteps

LEMMA QuarantineStep ==
    ASSUME TypeOK, TypeOK', OutputsInv, [Next]_vars
    PROVE  QuarantineInv'
<1> USE DEF OutputsInv, QuarantineInv
<1>0. "quarantine" \in Appending
    BY DEF Appending
<1>1. CASE OutputKept("quarantine")
  <2>1. topic' = topic
      BY <1>1 DEF OutputKept
  <2> QED BY <1>0, <1>1, <2>1, KeptEffect DEF Given
<1>2. CASE OutputGrows("quarantine")
  <2>1. topic' = topic
      BY <1>2 DEF OutputGrows
  <2>2. Output("quarantine") = {o \in Readable("quarantine") : IsRefused(topic[o])}
      BY DEF Output
  <2> QED BY <1>0, <1>2, <2>1, <2>2, GrowsEffect DEF Given
<1> QED BY <1>0, <1>1, <1>2, OutputSteps

LEMMA CleanStep ==
    ASSUME TypeOK, TypeOK', OutputsInv, [Next]_vars
    PROVE  CleanInv'
<1> USE DEF OutputsInv
<1>0. "clean" \in Appending /\ "clean" \in Stateful
    BY DEF Appending, Stateful
<1>1. CASE OutputKept("clean")
  <2>1. topic' = topic /\ Memory' = Memory /\ late' = late
      BY <1>1 DEF OutputKept
  <2>2. \A o \in DOMAIN topic : In("clean", o)' <=> In("clean", o)
      BY <1>0, <1>1, KeptEffect
  <2>3. Given("clean")' \subseteq Given("clean")
      BY <1>0, <1>1, KeptEffect
  <2>4. \A row : Remembers(Memory, row)' <=> Remembers(Memory, row)
      BY <2>1 DEF Remembers
  <2> QED BY <2>1, <2>2, <2>3, <2>4 DEF CleanInv, Given
<1>2. CASE OutputGrows("clean")
  <2> DEFINE old == state["clean"]
             new == NextState("clean")
  <2>1. /\ topic' = topic /\ Memory = old /\ Memory' = new
        /\ late' = late \union Behind("clean")
        /\ Output("clean") = Fresh("clean")
      BY <1>2 DEF OutputGrows, Output
  <2>2. \A o \in DOMAIN topic : In("clean", o)' <=> In("clean", o) \/ o \in Fresh("clean")
      BY <1>0, <1>2, <2>1, GrowsEffect
  <2>3. \A o \in Fresh("clean") :
            /\ o \in Readable("clean") /\ o \in DOMAIN topic
            /\ IsClean(topic[o]) /\ ~Remembers(old, topic[o])
      BY <1>0, FreshFacts, RememberedIsStale DEF InTime
  <2>4. \A o \in DOMAIN topic :
            In("clean", o)' => IsClean(topic[o]) /\ Remembers(new, topic[o])
    <3> TAKE o \in DOMAIN topic
    <3>1. CASE In("clean", o)
        BY <1>0, <2>1, <3>1, MemoryStays, TopicFacts DEF CleanInv
    <3>2. CASE o \in Fresh("clean")
        BY <1>0, <2>3, <3>2, BatchIsRemembered
    <3> QED BY <2>2, <3>1, <3>2
  <2>5. \A o, p \in DOMAIN topic :
            In("clean", o)' /\ In("clean", p)' /\ topic[o].event_id = topic[p].event_id => o = p
    <3> SUFFICES ASSUME NEW o \in DOMAIN topic, NEW p \in DOMAIN topic,
                        In("clean", o)', In("clean", p)', topic[o].event_id = topic[p].event_id
                 PROVE  o = p
        OBVIOUS
    <3>1. topic[o] = topic[p]
        BY TopicFacts
    <3>2. CASE o \in Fresh("clean") /\ p \in Fresh("clean")
      <4>1. o <= p /\ p <= o
          BY <3>2 DEF Fresh
      <4> QED BY <4>1, TopicFacts
    <3>3. CASE In("clean", o) /\ In("clean", p)
        BY <3>3 DEF CleanInv
    <3>4. CASE o \in Fresh("clean") /\ In("clean", p)
        BY <2>1, <2>3, <3>1, <3>4 DEF CleanInv
    <3>5. CASE In("clean", o) /\ p \in Fresh("clean")
        BY <2>1, <2>3, <3>1, <3>5 DEF CleanInv
    <3> QED BY <2>2, <3>2, <3>3, <3>4, <3>5
  <2>6. \A row \in new.seen : \E p \in DOMAIN topic : In("clean", p)' /\ topic[p] = row
    <3> TAKE row \in new.seen
    <3>1. row \in old.seen \/ row \in FreshRows("clean")
        BY DEF NextState, NextSeen
    <3>2. CASE row \in old.seen
        BY <2>1, <2>2, <3>2 DEF CleanInv
    <3>3. CASE row \in FreshRows("clean")
        BY <2>2, <2>3, <3>3 DEF FreshRows
    <3> QED BY <3>1, <3>2, <3>3
  <2>7. \A o \in Given("clean")' : IsClean(topic[o]) =>
            \/ o \in late'
            \/ \E p \in DOMAIN topic : In("clean", p)' /\ topic[p] = topic[o]
    <3> SUFFICES ASSUME NEW o \in Given("clean")', IsClean(topic[o]), o \notin late'
                 PROVE  \E p \in DOMAIN topic : In("clean", p)' /\ topic[p] = topic[o]
        OBVIOUS
    <3>1. o \in Given("clean") \/ o \in Readable("clean")
        BY <1>0, <1>2, GrowsEffect
    <3>2. o \notin late /\ o \notin Behind("clean")
        BY <2>1
    <3>3. CASE o \in Given("clean")
        BY <2>2, <3>2, <3>3 DEF CleanInv
    <3>4. CASE o \in Readable("clean")
      <4>1. topic[o].time \in Nat /\ old.watermark \in Nat
          BY <1>0, <3>4, FreshFacts, TopicFacts, StateFacts
      <4>2. o \in InTime("clean")
          BY <3>2, <3>4, <4>1 DEF InTime, Behind
      <4>3. topic[o] \in old.seen \union FreshRows("clean")
          BY <1>0, <4>2, InTimeIsTaken
      <4>4. CASE topic[o] \in old.seen
          BY <2>1, <2>2, <4>4 DEF CleanInv
      <4>5. CASE topic[o] \in FreshRows("clean")
          BY <2>2, <2>3, <4>5 DEF FreshRows
      <4> QED BY <4>3, <4>4, <4>5
    <3> QED BY <3>1, <3>3, <3>4
  <2>8. \A row : Remembers(Memory, row)' <=> Remembers(new, row)
      BY <2>1 DEF Remembers
  <2> HIDE DEF new, old
  <2> QED BY <2>1, <2>4, <2>5, <2>6, <2>7, <2>8 DEF CleanInv
<1> QED BY <1>0, <1>1, <1>2, OutputSteps

-------------------------------------------------------------------------------
\* History and current table

\* Retention has taken no copy of the row.
Unexpired(row) == \A o \in 1..expired : topic[o] # row

\* A current row of its key is not older.
Covered(row) ==
    \E e \in DOMAIN current : /\ current[e].business_key = row.business_key
                             /\ ~Supersedes(row, current[e])

\* A load of the planned batch holds all rows that the batch would bring now.
Complements(h) ==
    \A row \in FreshRows("merge") : [batch |-> h.batch, row |-> row, loaded |-> h.loaded] \in history

\* Rows of committed batches are remembered and covered; those of the planned batch will
\* be read again, unless retention takes them.
HistoryInv ==
    /\ \A h \in history :
            /\ h.batch <= BatchId("merge")
            /\ h.batch = BatchId("merge") => checkpoint["merge"].done < checkpoint["merge"].end
            /\ h.batch <= checkpoint["merge"].batch /\ Unexpired(h.row) =>
                    Remembers(state["merge"], h.row) /\ Covered(h.row)
            /\ h.batch = BatchId("merge") /\ Unexpired(h.row) => h.row \in FreshRows("merge")
            /\ h.batch = BatchId("merge") => Complements(h)
            /\ phase["merge"] = "written" /\ Unexpired(h.row) =>
                    Remembers(draft["merge"], h.row) /\ Covered(h.row)
    /\ phase["merge"] = "recorded" =>
            \A row \in FreshRows("merge") : \E h \in history :
                h.batch = BatchId("merge") /\ h.row = row

CurrentInv ==
    CurrentIsInHistory /\ CurrentHasOrigin /\ HistoryUnderOneBatch /\ RepeatsAreWhole

LEMMA MergeQueryFacts ==
    ASSUME TypeOK
    PROVE  /\ "merge" \in Queries /\ "merge" \in Stateful
           /\ checkpoint["merge"] \in Checkpoints
           /\ BatchId("merge") = checkpoint["merge"].batch + 1 /\ BatchId("merge") \in Nat
           /\ expired \in Nat
           /\ \A h \in history : h.batch \in Nat /\ h.row \in Rows
           /\ \A e \in DOMAIN current : current[e] \in Rows
<1>1. "merge" \in Queries /\ "merge" \in Stateful
    BY DEF Queries, Stateful
<1>2. checkpoint["merge"] \in Checkpoints /\ expired \in Nat
    BY <1>1, GroupAssumption DEF TypeOK, Checkpoints
<1>3. \A h \in history : h.batch \in Nat /\ h.row \in Rows
    BY DEF TypeOK
<1>4. \A e \in DOMAIN current : current[e] \in Rows
    BY DEF TypeOK
<1> QED BY <1>1, <1>2, <1>3, <1>4 DEF BatchId, Checkpoints

LEMMA BatchUnchanged ==
    ASSUME TypeOK, topic' = topic, expired' = expired,
           checkpoint'["merge"] = checkpoint["merge"], state'["merge"] = state["merge"]
    PROVE  /\ FreshRows("merge")' = FreshRows("merge")
           /\ BatchId("merge")' = BatchId("merge")
           /\ \A row : Unexpired(row)' <=> Unexpired(row)
  BY DEF FreshRows, Fresh, InTime, Readable, BatchId, Unexpired

\* Rows of a batch are valid and in the topic, and the next state remembers them.
LEMMA FreshRowIsRemembered ==
    ASSUME TypeOK, NEW row \in FreshRows("merge")
    PROVE  Remembers(NextState("merge"), row) /\ ~Remembers(state["merge"], row)
<1>1. PICK o \in Fresh("merge") : row = topic[o]
    BY DEF FreshRows
<1>2. o \in Readable("merge") /\ IsClean(topic[o])
    BY <1>1, FreshFacts DEF InTime
<1> QED BY <1>1, <1>2, BatchIsRemembered, RememberedIsStale, MergeQueryFacts

\* Superseding is transitive enough for a maximum to stay one.
LEMMA SupersedesOrder ==
    ASSUME NEW r \in Rows, NEW s \in Rows, NEW t \in Rows,
           ~Supersedes(r, t), Supersedes(s, t)
    PROVE  ~Supersedes(r, s)
<1>1. /\ r.version \in Nat /\ s.version \in Nat /\ t.version \in Nat
      /\ r.updated \in Nat /\ s.updated \in Nat /\ t.updated \in Nat
    BY GroupAssumption
<1> QED BY <1>1 DEF Supersedes

LEMMA CoveredByMerge ==
    ASSUME TypeOK, CurrentHasOrigin, MergeBatch, NEW row \in Rows,
           Covered(row) \/ row \in FreshRows("merge")
    PROVE  Covered(row)'
<1>0. ~Supersedes(row, row)
    BY GroupAssumption DEF Supersedes
<1>1. /\ DOMAIN current' = DOMAIN current \union {r.event_id : r \in NotMatched}
      /\ \A e \in DOMAIN current :
            \/ current'[e] = current[e] /\ Updating(e) = {}
            \/ current'[e] \in Updating(e) /\ \A r \in Updating(e) : r = current'[e]
      /\ \A r \in NotMatched : current'[r.event_id] = r
    BY MergeEffect, NewKeysAreNewEvents
<1>2. \A e \in DOMAIN current : \A r \in Updating(e) :
            /\ r \in Rows /\ r.business_key = current[e].business_key
            /\ Supersedes(r, current[e])
    BY FreshFacts DEF Updating, Matching
<1>3. CASE Covered(row)
  <2>1. PICK e \in DOMAIN current : /\ current[e].business_key = row.business_key
                                   /\ ~Supersedes(row, current[e])
      BY <1>3 DEF Covered
  <2>2. current[e] \in Rows
      BY MergeQueryFacts
  <2>3. CASE current'[e] = current[e]
      BY <1>1, <2>1, <2>3 DEF Covered, Supersedes
  <2>4. CASE current'[e] \in Updating(e)
    <3>1. ~Supersedes(row, current'[e])
        BY <1>2, <2>1, <2>2, <2>4, SupersedesOrder
    <3> QED BY <1>1, <1>2, <2>1, <2>4, <3>1 DEF Covered, Supersedes
  <2> QED BY <1>1, <2>3, <2>4
<1>4. CASE row \in NotMatched
    BY <1>0, <1>1, <1>4 DEF Covered, Supersedes
<1>5. CASE row \in FreshRows("merge") /\ row \notin NotMatched
  <2>1. PICK e \in DOMAIN current : row \in Matching(e)
      BY <1>5 DEF NotMatched, Matching
  <2>2. CASE row \in Updating(e)
    <3>1. current'[e] = row
        BY <1>1, <2>2
    <3> QED BY <1>0, <1>1, <3>1 DEF Covered, Supersedes
  <2>3. CASE row \notin Updating(e)
    <3>1. Covered(row)
        BY <2>1, <2>3 DEF Updating, Matching, Covered
    <3> QED BY <1>3, <3>1
  <2> QED BY <2>2, <2>3
<1> QED BY <1>3, <1>4, <1>5

LEMMA HistoryStep ==
    ASSUME TypeOK, TypeOK', HistoryInv, CurrentInv, [Next]_vars
    PROVE  HistoryInv'
<1> DEFINE cp == checkpoint["merge"]
<1>0. /\ \A h \in history :
            /\ h.batch <= BatchId("merge")
            /\ h.batch = BatchId("merge") => cp.done < cp.end
            /\ h.batch <= cp.batch /\ Unexpired(h.row) =>
                    Remembers(state["merge"], h.row) /\ Covered(h.row)
            /\ h.batch = BatchId("merge") /\ Unexpired(h.row) => h.row \in FreshRows("merge")
            /\ h.batch = BatchId("merge") => Complements(h)
            /\ phase["merge"] = "written" /\ Unexpired(h.row) =>
                    Remembers(draft["merge"], h.row) /\ Covered(h.row)
      /\ phase["merge"] = "recorded" =>
            \A row \in FreshRows("merge") : \E h \in history :
                h.batch = BatchId("merge") /\ h.row = row
    BY DEF HistoryInv
<1>1. CASE Kept("merge")
  <2>1. /\ topic' = topic /\ checkpoint'["merge"] = cp /\ history' = history /\ current' = current
        /\ state'["merge"] = state["merge"] /\ draft'["merge"] = draft["merge"]
        /\ expired' \in Nat /\ expired <= expired'
        /\ phase'["merge"] \in {phase["merge"], "idle"}
      BY <1>1, MergeQueryFacts, GroupAssumption DEF Kept, TypeOK
  <2>2. BatchId("merge")' = BatchId("merge")
      BY <2>1 DEF BatchId
  <2>3. \A row : Unexpired(row)' => Unexpired(row)
      BY <2>1, MergeQueryFacts DEF Unexpired
  <2>4. \A row : Covered(row)' <=> Covered(row)
      BY <2>1 DEF Covered, Supersedes
  <2>5. \A row \in FreshRows("merge") : Unexpired(row)' => row \in FreshRows("merge")'
    <3> SUFFICES ASSUME NEW o \in Fresh("merge"), Unexpired(topic[o])'
                 PROVE  o \in Fresh("merge")'
        BY <2>1 DEF FreshRows
    <3>1. \A p \in 1..expired' : topic[p] # topic[o]
        BY <2>1 DEF Unexpired
    <3> QED BY <2>1, <3>1, FreshStays, MergeQueryFacts
  <2>6. FreshRows("merge")' \subseteq FreshRows("merge")
      BY <2>1, FreshRowsShrink, MergeQueryFacts
  <2>7. \A row : Remembers(state["merge"], row)' <=> Remembers(state["merge"], row)
      BY <2>1 DEF Remembers
  <2>8. \A row : Remembers(draft["merge"], row)' <=> Remembers(draft["merge"], row)
      BY <2>1 DEF Remembers
  <2>9. \A h : Complements(h) => Complements(h)'
      BY <2>1, <2>6 DEF Complements
  <2> HIDE DEF cp
  <2> QED BY <1>0, <2>1, <2>2, <2>3, <2>4, <2>5, <2>6, <2>7, <2>8, <2>9 DEF HistoryInv, cp
<1>2. CASE Plan("merge")
  <2>1. /\ topic' = topic /\ expired' = expired /\ history' = history /\ current' = current
        /\ state' = state /\ draft' = draft /\ phase'["merge"] = "planned"
      BY <1>2, MergeQueryFacts DEF Plan, tables, TypeOK
  <2>2. BatchId("merge")' = BatchId("merge") /\ checkpoint'["merge"].batch = cp.batch
      BY <1>2, MergeQueryFacts, PlanEffect DEF BatchId
  <2>3. checkpoint'["merge"].done < checkpoint'["merge"].end
      BY <1>2, MergeQueryFacts, PlanEffect
  <2>4. \A row : Covered(row)' <=> Covered(row)
      BY <2>1 DEF Covered, Supersedes
  <2>5. \A row : Unexpired(row)' <=> Unexpired(row)
      BY <2>1 DEF Unexpired
  <2>6. \A h \in history : h.batch = BatchId("merge") => FreshRows("merge")' = FreshRows("merge")
    <3>1. cp.done < cp.end => checkpoint'["merge"] = cp
        BY <1>2, MergeQueryFacts, PlanEffect DEF Checkpoints
    <3> QED BY <1>0, <2>1, <3>1, BatchUnchanged
  <2>7. \A row : Remembers(state["merge"], row)' <=> Remembers(state["merge"], row)
      BY <2>1 DEF Remembers
  <2>8. \A h \in history : h.batch = BatchId("merge") /\ Complements(h) => Complements(h)'
      BY <2>1, <2>6 DEF Complements
  <2> HIDE DEF cp
  <2> QED BY <1>0, <2>1, <2>2, <2>3, <2>4, <2>5, <2>6, <2>7, <2>8 DEF HistoryInv
<1>3. CASE Commit("merge")
  <2>1. /\ topic' = topic /\ expired' = expired /\ history' = history /\ current' = current
        /\ state'["merge"] = draft["merge"] /\ phase["merge"] = "written"
        /\ phase'["merge"] = "idle"
      BY <1>3, MergeQueryFacts DEF Commit, tables, TypeOK
  <2>2. /\ checkpoint'["merge"].batch = BatchId("merge")
        /\ BatchId("merge")' = BatchId("merge") + 1
      BY <1>3, MergeQueryFacts, CommitEffect DEF BatchId
  <2>3. \A h \in history : h.batch # BatchId("merge")' /\ h.batch <= BatchId("merge")'
      BY <1>0, <2>2, MergeQueryFacts
  <2>4. \A row : Covered(row)' <=> Covered(row)
      BY <2>1 DEF Covered, Supersedes
  <2>5. \A row : Unexpired(row)' <=> Unexpired(row)
      BY <2>1 DEF Unexpired
  <2>6. \A row : Remembers(state["merge"], row)' <=> Remembers(draft["merge"], row)
      BY <2>1 DEF Remembers
  <2> HIDE DEF cp
  <2> QED BY <1>0, <2>1, <2>3, <2>4, <2>5, <2>6 DEF HistoryInv
<1>4. ASSUME EmptyBatch \/ InsertHistory \/ MergeBatch
      PROVE  /\ topic' = topic /\ expired' = expired /\ checkpoint' = checkpoint /\ state' = state
             /\ phase["merge"] \in {"planned", "recorded"}
             /\ draft'["merge"] = NextState("merge")
             /\ FreshRows("merge")' = FreshRows("merge")
             /\ BatchId("merge")' = BatchId("merge")
             /\ \A row : Unexpired(row)' <=> Unexpired(row)
             /\ \A row : Remembers(state["merge"], row)' <=> Remembers(state["merge"], row)
             /\ \A row : Remembers(draft["merge"], row)' <=> Remembers(NextState("merge"), row)
  <2>1. /\ topic' = topic /\ expired' = expired /\ checkpoint' = checkpoint /\ state' = state
        /\ phase["merge"] \in {"planned", "recorded"} /\ WriteState("merge")
      BY <1>4 DEF EmptyBatch, InsertHistory, MergeBatch
  <2>2. draft'["merge"] = NextState("merge")
      BY <2>1, MergeQueryFacts, WriteStateEffect
  <2>3. \A row : Remembers(state["merge"], row)' <=> Remembers(state["merge"], row)
      BY <2>1 DEF Remembers
  <2>4. \A row : Remembers(draft["merge"], row)' <=> Remembers(NextState("merge"), row)
      BY <2>2 DEF Remembers
  <2> QED BY <2>1, <2>2, <2>3, <2>4, BatchUnchanged
<1>5. \A h \in history : Unexpired(h.row) /\ h.batch <= cp.batch =>
            Remembers(NextState("merge"), h.row)
    BY <1>0, MergeQueryFacts, MemoryStays
<1>6. \A h \in history : h.batch <= cp.batch \/ h.batch = BatchId("merge")
    BY <1>0, MergeQueryFacts DEF Checkpoints
<1>7. CASE EmptyBatch
  <2>1. history' = history /\ current' = current /\ FreshRows("merge") = {}
        /\ phase'["merge"] = "written"
      BY <1>7, MergeQueryFacts DEF EmptyBatch, tables, TypeOK, FreshRows
  <2>2. \A row : Covered(row)' <=> Covered(row)
      BY <2>1 DEF Covered, Supersedes
  <2>3. \A h : Complements(h) => Complements(h)'
      BY <1>4, <1>7, <2>1 DEF Complements
  <2> HIDE DEF cp
  <2> QED BY <1>0, <1>4, <1>5, <1>6, <1>7, <2>1, <2>2, <2>3 DEF HistoryInv, cp
<1>8. CASE InsertHistory
  <2> DEFINE new == {[batch |-> BatchId("merge"), row |-> row, loaded |-> lives] :
                        row \in FreshRows("merge")}
  <2>1. /\ history' = history \union new
        /\ current' = current /\ phase["merge"] = "planned" /\ phase'["merge"] = "recorded"
      BY <1>8, MergeQueryFacts DEF InsertHistory, TypeOK
  <2>2. \A row : Covered(row)' <=> Covered(row)
      BY <2>1 DEF Covered, Supersedes
  <2>3. FreshRows("merge") # {} => cp.done < cp.end
    <3>1. \A o \in Fresh("merge") : o \in Nat /\ cp.done < o /\ o <= cp.end
        BY FreshFacts, TopicFacts DEF Readable
    <3> QED BY <3>1, MergeQueryFacts DEF FreshRows, Checkpoints
  <2>4. ~(BatchId("merge") <= cp.batch)
      BY MergeQueryFacts DEF Checkpoints
  <2>5. \A h \in history : Complements(h) => Complements(h)'
      BY <1>4, <1>8, <2>1 DEF Complements
  <2>6. \A h \in new : h.batch = BatchId("merge") /\ h.row \in FreshRows("merge") /\ Complements(h)'
      BY <1>4, <1>8, <2>1 DEF Complements
  <2>7. ASSUME NEW h \in history'
        PROVE  /\ h.batch <= BatchId("merge")
               /\ h.batch = BatchId("merge") => cp.done < cp.end
               /\ h.batch <= cp.batch /\ Unexpired(h.row) =>
                    Remembers(state["merge"], h.row) /\ Covered(h.row)
               /\ h.batch = BatchId("merge") /\ Unexpired(h.row) => h.row \in FreshRows("merge")
               /\ h.batch = BatchId("merge") => Complements(h)'
    <3> HIDE DEF new, cp
    <3>1. CASE h \in history
        BY <1>0, <2>5, <3>1
    <3>2. CASE h \in new
      <4>1. h.batch = BatchId("merge") /\ h.row \in FreshRows("merge")
          BY <2>6, <3>2
      <4> QED BY <2>3, <2>4, <2>6, <3>2, <4>1, MergeQueryFacts
    <3> QED BY <2>1, <3>1, <3>2
  <2>8. \A row \in FreshRows("merge") : \E h \in history' :
            h.batch = BatchId("merge") /\ h.row = row
    <3> TAKE row \in FreshRows("merge")
    <3>1. [batch |-> BatchId("merge"), row |-> row, loaded |-> lives] \in history'
        BY <2>1
    <3> QED BY <3>1
  <2> HIDE DEF new, cp
  <2> QED BY <1>4, <1>8, <2>1, <2>2, <2>7, <2>8 DEF HistoryInv, cp
<1>9. CASE MergeBatch
  <2>1. /\ history' = history /\ phase["merge"] = "recorded" /\ phase'["merge"] = "written"
      BY <1>9, MergeQueryFacts DEF MergeBatch, TypeOK
  <2>2. \A row \in Rows : Covered(row) \/ row \in FreshRows("merge") => Covered(row)'
      BY <1>9, CoveredByMerge DEF CurrentInv
  <2>3. \A h \in history : Unexpired(h.row) =>
            Remembers(NextState("merge"), h.row) /\ Covered(h.row)'
    <3> TAKE h \in history
    <3>1. CASE h.batch <= cp.batch
        BY <1>0, <1>5, <2>2, <3>1, MergeQueryFacts
    <3>2. CASE h.batch = BatchId("merge")
        BY <1>0, <2>2, <3>2, MergeQueryFacts, FreshRowIsRemembered
    <3> QED BY <1>6, <3>1, <3>2
  <2>4. \A h : Complements(h) => Complements(h)'
      BY <1>4, <1>9, <2>1 DEF Complements
  <2> HIDE DEF cp
  <2> QED BY <1>0, <1>4, <1>9, <2>1, <2>3, <2>4 DEF HistoryInv, cp
<1> QED BY <1>1, <1>2, <1>3, <1>7, <1>8, <1>9, MergeQueryFacts, OtherQueriesKept
        DEF BatchStep, Appending

\* Only the merge changes the tables, and retention only takes records.
LEMMA TablesKept ==
    ASSUME TypeOK, TypeOK', [Next]_vars
    PROVE  /\ topic' = topic /\ expired \in Nat /\ expired' \in Nat /\ expired <= expired'
           /\ \/ InsertHistory
              \/ MergeBatch
              \/ history' = history /\ current' = current
<1>0. expired \in Nat /\ expired' \in Nat
    BY GroupAssumption DEF TypeOK
<1>1. CASE Kept("merge")
    BY <1>0, <1>1 DEF Kept
<1>2. CASE Plan("merge") \/ Commit("merge") \/ EmptyBatch
    BY <1>0, <1>2 DEF Plan, Commit, EmptyBatch, tables
<1>3. CASE InsertHistory \/ MergeBatch
    BY <1>0, <1>3 DEF InsertHistory, MergeBatch
<1> QED BY <1>1, <1>2, <1>3, MergeQueryFacts, OtherQueriesKept DEF BatchStep, Appending

\* What is said of the history alone stays true as retention goes on.
LEMMA HistoryPropertiesStay ==
    ASSUME HistoryUnderOneBatch, RepeatsAreWhole, history' = history, topic' = topic,
           expired \in Nat, expired' \in Nat, expired <= expired'
    PROVE  HistoryUnderOneBatch' /\ RepeatsAreWhole'
<1>1. \A o \in 1..expired : o \in 1..expired'
    OBVIOUS
<1>2. HistoryUnderOneBatch'
    BY <1>1 DEF HistoryUnderOneBatch
<1>3. RepeatsAreWhole'
    BY <1>1 DEF RepeatsAreWhole
<1> QED BY <1>2, <1>3

LEMMA CurrentStep ==
    ASSUME TypeOK, TypeOK', HistoryInv, CurrentInv, [Next]_vars
    PROVE  CurrentInv'
<1> USE DEF CurrentInv
<1>0. topic' = topic /\ expired \in Nat /\ expired' \in Nat /\ expired <= expired'
    BY TablesKept
<1>1. CASE history' = history /\ current' = current
  <2>1. CurrentIsInHistory' /\ CurrentHasOrigin'
      BY <1>1 DEF CurrentIsInHistory, CurrentHasOrigin
  <2>2. HistoryUnderOneBatch' /\ RepeatsAreWhole'
      BY <1>0, <1>1, HistoryPropertiesStay
  <2> QED BY <2>1, <2>2
<1>2. CASE InsertHistory
  <2> DEFINE new == {[batch |-> BatchId("merge"), row |-> row, loaded |-> lives] :
                        row \in FreshRows("merge")}
  <2>1. history' = history \union new /\ current' = current /\ expired' = expired
      BY <1>2 DEF InsertHistory
  <2>2. /\ \A h \in new : h.batch = BatchId("merge") /\ h.row \in FreshRows("merge")
        /\ \A h \in new : \A row \in FreshRows("merge") : [h EXCEPT !.row = row] \in new
      OBVIOUS
  <2> HIDE DEF new
  <2>3. CurrentIsInHistory' /\ CurrentHasOrigin'
      BY <2>1 DEF CurrentIsInHistory, CurrentHasOrigin
  <2>4. ASSUME NEW g \in history, NEW h \in new,
               g.row.event_id = h.row.event_id, g.batch # h.batch
        PROVE  \E o \in 1..expired : topic[o].event_id = g.row.event_id
    <3>1. g.row = h.row /\ h.row \in FreshRows("merge")
        BY <2>2, <2>4, FreshFacts, MergeQueryFacts, CopiesAssumption
    <3>2. g.batch <= checkpoint["merge"].batch
        BY <2>2, <2>4, MergeQueryFacts DEF HistoryInv, Checkpoints
    <3>3. ~Remembers(state["merge"], g.row)
        BY <3>1, FreshRowIsRemembered
    <3>4. ~Unexpired(g.row)
        BY <3>2, <3>3 DEF HistoryInv
    <3> QED BY <3>4 DEF Unexpired
  <2>5. HistoryUnderOneBatch'
    <3> SUFFICES ASSUME NEW g \in history', NEW h \in history',
                        g.row.event_id = h.row.event_id, g.batch # h.batch
                 PROVE  \E o \in 1..expired : topic[o].event_id = g.row.event_id
        BY <1>0, <2>1 DEF HistoryUnderOneBatch
    <3>1. CASE g \in history /\ h \in history
        BY <3>1 DEF HistoryUnderOneBatch
    <3>2. CASE g \in history /\ h \in new
        BY <2>4, <3>2
    <3>3. CASE g \in new /\ h \in history
      <4>1. \E o \in 1..expired : topic[o].event_id = h.row.event_id
          BY <2>4, <3>3
      <4> QED BY <4>1
    <3>4. CASE g \in new /\ h \in new
        BY <2>2, <3>4
    <3> QED BY <2>1, <3>1, <3>2, <3>3, <3>4
  <2>6. RepeatsAreWhole'
    <3> SUFFICES ASSUME NEW g \in history', NEW h \in history', g.batch = h.batch,
                        \A o \in 1..expired : topic[o] # g.row
                 PROVE  [h EXCEPT !.row = g.row] \in history'
        BY <1>0, <2>1 DEF RepeatsAreWhole
    <3>1. CASE g \in history /\ h \in history
        BY <2>1, <3>1 DEF RepeatsAreWhole
    <3>2. CASE h.batch = BatchId("merge")
      <4>1. g.row \in FreshRows("merge")
          BY <2>1, <2>2, <3>2 DEF HistoryInv, Unexpired
      <4>2. CASE h \in history
        <5>1. [batch |-> h.batch, row |-> g.row, loaded |-> h.loaded] \in history
            BY <3>2, <4>1, <4>2 DEF HistoryInv, Complements
        <5>2. [h EXCEPT !.row = g.row] = [batch |-> h.batch, row |-> g.row, loaded |-> h.loaded]
            BY <4>2 DEF TypeOK
        <5> QED BY <2>1, <5>1, <5>2
      <4>3. CASE h \in new
          BY <2>1, <2>2, <4>1, <4>3
      <4> QED BY <2>1, <4>2, <4>3
    <3> QED BY <2>1, <2>2, <3>1, <3>2
  <2> QED BY <2>3, <2>5, <2>6
<1>3. CASE MergeBatch
  <2>1. history' = history /\ expired' = expired
      BY <1>3 DEF MergeBatch
  <2>2. /\ DOMAIN current' = DOMAIN current \union {r.event_id : r \in NotMatched}
        /\ \A e \in DOMAIN current : current'[e] = current[e] \/ current'[e] \in Updating(e)
        /\ \A r \in NotMatched : current'[r.event_id] = r
      BY <1>3, MergeEffect, NewKeysAreNewEvents
  <2>3. \A row \in FreshRows("merge") : \E h \in history :
            h.batch = BatchId("merge") /\ h.row = row
      BY <1>3 DEF MergeBatch, HistoryInv
  <2>4. \A e \in DOMAIN current :
            /\ current'[e].business_key = current[e].business_key
            /\ current'[e] = current[e] \/ current'[e] \in FreshRows("merge")
      BY <2>2 DEF Updating, Matching
  <2>5. \A r \in NotMatched :
            /\ r \in FreshRows("merge")
            /\ \A e \in DOMAIN current : current[e].business_key # r.business_key
      BY DEF NotMatched
  <2>6. CurrentIsInHistory'
      BY <2>1, <2>2, <2>3, <2>4, <2>5 DEF CurrentIsInHistory
  <2>7. CurrentHasOrigin'
    <3> SUFFICES ASSUME NEW e \in DOMAIN current'
                 PROVE  \E h \in history :
                            h.row.event_id = e /\ h.row.business_key = current'[e].business_key
        BY <2>1 DEF CurrentHasOrigin
    <3>1. CASE e \in DOMAIN current
        BY <2>4, <3>1 DEF CurrentHasOrigin
    <3>2. CASE e \notin DOMAIN current
        BY <2>2, <2>3, <2>5, <3>2
    <3> QED BY <3>1, <3>2
  <2>8. HistoryUnderOneBatch' /\ RepeatsAreWhole'
      BY <1>0, <2>1, HistoryPropertiesStay
  <2> QED BY <2>6, <2>7, <2>8
<1> QED BY <1>1, <1>2, <1>3, TablesKept

-------------------------------------------------------------------------------
\* The inductive invariant

IInv == TypeOK /\ SupervisorInv /\ OutputsInv /\ HistoryInv /\ CurrentInv

\* An output was given what its query has passed.
LEMMA PassedIsGiven ==
    ASSUME TypeOK, NEW q \in Appending
    PROVE  Passed(q) \subseteq Given(q)
<1>1. /\ checkpoint[q].done \in Nat /\ checkpoint[q].end \in Nat
      /\ checkpoint[q].done <= checkpoint[q].end
    BY DEF TypeOK, Queries
<1>2. \A o \in DOMAIN topic : o \in Nat
    BY TopicFacts
<1> QED BY <1>1, <1>2 DEF Passed, Given, OutputEnd

LEMMA InitIInv == Init => IInv
<1> SUFFICES ASSUME Init PROVE IInv
    OBVIOUS
<1>1. SupervisorInv
    BY SupervisorStarts DEF Init
<1>2. PICK first \in [Queries -> FirstOffsets \union {0}] :
        checkpoint = [q \in Queries |->
                [first |-> first[q], done |-> first[q], end |-> first[q], batch |-> 0]]
    BY DEF Init
<1>3. \A q \in Queries : /\ checkpoint[q] \in Checkpoints /\ checkpoint[q].batch = 0
                         /\ checkpoint[q].first = checkpoint[q].done
                         /\ checkpoint[q].done = checkpoint[q].end
                         /\ checkpoint[q].done \in Nat
  <2> TAKE q \in Queries
  <2>1. first[q] \in Nat
    <3>1. first[q] \in FirstOffsets \/ first[q] = 0
        OBVIOUS
    <3>2. CASE first[q] \in FirstOffsets
        BY <3>2, GroupAssumption
    <3>3. CASE first[q] = 0
        BY <3>3
    <3> QED BY <3>1, <3>2, <3>3
  <2>2. checkpoint[q] = [first |-> first[q], done |-> first[q], end |-> first[q], batch |-> 0]
      BY <1>2
  <2> QED BY <2>1, <2>2 DEF Checkpoints
<1>4. TypeOK
  <2>1. checkpoint \in [Queries -> Checkpoints]
      BY <1>2, <1>3
  <2>2. \A q \in Queries : checkpoint[q].first <= checkpoint[q].done
                           /\ checkpoint[q].done <= checkpoint[q].end
      BY <1>3
  <2>3. EmptyState \in DedupeState
      BY DEF EmptyState, DedupeState
  <2>4. expired \in 0..MaxExpired
      BY GroupAssumption DEF Init
  <2>5. /\ appended \in [Appending -> [DOMAIN topic -> Nat]]
        /\ transaction \in [Appending -> Nat]
        /\ phase \in [Queries -> {"idle", "planned", "recorded", "written"}]
      BY DEF Init
  <2>6. DOMAIN current = {}
      BY DEF Init
  <2> QED BY <1>1, <2>1, <2>2, <2>3, <2>4, <2>5, <2>6 DEF Init, TypeOK, SupervisorInv, Checkpoints
<1>5. \A q \in Appending : /\ q \in Queries /\ phase[q] = "idle"
                           /\ ~Wrote(q) /\ transaction[q] = 0 /\ BatchId(q) = 1
                           /\ OutputEnd(q) = checkpoint[q].first
                           /\ \A o \in DOMAIN topic : appended[q][o] = 0
  <2> TAKE q \in Appending
  <2>1. q \in Queries
      BY DEF Queries
  <2>2. BatchId(q) = 1 /\ transaction[q] = 0
      BY <1>3, <2>1 DEF Init, BatchId
  <2>3. ~Wrote(q)
      BY <2>2 DEF Wrote
  <2> QED BY <1>3, <2>1, <2>2, <2>3 DEF Init, OutputEnd
<1>6. \A q \in Appending : Given(q) = {} /\ Passed(q) = {}
  <2>1. \A o \in DOMAIN topic : o \in Nat
      BY <1>4, TopicFacts
  <2> QED BY <1>3, <1>5, <2>1 DEF Given, Passed
<1>7. \A q \in Appending : \A o \in DOMAIN topic : ~In(q, o)
    BY <1>5 DEF In
<1>8. OutputsInv
  <2>0. "raw" \in Appending /\ "clean" \in Appending /\ "quarantine" \in Appending
        /\ "clean" \in Stateful
      BY DEF Appending, Stateful
  <2>1. Memory.seen = {}
      BY <1>5, <2>0 DEF Memory, Init, EmptyState
  <2>2. BatchShape /\ CopiesInv
      BY <1>5, <1>7 DEF BatchShape, CopiesInv
  <2>3. RawInv /\ QuarantineInv /\ CleanInv
      BY <1>6, <1>7, <2>0, <2>1 DEF RawInv, QuarantineInv, CleanInv
  <2> QED BY <2>2, <2>3 DEF OutputsInv
<1>9. HistoryInv /\ CurrentInv
  <2>1. history = {} /\ DOMAIN current = {} /\ phase["merge"] = "idle"
      BY DEF Init, Queries
  <2> QED BY <2>1 DEF HistoryInv, CurrentInv, CurrentIsInHistory, CurrentHasOrigin,
        HistoryUnderOneBatch, RepeatsAreWhole
<1> QED BY <1>1, <1>4, <1>8, <1>9 DEF IInv

LEMMA NextIInv == IInv /\ [Next]_vars => IInv'
<1> SUFFICES ASSUME IInv, [Next]_vars PROVE IInv'
    OBVIOUS
<1> USE DEF IInv
<1>1. SupervisorInv'
    BY SupervisorMoves, SupervisorStep
<1>2. TypeOK'
    BY <1>1, TypeStep DEF CurrentInv
<1>3. OutputsInv'
    BY <1>2, BatchShapeStep, CopiesStep, RawStep, QuarantineStep, CleanStep DEF OutputsInv
<1>4. HistoryInv' /\ CurrentInv'
    BY <1>2, HistoryStep, CurrentStep
<1> QED BY <1>1, <1>2, <1>3, <1>4

LEMMA SpecIInv == Spec => []IInv
  BY InitIInv, NextIInv, PTL DEF Spec

\* The state of the queries and of their supervisor keeps its types, and no checkpoint
\* commits more than was planned.
THEOREM GroupTypeCorrect == Spec => []TypeOK
<1>1. IInv => TypeOK
    BY DEF IInv
<1> QED BY <1>1, SpecIInv, PTL

\* When stop has returned, no query of a group that was complete at the signal runs.
THEOREM StopKeepsItsPromise == Spec => []PromisedStop
<1>1. IInv => PromisedStop
    BY DEF IInv, SupervisorInv
<1> QED BY <1>1, SpecIInv, PTL

\* Repeated batches append nothing twice, and deduplication holds across batches.
THEOREM OutputsAppendOnce == Spec => []AppendedOnce
<1>1. IInv => AppendedOnce
  <2>1. "raw" \in Appending /\ "clean" \in Appending
      BY DEF Appending
  <2>2. IInv => Passed("raw") \subseteq Given("raw")
      BY <2>1, PassedIsGiven DEF IInv
  <2> QED BY <2>1, <2>2 DEF IInv, OutputsInv, CopiesInv, RawInv, CleanInv, AppendedOnce, Holds, In
<1> QED BY <1>1, SpecIInv, PTL

\* If every compared column is required, validity is never unknown.
LEMMA ValidityIsKnown ==
    ASSUME ComparesOnlyRequired, NEW row, ~IsClean(row)
    PROVE  IsRefused(row)
<1>1. "unknown" \in Checks(row) => "false" \in Checks(row)
  <2> SUFFICES ASSUME "unknown" \in Checks(row) PROVE Missing(row)
      BY DEF Checks, Truth
  <2>1. row.fields["event_type"] = "null" \/ row.fields["schema_version"] = "null"
      BY DEF Checks, Truth, Compared
  <2> QED BY <2>1 DEF ComparesOnlyRequired, Missing
<1> QED BY <1>1 DEF IsClean, IsRefused, Validity

\* With contracts that require the columns they compare, every record that both queries
\* have passed is refused, taken, a copy of a taken one, or late, and never two of these
\* that contradict each other.
THEOREM SplitLosesNothing ==
    ASSUME ComparesOnlyRequired
    PROVE  Spec => []SplitIsTotal
<1>1. IInv => SplitIsTotal
  <2> SUFFICES ASSUME IInv, NEW o \in Passed("clean") \intersect Passed("quarantine")
               PROVE  /\ Holds("quarantine", o) => \A p \in DOMAIN topic :
                            Holds("clean", p) => topic[p].event_id # topic[o].event_id
                      /\ \/ Holds("quarantine", o)
                         \/ \E p \in DOMAIN topic :
                                Holds("clean", p) /\ topic[p].event_id = topic[o].event_id
                         \/ o \in late
      BY DEF SplitIsTotal
  <2> USE DEF IInv
  <2>1. "quarantine" \in Appending /\ "clean" \in Appending
      BY DEF Appending
  <2>2. o \in DOMAIN topic /\ o \in Given("quarantine") /\ o \in Given("clean")
      BY <2>1, PassedIsGiven DEF Passed
  <2>3. \A q \in Appending : \A p : Holds(q, p) <=> In(q, p)
      BY DEF Holds, In
  <2>4. ASSUME Holds("quarantine", o), NEW p \in DOMAIN topic, Holds("clean", p)
        PROVE  topic[p].event_id # topic[o].event_id
    <3>1. IsRefused(topic[o]) /\ IsClean(topic[p])
        BY <2>1, <2>2, <2>3, <2>4 DEF OutputsInv, QuarantineInv, CleanInv
    <3>2. topic[o] # topic[p]
        BY <3>1 DEF IsRefused, IsClean
    <3> QED BY <2>2, <3>2, TopicFacts
  <2>5. CASE IsRefused(topic[o])
      BY <2>1, <2>2, <2>3, <2>4, <2>5 DEF OutputsInv, QuarantineInv
  <2>6. CASE IsClean(topic[o])
      BY <2>1, <2>2, <2>3, <2>4, <2>6 DEF OutputsInv, CleanInv
  <2> QED BY <2>5, <2>6, ValidityIsKnown
<1> QED BY <1>1, SpecIInv, PTL

\* Every current row is in the history.
THEOREM CurrentRowsAreRecorded == Spec => []CurrentIsInHistory
<1>1. IInv => CurrentIsInHistory
    BY DEF IInv, CurrentInv
<1> QED BY <1>1, SpecIInv, PTL

\* A history row of a committed batch is not newer than all current rows of its key,
\* unless retention has taken a copy of it.
THEOREM NewestRowsSurvive == Spec => []NewestSurvives
<1>1. IInv => NewestSurvives
    BY DEF IInv, HistoryInv, NewestSurvives, Unexpired, Covered
<1> QED BY <1>1, SpecIInv, PTL

\* An event has history rows of one batch, unless retention has taken a copy of it.
THEOREM EventsHaveOneBatch == Spec => []HistoryUnderOneBatch
<1>1. IInv => HistoryUnderOneBatch
    BY DEF IInv, CurrentInv
<1> QED BY <1>1, SpecIInv, PTL

\* Two loads of one batch hold the same rows, unless retention has taken a copy of one.
THEOREM LoadsAreEqual == Spec => []RepeatsAreWhole
<1>1. IInv => RepeatsAreWhole
    BY DEF IInv, CurrentInv
<1> QED BY <1>1, SpecIInv, PTL
===============================================================================
