---------------------------- MODULE QuerySupervisor ----------------------------
(***************************************************************************)
(* The driver process of the streaming queries: it starts the query group  *)
(* of each spec, and stops what it has started on SIGINT or SIGTERM.  The  *)
(* signal handler runs in the thread of start, which waits meanwhile.      *)
(***************************************************************************)
EXTENDS Naturals, Sequences

CONSTANTS
    QueryGroups,    \* per spec of the configuration, its queries in the order of their start
    MaxLives,       \* bound on the processes started
    MaxFailures     \* bound on the queries that end with an exception

VARIABLES
    active,         \* queries that are running (query.isActive)
    driver,         \* the process: down, starting, or waiting for a termination
    group,          \* the spec that start has reached
    launched,       \* queries that start_query_group has started for this spec
    queries,        \* self.queries, as a set
    stopping,       \* stop: not called, under way, or returned
    promised,       \* queries of the groups that were started when the signal came
    lives,
    failures

supervisorVars == <<active, driver, group, launched, queries, stopping, promised, lives, failures>>

QueriesOf(g) == {QueryGroups[g][i] : i \in DOMAIN QueryGroups[g]}

AllQueries == UNION {QueriesOf(g) : g \in DOMAIN QueryGroups}

\* There is a spec, and the names of queries start with the name of their spec.
ASSUME SupervisorAssumption ==
    /\ QueryGroups \in Seq(Seq(AllQueries)) /\ QueryGroups # <<>>
    /\ \A g, h \in DOMAIN QueryGroups : g # h => QueriesOf(g) \intersect QueriesOf(h) = {}
    /\ MaxLives \in Nat
    /\ MaxFailures \in Nat

SupervisorTypeOK ==
    /\ active \subseteq AllQueries
    /\ driver \in {"down", "starting", "waiting"}
    /\ group \in 1..Len(QueryGroups)
    /\ launched \in 0..Len(QueryGroups[group])
    /\ queries \subseteq AllQueries
    /\ stopping \in {"no", "busy", "done"}
    /\ promised \subseteq AllQueries
    /\ lives \in 0..MaxLives
    /\ failures \in 0..MaxFailures

SupervisorInit ==
    /\ active = {}
    /\ driver = "down"
    /\ group = 1
    /\ launched = 0
    /\ queries = {}
    /\ stopping = "no"
    /\ promised = {}
    /\ lives = 0
    /\ failures = 0

\* A new process, and in it a new supervisor.
Boot ==
    /\ driver = "down" /\ lives < MaxLives
    /\ driver' = "starting"
    /\ group' = 1
    /\ launched' = 0
    /\ queries' = {}
    /\ stopping' = "no"
    /\ promised' = {}
    /\ lives' = lives + 1
    /\ UNCHANGED <<active, failures>>

\* start_query_group starts its next query; only its return value tells the
\* supervisor of the four.
Launch ==
    /\ driver = "starting" /\ stopping # "busy"
    /\ launched < Len(QueryGroups[group])
    /\ active' = active \union {QueryGroups[group][launched + 1]}
    /\ launched' = launched + 1
    /\ UNCHANGED <<driver, group, queries, stopping, promised, lives, failures>>

\* Faulty: the queries of a group replace those of the groups before.
GroupReplaces ==
    /\ driver = "starting" /\ stopping # "busy"
    /\ launched = Len(QueryGroups[group])
    /\ queries' = QueriesOf(group)
    /\ IF group = Len(QueryGroups)
       THEN driver' = "waiting" /\ UNCHANGED <<group, launched>>
       ELSE group' = group + 1 /\ launched' = 0 /\ UNCHANGED driver
    /\ UNCHANGED <<active, stopping, promised, lives, failures>>

\* self.queries.extend, and on to the next spec or to awaitAnyTermination.
GroupStarted ==
    /\ driver = "starting" /\ stopping # "busy"
    /\ launched = Len(QueryGroups[group])
    /\ queries' = queries \union QueriesOf(group)
    /\ IF group = Len(QueryGroups)
       THEN driver' = "waiting" /\ UNCHANGED <<group, launched>>
       ELSE group' = group + 1 /\ launched' = 0 /\ UNCHANGED driver
    /\ UNCHANGED <<active, stopping, promised, lives, failures>>

\* The first signal; stop returns at once for the others.
Signal ==
    /\ driver # "down" /\ stopping = "no"
    /\ stopping' = "busy"
    /\ promised' = IF driver = "waiting" THEN AllQueries
                   ELSE UNION {QueriesOf(g) : g \in 1..(group - 1)}
    /\ UNCHANGED <<active, driver, group, launched, queries, lives, failures>>

\* The order of self.queries.
Precedes(p, q) ==
    \E g, h \in DOMAIN QueryGroups :
        \E i \in DOMAIN QueryGroups[g], j \in DOMAIN QueryGroups[h] :
            /\ p = QueryGroups[g][i] /\ q = QueryGroups[h][j]
            /\ \/ g < h
               \/ g = h /\ i < j

\* query.stop() ends the next query, wherever it is in its batch.
StopQuery(q) ==
    /\ stopping = "busy"
    /\ q \in queries \intersect active
    /\ \A p \in queries \intersect active : ~Precedes(p, q)
    /\ active' = active \ {q}
    /\ UNCHANGED <<driver, group, launched, queries, stopping, promised, lives, failures>>

\* query.stop() waits for the end of its query, so awaitTermination finds none running.
StopReturns ==
    /\ stopping = "busy"
    /\ queries \intersect active = {}
    /\ stopping' = "done"
    /\ UNCHANGED <<active, driver, group, launched, queries, promised, lives, failures>>

\* An exception in its thread ends a query.
QueryFails(q) ==
    /\ q \in active /\ failures < MaxFailures
    /\ active' = active \ {q}
    /\ failures' = failures + 1
    /\ UNCHANGED <<driver, group, launched, queries, stopping, promised, lives>>

\* The process ends, in whatever way.
DriverDies ==
    /\ driver # "down"
    /\ driver' = "down"
    /\ active' = {}
    /\ stopping' = "no"
    /\ queries' = {}
    /\ promised' = {}
    /\ group' = 1
    /\ launched' = 0
    /\ UNCHANGED <<lives, failures>>

\* When stop returns, no query of a spec that start had dealt with by the time of
\* the signal runs any more, whatever start does afterwards.  The queries of the
\* group under way and of later groups are beyond its reach: they start after it,
\* and a second signal does nothing.
PromisedStop == stopping = "done" => active \intersect promised = {}
===============================================================================
