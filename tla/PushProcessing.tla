---------------------------- MODULE PushProcessing ----------------------------
(***************************************************************************)
(* process_push, behind a push subscription of the topic.  Each instance   *)
(* of the subscriber has its own IdempotencyStore in memory.  The caller   *)
(* of process_push is not in the repository: it is taken to acknowledge    *)
(* every status but retry, and to call it for one push at a time, since it *)
(* blocks and the store has no lock.  The subscription is external except  *)
(* for its limit on attempts.                                              *)
(***************************************************************************)
EXTENDS TopicPublisher, FiniteSets

CONSTANTS
    Instances,
    MaxAttempts,    \* max_delivery_attempts
    MaxRestarts,
    MaxSeeks

ASSUME PushAssumption ==
    /\ IsFiniteSet(Instances)
    /\ MaxAttempts \in Nat \ {0}
    /\ {MaxRestarts, MaxSeeks} \subseteq Nat

VARIABLES
    delivery,       \* per message: state and attempts
    store,          \* per instance: the event ids it has seen
    running,        \* per instance: the message whose handler runs, or 0
    runs,           \* per event id: handlers started
    processed,      \* event ids whose handler returned
    raised,         \* event ids whose handler, or the router, raised
    skipped,        \* offsets that a seek passed over before they were acknowledged
    restarts,
    seeks

pushVars == <<delivery, store, running, runs, processed, raised, skipped, restarts, seeks>>

Delivery == [state: {"ready", "out", "acked", "dead"}, attempts: 0..MaxAttempts]

PushTypeOK ==
    /\ delivery \in [1..MaxMessages -> Delivery]
    /\ store \in [Instances -> SUBSET EventIds]
    /\ running \in [Instances -> 0..Len(topic)]
    /\ runs \in [EventIds -> Nat]
    /\ processed \subseteq EventIds
    /\ raised \subseteq EventIds
    /\ skipped \subseteq 1..Len(topic)
    /\ restarts \in 0..MaxRestarts
    /\ seeks \in 0..MaxSeeks

PushInit ==
    /\ delivery = [i \in 1..MaxMessages |-> [state |-> "ready", attempts |-> 0]]
    /\ store = [s \in Instances |-> {}]
    /\ running = [s \in Instances |-> 0]
    /\ runs = [e \in EventIds |-> 0]
    /\ processed = {}
    /\ raised = {}
    /\ skipped = {}
    /\ restarts = 0
    /\ seeks = 0

\* decode_push_envelope raises on these.
Undecodable(m) == m.origin \in {"not_json", "not_text"}

\* The router knows the topic that build_message writes into the payload; messages of
\* other publishers name none.
Routed(m) == m.origin = "built"

Pushed(i) == [state |-> "out", attempts |-> delivery[i].attempts + 1]
Acked(i) == [state |-> "acked", attempts |-> delivery[i].attempts + 1]

CanPush(s, i) == running[s] = 0 /\ delivery[i].state = "ready"

\* Answered without a handler: an exception leaves the push open, a quarantine status
\* and an ignored duplicate are acknowledged.
AnswerAtOnce(s, i) ==
    /\ CanPush(s, i)
    /\ \/ /\ Undecodable(topic[i])
          /\ delivery' = [delivery EXCEPT ![i] = Pushed(i)]
       \/ /\ ~Undecodable(topic[i])
          /\ topic[i].origin = "anonymous" \/ topic[i].event_id \in store[s]
          /\ delivery' = [delivery EXCEPT ![i] = Acked(i)]
    /\ UNCHANGED <<store, running, runs, processed, raised, skipped, restarts, seeks>>

\* Faulty: the id is remembered when the handler has returned.
RouteUnseen(s, i) ==
    /\ CanPush(s, i)
    /\ ~Undecodable(topic[i]) /\ topic[i].origin # "anonymous"
    /\ topic[i].event_id \notin store[s]
    /\ delivery' = [delivery EXCEPT ![i] = Pushed(i)]
    /\ running' = [running EXCEPT ![s] = i]
    /\ runs' = [runs EXCEPT ![topic[i].event_id] = @ + 1]
    /\ UNCHANGED <<store, processed, raised, skipped, restarts, seeks>>

\* The first time: the id is remembered, then the handler starts.
Route(s, i) ==
    /\ CanPush(s, i)
    /\ ~Undecodable(topic[i]) /\ topic[i].origin # "anonymous"
    /\ topic[i].event_id \notin store[s]
    /\ delivery' = [delivery EXCEPT ![i] = Pushed(i)]
    /\ store' = [store EXCEPT ![s] = @ \union {topic[i].event_id}]
    /\ running' = [running EXCEPT ![s] = i]
    /\ runs' = [runs EXCEPT ![topic[i].event_id] = @ + 1]
    /\ UNCHANGED <<processed, raised, skipped, restarts, seeks>>

\* The status processed; a late answer counts only while a push is awaited.
HandlerReturns(s) ==
    LET i == running[s] IN
    /\ i # 0 /\ Routed(topic[i])
    /\ processed' = processed \union {topic[i].event_id}
    /\ delivery' = IF delivery[i].state = "out"
                   THEN [delivery EXCEPT ![i].state = "acked"] ELSE delivery
    /\ running' = [running EXCEPT ![s] = 0]
    /\ UNCHANGED <<store, runs, raised, skipped, restarts, seeks>>

\* The status retry: the id stays in the store.
HandlerRaises(s) ==
    LET i == running[s] IN
    /\ i # 0
    /\ raised' = raised \union {topic[i].event_id}
    /\ running' = [running EXCEPT ![s] = 0]
    /\ UNCHANGED <<delivery, store, runs, processed, skipped, restarts, seeks>>

\* Faulty: a push is given up after a number of attempts that has no limit.
GiveUpNever(i) ==
    /\ delivery[i].state = "out"
    /\ delivery' = [delivery EXCEPT ![i].state = "ready"]
    /\ UNCHANGED <<store, running, runs, processed, raised, skipped, restarts, seeks>>

\* A push that was refused or not answered in time.
GiveUp(i) ==
    /\ delivery[i].state = "out"
    /\ delivery' = [delivery EXCEPT ![i].state =
            IF delivery[i].attempts < MaxAttempts THEN "ready" ELSE "dead"]
    /\ UNCHANGED <<store, running, runs, processed, raised, skipped, restarts, seeks>>

\* Faulty: the store outlives the instance, its unfinished ids included.
InstanceRestartsKnowing(s) ==
    /\ restarts < MaxRestarts
    /\ restarts' = restarts + 1
    /\ running' = [running EXCEPT ![s] = 0]
    /\ UNCHANGED <<delivery, store, runs, processed, raised, skipped, seeks>>

InstanceRestarts(s) ==
    /\ restarts < MaxRestarts
    /\ restarts' = restarts + 1
    /\ store' = [store EXCEPT ![s] = {}]
    /\ running' = [running EXCEPT ![s] = 0]
    /\ UNCHANGED <<delivery, runs, processed, raised, skipped, seeks>>

\* seek_subscription_to_timestamp, to the time at which i was published: what came before
\* is acknowledged, what came later is delivered anew.  The topic retains its messages.
Seek(i) ==
    /\ seeks < MaxSeeks
    /\ seeks' = seeks + 1
    /\ delivery' = [j \in 1..MaxMessages |->
            IF j >= i THEN [state |-> "ready", attempts |-> 0]
            ELSE IF delivery[j].state = "dead" THEN delivery[j]
            ELSE [delivery[j] EXCEPT !.state = "acked"]]
    /\ skipped' = skipped \union {j \in 1..(i - 1) : delivery[j].state \in {"ready", "out"}}
    /\ UNCHANGED <<store, running, runs, processed, raised, restarts>>

PushNext ==
    \/ \E s \in Instances, i \in DOMAIN topic :
        AnswerAtOnce(s, i) \/ Route(s, i)
    \/ \E s \in Instances : HandlerReturns(s) \/ HandlerRaises(s) \/ InstanceRestarts(s)
    \/ \E i \in DOMAIN topic : GiveUp(i) \/ Seek(i)

\* However often an event is published, replayed and redelivered, its handler starts at
\* most once in the life of an instance: replays do not bring back what has failed.
RunsAreBounded == \A e \in EventIds : runs[e] <= Cardinality(Instances) + restarts

\* An acknowledged message with an event id was processed, unless its handler raised or a
\* seek passed over it.  That is how events are lost: the redelivery meets an id that is
\* remembered, and is acknowledged.  A restart in the middle of a handler loses none.
AckedIsHandledOrRaised ==
    \A i \in DOMAIN topic :
        delivery[i].state = "acked" /\ topic[i].origin # "anonymous" /\ i \notin skipped
        => topic[i].event_id \in processed \union raised
===============================================================================
