----------------------------- MODULE EventIngest -----------------------------
(***************************************************************************)
(* The event gateway, a Pub/Sub topic with its push subscription, and the  *)
(* push consumer.  The services keep no state: what they remember is in    *)
(* the objects of the landing and bronze buckets, whose names hold the     *)
(* event and the hour of the write, and which are never overwritten.       *)
(* Every model in services/pubsub_consumer.py passes its quality rules, so *)
(* the quarantine branch of consume is not reachable and not modelled.     *)
(***************************************************************************)
EXTENDS Naturals, Sequences, FiniteSets

CONSTANTS
    Events,         \* events that satisfy their contract
    Malformed,      \* messages of other publishers that fail model_validate
    Handlers,       \* requests the gateway handles at a time
    Consumers,      \* pushes the consumer handles at a time
    MaxAttempts,    \* max_delivery_attempts of the subscription
    MaxRequests,    \* requests to the gateway, retries of the caller included
    MaxHour

ASSUME IngestAssumption ==
    /\ Events \intersect Malformed = {}
    /\ MaxAttempts \in Nat \ {0}
    /\ MaxRequests \in Nat
    /\ MaxHour \in Nat

VARIABLES
    hour,           \* the hour of utcnow
    landing,        \* objects in the landing bucket
    bronze,         \* objects in the bronze bucket
    topic,          \* messages of the topic, in the order they were published
    request,        \* what each gateway handler is doing
    push,           \* what each consumer handler is doing
    accepted,       \* events answered with ACCEPTED
    orphaned,       \* objects landed by requests that failed before the publish
    requests        \* requests so far

vars == <<hour, landing, bronze, topic, request, push, accepted, orphaned, requests>>

\* object_name: layer, domain, entity and business key are functions of the event.
ObjectName == [event: Events, hour: 0..MaxHour]

Message == [event: Events \union Malformed, state: {"ready", "out", "acked", "dead"},
            attempts: 0..MaxAttempts]

Idle == [phase |-> "idle"]
Handling == [phase: {"named", "landed"}, object: ObjectName]
Pushing == [phase: {"named"}, message: Nat, object: ObjectName]

TypeOK ==
    /\ hour \in 0..MaxHour
    /\ landing \subseteq ObjectName
    /\ bronze \subseteq ObjectName
    /\ topic \in Seq(Message)
    /\ request \in [Handlers -> Handling \union {Idle}]
    /\ push \in [Consumers -> Pushing \union {Idle}]
    /\ \A c \in Consumers : push[c] # Idle => push[c].message \in DOMAIN topic
    /\ accepted \subseteq Events
    /\ orphaned \subseteq landing
    /\ requests \in 0..MaxRequests

Init ==
    /\ hour = 0
    /\ landing = {}
    /\ bronze = {}
    /\ topic = <<>>
    /\ request = [g \in Handlers |-> Idle]
    /\ push = [c \in Consumers |-> Idle]
    /\ accepted = {}
    /\ orphaned = {}
    /\ requests = 0

-------------------------------------------------------------------------------
\* The gateway

NewMessage(e) == [event |-> e, state |-> "ready", attempts |-> 0]

\* ingest_event validates the body and write_json chooses the object's name.
ReceiveRequest(g, e) ==
    /\ request[g] = Idle
    /\ requests < MaxRequests
    /\ requests' = requests + 1
    /\ request' = [request EXCEPT
            ![g] = [phase |-> "named", object |-> [event |-> e, hour |-> hour]]]
    /\ UNCHANGED <<hour, landing, bronze, topic, push, accepted, orphaned>>

\* Faulty: the upload has no generation precondition.
LandOver(g) ==
    /\ request[g] # Idle /\ request[g].phase = "named"
    /\ landing' = landing \union {request[g].object}
    /\ request' = [request EXCEPT ![g].phase = "landed"]
    /\ UNCHANGED <<hour, bronze, topic, push, accepted, orphaned, requests>>

Land(g) ==
    /\ request[g] # Idle /\ request[g].phase = "named"
    /\ request[g].object \notin landing
    /\ landing' = landing \union {request[g].object}
    /\ request' = [request EXCEPT ![g].phase = "landed"]
    /\ UNCHANGED <<hour, bronze, topic, push, accepted, orphaned, requests>>

\* The object exists, the upload fails, or its answer is lost.
LandFails(g) ==
    /\ request[g] # Idle /\ request[g].phase = "named"
    /\ \/ UNCHANGED <<landing, orphaned>>
       \/ /\ request[g].object \notin landing
          /\ landing' = landing \union {request[g].object}
          /\ orphaned' = orphaned \union {request[g].object}
    /\ request' = [request EXCEPT ![g] = Idle]
    /\ UNCHANGED <<hour, bronze, topic, push, accepted, requests>>

Publish(g) ==
    /\ request[g] # Idle /\ request[g].phase = "landed"
    /\ topic' = Append(topic, NewMessage(request[g].object.event))
    /\ accepted' = accepted \union {request[g].object.event}
    /\ request' = [request EXCEPT ![g] = Idle]
    /\ UNCHANGED <<hour, landing, bronze, push, orphaned, requests>>

\* The publish fails, is in doubt, or the instance dies; the caller has an error.
PublishFails(g) ==
    /\ request[g] # Idle /\ request[g].phase = "landed"
    /\ \/ /\ orphaned' = orphaned \union {request[g].object}
          /\ UNCHANGED topic
       \/ /\ topic' = Append(topic, NewMessage(request[g].object.event))
          /\ UNCHANGED orphaned
    /\ request' = [request EXCEPT ![g] = Idle]
    /\ UNCHANGED <<hour, landing, bronze, push, accepted, requests>>

-------------------------------------------------------------------------------
\* The subscription and the consumer

\* Once for each malformed message.
PublishForeign(e) ==
    /\ \A i \in DOMAIN topic : topic[i].event # e
    /\ topic' = Append(topic, NewMessage(e))
    /\ UNCHANGED <<hour, landing, bronze, request, push, accepted, orphaned, requests>>

\* A push that consume can decode; it names the object before it writes.
Deliver(c, i) ==
    /\ push[c] = Idle
    /\ topic[i].state = "ready"
    /\ topic' = [topic EXCEPT ![i].state = "out", ![i].attempts = @ + 1]
    /\ push' = IF topic[i].event \in Malformed THEN push
               ELSE [push EXCEPT ![c] =
                        [phase |-> "named", message |-> i,
                         object |-> [event |-> topic[i].event, hour |-> hour]]]
    /\ UNCHANGED <<hour, landing, bronze, request, accepted, orphaned, requests>>

\* Faulty: the limit is tested before the last attempt is counted.
GiveUpLate(i) ==
    /\ topic[i].state = "out"
    /\ topic' = [topic EXCEPT ![i].state = IF topic[i].attempts <= MaxAttempts
                                           THEN "ready" ELSE "dead"]
    /\ UNCHANGED <<hour, landing, bronze, request, push, accepted, orphaned, requests>>

\* An error response, or no response within the deadline: the message is pushed
\* again until its attempts are used up.
GiveUp(i) ==
    /\ topic[i].state = "out"
    /\ topic' = [topic EXCEPT ![i].state = IF topic[i].attempts < MaxAttempts
                                           THEN "ready" ELSE "dead"]
    /\ UNCHANGED <<hour, landing, bronze, request, push, accepted, orphaned, requests>>

\* Faulty: an object that exists is taken for an earlier success, and so is a
\* write that failed.
StoreAnyway(c) ==
    LET i == push[c].message IN
    /\ push[c] # Idle
    /\ bronze' \in {bronze, bronze \union {push[c].object}}
    /\ push' = [push EXCEPT ![c] = Idle]
    /\ topic' = IF topic[i].state = "out" THEN [topic EXCEPT ![i].state = "acked"] ELSE topic
    /\ UNCHANGED <<hour, landing, request, accepted, orphaned, requests>>

\* The write succeeds and consume answers 204, which counts if the push is still
\* being waited for.
Store(c) ==
    LET i == push[c].message IN
    /\ push[c] # Idle
    /\ push[c].object \notin bronze
    /\ bronze' = bronze \union {push[c].object}
    /\ push' = [push EXCEPT ![c] = Idle]
    /\ topic' = IF topic[i].state = "out" THEN [topic EXCEPT ![i].state = "acked"] ELSE topic
    /\ UNCHANGED <<hour, landing, request, accepted, orphaned, requests>>

\* The object exists, the upload fails, or its answer or that of consume is lost.
StoreFails(c) ==
    /\ push[c] # Idle
    /\ bronze' \in {bronze, bronze \union {push[c].object}}
    /\ push' = [push EXCEPT ![c] = Idle]
    /\ UNCHANGED <<hour, landing, topic, request, accepted, orphaned, requests>>

Tick ==
    /\ hour < MaxHour
    /\ hour' = hour + 1
    /\ UNCHANGED <<landing, bronze, topic, request, push, accepted, orphaned, requests>>

Next ==
    \/ \E g \in Handlers :
        \/ \E e \in Events : ReceiveRequest(g, e)
        \/ Land(g)
        \/ LandFails(g)
        \/ Publish(g)
        \/ PublishFails(g)
    \/ \E e \in Malformed : PublishForeign(e)
    \/ \E i \in DOMAIN topic : \/ \E c \in Consumers : Deliver(c, i)
                               \/ GiveUp(i)
    \/ \E c \in Consumers : \/ Store(c)
                            \/ StoreFails(c)
    \/ Tick

Spec == Init /\ [][Next]_vars

-------------------------------------------------------------------------------
MessagesOf(e) == {i \in DOMAIN topic : topic[i].event = e}

InHand(e) == {g \in Handlers : /\ request[g] # Idle
                               /\ request[g].phase = "landed"
                               /\ request[g].object.event = e}

Landed(e) == {o \in landing : o.event = e}

\* Each landed object ends in one message or is orphaned by one failure: however
\* callers retry and handlers race, the landing object admits one publish per
\* event and hour, and nothing reaches the topic that was not landed first.
LandingAccounted ==
    \A e \in Events :
        Cardinality(Landed(e)) = Cardinality(MessagesOf(e)) + Cardinality(InHand(e))
                                 + Cardinality({o \in orphaned : o.event = e})

\* The answers can be trusted, also when late answers, redeliveries and existing
\* objects overlap.  ACCEPTED: the event is on the topic and can be replayed from
\* landing.  Acknowledged: the message was well formed and is in bronze, where
\* there is nothing but events that were landed and published.
AnswersHold ==
    /\ \A e \in accepted : Landed(e) # {} /\ MessagesOf(e) # {}
    /\ \A i \in DOMAIN topic : topic[i].state = "acked" =>
            \E o \in bronze : o.event = topic[i].event
    /\ \A o \in bronze : MessagesOf(o.event) # {} /\ Landed(o.event) # {}
===============================================================================
