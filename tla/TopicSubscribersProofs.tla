------------------------ MODULE TopicSubscribersProofs ------------------------
(***************************************************************************)
(* Of any publisher and any subscription: the topic is a MessageTopic, a   *)
(* returned id stands for a published message, handlers start at most once *)
(* in the life of an instance, what is acknowledged was handled or raised, *)
(* what the pipeline reads is accounted for, a row of the table is the     *)
(* latest of its pane, and a second row of a window comes of late elements.*)
(***************************************************************************)
EXTENDS TopicSubscribers, FiniteSetTheorems, SequenceTheorems, WellFoundedInduction, TLAPS

-------------------------------------------------------------------------------
\* The topic and the publisher

Grows ==
    \/ topic' = topic
    \/ Len(topic) < MaxMessages /\ \E m \in Messages \ Refused : topic' = Append(topic, m)

\* What the call of publish_many has done so far.
ListHandedOver ==
    call.kind = "many" /\ call.failed = FALSE =>
        \A j \in 1..(call.next - 1) : \E i \in DOMAIN topic : topic[i] = call.list[j]

LEMMA AppendFacts ==
    ASSUME NEW S, NEW s \in Seq(S), NEW m \in S
    PROVE  /\ Append(s, m) \in Seq(S)
           /\ Len(Append(s, m)) = Len(s) + 1
           /\ DOMAIN s = 1..Len(s)
           /\ DOMAIN Append(s, m) = 1..(Len(s) + 1)
           /\ Len(s) \in Nat
           /\ \A i \in 1..Len(s) : Append(s, m)[i] = s[i]
           /\ Append(s, m)[Len(s) + 1] = m
    OBVIOUS

\* Each step of the program, or of its environment, by what it does to the topic.
LEMMA StepGrows ==
    ASSUME subject \in Subjects, PublisherTypeOK, [Next]_vars
    PROVE  Grows
<1> USE DEF PublisherTypeOK, Grows, publisherVars
<1>1. CASE UNCHANGED vars
    BY <1>1 DEF vars
<1>2. CASE Push
    BY <1>2 DEF Push
<1>3. CASE Stream
    BY <1>3 DEF Stream
<1>4. CASE Publish /\ subject = "publisher"
    <2>1. PublisherNext
        BY <1>4 DEF Publish
    <2>2. CASE \E m \in Built : CallSync(m)
        BY <2>2 DEF CallSync
    <2>3. CASE TrySucceeds
        BY <2>3 DEF TrySucceeds, Room, Trying, Handing, Idle, Built
    <2>4. CASE TryFails
        BY <2>4 DEF TryFails, NoId, Room, Trying, Handing, Idle, Built
    <2>5. CASE \E list \in Lists : CallMany(list)
        BY <2>5 DEF CallMany
    <2>6. CASE HandOver
        <3>1. call \in Handing
            BY <2>6 DEF HandOver, Trying, Handing, Idle
        <3>2. call.list \in Seq(Built) /\ call.next \in Nat
            BY <3>1, PublisherAssumption DEF Handing
        <3>3. call.next \in 1..Len(call.list)
            BY <2>6, <3>2, <3>1 DEF HandOver, Handing
        <3>4. call.list[call.next] \in Messages
            BY <3>2, <3>3 DEF Built
        <3> QED BY <2>6, <3>4 DEF HandOver, NoId, Room
    <2>7. CASE AwaitAll
        BY <2>7 DEF AwaitAll
    <2>8. CASE PublisherRestarts
        BY <2>8 DEF PublisherRestarts
    <2>9. CASE \E m \in Messages \ Built : Arrives(m)
        BY <2>9 DEF Arrives, Room
    <2> QED BY <2>1, <2>2, <2>3, <2>4, <2>5, <2>6, <2>7, <2>8, <2>9 DEF PublisherNext
<1>5. CASE Publish /\ subject # "publisher"
    <2>1. PICK stream \in Streams[subject] :
            Len(topic) < Len(stream) /\ Arrives(stream[Len(topic) + 1])
        BY <1>5 DEF Publish
    <2>2. subject \in Subscriptions
        BY <1>5, <2>1 DEF Subjects
    <2>3. stream \in Seq(Messages \ Refused)
        BY <2>1, <2>2, StreamsAssumption
    <2>4. stream[Len(topic) + 1] \in Messages \ Refused
        BY <2>1, <2>3
    <2> QED BY <2>1, <2>4 DEF Arrives, Room
<1> QED BY <1>1, <1>2, <1>3, <1>4, <1>5 DEF Next

\* The call of the publisher: its kinds, and how it proceeds.
LEMMA CallKinds ==
    ASSUME call \in {Idle} \union Trying \union Handing
    PROVE  /\ call.kind = "sync" => call \in Trying
           /\ call.kind = "many" => call \in Handing
    BY DEF Idle, Trying, Handing

LEMMA NextTry ==
    ASSUME NEW c \in Trying, c.try < MaxTries
    PROVE  [c EXCEPT !.try = @ + 1] \in Trying
    BY PublisherAssumption DEF Trying

LEMMA NextHanding ==
    ASSUME call \in Handing, NEW failed \in BOOLEAN
    PROVE  /\ HandedOver(failed) \in Handing
           /\ HandedOver(failed).list = call.list
           /\ HandedOver(failed).next = call.next + 1
           /\ HandedOver(failed).failed = failed
    BY DEF Handing, HandedOver

\* The two ways in which a message is handed over without an end of the call.
LEMMA HandOverCall ==
    ASSUME PublisherTypeOK, HandOver
    PROVE  /\ call \in Handing /\ call.next \in 1..Len(call.list)
           /\ call.list \in Seq(Built) /\ call.list[call.next] \in Built
           /\ \/ call' = Idle
              \/ /\ call' \in Handing
                 /\ call'.list = call.list /\ call'.next = call.next + 1
                 /\ call'.failed = FALSE =>
                        call.failed = FALSE /\ topic' = Append(topic, call.list[call.next])
<1>1. call \in Handing
    BY CallKinds DEF PublisherTypeOK, HandOver
<1>2. call.list \in Seq(Built) /\ call.next \in Nat \ {0} /\ call.failed \in BOOLEAN
    BY <1>1, PublisherAssumption DEF Handing
<1>3. call.next \in 1..Len(call.list)
    BY <1>2 DEF HandOver
<1>4. call.list[call.next] \in Built
    BY <1>2, <1>3
<1>6. CASE call' = HandedOver(call.failed) /\ topic' = Append(topic, call.list[call.next])
    BY <1>1, <1>2, <1>3, <1>4, <1>6, NextHanding
<1>7. CASE call' = HandedOver(TRUE)
    BY <1>1, <1>2, <1>3, <1>4, <1>7, NextHanding
<1>8. CASE call' = Idle
    BY <1>1, <1>2, <1>3, <1>4, <1>8
<1> QED BY <1>6, <1>7, <1>8 DEF HandOver

LEMMA PublisherTyped ==
    ASSUME subject \in Subjects, PublisherTypeOK, [Next]_vars
    PROVE  PublisherTypeOK'
<1>1. topic' \in Seq(Messages)
    BY StepGrows DEF Grows, PublisherTypeOK
<1>2. Built \subseteq Messages
    BY DEF Built
<1>3. CASE UNCHANGED <<call, paused, confirmed>>
    BY <1>1, <1>3 DEF PublisherTypeOK
<1>4. CASE PublisherNext
    <2> USE <1>1 DEF PublisherTypeOK
    <2>1. CASE \E m \in Built : CallSync(m)
        BY <2>1, PublisherAssumption DEF CallSync, Trying
    <2>2. CASE TrySucceeds
        <3>1. call \in Trying
            BY <2>2, CallKinds DEF TrySucceeds
        <3> QED BY <2>2, <3>1 DEF TrySucceeds, Trying
    <2>3. CASE TryFails
        <3>1. call \in Trying
            BY <2>3, CallKinds DEF TryFails
        <3>2. call.message \in Built
            BY <3>1 DEF Trying
        <3>3. call' \in {Idle} \union Trying
            BY <2>3, <3>1, NextTry DEF TryFails
        <3>4. paused' \subseteq {m.ordering_key : m \in Built}
            BY <2>3, <3>2 DEF TryFails, NoId
        <3> QED BY <2>3, <3>3, <3>4 DEF TryFails
    <2>4. CASE \E list \in Lists : CallMany(list)
        BY <2>4 DEF CallMany, Handing
    <2>5. CASE HandOver
        <3>1. call' \in {Idle} \union Handing
            BY <2>5, HandOverCall
        <3>2. paused' \subseteq {m.ordering_key : m \in Built}
            BY <2>5, HandOverCall DEF HandOver, NoId
        <3> QED BY <2>5, <3>1, <3>2 DEF HandOver
    <2>6. CASE AwaitAll
        <3>1. call \in Handing
            BY <2>6, CallKinds DEF AwaitAll
        <3>2. call.list \in Seq(Built)
            BY <3>1, PublisherAssumption DEF Handing
        <3>3. {call.list[i] : i \in DOMAIN call.list} \subseteq Built
            BY <3>2
        <3> QED BY <2>6, <3>3 DEF AwaitAll
    <2>7. CASE PublisherRestarts
        BY <2>7 DEF PublisherRestarts
    <2>8. CASE \E m \in Messages \ Built : Arrives(m)
        BY <2>8 DEF Arrives
    <2> QED BY <1>4, <2>1, <2>2, <2>3, <2>4, <2>5, <2>6, <2>7, <2>8 DEF PublisherNext
<1>5. UNCHANGED <<call, paused, confirmed>> \/ PublisherNext
    BY DEF Next, Publish, Push, Stream, vars, publisherVars, Arrives
<1> QED BY <1>3, <1>4, <1>5

\* What the topic holds stays where it is.
LEMMA TopicStays ==
    ASSUME subject \in Subjects, PublisherTypeOK, [Next]_vars
    PROVE  /\ DOMAIN topic \subseteq DOMAIN topic'
           /\ Len(topic) <= Len(topic')
           /\ \A i \in DOMAIN topic : topic'[i] = topic[i]
<1>1. topic \in Seq(Messages)
    BY DEF PublisherTypeOK
<1> QED BY <1>1, StepGrows, AppendFacts DEF Grows

\* A list whose messages were all handed over without a failure is published.
LEMMA ListHandedOverStep ==
    ASSUME subject \in Subjects, PublisherTypeOK, ListHandedOver, ConfirmedIsPublished, [Next]_vars
    PROVE  ListHandedOver' /\ ConfirmedIsPublished'
<1>1. topic \in Seq(Messages)
    BY DEF PublisherTypeOK
<1>2. Built \subseteq Messages
    BY DEF Built
<1>3. \A m \in confirmed : \E i \in DOMAIN topic' : topic'[i] = m
    BY TopicStays DEF ConfirmedIsPublished
<1>4. CASE UNCHANGED <<call, confirmed>>
    BY <1>3, <1>4, TopicStays DEF ListHandedOver, ConfirmedIsPublished
<1>5. CASE \E m \in Built : CallSync(m)
    BY <1>3, <1>5 DEF CallSync, ListHandedOver, ConfirmedIsPublished
<1>6. CASE TrySucceeds
    <2>1. call.message \in Messages
        BY <1>2, <1>6, CallKinds DEF TrySucceeds, PublisherTypeOK, Trying
    <2>2. \E i \in DOMAIN topic' : topic'[i] = call.message
        BY <1>1, <1>6, <2>1, AppendFacts DEF TrySucceeds
    <2> QED BY <1>3, <1>6, <2>2 DEF TrySucceeds, ListHandedOver, ConfirmedIsPublished, Idle
<1>7. CASE TryFails
    <2>1. call'.kind # "many"
        BY <1>7, CallKinds, NextTry DEF TryFails, PublisherTypeOK, Idle, Trying
    <2> QED BY <1>3, <1>7, <2>1 DEF TryFails, ListHandedOver, ConfirmedIsPublished
<1>8. CASE \E list \in Lists : CallMany(list)
    BY <1>3, <1>8 DEF CallMany, ListHandedOver, ConfirmedIsPublished
<1>9. CASE HandOver
    <2>1. ConfirmedIsPublished'
        BY <1>3, <1>9 DEF HandOver, ConfirmedIsPublished
    <2>2. CASE call' = Idle
        BY <2>1, <2>2 DEF ListHandedOver, Idle
    <2>3. CASE call' # Idle
        <3>1. SUFFICES ASSUME call'.failed = FALSE, NEW j \in 1..(call'.next - 1)
                       PROVE  \E i \in DOMAIN topic' : topic'[i] = call'.list[j]
            BY <2>1 DEF ListHandedOver
        <3>2. call \in Handing /\ call.next \in Nat /\ call'.next = call.next + 1
              /\ call'.list = call.list /\ call.failed = FALSE
              /\ topic' = Append(topic, call.list[call.next]) /\ call.list[call.next] \in Messages
            BY <1>2, <1>9, <2>3, <3>1, HandOverCall DEF Handing
        <3>3. CASE j = call.next
            BY <1>1, <3>2, <3>3, AppendFacts
        <3>4. CASE j # call.next
            <4>1. j \in 1..(call.next - 1)
                BY <3>2, <3>4
            <4>2. PICK i \in DOMAIN topic : topic[i] = call.list[j]
                BY <3>2, <4>1 DEF ListHandedOver, Handing
            <4> QED BY <3>2, <4>2, TopicStays
        <3> QED BY <3>3, <3>4
    <2> QED BY <2>2, <2>3
<1>10. CASE AwaitAll
    <2>1. call \in Handing
        BY <1>10, CallKinds DEF AwaitAll, PublisherTypeOK
    <2>2. call.list \in Seq(Built) /\ call.next \in Nat /\ call.failed \in BOOLEAN
        BY <2>1, PublisherAssumption DEF Handing
    <2>3. call.failed = FALSE => \A j \in DOMAIN call.list : \E i \in DOMAIN topic : topic[i] = call.list[j]
        BY <1>10, <2>1, <2>2 DEF AwaitAll, ListHandedOver, Handing
    <2> QED BY <1>3, <1>10, <2>2, <2>3 DEF AwaitAll, ListHandedOver, ConfirmedIsPublished, Idle
<1>11. CASE PublisherRestarts
    BY <1>3, <1>11 DEF PublisherRestarts, ListHandedOver, ConfirmedIsPublished, Idle
<1>12. CASE \E m \in Messages \ Built : Arrives(m)
    BY <1>4, <1>12 DEF Arrives
<1>13. UNCHANGED <<call, confirmed>> \/ PublisherNext
    BY DEF Next, Publish, Push, Stream, vars, publisherVars, Arrives
<1> QED BY <1>4, <1>5, <1>6, <1>7, <1>8, <1>9, <1>10, <1>11, <1>12, <1>13 DEF PublisherNext

-------------------------------------------------------------------------------
\* The push subscription

\* What the subscription has not offered yet is ready, and what is ready may be pushed.
DeliveryOK ==
    \A i \in 1..MaxMessages :
        /\ i > Len(topic) => delivery[i].state = "ready"
        /\ delivery[i].state = "ready" => delivery[i].attempts < MaxAttempts

PushOK == PushTypeOK /\ DeliveryOK

\* Instances that have not seen an event may start its handler once more.
Unseen(e) == {s \in Instances : e \notin store[s]}

RunsAccounted ==
    \A e \in EventIds : runs[e] + Cardinality(Unseen(e)) <= Cardinality(Instances) + restarts

\* What an instance has seen was processed, raised, or is what it is working on.
SeenIsKnown ==
    \A s \in Instances : \A e \in store[s] :
        \/ e \in processed \union raised
        \/ running[s] # 0 /\ topic[running[s]].event_id = e

LEMMA PushedTyped ==
    ASSUME PushTypeOK, NEW i \in 1..MaxMessages, delivery[i].attempts < MaxAttempts
    PROVE  Pushed(i) \in Delivery /\ Acked(i) \in Delivery
    BY PushAssumption DEF PushTypeOK, Pushed, Acked, Delivery

\* Each step on the subscription changes one delivery, or seeks.
LEMMA DeliveryStep ==
    ASSUME PushOK, Len(topic) <= MaxMessages, topic \in Seq(Messages), PushNext, UNCHANGED topic
    PROVE  /\ delivery' \in [1..MaxMessages -> Delivery]
           /\ DeliveryOK'
<1> DEFINE Dom == 1..MaxMessages
<1>1. /\ delivery \in [Dom -> Delivery] /\ Len(topic) \in Nat /\ MaxMessages \in Nat
      /\ \A i \in DOMAIN topic : i \in Dom /\ i <= Len(topic)
      /\ \A i \in Dom : i > Len(topic) => i \notin DOMAIN topic
      /\ MaxAttempts \in Nat \ {0}
    BY PublisherAssumption, PushAssumption DEF PushOK, PushTypeOK
<1>2. ASSUME NEW i \in DOMAIN topic, NEW d \in Delivery,
             d.state = "ready" => d.attempts < MaxAttempts,
             delivery' = [delivery EXCEPT ![i] = d]
      PROVE  delivery' \in [Dom -> Delivery] /\ DeliveryOK'
    <2>1. delivery' \in [Dom -> Delivery]
        BY <1>1, <1>2
    <2>2. ASSUME NEW j \in Dom
          PROVE  /\ j > Len(topic) => delivery'[j].state = "ready"
                 /\ delivery'[j].state = "ready" => delivery'[j].attempts < MaxAttempts
        BY <1>1, <1>2 DEF PushOK, DeliveryOK
    <2> QED BY <2>1, <2>2 DEF DeliveryOK
<1>3. CASE delivery' = delivery
    BY <1>1, <1>3 DEF PushOK, DeliveryOK
<1>4. CASE \E s \in Instances, i \in DOMAIN topic : AnswerAtOnce(s, i) \/ Route(s, i)
    <2>1. PICK s \in Instances, i \in DOMAIN topic : AnswerAtOnce(s, i) \/ Route(s, i)
        BY <1>4
    <2>2. i \in Dom /\ delivery[i].state = "ready"
        BY <1>1, <2>1 DEF AnswerAtOnce, Route, CanPush
    <2>3. delivery[i].attempts < MaxAttempts
        BY <2>2 DEF PushOK, DeliveryOK
    <2>4. Pushed(i) \in Delivery /\ Acked(i) \in Delivery
        BY <2>2, <2>3, PushedTyped DEF PushOK
    <2>5. Pushed(i).state # "ready" /\ Acked(i).state # "ready"
        BY DEF Pushed, Acked
    <2> QED BY <1>2, <2>1, <2>4, <2>5 DEF AnswerAtOnce, Route
<1>5. CASE \E s \in Instances : HandlerReturns(s)
    <2>1. PICK s \in Instances : HandlerReturns(s)
        BY <1>5
    <2> DEFINE i == running[s]
    <2>2. i \in DOMAIN topic
        BY <1>1, <2>1 DEF HandlerReturns, PushOK, PushTypeOK
    <2>3. [delivery[i] EXCEPT !.state = "acked"] \in Delivery
          /\ [delivery[i] EXCEPT !.state = "acked"].state = "acked"
        BY <1>1, <2>2 DEF Delivery
    <2>4. CASE delivery' = [delivery EXCEPT ![i] = [delivery[i] EXCEPT !.state = "acked"]]
        BY <1>2, <2>2, <2>3, <2>4
    <2>5. \/ delivery' = [delivery EXCEPT ![i].state = "acked"]
          \/ delivery' = delivery
        BY <2>1 DEF HandlerReturns
    <2> QED BY <1>3, <2>4, <2>5
<1>6. CASE \E s \in Instances : HandlerRaises(s) \/ InstanceRestarts(s)
    BY <1>3, <1>6 DEF HandlerRaises, InstanceRestarts
<1>7. CASE \E i \in DOMAIN topic : GiveUp(i)
    <2>1. PICK i \in DOMAIN topic : GiveUp(i)
        BY <1>7
    <2> DEFINE next == IF delivery[i].attempts < MaxAttempts THEN "ready" ELSE "dead"
    <2> DEFINE d == [delivery[i] EXCEPT !.state = next]
    <2>2. d \in Delivery /\ d.attempts = delivery[i].attempts /\ d.state = next
        BY <1>1 DEF Delivery
    <2>3. delivery' = [delivery EXCEPT ![i] = d]
        BY <2>1 DEF GiveUp
    <2>4. d.state = "ready" => d.attempts < MaxAttempts
        BY <2>2
    <2> HIDE DEF d
    <2> QED BY <1>2, <2>2, <2>3, <2>4
<1>8. CASE \E i \in DOMAIN topic : Seek(i)
    <2>1. PICK i \in DOMAIN topic : Seek(i)
        BY <1>8
    <2>2. ASSUME NEW j \in Dom
          PROVE  /\ delivery'[j] \in Delivery
                 /\ j > Len(topic) => delivery'[j].state = "ready"
                 /\ delivery'[j].state = "ready" => delivery'[j].attempts < MaxAttempts
        <3>1. [state |-> "ready", attempts |-> 0] \in Delivery
            BY <1>1 DEF Delivery
        <3>2. delivery[j] \in Delivery
            BY <1>1
        <3>3. [delivery[j] EXCEPT !.state = "acked"] \in Delivery
              /\ [delivery[j] EXCEPT !.state = "acked"].state = "acked"
            BY <3>2 DEF Delivery
        <3>4. j > Len(topic) => j >= i
            BY <1>1
        <3>5. CASE j >= i
            BY <1>1, <2>1, <3>1, <3>5 DEF Seek
        <3>6. CASE ~(j >= i) /\ delivery[j].state = "dead"
            BY <1>1, <2>1, <3>2, <3>4, <3>6 DEF Seek
        <3>7. CASE ~(j >= i) /\ delivery[j].state # "dead"
            BY <1>1, <2>1, <3>3, <3>4, <3>7 DEF Seek
        <3> QED BY <3>5, <3>6, <3>7
    <2>3. delivery' = [j \in Dom |-> delivery'[j]]
        BY <2>1 DEF Seek
    <2>4. delivery' \in [Dom -> Delivery]
        BY <2>2, <2>3
    <2> QED BY <2>2, <2>4 DEF DeliveryOK
<1> QED BY <1>4, <1>5, <1>6, <1>7, <1>8 DEF PushNext

LEMMA PushTyped ==
    ASSUME subject \in Subjects, PublisherTypeOK, Len(topic) <= MaxMessages, PushOK, [Next]_vars
    PROVE  PushOK'
<1>1. topic \in Seq(Messages) /\ topic' \in Seq(Messages)
    BY PublisherTyped DEF PublisherTypeOK
<1>2. Len(topic) \in Nat /\ Len(topic') \in Nat /\ Len(topic) <= Len(topic')
    BY <1>1, TopicStays
<1>3. CASE UNCHANGED pushVars
    <2>1. DeliveryOK'
        BY <1>2, <1>3, PublisherAssumption DEF PushOK, DeliveryOK, pushVars
    <2>2. PushTypeOK'
        BY <1>2, <1>3 DEF PushOK, PushTypeOK, pushVars
    <2> QED BY <2>1, <2>2 DEF PushOK
<1>4. CASE PushNext /\ UNCHANGED publisherVars
    <2>1. UNCHANGED topic
        BY <1>4 DEF publisherVars
    <2>2. delivery' \in [1..MaxMessages -> Delivery] /\ DeliveryOK'
        BY <1>1, <1>4, <2>1, DeliveryStep
    <2>3. /\ store \in [Instances -> SUBSET EventIds] /\ running \in [Instances -> 0..Len(topic)]
          /\ runs \in [EventIds -> Nat] /\ processed \subseteq EventIds /\ raised \subseteq EventIds
          /\ skipped \subseteq 1..Len(topic) /\ restarts \in 0..MaxRestarts /\ seeks \in 0..MaxSeeks
          /\ {MaxRestarts, MaxSeeks} \subseteq Nat
        BY PushAssumption DEF PushOK, PushTypeOK
    <2>4. \A i \in DOMAIN topic : i \in 1..Len(topic) /\ topic[i].event_id \in EventIds
        BY <1>1 DEF EventIds
    <2> DEFINE Rest == /\ store' \in [Instances -> SUBSET EventIds]
                       /\ running' \in [Instances -> 0..Len(topic)]
                       /\ runs' \in [EventIds -> Nat]
                       /\ processed' \subseteq EventIds /\ raised' \subseteq EventIds
                       /\ UNCHANGED <<skipped, restarts, seeks>>
    <2>10. Rest => PushOK'
        BY <2>1, <2>2, <2>3 DEF PushOK, PushTypeOK
    <2> HIDE DEF PushOK
    <2>5. CASE \E s \in Instances, i \in DOMAIN topic : AnswerAtOnce(s, i) \/ Route(s, i)
        <3>1. PICK s \in Instances, i \in DOMAIN topic : AnswerAtOnce(s, i) \/ Route(s, i)
            BY <2>5
        <3>2. CASE AnswerAtOnce(s, i)
            BY <2>3, <2>10, <3>2 DEF AnswerAtOnce
        <3>3. CASE Route(s, i)
            <4>1. i \in 0..Len(topic) /\ topic[i].event_id \in EventIds
                BY <1>2, <2>4
            <4>2. running' \in [Instances -> 0..Len(topic)]
                BY <2>3, <3>3, <4>1 DEF Route
            <4>3. store' \in [Instances -> SUBSET EventIds] /\ runs' \in [EventIds -> Nat]
                BY <2>3, <3>3, <4>1 DEF Route
            <4> QED BY <2>3, <2>10, <3>3, <4>2, <4>3 DEF Route
        <3> QED BY <3>1, <3>2, <3>3
    <2>6. CASE \E s \in Instances : HandlerReturns(s) \/ HandlerRaises(s)
        <3>1. PICK s \in Instances : HandlerReturns(s) \/ HandlerRaises(s)
            BY <2>6
        <3>2. running[s] \in DOMAIN topic
            BY <1>1, <2>3, <3>1 DEF HandlerReturns, HandlerRaises
        <3>3. topic[running[s]].event_id \in EventIds
            BY <2>4, <3>2
        <3>4. running' = [running EXCEPT ![s] = 0]
            BY <3>1 DEF HandlerReturns, HandlerRaises
        <3>5. running' \in [Instances -> 0..Len(topic)]
            BY <1>2, <2>3, <3>4
        <3>6. CASE HandlerReturns(s)
            BY <2>3, <2>10, <3>3, <3>5, <3>6 DEF HandlerReturns
        <3>7. CASE HandlerRaises(s)
            BY <2>3, <2>10, <3>3, <3>5, <3>7 DEF HandlerRaises
        <3> QED BY <3>1, <3>6, <3>7
    <2>7. CASE \E s \in Instances : InstanceRestarts(s)
        BY <2>1, <2>2, <2>3, <2>7 DEF InstanceRestarts, PushOK, PushTypeOK
    <2>8. CASE \E i \in DOMAIN topic : GiveUp(i)
        BY <2>1, <2>2, <2>3, <2>8 DEF GiveUp, PushOK, PushTypeOK
    <2>9. CASE \E i \in DOMAIN topic : Seek(i)
        <3>1. PICK i \in DOMAIN topic : Seek(i)
            BY <2>9
        <3>2. skipped' \subseteq 1..Len(topic)
            BY <1>2, <2>3, <2>4, <3>1 DEF Seek
        <3>3. seeks' \in 0..MaxSeeks
            BY <2>3, <3>1 DEF Seek
        <3> QED BY <2>1, <2>2, <2>3, <3>1, <3>2, <3>3 DEF Seek, PushOK, PushTypeOK
    <2> QED BY <1>4, <2>5, <2>6, <2>7, <2>8, <2>9 DEF PushNext
<1>5. UNCHANGED pushVars \/ (PushNext /\ UNCHANGED publisherVars)
    BY DEF Next, Publish, Push, Stream, vars
<1> QED BY <1>3, <1>4, <1>5

\* An instance that sees an event leaves one instance fewer that has not.
LEMMA UnseenFinite ==
    ASSUME NEW e
    PROVE  IsFiniteSet(Unseen(e)) /\ Cardinality(Unseen(e)) \in Nat
<1>1. Unseen(e) \subseteq Instances
    BY DEF Unseen
<1> QED BY <1>1, PushAssumption, FS_Subset, FS_CardinalityType

LEMMA RunsStep ==
    ASSUME PushOK, topic \in Seq(Messages), RunsAccounted, PushNext
    PROVE  RunsAccounted'
<1>0. /\ store \in [Instances -> SUBSET EventIds] /\ runs \in [EventIds -> Nat]
      /\ restarts \in Nat /\ Cardinality(Instances) \in Nat
    BY PushAssumption, FS_CardinalityType DEF PushOK, PushTypeOK
<1>1. SUFFICES ASSUME NEW e \in EventIds
               PROVE  runs'[e] + Cardinality(Unseen(e)') <= Cardinality(Instances) + restarts'
    BY DEF RunsAccounted
<1>2. runs[e] + Cardinality(Unseen(e)) <= Cardinality(Instances) + restarts
    BY DEF RunsAccounted
<1>3. CASE UNCHANGED <<store, runs, restarts>>
    BY <1>2, <1>3 DEF Unseen
<1>4. CASE \E s \in Instances, i \in DOMAIN topic : Route(s, i)
    <2>1. PICK s \in Instances, i \in DOMAIN topic : Route(s, i)
        BY <1>4
    <2>2. topic[i].event_id \in EventIds
        BY DEF EventIds
    <2>3. CASE topic[i].event_id = e
        <3>1. Unseen(e)' = Unseen(e) \ {s} /\ s \in Unseen(e)
            BY <1>0, <2>1, <2>3 DEF Route, Unseen
        <3>2. Cardinality(Unseen(e)') = Cardinality(Unseen(e)) - 1
            BY <3>1, UnseenFinite, FS_RemoveElement
        <3>3. runs'[e] = runs[e] + 1 /\ restarts' = restarts
            BY <1>0, <2>1, <2>3 DEF Route
        <3> QED BY <1>0, <1>2, <3>2, <3>3, UnseenFinite
    <2>4. CASE topic[i].event_id # e
        <3>1. Unseen(e)' = Unseen(e)
            BY <1>0, <2>1, <2>4 DEF Route, Unseen
        <3> QED BY <1>0, <1>2, <2>1, <2>2, <2>4, <3>1 DEF Route
    <2> QED BY <2>3, <2>4
<1>5. CASE \E s \in Instances : InstanceRestarts(s)
    <2>1. PICK s \in Instances : InstanceRestarts(s)
        BY <1>5
    <2>2. Unseen(e)' = Unseen(e) \union {s}
        BY <1>0, <2>1 DEF InstanceRestarts, Unseen
    <2>3. Cardinality(Unseen(e)') <= Cardinality(Unseen(e)) + 1
        <3>1. IsFiniteSet(Unseen(e)) /\ Cardinality(Unseen(e)) \in Nat
            BY UnseenFinite
        <3>2. CASE s \in Unseen(e)
            <4>1. Unseen(e)' = Unseen(e)
                BY <2>2, <3>2
            <4> QED BY <3>1, <4>1
        <3>3. CASE s \notin Unseen(e)
            <4>1. Cardinality(Unseen(e) \union {s}) = Cardinality(Unseen(e)) + 1
                BY <3>1, <3>3, FS_AddElement
            <4> QED BY <2>2, <3>1, <4>1
        <3> QED BY <3>2, <3>3
    <2>4. Cardinality(Unseen(e)') \in Nat
        BY <2>2, UnseenFinite, FS_AddElement, FS_CardinalityType
    <2> QED BY <1>0, <1>2, <2>1, <2>3, <2>4, UnseenFinite DEF InstanceRestarts
<1> QED BY <1>3, <1>4, <1>5
        DEF PushNext, AnswerAtOnce, HandlerReturns, HandlerRaises, GiveUp, Seek

\* The memory of the instances and the acknowledgements of the subscription, in a step
\* of either: what is acknowledged was remembered and not at work, or returns now.
LEMMA AckedStep ==
    ASSUME PushOK, topic \in Seq(Messages), Len(topic) <= MaxMessages,
           SeenIsKnown, AckedIsHandledOrRaised, PushNext, UNCHANGED topic
    PROVE  SeenIsKnown' /\ AckedIsHandledOrRaised'
<1>0. /\ store \in [Instances -> SUBSET EventIds] /\ running \in [Instances -> 0..Len(topic)]
      /\ delivery \in [1..MaxMessages -> Delivery]
      /\ Len(topic) \in Nat
      /\ \A i \in DOMAIN topic : i \in 1..MaxMessages /\ i # 0
    BY PublisherAssumption DEF PushOK, PushTypeOK
<1> DEFINE Handled(e) == e \in processed \union raised
<1>1. ASSUME NEW i \in DOMAIN topic, NEW s \in Instances, AnswerAtOnce(s, i)
      PROVE  SeenIsKnown' /\ AckedIsHandledOrRaised'
    <2>1. UNCHANGED <<store, running, processed, raised, skipped>>
        BY <1>1 DEF AnswerAtOnce
    <2>2. topic[i].event_id \in store[s] => Handled(topic[i].event_id)
        BY <1>1 DEF AnswerAtOnce, CanPush, SeenIsKnown
    <2>3. ASSUME NEW j \in DOMAIN topic, delivery'[j].state = "acked",
                 topic[j].origin # "anonymous", j \notin skipped
          PROVE  Handled(topic[j].event_id)
        <3>1. CASE j # i
            <4>1. delivery'[j] = delivery[j]
                BY <1>0, <1>1, <3>1 DEF AnswerAtOnce
            <4> QED BY <2>3, <4>1 DEF AckedIsHandledOrRaised
        <3>2. CASE j = i
            <4>1. CASE delivery' = [delivery EXCEPT ![i] = Pushed(i)]
                <5>1. delivery'[i] = Pushed(i)
                    BY <1>0, <4>1
                <5> QED BY <2>3, <3>2, <5>1 DEF Pushed
            <4>2. CASE topic[i].event_id \in store[s]
                BY <2>2, <3>2, <4>2
            <4> QED BY <1>1, <2>3, <3>2, <4>1, <4>2 DEF AnswerAtOnce
        <3> QED BY <3>1, <3>2
    <2>4. SeenIsKnown'
        BY <2>1 DEF SeenIsKnown
    <2> QED BY <2>1, <2>3, <2>4 DEF AckedIsHandledOrRaised
<1>2. ASSUME NEW i \in DOMAIN topic, NEW s \in Instances, Route(s, i)
      PROVE  SeenIsKnown' /\ AckedIsHandledOrRaised'
    <2>1. UNCHANGED <<processed, raised, skipped>>
        BY <1>2 DEF Route
    <2>2. \A j \in DOMAIN topic : delivery'[j].state = "acked" => delivery[j].state = "acked"
        BY <1>0, <1>2 DEF Route, Pushed
    <2>3. ASSUME NEW r \in Instances, NEW e \in store'[r]
          PROVE  Handled(e) \/ (running'[r] # 0 /\ topic[running'[r]].event_id = e)
        <3>1. CASE r # s
            BY <1>0, <1>2, <2>3, <3>1 DEF Route, SeenIsKnown
        <3>2. CASE r = s
            BY <1>0, <1>2, <2>3, <3>2 DEF Route, CanPush, SeenIsKnown
        <3> QED BY <3>1, <3>2
    <2> QED BY <2>1, <2>2, <2>3 DEF SeenIsKnown, AckedIsHandledOrRaised
<1>3. ASSUME NEW s \in Instances, HandlerReturns(s) \/ HandlerRaises(s)
      PROVE  SeenIsKnown' /\ AckedIsHandledOrRaised'
    <2> DEFINE i == running[s]
    <2>1. /\ i \in DOMAIN topic
          /\ processed' \union raised' = processed \union raised \union {topic[i].event_id}
          /\ running' = [running EXCEPT ![s] = 0]
          /\ UNCHANGED <<store, skipped>>
        BY <1>0, <1>3 DEF HandlerReturns, HandlerRaises
    <2>2. \A j \in DOMAIN topic : j # i => delivery'[j] = delivery[j]
        BY <1>0, <1>3 DEF HandlerReturns, HandlerRaises
    <2>3. SeenIsKnown'
        BY <1>0, <2>1 DEF SeenIsKnown
    <2> QED BY <2>1, <2>2, <2>3 DEF AckedIsHandledOrRaised
<1>4. ASSUME NEW s \in Instances, InstanceRestarts(s)
      PROVE  SeenIsKnown' /\ AckedIsHandledOrRaised'
    BY <1>0, <1>4 DEF InstanceRestarts, SeenIsKnown, AckedIsHandledOrRaised
<1>5. ASSUME NEW i \in DOMAIN topic, GiveUp(i)
      PROVE  SeenIsKnown' /\ AckedIsHandledOrRaised'
    <2>1. \A j \in DOMAIN topic : delivery'[j].state = "acked" => delivery[j].state = "acked"
        BY <1>0, <1>5 DEF GiveUp, Delivery
    <2> QED BY <1>5, <2>1 DEF GiveUp, SeenIsKnown, AckedIsHandledOrRaised
<1>6. ASSUME NEW i \in DOMAIN topic, Seek(i)
      PROVE  SeenIsKnown' /\ AckedIsHandledOrRaised'
    <2>1. ASSUME NEW j \in DOMAIN topic, delivery'[j].state = "acked", j \notin skipped'
          PROVE  delivery[j].state = "acked" /\ j \notin skipped
        <3>1. j \in 1..MaxMessages /\ delivery[j].state \in {"ready", "out", "acked", "dead"}
            BY <1>0 DEF Delivery
        <3>2. ~(j >= i) /\ delivery[j].state # "dead"
            BY <1>6, <2>1, <3>1 DEF Seek
        <3>3. j \in 1..(i - 1)
            BY <1>0, <3>2
        <3> QED BY <1>6, <2>1, <3>1, <3>2, <3>3 DEF Seek
    <2> QED BY <1>6, <2>1 DEF Seek, SeenIsKnown, AckedIsHandledOrRaised
<1> QED BY <1>1, <1>2, <1>3, <1>4, <1>5, <1>6 DEF PushNext

-------------------------------------------------------------------------------
\* The windows of the pipeline.  First, that a bounded set of integers has a least
\* and a greatest member: the ends of a merged session.

LEMMA LeastNumber ==
    ASSUME NEW S \in SUBSET Nat, S # {}
    PROVE  \E m \in S : \A n \in S : m <= n
<1>1. PICK m \in S : \A n \in S : ~(<<n, m>> \in OpToRel(<, Nat))
    BY NatLessThanWellFounded, WFMin
<1>2. \A n \in S : ~(n < m)
    BY <1>1 DEF OpToRel
<1> QED BY <1>2

LEMMA LeastIsLeast ==
    ASSUME NEW S \in SUBSET Int, S # {}, NEW b \in Nat, \A n \in S : -b <= n
    PROVE  Least(S) \in S /\ \A n \in S : Least(S) <= n
<1> DEFINE Shifted == {k \in Nat : k - b \in S}
<1>1. \A n \in S : n + b \in Shifted /\ (n + b) - b = n
    BY SMT
<1>2. PICK k \in Shifted : \A l \in Shifted : k <= l
    BY <1>1, LeastNumber
<1>3. k - b \in S /\ \A n \in S : k - b <= n
    BY <1>1, <1>2
<1> QED BY <1>3 DEF Least

LEMMA GreatestIsGreatest ==
    ASSUME NEW S \in SUBSET Int, S # {}, NEW b \in Nat, \A n \in S : n <= b
    PROVE  Greatest(S) \in S /\ \A n \in S : n <= Greatest(S)
<1> DEFINE Shifted == {k \in Nat : b - k \in S}
<1>1. \A n \in S : b - n \in Shifted /\ b - (b - n) = n
    BY SMT
<1>2. PICK k \in Shifted : \A l \in Shifted : k <= l
    BY <1>1, LeastNumber
<1>3. ASSUME NEW n \in S PROVE n <= b - k
    <2>1. k \in Nat /\ k <= b - n
        BY <1>1, <1>2
    <2> QED BY <2>1
<1>4. b - k \in S
    BY <1>2
<1> QED BY <1>3, <1>4 DEF Greatest

\* What Beam's windows of a time are: intervals, that differ in their start.
LEMMA AssignedWindows ==
    ASSUME mode \in Modes, NEW t \in Nat
    PROVE  /\ \A w \in Assigned(t) :
                /\ w.start \in Int /\ w.end \in Int /\ w.start < w.end
                /\ mode # "session" => w.end = w.start + WindowSeconds
                /\ w = [start |-> w.start, end |-> w.end]
           /\ mode = "session" => Assigned(t) = {[start |-> t, end |-> t + SessionGap]}
           /\ \A v, w \in Assigned(t) : v.start = w.start => v = w
           /\ \E b \in Nat : \A w \in Assigned(t) : -b <= w.start /\ w.end <= b
<1>0. WindowSeconds \in Nat \ {0} /\ SessionGap \in Nat \ {0} /\ PeriodSeconds \in Nat \ {0}
      /\ mode \in {"fixed", "sliding", "session"}
    BY WindowAssumption
<1>1. CASE mode = "fixed"
    <2> DEFINE s == t - (t % WindowSeconds)
    <2>1. s \in Int
        BY <1>0
    <2>2. Assigned(t) = {[start |-> s, end |-> s + WindowSeconds]}
        BY <1>1 DEF Assigned
    <2>3. -s \in Nat \/ s \in Nat
        BY <2>1
    <2>4. \E b \in Nat : -b <= s /\ s + WindowSeconds <= b
        <3>1. CASE s \in Nat
            BY <1>0, <3>1
        <3>2. CASE -s \in Nat
            <4>1. (-s) + WindowSeconds \in Nat
                BY <1>0, <3>2
            <4> QED BY <1>0, <2>1, <3>2, <4>1
        <3> QED BY <2>3, <3>1, <3>2
    <2> HIDE DEF s
    <2> QED BY <1>0, <1>1, <2>1, <2>2, <2>4
<1>2. CASE mode = "sliding"
    <2> DEFINE U == {u \in (t - WindowSeconds + 1)..t : u % PeriodSeconds = 0}
    <2>1. Assigned(t) = {[start |-> s, end |-> s + WindowSeconds] : s \in U}
        BY <1>2 DEF Assigned
    <2>2. \A u \in U : u \in Int /\ u <= t /\ -WindowSeconds <= u
        BY <1>0
    <2> HIDE DEF U
    <2>3. /\ t + WindowSeconds \in Nat
          /\ \A u \in U : -(t + WindowSeconds) <= u /\ u + WindowSeconds <= t + WindowSeconds
        BY <1>0, <2>2
    <2>4. \A w \in Assigned(t) : w.start \in U /\ w.end = w.start + WindowSeconds
                                 /\ w = [start |-> w.start, end |-> w.end]
        BY <2>1
    <2>5. \A w \in Assigned(t) : -(t + WindowSeconds) <= w.start /\ w.end <= t + WindowSeconds
        BY <2>3, <2>4
    <2>6. \E b \in Nat : \A w \in Assigned(t) : -b <= w.start /\ w.end <= b
        BY <2>3, <2>5
    <2> QED BY <1>0, <1>2, <2>2, <2>4, <2>6
<1>3. CASE mode = "session"
    <2>1. Assigned(t) = {[start |-> t, end |-> t + SessionGap]}
        BY <1>3 DEF Assigned
    <2> QED BY <1>0, <1>3, <2>1
<1> QED BY <1>0, <1>1, <1>2, <1>3

LEMMA WindowsDiffer ==
    ASSUME mode \in Modes, NEW t \in Nat, NEW v \in Assigned(t), NEW w \in Assigned(t), v # w
    PROVE  v.start # w.start /\ mode # "session"
<1>1. v.start # w.start
    BY AssignedWindows
<1>2. ASSUME mode = "session"
      PROVE  FALSE
    <2>1. Assigned(t) = {[start |-> t, end |-> t + SessionGap]}
        BY <1>2, AssignedWindows
    <2> QED BY <2>1
<1> QED BY <1>1, <1>2

-------------------------------------------------------------------------------
\* Windows of one event id do not overlap in sessions, and differ in their start otherwise.
Apart(p, q) ==
    IF mode = "session" THEN p.end <= q.start \/ q.end <= p.start ELSE p.start # q.start

PanesApart == \A p, q \in panes : p # q /\ p.event_id = q.event_id => Apart(p, q)

PanesBounded == \E b \in Nat : \A p \in panes : -b <= p.start /\ p.end <= b

WindowsLong ==
    \A p \in panes \union {r.pane : r \in rows} :
        mode # "session" => p.end = p.start + WindowSeconds

PanesOK == DataflowTypeOK /\ WindowsLong /\ PanesBounded /\ PanesApart

LEMMA TypedPanes ==
    ASSUME DataflowTypeOK
    PROVE  /\ mode \in Modes /\ watermark \in Nat
           /\ \A p \in panes : p.start \in Int /\ p.end \in Int /\ p.start < p.end
           /\ \A r \in rows : r.pane.start \in Int /\ r.pane.end \in Int
    BY WindowAssumption DEF DataflowTypeOK, Pane

\* p spans window w and the panes of id that w joins, and no more.
SpansJoined(p, id, w) ==
    /\ p.event_id = id /\ p.start \in Int /\ p.end \in Int
    /\ Within(w, p) /\ \A q \in Joined(id, w) : Within(q, p) /\ q.members \subseteq p.members
    /\ p.start = w.start \/ \E q \in Joined(id, w) : p.start = q.start
    /\ p.end = w.end \/ \E q \in Joined(id, w) : p.end = q.end

LEMMA PaneWithSpan ==
    ASSUME PanesOK, NEW id, NEW w, w.start \in Int, w.end \in Int, NEW i
    PROVE  /\ SpansJoined(PaneWith(id, w, i), id, w)
           /\ PaneWith(id, w, i).members = {i} \union UNION {p.members : p \in Joined(id, w)}
<1> DEFINE P == PaneWith(id, w, i)
           Starts == {w.start} \union {p.start : p \in Joined(id, w)}
           Ends == {w.end} \union {p.end : p \in Joined(id, w)}
<1>1. PICK b \in Nat : \A p \in panes : -b <= p.start /\ p.end <= b
    BY DEF PanesOK, PanesBounded
<1>2. \E c \in Nat : -c <= w.start /\ w.end <= c
    <2>1. CASE w.start \in Nat /\ w.end \in Nat
        BY <2>1
    <2>2. CASE w.start \in Nat /\ -w.end \in Nat
        BY <2>2
    <2>3. CASE -w.start \in Nat /\ w.end \in Nat
        <3>1. (-w.start) + w.end \in Nat
            BY <2>3
        <3> QED BY <2>3, <3>1
    <2>4. CASE -w.start \in Nat /\ -w.end \in Nat
        BY <2>4
    <2> QED BY <2>1, <2>2, <2>3, <2>4
<1>3. PICK c \in Nat : -c <= w.start /\ w.end <= c
    BY <1>2
<1>4. \A p \in Joined(id, w) : p \in panes /\ p.start \in Int /\ p.end \in Int
    BY TypedPanes DEF Joined, PanesOK
<1>5. /\ P.event_id = id
      /\ P.start = Least(Starts) /\ P.end = Greatest(Ends)
      /\ P.members = {i} \union UNION {p.members : p \in Joined(id, w)}
    BY DEF PaneWith
<1>6. Least(Starts) \in Starts /\ \A n \in Starts : Least(Starts) <= n
    <2>1. Starts \in SUBSET Int /\ Starts # {} /\ b + c \in Nat
        BY <1>4
    <2>2. \A n \in Starts : -(b + c) <= n
        BY <1>1, <1>3, <1>4
    <2> HIDE DEF Starts
    <2> QED BY <2>1, <2>2, LeastIsLeast
<1>7. Greatest(Ends) \in Ends /\ \A n \in Ends : n <= Greatest(Ends)
    <2>1. Ends \in SUBSET Int /\ Ends # {} /\ b + c \in Nat
        BY <1>4
    <2>2. \A n \in Ends : n <= b + c
        BY <1>1, <1>3, <1>4
    <2> HIDE DEF Ends
    <2> QED BY <2>1, <2>2, GreatestIsGreatest
<1> HIDE DEF P
<1>8. P.start \in Int /\ P.end \in Int
    BY <1>4, <1>5, <1>6, <1>7
<1>9. Within(w, P) /\ \A p \in Joined(id, w) : Within(p, P) /\ p.members \subseteq P.members
    BY <1>5, <1>6, <1>7 DEF Within
<1>10. /\ P.start = w.start \/ \E p \in Joined(id, w) : P.start = p.start
       /\ P.end = w.end \/ \E p \in Joined(id, w) : P.end = p.end
    BY <1>5, <1>6, <1>7
<1> QED BY <1>5, <1>8, <1>9, <1>10 DEF P, SpansJoined

\* Outside sessions a window joins its own pane only.
LEMMA PaneWithLong ==
    ASSUME PanesOK, mode # "session", NEW id, NEW p, NEW w,
           w.start \in Int, w.end = w.start + WindowSeconds, SpansJoined(p, id, w)
    PROVE  p.start = w.start /\ p.end = w.end
<1>1. \A q \in Joined(id, w) : q.start = w.start /\ q.end = w.end
    BY DEF Joined, PanesOK, WindowsLong
<1> QED BY <1>1 DEF SpansJoined

-------------------------------------------------------------------------------
\* validate_event has one reason for what it refuses.
LEMMA RefusedForReason ==
    ASSUME NEW m, Reason(m) # "none"
    PROVE  Reason(m) \in Reasons
<1> DEFINE failing == {i \in DOMAIN Later : Later[i] \in m.defects}
           first == CHOOSE i \in failing : \A j \in failing : i <= j
<1>1. CASE failing # {}
    <2>1. failing \in SUBSET Nat
        BY DEF Later
    <2>2. first \in failing
        <3> HIDE DEF failing
        <3>1. \E i \in failing : \A j \in failing : i <= j
            BY <1>1, <2>1, LeastNumber
        <3> QED BY <3>1
    <2>3. Later[first] \in Reasons
        BY <2>2 DEF Reasons
    <2>4. Reason(m) \in {"INVALID_JSON", "MISSING_EVENT_ID", "MISSING_EVENT_TYPE", "none", Later[first]}
        BY <1>1 DEF Reason
    <2> QED BY <2>3, <2>4 DEF Reasons
<1>2. CASE failing = {}
    BY <1>2 DEF Reason, Reasons
<1> QED BY <1>1, <1>2

\* A step of the pipeline that opens windows for message i, with the event id and the
\* windows that it has.
Opens(i, w) == w \in Assigned(topic[i].time) /\ ~Expired(w)

Opened(i) ==
    LET id == topic[i].event_id IN
    /\ \A p \in panes' : \/ p \in panes /\ \A w : Opens(i, w) => p \notin Joined(id, w)
                         \/ \E w : Opens(i, w) /\ p = PaneWith(id, w, i)
    /\ \A p \in panes : p \in panes' \/ \E w : Opens(i, w) /\ p \in Joined(id, w)
    /\ \A w : Opens(i, w) => PaneWith(id, w, i) \in panes'
    /\ late \subseteq late' /\ dropped \subseteq dropped'
    /\ \A w \in Assigned(topic[i].time) :
            /\ Ended(w) => [index |-> i, start |-> w.start] \in late'
            /\ Expired(w) => [index |-> i, start |-> w.start] \in dropped'
    /\ UNCHANGED refused

LEMMA TakeEffect ==
    ASSUME DataflowTypeOK, topic \in Seq(Messages), NEW i \in DOMAIN topic, Take(i)
    PROVE  /\ UNCHANGED <<mode, watermark, rows>> /\ taken' = taken \union {i}
           /\ topic[i].event_id \in EventIds /\ topic[i].time \in Nat
           /\ \/ Opened(i)
              \/ /\ \E reason \in Reasons : refused' = refused \union {[index |-> i, reason |-> reason]}
                 /\ UNCHANGED <<panes, late, dropped>>
<1>1. topic[i].event_id \in EventIds /\ topic[i].time \in Nat
    BY PublisherAssumption DEF EventIds
<1>2. CASE Reason(topic[i]) = "none"
    <2> DEFINE id == topic[i].event_id
               windows == Assigned(topic[i].time)
               open == {w \in windows : ~Expired(w)}
    <2>1. /\ panes' = (panes \ UNION {Joined(id, w) : w \in open}) \union {PaneWith(id, w, i) : w \in open}
          /\ late' = late \union {[index |-> i, start |-> w.start] : w \in {v \in windows : Ended(v)}}
          /\ dropped' = dropped \union {[index |-> i, start |-> w.start] : w \in windows \ open}
          /\ UNCHANGED refused
        BY <1>2 DEF Take
    <2>2. \A w : w \in open <=> Opens(i, w)
        BY DEF Opens
    <2>3. \A w \in windows : Expired(w) => w \in windows \ open
        OBVIOUS
    <2> HIDE DEF open, windows
    <2>4. \A w \in windows :
            /\ Ended(w) => [index |-> i, start |-> w.start] \in late'
            /\ Expired(w) => [index |-> i, start |-> w.start] \in dropped'
        BY <2>1, <2>3
    <2>5. Opened(i)
        BY <2>1, <2>2, <2>4 DEF Opened, windows
    <2> QED BY <1>1, <2>5 DEF Take
<1>3. CASE Reason(topic[i]) # "none"
    BY <1>1, <1>3, RefusedForReason DEF Take
<1> QED BY <1>2, <1>3

\* Every step keeps the types, of the panes and rows it makes too.
LEMMA TypedStep ==
    ASSUME PanesOK, topic \in Seq(Messages), Len(topic) <= MaxMessages,
           DataflowNext, UNCHANGED topic
    PROVE  DataflowTypeOK'
<1> USE DEF DataflowTypeOK
<1>0. /\ DOMAIN topic = 1..Len(topic) /\ Len(topic) \in Nat /\ MaxMessages \in Nat
      /\ \A i \in DOMAIN topic : i \in 1..MaxMessages
    BY PublisherAssumption
<1>1. ASSUME NEW i \in DOMAIN topic, Take(i)
      PROVE  DataflowTypeOK'
    <2> DEFINE id == topic[i].event_id
    <2>1. /\ UNCHANGED <<mode, watermark, rows>> /\ taken' = taken \union {i}
          /\ id \in EventIds /\ topic[i].time \in Nat
        BY <1>1, TakeEffect DEF PanesOK
    <2>2. taken' \subseteq 1..Len(topic')
        BY <1>0, <2>1 DEF PanesOK
    <2>3. \A r \in rows' : r.pane \in Pane /\ r.pane.members \subseteq taken' /\ r.index \in r.pane.members
        BY <2>1 DEF PanesOK
    <2>4. CASE Opened(i)
        <3>1. ASSUME NEW p \in panes'
              PROVE  p \in Pane /\ p.members \subseteq taken' /\ p.start < p.end
            <4>1. CASE p \in panes
                BY <2>1, <4>1 DEF PanesOK
            <4>2. ASSUME NEW w, Opens(i, w), p = PaneWith(id, w, i)
                  PROVE  p \in Pane /\ p.members \subseteq taken' /\ p.start < p.end
                <5>1. w \in Assigned(topic[i].time) /\ w.start \in Int /\ w.end \in Int /\ w.start < w.end
                    BY <2>1, <4>2, AssignedWindows, TypedPanes DEF Opens, PanesOK
                <5>2. /\ SpansJoined(p, id, w)
                      /\ p.members = {i} \union UNION {q.members : q \in Joined(id, w)}
                    BY <4>2, <5>1, PaneWithSpan
                <5>3. p.members \subseteq taken'
                    BY <2>1, <5>2 DEF Joined, PanesOK
                <5>4. p = [event_id |-> p.event_id, start |-> p.start, end |-> p.end, members |-> p.members]
                    BY <4>2 DEF PaneWith
                <5>5. p.members \in SUBSET (1..MaxMessages)
                    BY <1>0, <2>2, <5>3
                <5>6. p \in Pane
                    BY <2>1, <5>2, <5>4, <5>5 DEF Pane, SpansJoined
                <5> QED BY <5>1, <5>2, <5>3, <5>6 DEF SpansJoined, Within
            <4> QED BY <2>4, <4>1, <4>2 DEF Opened
        <3>2. late' \subseteq Element /\ dropped' \subseteq Element
            <4>1. \A w \in Assigned(topic[i].time) : [index |-> i, start |-> w.start] \in Element
                BY <1>0, <2>1, AssignedWindows, TypedPanes DEF Element, PanesOK
            <4>2. /\ late' \subseteq late \union {[index |-> i, start |-> w.start] : w \in Assigned(topic[i].time)}
                  /\ dropped' \subseteq dropped \union {[index |-> i, start |-> w.start] : w \in Assigned(topic[i].time)}
                BY <1>1 DEF Take
            <4> QED BY <4>1, <4>2 DEF PanesOK
        <3> QED BY <2>1, <2>2, <2>3, <2>4, <3>1, <3>2 DEF Opened, PanesOK
    <2>5. CASE /\ \E reason \in Reasons : refused' = refused \union {[index |-> i, reason |-> reason]}
               /\ UNCHANGED <<panes, late, dropped>>
        <3>1. refused' \subseteq [index: taken', reason: Reasons]
            BY <2>1, <2>5 DEF PanesOK
        <3> QED BY <2>1, <2>2, <2>3, <2>5, <3>1 DEF PanesOK
    <2> QED BY <1>1, <2>4, <2>5, TakeEffect DEF PanesOK
<1>2. ASSUME NEW p \in panes, Fire(p)
      PROVE  DataflowTypeOK'
    <2>1. PICK i \in Selectable(p.members) : rows' = rows \union {[index |-> i, pane |-> p]}
        BY <1>2 DEF Fire
    <2>2. i \in p.members
        BY DEF Selectable
    <2>3. Emptied(p) \in Pane /\ Emptied(p).members = {} /\ Emptied(p).start < Emptied(p).end
        BY DEF Emptied, Pane, PanesOK
    <2>4. \A q \in panes' : q \in panes \/ q = Emptied(p)
        BY <1>2 DEF Fire
    <2>5. \A r \in rows' : r \in rows \/ r = [index |-> i, pane |-> p]
        BY <2>1
    <2>6. \A q \in panes' : q \in Pane /\ q.members \subseteq taken /\ q.start < q.end
        BY <2>3, <2>4 DEF PanesOK
    <2>7. \A r \in rows' : r.pane \in Pane /\ r.pane.members \subseteq taken /\ r.index \in r.pane.members
        BY <2>2, <2>5 DEF PanesOK
    <2> QED BY <1>2, <2>6, <2>7 DEF Fire, PanesOK
<1>3. ASSUME NEW p \in panes, Collect(p)
      PROVE  DataflowTypeOK'
    BY <1>3 DEF Collect, PanesOK
<1>4. CASE AdvanceWatermark
    BY <1>4, WindowAssumption DEF AdvanceWatermark, PanesOK
<1> QED BY <1>1, <1>2, <1>3, <1>4 DEF DataflowNext

\* What a message opens: windows of integers, and panes that span them.
LEMMA OpenedPane ==
    ASSUME PanesOK, NEW i \in DOMAIN topic, topic[i].time \in Nat, NEW w, Opens(i, w)
    PROVE  /\ w \in Assigned(topic[i].time) /\ ~Expired(w)
           /\ w.start \in Int /\ w.end \in Int /\ w.start < w.end
           /\ mode # "session" => w.end = w.start + WindowSeconds
           /\ SpansJoined(PaneWith(topic[i].event_id, w, i), topic[i].event_id, w)
           /\ PaneWith(topic[i].event_id, w, i).members =
                {i} \union UNION {p.members : p \in Joined(topic[i].event_id, w)}
<1>1. /\ w \in Assigned(topic[i].time) /\ ~Expired(w)
      /\ w.start \in Int /\ w.end \in Int /\ w.start < w.end
      /\ mode # "session" => w.end = w.start + WindowSeconds
    BY AssignedWindows, TypedPanes DEF Opens, PanesOK
<1> QED BY <1>1, PaneWithSpan

\* A pane that a window does not join is apart from the pane that spans it.
LEMMA ApartFromJoined ==
    ASSUME PanesOK, NEW id, NEW w, w.start \in Int, w.end \in Int, w.start < w.end,
           mode # "session" => w.end = w.start + WindowSeconds,
           NEW p, SpansJoined(p, id, w), NEW q \in panes, q.event_id = id, q \notin Joined(id, w)
    PROVE  Apart(p, q) /\ Apart(q, p)
<1>1. q.start \in Int /\ q.end \in Int /\ q.start < q.end
    BY TypedPanes DEF PanesOK
<1>2. CASE mode # "session"
    <2>1. p.start = w.start /\ q.start # w.start
        BY <1>2, PaneWithLong DEF Joined
    <2> QED BY <1>2, <2>1 DEF Apart
<1>3. CASE mode = "session"
    <2>1. q.end <= w.start \/ w.end <= q.start
        BY <1>1, <1>3 DEF Joined
    <2>2. \A r \in Joined(id, w) :
            /\ r.start \in Int /\ r.end \in Int /\ r.start < w.end /\ w.start < r.end
            /\ r.end <= q.start \/ q.end <= r.start
        BY <1>3, TypedPanes DEF Joined, PanesOK, PanesApart, Apart
    <2>3. CASE q.end <= w.start
        <3>1. q.end <= p.start
            BY <1>1, <2>2, <2>3 DEF SpansJoined
        <3> QED BY <1>3, <3>1 DEF Apart
    <2>4. CASE w.end <= q.start
        <3>1. p.end <= q.start
            BY <1>1, <2>2, <2>4 DEF SpansJoined
        <3> QED BY <1>3, <3>1 DEF Apart
    <2> QED BY <2>1, <2>3, <2>4
<1> QED BY <1>2, <1>3

\* Every step leaves the panes of one event id apart, bounded and of the window's length.
LEMMA PanesStep ==
    ASSUME PanesOK, topic \in Seq(Messages), Len(topic) <= MaxMessages,
           DataflowNext, UNCHANGED topic
    PROVE  PanesOK'
<1>0. DataflowTypeOK /\ WindowsLong /\ PanesApart /\ mode \in Modes
    BY TypedPanes DEF PanesOK
<1>1. PICK b \in Nat : \A p \in panes : -b <= p.start /\ p.end <= b
    BY DEF PanesOK, PanesBounded
<1>2. ASSUME NEW i \in DOMAIN topic, Take(i)
      PROVE  WindowsLong' /\ PanesBounded' /\ PanesApart'
    <2> DEFINE id == topic[i].event_id
    <2>1. UNCHANGED <<mode, rows>> /\ topic[i].time \in Nat
        BY <1>0, <1>2, TakeEffect
    <2>2. CASE UNCHANGED panes
        BY <1>0, <1>1, <2>1, <2>2 DEF WindowsLong, PanesBounded, PanesApart, Apart
    <2>3. CASE Opened(i)
        <3>1. \A p \in panes' : \/ p \in panes /\ \A w : Opens(i, w) => p \notin Joined(id, w)
                                \/ \E w : Opens(i, w) /\ p = PaneWith(id, w, i)
            BY <2>3 DEF Opened
        <3>2. ASSUME NEW w, Opens(i, w), mode # "session"
              PROVE  PaneWith(id, w, i).start = w.start /\ PaneWith(id, w, i).end = w.start + WindowSeconds
            BY <2>1, <3>2, OpenedPane, PaneWithLong
        <3>3. WindowsLong'
            BY <1>0, <2>1, <3>1, <3>2 DEF WindowsLong
        <3>4. PICK c \in Nat : \A w \in Assigned(topic[i].time) : -c <= w.start /\ w.end <= c
            BY <1>0, <2>1, AssignedWindows
        <3>5. PanesBounded'
            <4>1. \A p \in panes : p.start \in Int /\ p.end \in Int
                BY <1>0, TypedPanes
            <4>2. ASSUME NEW w, Opens(i, w)
                  PROVE  -(b + c) <= PaneWith(id, w, i).start /\ PaneWith(id, w, i).end <= b + c
                <5>1. /\ w.start \in Int /\ w.end \in Int
                      /\ -c <= w.start /\ w.end <= c
                      /\ SpansJoined(PaneWith(id, w, i), id, w)
                    BY <2>1, <3>4, <4>2, OpenedPane
                <5>2. \A q \in Joined(id, w) : q \in panes
                    BY DEF Joined
                <5> QED BY <1>1, <4>1, <5>1, <5>2 DEF SpansJoined
            <4>3. \A p \in panes' : -(b + c) <= p.start /\ p.end <= b + c
                BY <1>1, <3>1, <4>1, <4>2
            <4>4. b + c \in Nat
                OBVIOUS
            <4> QED BY <4>3, <4>4 DEF PanesBounded
        <3>6. ASSUME NEW w, Opens(i, w), NEW q \in panes, q.event_id = id, q \notin Joined(id, w)
              PROVE  Apart(PaneWith(id, w, i), q) /\ Apart(q, PaneWith(id, w, i))
            BY <2>1, <3>6, OpenedPane, ApartFromJoined
        <3>7. ASSUME NEW v, NEW w, Opens(i, v), Opens(i, w), v # w
              PROVE  Apart(PaneWith(id, v, i), PaneWith(id, w, i))
            <4>1. v \in Assigned(topic[i].time) /\ w \in Assigned(topic[i].time)
                BY <3>7 DEF Opens
            <4>2. v.start # w.start /\ mode # "session"
                BY <1>0, <2>1, <3>7, <4>1, WindowsDiffer
            <4> QED BY <3>2, <3>7, <4>2 DEF Apart
        <3>8. \A w : Opens(i, w) => PaneWith(id, w, i).event_id = id
            BY DEF PaneWith
        <3>9. ASSUME NEW p \in panes', NEW q \in panes', p # q, p.event_id = q.event_id
              PROVE  Apart(p, q)
            <4>1. CASE p \in panes /\ q \in panes
                BY <1>0, <3>9, <4>1 DEF PanesApart
            <4>2. CASE p \in panes /\ \A w : Opens(i, w) => p \notin Joined(id, w)
                <5>1. CASE \E w : Opens(i, w) /\ q = PaneWith(id, w, i)
                    BY <3>6, <3>8, <3>9, <4>2, <5>1
                <5> QED BY <3>1, <4>1, <4>2, <5>1
            <4>3. CASE \E w : Opens(i, w) /\ p = PaneWith(id, w, i)
                <5>1. CASE q \in panes /\ \A w : Opens(i, w) => q \notin Joined(id, w)
                    BY <3>6, <3>8, <3>9, <4>3, <5>1
                <5>2. CASE \E w : Opens(i, w) /\ q = PaneWith(id, w, i)
                    BY <3>7, <3>9, <4>3, <5>2
                <5> QED BY <3>1, <5>1, <5>2
            <4> QED BY <3>1, <4>2, <4>3
        <3>10. PanesApart'
            BY <2>1, <3>9 DEF PanesApart, Apart
        <3> QED BY <3>3, <3>5, <3>10
    <2> QED BY <1>0, <1>2, <2>2, <2>3, TakeEffect
<1>3. ASSUME NEW p \in panes, Fire(p)
      PROVE  WindowsLong' /\ PanesBounded' /\ PanesApart'
    <2>1. /\ panes' = (panes \ {p}) \union {Emptied(p)} /\ mode' = mode
          /\ \A r \in rows' : r \in rows \/ r.pane = p
        BY <1>3 DEF Fire
    <2>2. Emptied(p).event_id = p.event_id /\ Emptied(p).start = p.start /\ Emptied(p).end = p.end
        BY DEF Emptied
    <2>3. WindowsLong'
        BY <1>0, <2>1, <2>2 DEF WindowsLong
    <2>4. PanesBounded'
        BY <1>1, <2>1, <2>2 DEF PanesBounded
    <2>5. PanesApart'
        BY <1>0, <2>1, <2>2 DEF PanesApart, Apart
    <2> QED BY <2>3, <2>4, <2>5
<1>4. ASSUME NEW p \in panes, Collect(p)
      PROVE  WindowsLong' /\ PanesBounded' /\ PanesApart'
    BY <1>0, <1>1, <1>4 DEF Collect, WindowsLong, PanesBounded, PanesApart, Apart
<1>5. ASSUME AdvanceWatermark
      PROVE  WindowsLong' /\ PanesBounded' /\ PanesApart'
    BY <1>0, <1>1, <1>5 DEF AdvanceWatermark, WindowsLong, PanesBounded, PanesApart, Apart
<1>6. DataflowTypeOK'
    BY TypedStep
<1> QED BY <1>2, <1>3, <1>4, <1>5, <1>6 DEF PanesOK, DataflowNext

-------------------------------------------------------------------------------
\* What a message that was read became

\* The windows of a time do not depend on anything that moves.
LEMMA AssignedStays ==
    ASSUME mode' = mode
    PROVE  \A t : Assigned(t)' = Assigned(t)
    BY DEF Assigned

\* Message i counts in a pane that has its window w, or came too late for it.
Accounted(i, w) ==
    \/ \E p \in panes \union {r.pane : r \in rows} : i \in p.members /\ Within(w, p)
    \/ [index |-> i, start |-> w.start] \in dropped

LEMMA AccountedStep ==
    ASSUME PanesOK, topic \in Seq(Messages), TakenIsAccounted, DataflowNext, UNCHANGED topic
    PROVE  TakenIsAccounted'
<1>0. DataflowTypeOK /\ mode \in Modes /\ mode' = mode /\ refused \subseteq refused'
    BY TypedPanes DEF PanesOK, DataflowNext, Take, Fire, Collect, AdvanceWatermark
<1>1. \A t : Assigned(t)' = Assigned(t)
    BY <1>0, AssignedStays
<1>2. \A t \in Nat : \A w \in Assigned(t) : w.start \in Int /\ w.end \in Int
    BY <1>0, AssignedWindows
<1>3. \A j \in taken : topic[j].time \in Nat
    BY PublisherAssumption DEF PanesOK, DataflowTypeOK
<1>4. \A j \in taken : (\E r \in refused : r.index = j) \/ \A w \in Assigned(topic[j].time) : Accounted(j, w)
    BY DEF TakenIsAccounted, Accounted
<1>5. SUFFICES ASSUME NEW j \in taken', ~ \E r \in refused' : r.index = j,
                      NEW w \in Assigned(topic[j].time)
               PROVE  Accounted(j, w)'
    <2>1. \A j \in taken' : \/ \E r \in refused' : r.index = j
                            \/ \A w \in Assigned(topic[j].time) : Accounted(j, w)'
        BY <1>5
    <2> QED BY <1>1, <2>1 DEF TakenIsAccounted, Accounted
<1>6. j \in taken => Accounted(j, w)
    BY <1>0, <1>4, <1>5
<1>7. ASSUME NEW i \in DOMAIN topic, Take(i)
      PROVE  Accounted(j, w)'
    <2> DEFINE id == topic[i].event_id
    <2>1. rows' = rows /\ topic[i].time \in Nat /\ taken' = taken \union {i}
        BY <1>0, <1>7, TakeEffect
    <2>2. CASE Opened(i)
        <3>1. dropped \subseteq dropped'
            BY <2>2 DEF Opened
        <3>2. CASE j \in taken
            <4>1. CASE \E p \in panes : j \in p.members /\ Within(w, p)
                <5>1. PICK p \in panes : j \in p.members /\ Within(w, p)
                    BY <4>1
                <5>2. CASE p \in panes'
                    BY <5>1, <5>2 DEF Accounted
                <5>3. CASE p \notin panes'
                    <6>1. PICK v : Opens(i, v) /\ p \in Joined(id, v)
                        BY <2>2, <5>3 DEF Opened
                    <6> DEFINE P == PaneWith(id, v, i)
                    <6>2. P \in panes' /\ SpansJoined(P, id, v)
                        BY <2>1, <2>2, <6>1, OpenedPane DEF Opened
                    <6>3. Within(p, P) /\ j \in P.members /\ P.start \in Int /\ P.end \in Int
                        BY <5>1, <6>1, <6>2 DEF SpansJoined
                    <6>4. Within(w, P)
                        BY <1>2, <1>3, <1>5, <3>2, <5>1, <6>3, <1>0, TypedPanes DEF Within
                    <6> HIDE DEF P
                    <6> QED BY <6>2, <6>3, <6>4 DEF Accounted
                <5> QED BY <5>2, <5>3
            <4>2. CASE \E r \in rows : j \in r.pane.members /\ Within(w, r.pane)
                BY <2>1, <4>2 DEF Accounted
            <4>3. CASE [index |-> j, start |-> w.start] \in dropped
                BY <3>1, <4>3 DEF Accounted
            <4> QED BY <1>6, <3>2, <4>1, <4>2, <4>3 DEF Accounted
        <3>3. CASE j = i
            <4>1. CASE Expired(w)
                BY <1>5, <2>2, <3>3, <4>1 DEF Opened, Accounted
            <4>2. CASE ~Expired(w)
                <5>1. Opens(i, w)
                    BY <1>5, <3>3, <4>2 DEF Opens
                <5>2. /\ PaneWith(id, w, i) \in panes' /\ i \in PaneWith(id, w, i).members
                      /\ Within(w, PaneWith(id, w, i))
                    BY <2>1, <2>2, <5>1, OpenedPane DEF Opened, SpansJoined
                <5> QED BY <3>3, <5>2 DEF Accounted
            <4> QED BY <4>1, <4>2
        <3> QED BY <1>5, <2>1, <3>2, <3>3
    <2>3. CASE /\ \E reason \in Reasons : refused' = refused \union {[index |-> i, reason |-> reason]}
               /\ UNCHANGED <<panes, late, dropped>>
        <3>1. j # i
            <4>1. PICK reason \in Reasons : refused' = refused \union {[index |-> i, reason |-> reason]}
                BY <2>3
            <4>2. [index |-> i, reason |-> reason] \in refused'
                BY <4>1
            <4> QED BY <1>5, <4>2
        <3> QED BY <1>5, <1>6, <2>1, <2>3, <3>1 DEF Accounted
    <2> QED BY <1>0, <1>7, <2>2, <2>3, TakeEffect
<1>8. ASSUME NEW p \in panes, Fire(p)
      PROVE  Accounted(j, w)'
    <2>0. PICK k \in Selectable(p.members) : rows' = rows \union {[index |-> k, pane |-> p]}
        BY <1>8 DEF Fire
    <2>1. /\ panes' = (panes \ {p}) \union {Emptied(p)} /\ UNCHANGED <<taken, dropped>>
          /\ rows \subseteq rows' /\ p \in {r.pane : r \in rows'}
        BY <1>8, <2>0 DEF Fire
    <2>2. panes \union {r.pane : r \in rows} \subseteq panes' \union {r.pane : r \in rows'}
        BY <2>0, <2>1
    <2> QED BY <1>5, <1>6, <2>1, <2>2 DEF Accounted
<1>9. ASSUME NEW p \in panes, Collect(p)
      PROVE  Accounted(j, w)'
    <2>1. p.members = {} /\ panes' = panes \ {p} /\ UNCHANGED <<taken, rows, dropped>>
        BY <1>9 DEF Collect
    <2> QED BY <1>5, <1>6, <2>1 DEF Accounted
<1>10. ASSUME AdvanceWatermark
       PROVE  Accounted(j, w)'
    BY <1>5, <1>6, <1>10 DEF AdvanceWatermark, Accounted
<1> QED BY <1>7, <1>8, <1>9, <1>10 DEF DataflowNext

-------------------------------------------------------------------------------
\* Where a message counts

\* A message counts in one row of each of its windows, and in one row at all where
\* windows merge: what has been output is in no open pane of that window, nor carried
\* into the session that its own becomes part of.
OtherWindow(p, q) ==
    p.members \intersect q.members # {} => mode # "session" /\ p.start # q.start

CountedOnce ==
    \A r \in rows :
        /\ \A p \in panes : OtherWindow(p, r.pane)
        /\ \A s \in rows \ {r} : OtherWindow(s.pane, r.pane)

PanesShare == \A p, q \in panes : p # q => OtherWindow(p, q)

CountOK == PanesShare /\ CountedOnce

LEMMA OtherWindowSymmetric ==
    ASSUME NEW p, NEW q, OtherWindow(p, q)
    PROVE  OtherWindow(q, p)
BY DEF OtherWindow

\* What the pane of an element shares with q, a pane that it joins shared with q.
LEMMA OpenedElsewhere ==
    ASSUME PanesOK, NEW i \in DOMAIN topic, topic[i].time \in Nat, NEW w, Opens(i, w),
           NEW P, P = PaneWith(topic[i].event_id, w, i), NEW q, i \notin q.members,
           \A p \in Joined(topic[i].event_id, w) : OtherWindow(p, q)
    PROVE  OtherWindow(P, q)
<1> DEFINE id == topic[i].event_id
<1>1. /\ SpansJoined(P, id, w)
      /\ P.members = {i} \union UNION {p.members : p \in Joined(id, w)}
      /\ w.start \in Int
      /\ mode # "session" => w.end = w.start + WindowSeconds
    BY OpenedPane
<1>2. SUFFICES ASSUME NEW k \in P.members, k \in q.members
               PROVE  mode # "session" /\ P.start # q.start
    BY DEF OtherWindow
<1>3. PICK p \in Joined(id, w) : k \in p.members
    BY <1>1, <1>2
<1>4. mode # "session" /\ p.start # q.start
    BY <1>2, <1>3 DEF OtherWindow
<1>5. p.start = w.start /\ P.start = w.start
    BY <1>1, <1>3, <1>4, PaneWithLong DEF Joined
<1> QED BY <1>4, <1>5

LEMMA CountTakeStep ==
    ASSUME PanesOK, topic \in Seq(Messages), CountOK, NEW i \in DOMAIN topic, Take(i)
    PROVE  CountOK'
<1> DEFINE id == topic[i].event_id
<1>0. /\ DataflowTypeOK /\ mode \in Modes
      /\ mode' = mode /\ rows' = rows /\ topic[i].time \in Nat /\ i \notin taken
    BY TypedPanes, TakeEffect DEF PanesOK, Take
<1>1. /\ \A p \in panes : i \notin p.members
      /\ \A r \in rows : i \notin r.pane.members
    BY <1>0 DEF DataflowTypeOK
<1>2. \A p, q : OtherWindow(p, q)' <=> OtherWindow(p, q)
    BY <1>0 DEF OtherWindow
<1>3. CASE Opened(i)
    <2>1. ASSUME NEW w, Opens(i, w), NEW q,
                 \/ q \in panes /\ q \notin Joined(id, w)
                 \/ \E r \in rows : q = r.pane
          PROVE  OtherWindow(PaneWith(id, w, i), q)
        <3>1. i \notin q.members
            BY <1>1, <2>1
        <3>2. \A p \in Joined(id, w) : OtherWindow(p, q)
            BY <2>1 DEF Joined, CountOK, PanesShare, CountedOnce
        <3> QED BY <1>0, <2>1, <3>1, <3>2, OpenedElsewhere
    <2>2. ASSUME NEW v, Opens(i, v), NEW w, Opens(i, w), v # w
          PROVE  OtherWindow(PaneWith(id, v, i), PaneWith(id, w, i))
        <3>1. mode # "session" /\ v.start # w.start
            BY <1>0, <2>2, WindowsDiffer DEF Opens
        <3>2. PaneWith(id, v, i).start = v.start
            BY <1>0, <2>2, <3>1, OpenedPane, PaneWithLong
        <3>3. PaneWith(id, w, i).start = w.start
            BY <1>0, <2>2, <3>1, OpenedPane, PaneWithLong
        <3> QED BY <3>1, <3>2, <3>3 DEF OtherWindow
    <2>3. ASSUME NEW p \in panes', NEW q \in panes', p # q
          PROVE  OtherWindow(p, q)
        <3>1. CASE p \in panes /\ q \in panes
            BY <2>3, <3>1 DEF CountOK, PanesShare
        <3>2. CASE \E w : Opens(i, w) /\ p = PaneWith(id, w, i)
            <4>1. PICK w : Opens(i, w) /\ p = PaneWith(id, w, i)
                BY <3>2
            <4>2. CASE q \in panes /\ \A v : Opens(i, v) => q \notin Joined(id, v)
                BY <2>1, <4>1, <4>2
            <4>3. CASE \E v : Opens(i, v) /\ q = PaneWith(id, v, i)
                BY <2>2, <2>3, <4>1, <4>3
            <4> QED BY <1>3, <2>3, <4>2, <4>3 DEF Opened
        <3>3. CASE \E w : Opens(i, w) /\ q = PaneWith(id, w, i)
            <4>1. PICK w : Opens(i, w) /\ q = PaneWith(id, w, i)
                BY <3>3
            <4>2. CASE p \in panes /\ \A v : Opens(i, v) => p \notin Joined(id, v)
                BY <2>1, <4>1, <4>2, OtherWindowSymmetric
            <4>3. CASE \E v : Opens(i, v) /\ p = PaneWith(id, v, i)
                BY <2>2, <2>3, <4>1, <4>3
            <4> QED BY <1>3, <2>3, <4>2, <4>3 DEF Opened
        <3> QED BY <1>3, <2>3, <3>1, <3>2, <3>3 DEF Opened
    <2>4. ASSUME NEW r \in rows, NEW p \in panes'
          PROVE  OtherWindow(p, r.pane)
        <3>1. CASE p \in panes
            BY <2>4, <3>1 DEF CountOK, CountedOnce
        <3>2. CASE \E w : Opens(i, w) /\ p = PaneWith(id, w, i)
            BY <2>1, <2>4, <3>2
        <3> QED BY <1>3, <2>4, <3>1, <3>2 DEF Opened
    <2>5. \A r \in rows : \A s \in rows \ {r} : OtherWindow(s.pane, r.pane)
        BY DEF CountOK, CountedOnce
    <2> QED BY <1>0, <1>2, <2>3, <2>4, <2>5 DEF CountOK, PanesShare, CountedOnce
<1>4. CASE UNCHANGED panes
    BY <1>0, <1>2, <1>4 DEF CountOK, PanesShare, CountedOnce
<1> QED BY <1>0, <1>3, <1>4, TakeEffect

LEMMA CountFireStep ==
    ASSUME CountOK, NEW p \in panes, Fire(p)
    PROVE  CountOK'
<1>1. PICK k : rows' = rows \union {[index |-> k, pane |-> p]}
    BY DEF Fire
<1>2. panes' = (panes \ {p}) \union {Emptied(p)} /\ mode' = mode
    BY DEF Fire
<1>3. \A q, s : OtherWindow(q, s)' <=> OtherWindow(q, s)
    BY <1>2 DEF OtherWindow
<1>4. \A q : OtherWindow(Emptied(p), q) /\ OtherWindow(q, Emptied(p))
    BY DEF OtherWindow, Emptied
<1>5. \A q \in panes \ {p} : OtherWindow(q, p)
    BY DEF CountOK, PanesShare
<1>6. \A r \in rows : OtherWindow(p, r.pane) /\ OtherWindow(r.pane, p)
    BY OtherWindowSymmetric DEF CountOK, CountedOnce
<1>7. PanesShare'
    BY <1>2, <1>3, <1>4 DEF CountOK, PanesShare
<1>8. ASSUME NEW r \in rows', NEW q \in panes'
      PROVE  OtherWindow(q, r.pane)
    BY <1>1, <1>2, <1>4, <1>5, <1>8 DEF CountOK, CountedOnce
<1>9. ASSUME NEW r \in rows', NEW s \in rows' \ {r}
      PROVE  OtherWindow(s.pane, r.pane)
    BY <1>1, <1>6, <1>9 DEF CountOK, CountedOnce
<1> QED BY <1>3, <1>7, <1>8, <1>9 DEF CountOK, CountedOnce

LEMMA CountStep ==
    ASSUME PanesOK, topic \in Seq(Messages), CountOK, DataflowNext
    PROVE  CountOK'
<1>1. CASE \E p \in panes : Collect(p)
    BY <1>1 DEF Collect, CountOK, PanesShare, CountedOnce, OtherWindow
<1>2. CASE AdvanceWatermark
    BY <1>2 DEF AdvanceWatermark, CountOK, PanesShare, CountedOnce, OtherWindow
<1> QED BY <1>1, <1>2, CountTakeStep, CountFireStep DEF DataflowNext

-------------------------------------------------------------------------------
\* Rows of one window

SameWindow(p, q) == p.event_id = q.event_id /\ p.start = q.start /\ p.end = q.end

\* Message i came when a window of it that p has was over.
LateIn(i, p) ==
    \E w \in Assigned(topic[i].time) : Within(w, p) /\ [index |-> i, start |-> w.start] \in late

AllLate(p) == \A i \in p.members : LateIn(i, p)

\* Panes fire after their end.
RowsEnded == \A r \in rows : Ended(r.pane)

\* Nothing opens inside a window that has a row: it is still open, or part of a session
\* that is, or what comes for it is dropped.
NoneInside ==
    \A r \in rows : \A p \in panes :
        p.event_id = r.pane.event_id /\ Within(p, r.pane) => SameWindow(p, r.pane)

RowIsCovered ==
    \A r \in rows :
        \/ Expired(r.pane)
        \/ \E p \in panes : p.event_id = r.pane.event_id /\ Within(r.pane, p)

AfterRowIsLate == \A r \in rows : \A p \in panes : SameWindow(p, r.pane) => AllLate(p)

OneRowInTime == \A r, s \in rows : r # s /\ SameWindow(r.pane, s.pane) => AllLate(r.pane) \/ AllLate(s.pane)

RowsOK == RowsEnded /\ NoneInside /\ RowIsCovered /\ AfterRowIsLate /\ OneRowInTime

LEMMA EmptiedSame ==
    ASSUME NEW p, NEW q
    PROVE  Emptied(p) = Emptied(q) <=> SameWindow(p, q)
    BY DEF Emptied, SameWindow

\* What is late stays late.
LEMMA LateStays ==
    ASSUME topic' = topic, mode' = mode, late \subseteq late', NEW p, AllLate(p)
    PROVE  AllLate(p)'
<1>1. \A t : Assigned(t)' = Assigned(t)
    BY AssignedStays
<1> QED BY <1>1 DEF AllLate, LateIn

\* No open pane has another within it.
LEMMA OnePane ==
    ASSUME PanesOK, NEW p \in panes, NEW q \in panes, p.event_id = q.event_id, Within(p, q)
    PROVE  p = q
<1>1. p.start \in Int /\ p.end \in Int /\ p.start < p.end /\ q.start \in Int /\ q.end \in Int
    BY TypedPanes DEF PanesOK
<1>2. mode # "session" => p.end = p.start + WindowSeconds /\ q.end = q.start + WindowSeconds
    BY DEF PanesOK, WindowsLong
<1>3. p # q => Apart(p, q)
    BY DEF PanesOK, PanesApart
<1>4. CASE mode = "session"
    BY <1>1, <1>3, <1>4 DEF Apart, Within
<1>5. CASE mode # "session"
    <2>1. p.start = q.start
        BY <1>1, <1>2, <1>5, WindowAssumption DEF Within
    <2> QED BY <1>3, <1>5, <2>1 DEF Apart
<1> QED BY <1>4, <1>5

LEMMA RowsTakeStep ==
    ASSUME PanesOK, topic \in Seq(Messages), RowsOK, NEW i \in DOMAIN topic, Take(i), UNCHANGED topic
    PROVE  RowsOK'
<1> DEFINE id == topic[i].event_id
<1>0. /\ DataflowTypeOK /\ WindowsLong /\ mode \in Modes /\ watermark \in Nat /\ AllowedLateness \in Nat
      /\ \A p \in panes : p.start \in Int /\ p.end \in Int /\ p.start < p.end
      /\ \A r \in rows : r.pane.start \in Int /\ r.pane.end \in Int
    BY TypedPanes, WindowAssumption DEF PanesOK
<1>1. UNCHANGED <<mode, watermark, rows>> /\ topic[i].time \in Nat
    BY <1>0, TakeEffect
<1>2. \A t : Assigned(t)' = Assigned(t)
    BY <1>1, AssignedStays
<1>3. CASE UNCHANGED <<panes, late>>
    <2>1. \A p : AllLate(p) => AllLate(p)'
        BY <1>1, <1>3, LateStays
    <2>2. RowsEnded' /\ NoneInside' /\ RowIsCovered'
        BY <1>1, <1>3 DEF RowsOK, RowsEnded, Ended, NoneInside, RowIsCovered, Expired
    <2>3. AfterRowIsLate' /\ OneRowInTime'
        BY <1>1, <1>3, <2>1 DEF RowsOK, AfterRowIsLate, OneRowInTime
    <2> QED BY <2>2, <2>3 DEF RowsOK
<1>4. CASE Opened(i)
    <2>1. /\ \A p \in panes' : p \in panes \/ \E w : Opens(i, w) /\ p = PaneWith(id, w, i)
          /\ \A p \in panes : p \in panes' \/ \E w : Opens(i, w) /\ p \in Joined(id, w)
          /\ \A w : Opens(i, w) => PaneWith(id, w, i) \in panes'
          /\ late \subseteq late'
          /\ \A w \in Assigned(topic[i].time) : Ended(w) => [index |-> i, start |-> w.start] \in late'
        BY <1>4 DEF Opened
    <2>2. \A p : AllLate(p) => AllLate(p)'
        BY <1>1, <2>1, LateStays
    <2>3. RowsEnded'
        BY <1>1 DEF RowsOK, RowsEnded, Ended
    <2>4. RowIsCovered'
        <3>1. SUFFICES ASSUME NEW r \in rows, NEW q \in panes, q \notin panes',
                              q.event_id = r.pane.event_id, Within(r.pane, q)
                       PROVE  \E p \in panes' : p.event_id = r.pane.event_id /\ Within(r.pane, p)
            BY <1>1 DEF RowsOK, RowIsCovered, Expired
        <3>2. PICK w : Opens(i, w) /\ q \in Joined(id, w)
            BY <2>1, <3>1
        <3> DEFINE P == PaneWith(id, w, i)
        <3>3. P \in panes' /\ SpansJoined(P, id, w)
            BY <1>1, <2>1, <3>2, OpenedPane
        <3>4. P.event_id = q.event_id /\ Within(q, P) /\ P.start \in Int /\ P.end \in Int
            BY <3>2, <3>3 DEF SpansJoined, Joined
        <3> HIDE DEF P
        <3>5. Within(r.pane, P)
            BY <1>0, <3>1, <3>4 DEF Within
        <3> QED BY <3>1, <3>3, <3>4, <3>5
    <2>5. ASSUME NEW r \in rows, NEW w, Opens(i, w),
                 id = r.pane.event_id, Within(PaneWith(id, w, i), r.pane)
          PROVE  SameWindow(PaneWith(id, w, i), r.pane)
        <3> DEFINE P == PaneWith(id, w, i)
        <3>1. /\ w.start \in Int /\ w.end \in Int /\ w.start < w.end /\ ~Expired(w)
              /\ mode # "session" => w.end = w.start + WindowSeconds
              /\ SpansJoined(P, id, w)
            BY <1>1, <2>5, OpenedPane
        <3>2. /\ P.event_id = id /\ P.start \in Int /\ P.end \in Int
              /\ P.start <= w.start /\ w.end <= P.end
              /\ r.pane.start <= P.start /\ P.end <= r.pane.end
            BY <2>5, <3>1 DEF SpansJoined, Within
        <3> HIDE DEF P
        <3>3. r.pane.start \in Int /\ r.pane.end \in Int
            BY <1>0
        <3>4. CASE mode # "session"
            <4>1. P.start = w.start /\ P.end = w.end
                BY <3>1, <3>4, PaneWithLong
            <4>2. r.pane.end = r.pane.start + WindowSeconds
                BY <1>0, <3>4 DEF WindowsLong
            <4>3. P.end = P.start + WindowSeconds
                BY <3>1, <3>4, <4>1
            <4>4. P.start = r.pane.start /\ P.end = r.pane.end
                <5>1. WindowSeconds \in Int /\ P.start \in Int /\ r.pane.start <= P.start
                      /\ P.start + WindowSeconds <= r.pane.start + WindowSeconds
                    BY <3>2, <4>2, <4>3, WindowAssumption
                <5>2. P.start = r.pane.start
                    BY <3>3, <5>1
                <5> QED BY <4>2, <4>3, <5>2
            <4> QED BY <2>5, <3>2, <4>4 DEF SameWindow, P
        <3>5. CASE mode = "session"
            <4>1. ~Expired(r.pane)
                BY <1>0, <3>1, <3>2 DEF Expired
            <4>2. PICK q \in panes : q.event_id = id /\ Within(r.pane, q)
                BY <2>5, <4>1 DEF RowsOK, RowIsCovered
            <4>3. q.start < w.end /\ w.start < q.end
                <5>1. /\ q.start \in Int /\ q.end \in Int
                      /\ q.start <= r.pane.start /\ r.pane.end <= q.end
                    BY <1>0, <4>2 DEF Within
                <5>2. w.start \in Int /\ w.end \in Int /\ w.start < w.end
                    BY <3>1
                <5> QED BY <3>2, <3>3, <5>1, <5>2
            <4>4. Within(q, P)
                BY <3>1, <3>5, <4>2, <4>3 DEF Joined, SpansJoined
            <4> QED BY <1>0, <2>5, <3>2, <4>2, <4>4 DEF Within, SameWindow, P
        <3> QED BY <3>4, <3>5
    <2>6. \A w : Opens(i, w) => PaneWith(id, w, i).event_id = id
        BY DEF PaneWith
    <2>7. NoneInside'
        BY <1>1, <2>1, <2>5, <2>6 DEF RowsOK, NoneInside
    <2>8. ASSUME NEW r \in rows, NEW w, Opens(i, w),
                 NEW P, P = PaneWith(id, w, i), SameWindow(P, r.pane)
          PROVE  AllLate(P)'
        <3>1. /\ w \in Assigned(topic[i].time) /\ w.start \in Int /\ w.end \in Int
              /\ SpansJoined(P, id, w)
              /\ P.members = {i} \union UNION {p.members : p \in Joined(id, w)}
            BY <1>1, <2>8, OpenedPane
        <3>2. P.event_id = r.pane.event_id /\ P.start = r.pane.start /\ P.end = r.pane.end
            BY <2>8 DEF SameWindow
        <3>3. LateIn(i, P)'
            <4>1. Within(w, P)
                BY <3>1 DEF SpansJoined
            <4>2. Ended(w)
                BY <1>0, <3>1, <3>2, <4>1 DEF RowsOK, RowsEnded, Ended, Within
            <4> QED BY <1>2, <2>1, <3>1, <4>1, <4>2 DEF LateIn
        <3>4. ASSUME NEW q \in Joined(id, w), NEW j \in q.members
              PROVE  LateIn(j, P)'
            <4>1. q \in panes /\ q.event_id = r.pane.event_id /\ Within(q, r.pane)
                BY <3>1, <3>2, <3>4 DEF Joined, SpansJoined, Within
            <4>2. SameWindow(q, r.pane)
                BY <4>1 DEF RowsOK, NoneInside
            <4>3. AllLate(q)'
                BY <2>2, <4>1, <4>2 DEF RowsOK, AfterRowIsLate
            <4>4. q.start = P.start /\ q.end = P.end
                BY <3>2, <4>2 DEF SameWindow
            <4> QED BY <3>4, <4>3, <4>4 DEF AllLate, LateIn, Within
        <3> QED BY <3>1, <3>3, <3>4 DEF AllLate
    <2>9. AfterRowIsLate'
        <3>1. \A r \in rows : \A p \in panes' : SameWindow(p, r.pane) => AllLate(p)'
            BY <2>1, <2>2, <2>8 DEF RowsOK, AfterRowIsLate
        <3> QED BY <1>1, <3>1 DEF AfterRowIsLate
    <2>10. OneRowInTime'
        BY <1>1, <2>2 DEF RowsOK, OneRowInTime
    <2> QED BY <2>3, <2>4, <2>7, <2>9, <2>10 DEF RowsOK
<1> QED BY <1>0, <1>3, <1>4, TakeEffect

LEMMA RowsFireStep ==
    ASSUME PanesOK, RowsOK, NEW p \in panes, Fire(p), UNCHANGED topic
    PROVE  RowsOK'
<1>1. PICK k \in Selectable(p.members) : rows' = rows \union {[index |-> k, pane |-> p]}
    BY DEF Fire
<1>2. /\ panes' = (panes \ {p}) \union {Emptied(p)} /\ UNCHANGED <<mode, watermark, late>> /\ Ended(p)
      /\ \A r \in rows' : r \in rows \/ r = [index |-> k, pane |-> p]
    BY <1>1 DEF Fire
<1>3. Emptied(p).members = {} /\ SameWindow(Emptied(p), p)
    BY DEF Emptied, SameWindow
<1>4. \A q : AllLate(q) => AllLate(q)'
    BY <1>2, LateStays
<1>5. RowsEnded'
    BY <1>2 DEF RowsOK, RowsEnded, Ended
<1>6. ASSUME NEW q \in panes, q # p, q.event_id = p.event_id
      PROVE  ~Within(q, p)
    BY <1>6, OnePane
<1>7. p.start \in Int /\ p.end \in Int
    BY TypedPanes DEF PanesOK
<1>8. NoneInside'
    <2>1. ASSUME NEW r \in rows', NEW q \in panes', q.event_id = r.pane.event_id, Within(q, r.pane)
          PROVE  SameWindow(q, r.pane)
        <3>1. CASE q = Emptied(p) /\ r \in rows
            <4>1. p.event_id = r.pane.event_id /\ Within(p, r.pane)
                BY <1>3, <2>1, <3>1 DEF SameWindow, Within
            <4> QED BY <1>3, <3>1, <4>1 DEF RowsOK, NoneInside, SameWindow
        <3>2. CASE q = Emptied(p) /\ r.pane = p
            BY <1>3, <3>2
        <3>3. CASE q \in panes /\ q # p /\ r \in rows
            BY <2>1, <3>3 DEF RowsOK, NoneInside
        <3>4. CASE q \in panes /\ q # p /\ r.pane = p
            BY <1>6, <2>1, <3>4
        <3> QED BY <1>2, <2>1, <3>1, <3>2, <3>3, <3>4
    <2> QED BY <2>1 DEF NoneInside
<1>9. RowIsCovered'
    <2>1. ASSUME NEW q \in panes
          PROVE  \E r \in panes' : SameWindow(r, q)
        BY <1>2, <1>3 DEF SameWindow
    <2>2. ASSUME NEW r \in rows'
          PROVE  Expired(r.pane) \/ \E q \in panes : q.event_id = r.pane.event_id /\ Within(r.pane, q)
        BY <1>2, <1>7 DEF RowsOK, RowIsCovered, Within
    <2>3. ASSUME NEW r \in rows'
          PROVE  Expired(r.pane) \/ \E q \in panes' : q.event_id = r.pane.event_id /\ Within(r.pane, q)
        BY <2>1, <2>2 DEF SameWindow, Within
    <2> QED BY <1>2, <2>3 DEF RowIsCovered, Expired
<1>10. AfterRowIsLate'
    <2>1. ASSUME NEW r \in rows', NEW q \in panes', SameWindow(q, r.pane)
          PROVE  AllLate(q)'
        <3>1. CASE q = Emptied(p)
            BY <1>3, <3>1 DEF AllLate
        <3>2. CASE q \in panes /\ q # p
            <4>1. r.pane # p
                BY <1>6, <1>7, <2>1, <3>2 DEF SameWindow, Within
            <4>2. r \in rows
                BY <1>2, <4>1
            <4> QED BY <1>4, <2>1, <3>2, <4>2 DEF RowsOK, AfterRowIsLate
        <3> QED BY <1>2, <3>1, <3>2
    <2> QED BY <2>1 DEF AfterRowIsLate
<1>11. OneRowInTime'
    <2>1. ASSUME NEW r \in rows', NEW s \in rows', r # s, SameWindow(r.pane, s.pane)
          PROVE  AllLate(r.pane)' \/ AllLate(s.pane)'
        <3>1. CASE r \in rows /\ s \in rows
            BY <1>4, <2>1, <3>1 DEF RowsOK, OneRowInTime
        <3>2. CASE r \in rows /\ s.pane = p
            BY <1>4, <2>1, <3>2 DEF RowsOK, AfterRowIsLate, SameWindow
        <3>3. CASE s \in rows /\ r.pane = p
            BY <1>4, <2>1, <3>3 DEF RowsOK, AfterRowIsLate, SameWindow
        <3> QED BY <1>2, <2>1, <3>1, <3>2, <3>3
    <2>2. \A r \in rows' : \A s \in rows' :
            r # s /\ SameWindow(r.pane, s.pane) => AllLate(r.pane)' \/ AllLate(s.pane)'
        BY <2>1
    <2> QED BY <2>2 DEF OneRowInTime, AllLate, LateIn, SameWindow
<1> QED BY <1>5, <1>8, <1>9, <1>10, <1>11 DEF RowsOK

LEMMA RowsOKStep ==
    ASSUME PanesOK, topic \in Seq(Messages), RowsOK, DataflowNext, UNCHANGED topic
    PROVE  RowsOK'
<1>1. CASE \E i \in DOMAIN topic : Take(i)
    BY <1>1, RowsTakeStep
<1>2. CASE \E p \in panes : Fire(p)
    BY <1>2, RowsFireStep
<1>3. CASE \E p \in panes : Collect(p)
    <2>1. PICK p \in panes : Expired(p) /\ panes' = panes \ {p} /\ UNCHANGED <<mode, watermark, rows, late>>
        BY <1>3 DEF Collect
    <2>2. \A q : AllLate(q) => AllLate(q)'
        BY <2>1, LateStays
    <2>3. ASSUME NEW r \in rows, Within(r.pane, p)
          PROVE  Expired(r.pane)
        BY <2>1, <2>3, TypedPanes, WindowAssumption DEF PanesOK, Expired, Within
    <2>4. RowIsCovered'
        BY <2>1, <2>3 DEF RowsOK, RowIsCovered, Expired
    <2>5. RowsEnded' /\ NoneInside'
        BY <2>1 DEF RowsOK, RowsEnded, Ended, NoneInside
    <2>6. AfterRowIsLate' /\ OneRowInTime'
        BY <2>1, <2>2 DEF RowsOK, AfterRowIsLate, OneRowInTime
    <2> QED BY <2>4, <2>5, <2>6 DEF RowsOK
<1>4. CASE AdvanceWatermark
    <2>1. /\ UNCHANGED <<mode, panes, rows, late>> /\ watermark' = watermark + 1
          /\ watermark \in Nat /\ AllowedLateness \in Nat /\ \A r \in rows : r.pane.end \in Int
        BY <1>4, TypedPanes, WindowAssumption DEF PanesOK, AdvanceWatermark
    <2>2. \A q : AllLate(q) => AllLate(q)'
        BY <2>1, LateStays
    <2>3. ASSUME NEW r \in rows
          PROVE  /\ Ended(r.pane) => r.pane.end <= watermark'
                 /\ Expired(r.pane) => r.pane.end + AllowedLateness <= watermark'
        BY <2>1 DEF Ended, Expired
    <2>4. RowsEnded' /\ RowIsCovered'
        BY <2>1, <2>3 DEF RowsOK, RowsEnded, RowIsCovered, Ended, Expired
    <2>5. NoneInside'
        BY <2>1 DEF RowsOK, NoneInside
    <2>6. AfterRowIsLate' /\ OneRowInTime'
        BY <2>1, <2>2 DEF RowsOK, AfterRowIsLate, OneRowInTime
    <2> QED BY <2>4, <2>5, <2>6 DEF RowsOK
<1> QED BY <1>1, <1>2, <1>3, <1>4 DEF DataflowNext

LEMMA OneRowIsSecondLate == OneRowInTime <=> SecondRowIsLate
<1>1. \A r, s : Emptied(r.pane) = Emptied(s.pane) <=> SameWindow(r.pane, s.pane)
    BY EmptiedSame
<1>2. \A r, s : (\E t \in {r, s} : AllLate(t.pane)) <=> AllLate(r.pane) \/ AllLate(s.pane)
    OBVIOUS
<1>3. SecondRowIsLate <=>
        \A r, s \in rows : r # s /\ Emptied(r.pane) = Emptied(s.pane) => \E t \in {r, s} : AllLate(t.pane)
    BY DEF SecondRowIsLate, AllLate, LateIn
<1> QED BY <1>1, <1>2, <1>3 DEF OneRowInTime

\* A longer topic leaves what is known of the windows as it is.
LEMMA PanesArrival ==
    ASSUME PanesOK, RowsOK, TakenIsAccounted, topic \in Seq(Messages), topic' \in Seq(Messages),
           Len(topic) <= Len(topic'), \A i \in DOMAIN topic : topic'[i] = topic[i],
           UNCHANGED dataflowVars
    PROVE  PanesOK' /\ RowsOK' /\ TakenIsAccounted'
<1>1. UNCHANGED <<mode, watermark, taken, refused, panes, rows, late, dropped>>
    BY DEF dataflowVars
<1>2. \A t : Assigned(t)' = Assigned(t)
    BY <1>1, AssignedStays
<1>3. taken \subseteq DOMAIN topic
    BY DEF PanesOK, DataflowTypeOK
<1>4. DataflowTypeOK'
    BY <1>1 DEF PanesOK, DataflowTypeOK
<1>5. PanesOK'
    BY <1>1, <1>4 DEF PanesOK, WindowsLong, PanesBounded, PanesApart, Apart
<1>6. TakenIsAccounted'
    BY <1>1, <1>2, <1>3 DEF TakenIsAccounted
<1>7. \A p : p.members \subseteq taken /\ AllLate(p) => AllLate(p)'
    BY <1>1, <1>2, <1>3 DEF AllLate, LateIn
<1>8. /\ \A p \in panes : p.members \subseteq taken
      /\ \A r \in rows : r.pane.members \subseteq taken
    BY DEF PanesOK, DataflowTypeOK
<1>9. RowsEnded' /\ NoneInside' /\ RowIsCovered'
    BY <1>1 DEF RowsOK, RowsEnded, Ended, NoneInside, RowIsCovered, Expired
<1>10. AfterRowIsLate' /\ OneRowInTime'
    BY <1>1, <1>7, <1>8 DEF RowsOK, AfterRowIsLate, OneRowInTime
<1> QED BY <1>5, <1>6, <1>9, <1>10 DEF RowsOK

-------------------------------------------------------------------------------
\* The latest of a pane

LEMMA SelectableIsLatest ==
    ASSUME topic \in Seq(Messages), NEW members, members \subseteq DOMAIN topic,
           NEW i \in Selectable(members), NEW j \in members
    PROVE  i \in members /\ topic[j].time <= topic[i].time
<1>1. i \in members /\ i \in {Pick(i, j), Pick(j, i)}
    BY DEF Selectable
<1>2. topic[i].time \in Nat /\ topic[j].time \in Nat
    BY <1>1, PublisherAssumption
<1> QED BY <1>1, <1>2 DEF Pick

LEMMA LatestStep ==
    ASSUME PanesOK, topic \in Seq(Messages), RowIsLatest, DataflowNext, UNCHANGED topic
    PROVE  RowIsLatest'
<1>1. CASE UNCHANGED rows
    BY <1>1 DEF RowIsLatest
<1>2. CASE \E p \in panes : Fire(p)
    <2>1. PICK p \in panes : Fire(p)
        BY <1>2
    <2>2. PICK i \in Selectable(p.members) : rows' = rows \union {[index |-> i, pane |-> p]}
        BY <2>1 DEF Fire
    <2>3. p.members \subseteq DOMAIN topic
        <3>1. p.members \subseteq 1..Len(topic)
            BY DEF PanesOK, DataflowTypeOK
        <3> QED BY <3>1
    <2>4. \A j \in p.members : topic[j].time <= topic[i].time
        BY <2>3, SelectableIsLatest
    <2> QED BY <2>2, <2>4 DEF RowIsLatest
<1> QED BY <1>1, <1>2 DEF DataflowNext, Take, Collect, AdvanceWatermark

-------------------------------------------------------------------------------
\* The whole

IInv ==
    /\ subject \in Subjects
    /\ PublisherTypeOK /\ Len(topic) <= MaxMessages
    /\ ListHandedOver /\ ConfirmedIsPublished
    /\ PushOK
    /\ RunsAccounted /\ SeenIsKnown /\ AckedIsHandledOrRaised
    /\ PanesOK /\ TakenIsAccounted /\ CountOK /\ RowIsLatest /\ RowsOK

LEMMA InitIInv == Init => IInv
<1>1. SUFFICES ASSUME Init PROVE IInv
    OBVIOUS
<1>2. topic = <<>> /\ call = Idle /\ confirmed = {} /\ paused = {} /\ subject \in Subjects
    BY <1>1 DEF Init, PublisherInit
<1>3. PublisherTypeOK /\ Len(topic) <= MaxMessages /\ ListHandedOver /\ ConfirmedIsPublished
    BY <1>2, PublisherAssumption DEF PublisherTypeOK, ListHandedOver, ConfirmedIsPublished, Idle
<1>4. /\ delivery = [i \in 1..MaxMessages |-> [state |-> "ready", attempts |-> 0]]
      /\ store = [s \in Instances |-> {}] /\ running = [s \in Instances |-> 0]
      /\ runs = [e \in EventIds |-> 0]
      /\ processed = {} /\ raised = {} /\ skipped = {} /\ restarts = 0 /\ seeks = 0
    BY <1>1 DEF Init, PushInit
<1>5. PushTypeOK
    BY <1>2, <1>4, PushAssumption DEF PushTypeOK, Delivery
<1>6. DeliveryOK
    BY <1>4, PushAssumption DEF DeliveryOK
<1>7. RunsAccounted
    <2>1. \A e : Unseen(e) = Instances
        BY <1>4 DEF Unseen
    <2> QED BY <1>4, <2>1, PushAssumption, FS_CardinalityType DEF RunsAccounted
<1>8. SeenIsKnown
    BY <1>4 DEF SeenIsKnown
<1>9. AckedIsHandledOrRaised
    BY <1>2 DEF AckedIsHandledOrRaised
<1>10. PanesOK
    <2>1. DataflowTypeOK
        BY <1>1, WindowAssumption DEF Init, DataflowInit, DataflowTypeOK
    <2> QED BY <1>1, <2>1
            DEF Init, DataflowInit, PanesOK, WindowsLong, PanesBounded, PanesApart
<1>11. TakenIsAccounted /\ CountOK /\ RowIsLatest /\ RowsOK
    BY <1>1 DEF Init, DataflowInit, TakenIsAccounted, CountOK, PanesShare, CountedOnce, RowIsLatest,
                RowsOK, RowsEnded, NoneInside, RowIsCovered, AfterRowIsLate, OneRowInTime
<1> QED BY <1>2, <1>3, <1>5, <1>6, <1>7, <1>8, <1>9, <1>10, <1>11 DEF IInv, PushOK

\* A longer topic leaves what is known of both subscriptions as it is.
LEMMA ArrivalStep ==
    ASSUME IInv, [Next]_vars, UNCHANGED <<pushVars, dataflowVars>>
    PROVE  /\ RunsAccounted' /\ SeenIsKnown' /\ AckedIsHandledOrRaised'
           /\ PanesOK' /\ TakenIsAccounted' /\ CountOK' /\ RowIsLatest' /\ RowsOK'
<1>1. /\ topic \in Seq(Messages) /\ topic' \in Seq(Messages)
      /\ Len(topic) <= MaxMessages /\ Len(topic') <= MaxMessages
    <2>1. topic \in Seq(Messages) /\ topic' \in Seq(Messages) /\ Len(topic) <= MaxMessages
        BY PublisherTyped DEF IInv, PublisherTypeOK
    <2>2. Grows
        BY StepGrows DEF IInv
    <2> QED BY <2>1, <2>2, AppendFacts, PublisherAssumption DEF Grows
<1>2. /\ DOMAIN topic \subseteq DOMAIN topic'
      /\ \A i \in DOMAIN topic : topic'[i] = topic[i]
    BY TopicStays DEF IInv
<1>3. RunsAccounted'
    BY DEF IInv, RunsAccounted, Unseen, pushVars
<1>4. SeenIsKnown'
    <2>1. \A s \in Instances : running[s] # 0 => running[s] \in DOMAIN topic
        BY <1>1 DEF IInv, PushOK, PushTypeOK
    <2> QED BY <1>2, <2>1 DEF IInv, SeenIsKnown, pushVars
<1>5. AckedIsHandledOrRaised'
    <2>1. SUFFICES ASSUME NEW i \in DOMAIN topic', delivery[i].state = "acked",
                          topic'[i].origin # "anonymous", i \notin skipped
                   PROVE  topic'[i].event_id \in processed \union raised
        BY DEF AckedIsHandledOrRaised, pushVars
    <2>2. i \in 1..MaxMessages
        BY <1>1, PublisherAssumption
    <2>3. i \in DOMAIN topic
        BY <1>1, <2>1, <2>2 DEF IInv, PushOK, DeliveryOK
    <2> QED BY <1>2, <2>1, <2>3 DEF IInv, AckedIsHandledOrRaised
<1>6. PanesOK' /\ RowsOK' /\ TakenIsAccounted'
    BY <1>1, <1>2, TopicStays, PanesArrival DEF IInv
<1>7. RowIsLatest'
    <2>1. UNCHANGED rows
        BY DEF dataflowVars
    <2>2. \A r \in rows : r.pane.members \subseteq 1..Len(topic) /\ r.index \in r.pane.members
        BY DEF IInv, PanesOK, DataflowTypeOK
    <2>3. \A r \in rows : r.pane.members \subseteq DOMAIN topic /\ r.index \in DOMAIN topic
        BY <1>1, <2>2
    <2> QED BY <1>2, <2>1, <2>3 DEF IInv, RowIsLatest
<1>8. CountOK'
    BY DEF IInv, CountOK, PanesShare, CountedOnce, OtherWindow, dataflowVars
<1> QED BY <1>3, <1>4, <1>5, <1>6, <1>7, <1>8

LEMMA NextIInv == IInv /\ [Next]_vars => IInv'
<1>1. SUFFICES ASSUME IInv, [Next]_vars PROVE IInv'
    OBVIOUS
<1>2. subject' = subject
    BY <1>1 DEF Next, Publish, Push, Stream, vars
<1>3. PublisherTypeOK' /\ ListHandedOver' /\ ConfirmedIsPublished'
    BY <1>1, PublisherTyped, ListHandedOverStep DEF IInv
<1>4. topic \in Seq(Messages) /\ Len(topic) <= MaxMessages
    BY <1>1 DEF IInv, PublisherTypeOK
<1>5. Len(topic') <= MaxMessages
    <2>1. Grows
        BY <1>1, StepGrows DEF IInv
    <2> QED BY <1>4, <2>1, AppendFacts, PublisherAssumption DEF Grows
<1>6. PushOK'
    BY <1>1, PushTyped DEF IInv
<1> DEFINE Known == /\ RunsAccounted' /\ SeenIsKnown' /\ AckedIsHandledOrRaised'
                    /\ PanesOK' /\ TakenIsAccounted' /\ CountOK' /\ RowIsLatest' /\ RowsOK'
<1>7. ASSUME UNCHANGED <<pushVars, dataflowVars>>
      PROVE  Known
    BY <1>1, <1>7, ArrivalStep
<1>8. ASSUME PushNext /\ UNCHANGED <<publisherVars, dataflowVars>>
      PROVE  Known
    <2>1. UNCHANGED topic /\ UNCHANGED dataflowVars
        BY <1>8 DEF publisherVars
    <2>2. RunsAccounted' /\ SeenIsKnown' /\ AckedIsHandledOrRaised'
        BY <1>1, <1>4, <1>8, <2>1, RunsStep, AckedStep DEF IInv
    <2>3. PanesOK' /\ RowsOK' /\ TakenIsAccounted'
        BY <1>1, <1>4, <2>1, PanesArrival DEF IInv
    <2>4. RowIsLatest'
        BY <1>1, <2>1 DEF IInv, RowIsLatest, dataflowVars
    <2>5. CountOK'
        BY <1>1, <2>1 DEF IInv, CountOK, PanesShare, CountedOnce, OtherWindow, dataflowVars
    <2> QED BY <2>2, <2>3, <2>4, <2>5
<1>9. ASSUME DataflowNext /\ UNCHANGED <<publisherVars, pushVars>>
      PROVE  Known
    <2>1. UNCHANGED <<topic, delivery, store, running, runs, processed, raised, skipped, restarts>>
        BY <1>9 DEF publisherVars, pushVars
    <2>2. PanesOK' /\ TakenIsAccounted' /\ CountOK' /\ RowIsLatest' /\ RowsOK'
        BY <1>1, <1>4, <1>9, <2>1, PanesStep, AccountedStep, CountStep, LatestStep, RowsOKStep
        DEF IInv
    <2>3. RunsAccounted' /\ SeenIsKnown' /\ AckedIsHandledOrRaised'
        BY <1>1, <2>1 DEF IInv, RunsAccounted, Unseen, SeenIsKnown, AckedIsHandledOrRaised
    <2> QED BY <2>2, <2>3
<1>10. Known
    BY <1>1, <1>7, <1>8, <1>9 DEF Next, Publish, Push, Stream, vars
<1> QED BY <1>1, <1>2, <1>3, <1>5, <1>6, <1>10 DEF IInv

LEMMA SpecIInv == Spec => []IInv
BY InitIInv, NextIInv, PTL DEF Spec

\* The state of the publisher, of the subscription and of the windows has its type.
THEOREM SpecTypeOK == Spec => []TypeOK
<1>1. IInv => TypeOK
    BY DEF IInv, PushOK, PanesOK, TypeOK
<1> QED BY <1>1, SpecIInv, PTL

\* retry(publish_sync) and publish_many return ids for published messages only.
THEOREM SpecConfirmedIsPublished == Spec => []ConfirmedIsPublished
<1>1. IInv => ConfirmedIsPublished
    BY DEF IInv
<1> QED BY <1>1, SpecIInv, PTL

\* IdempotencyStore bounds the starts of an event's handler by the lives of the
\* instances, for any number of instances, messages, redeliveries and seeks.
THEOREM SpecRunsAreBounded == Spec => []RunsAreBounded
<1>1. IInv => RunsAreBounded
    <2>1. SUFFICES ASSUME IInv, NEW e \in EventIds
                   PROVE  runs[e] <= Cardinality(Instances) + restarts
        BY DEF RunsAreBounded
    <2>2. /\ runs[e] \in Nat /\ restarts \in Nat /\ Cardinality(Instances) \in Nat
          /\ runs[e] + Cardinality(Unseen(e)) <= Cardinality(Instances) + restarts
        BY <2>1, PushAssumption, FS_CardinalityType
        DEF IInv, PushOK, PushTypeOK, RunsAccounted
    <2> QED BY <2>2, UnseenFinite
<1> QED BY <1>1, SpecIInv, PTL

\* process_push and the subscription acknowledge no event that no handler has ended for.
THEOREM SpecAckedIsHandledOrRaised == Spec => []AckedIsHandledOrRaised
<1>1. IInv => AckedIsHandledOrRaised
    BY DEF IInv
<1> QED BY <1>1, SpecIInv, PTL

\* LatestEvent, over windows that merge and panes that fire in any order, writes the
\* latest event of a pane.
THEOREM SpecRowIsLatest == Spec => []RowIsLatest
<1>1. IInv => RowIsLatest
    BY DEF IInv
<1> QED BY <1>1, SpecIInv, PTL

\* ParseAndValidate, windows that merge, panes that fire and state that is removed lose no
\* message that was read, whatever the windows, the watermark and the order of messages.
THEOREM SpecTakenIsAccounted == Spec => []TakenIsAccounted
<1>1. IInv => TakenIsAccounted
    BY DEF IInv
<1> QED BY <1>1, SpecIInv, PTL

\* Neither panes that fire again nor sessions that merge output a message twice for one
\* window.
THEOREM SpecCountedOnce == Spec => []CountedOnce
<1>1. IInv => CountedOnce
    BY DEF IInv, CountOK
<1> QED BY <1>1, SpecIInv, PTL

\* A window of an event id has one row of what came in time: the latest-event combine
\* writes duplicates only for what was late.
THEOREM SpecSecondRowIsLate == Spec => []SecondRowIsLate
<1>1. IInv => SecondRowIsLate
    BY OneRowIsSecondLate DEF IInv, RowsOK
<1> QED BY <1>1, SpecIInv, PTL

\* Whatever becomes of its calls, the publisher implements the topic that subscribers see.
THEOREM SpecImplementsTopic == Spec => ImplementsTopic
<1>1. Init => AcceptedTopic!Init
    BY DEF Init, PublisherInit, AcceptedTopic!Init
<1>2. IInv /\ [Next]_vars => [AcceptedTopic!Next]_topic
    BY StepGrows DEF IInv, Grows, AcceptedTopic!Next, AcceptedTopic!Publish
<1> QED BY <1>1, <1>2, SpecIInv, PTL DEF Spec, ImplementsTopic, AcceptedTopic!Spec
===============================================================================
