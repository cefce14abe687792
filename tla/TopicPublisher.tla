---------------------------- MODULE TopicPublisher ----------------------------
(***************************************************************************)
(* A process that publishes to one topic with publish_sync under retry and *)
(* with publish_many, and the other publishers of the topic.  A publish    *)
(* whose result is not known may have reached the topic.  The client       *)
(* pauses an ordering key on which a publish failed (external), and the    *)
(* code never resumes one.                                                 *)
(***************************************************************************)
EXTENDS Naturals, Sequences

CONSTANTS
    Messages,       \* [event_id, origin, ordering_key, time, defects]
    Refused,        \* messages that validate_message finds errors in
    Lists,          \* sequences that publish_many is called with
    MaxTries,       \* attempts of retry
    MaxMessages     \* bound on the topic

\* Origins: built by build_message, published by the event gateway, or foreign: with
\* defects in fields, without an event id, not JSON, or not UTF-8.
Origins == {"built", "gateway", "defective", "anonymous", "not_json", "not_text"}

Built == {m \in Messages : m.origin = "built"}

EventIds == {m.event_id : m \in Messages}

ASSUME PublisherAssumption ==
    /\ \A m \in Messages : m.origin \in Origins /\ m.time \in Nat
    /\ Refused \subseteq Built
    /\ Lists \subseteq Seq(Built)
    /\ MaxTries \in Nat \ {0}
    /\ MaxMessages \in Nat

VARIABLES
    topic,          \* the messages, in the order they were published
    call,           \* what the process is doing
    paused,         \* ordering keys that the client has paused
    confirmed       \* messages of calls that returned ids

publisherVars == <<topic, call, paused, confirmed>>

Idle == [kind |-> "idle"]
Trying == [kind: {"sync"}, message: Built, try: 1..MaxTries]
Handing == [kind: {"many"}, list: Lists, next: Nat \ {0}, failed: BOOLEAN]

PublisherTypeOK ==
    /\ topic \in Seq(Messages)
    /\ call \in {Idle} \union Trying \union Handing
    /\ paused \subseteq {m.ordering_key : m \in Built}
    /\ confirmed \subseteq Built

PublisherInit ==
    /\ topic = <<>>
    /\ call = Idle
    /\ paused = {}
    /\ confirmed = {}

Room == Len(topic) < MaxMessages

\* retry(publish_sync(m)): a message, a rebuilt one, or a replay, all with the event
\* id of their topic, property, key and version.
CallSync(m) ==
    /\ call = Idle /\ Room
    /\ call' = [kind |-> "sync", message |-> m, try |-> 1]
    /\ UNCHANGED <<topic, paused, confirmed>>

\* Faulty: a publish whose result is not awaited to the end is taken as done.
ConfirmEarly ==
    /\ call.kind = "sync"
    /\ call.message \notin Refused
    /\ \/ topic' = Append(topic, call.message)
       \/ UNCHANGED topic
    /\ confirmed' = confirmed \union {call.message}
    /\ call' = Idle
    /\ UNCHANGED paused

TrySucceeds ==
    /\ call.kind = "sync"
    /\ call.message \notin Refused /\ call.message.ordering_key \notin paused
    /\ Room
    /\ topic' = Append(topic, call.message)
    /\ confirmed' = confirmed \union {call.message}
    /\ call' = Idle
    /\ UNCHANGED paused

\* What becomes of a publish that brings no id: the contract or the paused key refuses
\* it, the client gives it up and pauses the key, or it is not answered in time.
NoId(m) ==
    \/ /\ m \in Refused \/ m.ordering_key \in paused
       /\ UNCHANGED <<topic, paused>>
    \/ /\ m \notin Refused /\ m.ordering_key \notin paused
       /\ \/ paused' = paused \union {m.ordering_key} /\ UNCHANGED topic
          \/ Room /\ topic' = Append(topic, m) /\ UNCHANGED paused
          \/ UNCHANGED <<topic, paused>>

\* retry tries again whatever the exception was, and raises the last one.
TryFails ==
    /\ call.kind = "sync"
    /\ NoId(call.message)
    /\ call' = IF call.try < MaxTries THEN [call EXCEPT !.try = @ + 1] ELSE Idle
    /\ UNCHANGED confirmed

CallMany(list) ==
    /\ call = Idle /\ Room
    /\ call' = [kind |-> "many", list |-> list, next |-> 1, failed |-> FALSE]
    /\ UNCHANGED <<topic, paused, confirmed>>

HandedOver(failed) ==
    [kind |-> "many", list |-> call.list, next |-> call.next + 1, failed |-> failed]

\* Faulty: the contract is not checked.
HandOverUnchecked ==
    /\ call.kind = "many" /\ call.next <= Len(call.list)
    /\ Room /\ call.list[call.next].ordering_key \notin paused
    /\ topic' = Append(topic, call.list[call.next])
    /\ call' = HandedOver(call.failed)
    /\ UNCHANGED <<paused, confirmed>>

\* The next message is handed to the client; a contract error ends the call, and what
\* was handed over before is published all the same.
HandOver ==
    /\ call.kind = "many" /\ call.next <= Len(call.list)
    /\ LET m == call.list[call.next] IN
        \/ /\ m \notin Refused /\ m.ordering_key \notin paused /\ Room
           /\ topic' = Append(topic, m)
           /\ call' = HandedOver(call.failed)
           /\ UNCHANGED paused
        \/ /\ m \notin Refused
           /\ NoId(m)
           /\ call' = HandedOver(TRUE)
        \/ /\ m \in Refused
           /\ call' = Idle
           /\ UNCHANGED <<topic, paused>>
    /\ UNCHANGED confirmed

\* The list of ids, or the exception of the first future that failed.
AwaitAll ==
    /\ call.kind = "many" /\ call.next > Len(call.list)
    /\ confirmed' = IF call.failed THEN confirmed
                    ELSE confirmed \union {call.list[i] : i \in DOMAIN call.list}
    /\ call' = Idle
    /\ UNCHANGED <<topic, paused>>

\* A new process has a new client.
PublisherRestarts ==
    /\ call' = Idle
    /\ paused' = {}
    /\ UNCHANGED <<topic, confirmed>>

\* Somebody publishes m: the gateway, others, or this process when its calls are not shown.
Arrives(m) ==
    /\ Room
    /\ m \notin Refused
    /\ topic' = Append(topic, m)
    /\ UNCHANGED <<call, paused, confirmed>>

PublisherNext ==
    \/ \E m \in Built : CallSync(m)
    \/ TrySucceeds
    \/ TryFails
    \/ \E list \in Lists : CallMany(list)
    \/ HandOver
    \/ AwaitAll
    \/ PublisherRestarts
    \/ \E m \in Messages \ Built : Arrives(m)

\* A call that returned ids has published each of its messages, though retry and
\* publish_many see a failure in parts, pauses and late answers.
ConfirmedIsPublished == \A m \in confirmed : \E i \in DOMAIN topic : topic[i] = m

\* The publisher as its subscribers see it: messages that the contract accepts are
\* appended one at a time, also when an exception ends a list halfway.
AcceptedTopic == INSTANCE MessageTopic WITH Accepted <- Messages \ Refused
ImplementsTopic == AcceptedTopic!Spec
===============================================================================
