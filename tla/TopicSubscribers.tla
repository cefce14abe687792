--------------------------- MODULE TopicSubscribers ---------------------------
(***************************************************************************)
(* The publisher of a topic and two subscriptions of it, a push endpoint   *)
(* and a Dataflow pipeline.  Subscriptions do not act on each other or on  *)
(* the publisher, and of the publisher they see what MessageTopic says, so *)
(* a behaviour shows the steps of one of the three, its subject; the topic *)
(* of a subscription grows as MessageTopic allows.                         *)
(***************************************************************************)
EXTENDS PushProcessing, DataflowWindows

CONSTANT Streams    \* per subscription, sequences of messages that its topic may become

Subscriptions == {"push", "dataflow"}
Subjects == Subscriptions \union {"publisher"}

ASSUME StreamsAssumption == Streams \in [Subscriptions -> SUBSET Seq(Messages \ Refused)]

VARIABLE subject

vars == <<publisherVars, pushVars, dataflowVars, subject>>

TypeOK ==
    /\ subject \in Subjects
    /\ PublisherTypeOK
    /\ PushTypeOK
    /\ DataflowTypeOK

Init ==
    /\ subject \in Subjects
    /\ PublisherInit
    /\ PushInit
    /\ DataflowInit

Publish ==
    /\ \/ subject = "publisher" /\ PublisherNext
       \/ /\ subject # "publisher"
          /\ \E stream \in Streams[subject] :
                /\ Len(topic) < Len(stream)
                /\ topic = SubSeq(stream, 1, Len(topic))
                /\ Arrives(stream[Len(topic) + 1])
    /\ UNCHANGED <<pushVars, dataflowVars, subject>>

Push ==
    /\ subject = "push"
    /\ PushNext
    /\ UNCHANGED <<publisherVars, dataflowVars, subject>>

Stream ==
    /\ subject = "dataflow"
    /\ DataflowNext
    /\ UNCHANGED <<publisherVars, pushVars, subject>>

Next == Publish \/ Push \/ Stream

Spec == Init /\ [][Next]_vars
===============================================================================
