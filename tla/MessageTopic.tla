----------------------------- MODULE MessageTopic -----------------------------
(***************************************************************************)
(* What subscribers may assume of a topic: it grows at its end, by one     *)
(* accepted message at a time.                                             *)
(***************************************************************************)
EXTENDS Sequences

CONSTANT Accepted

VARIABLE topic

Init == topic = <<>>

Publish(m) == topic' = Append(topic, m)

Next == \E m \in Accepted : Publish(m)

Spec == Init /\ [][Next]_topic
===============================================================================
