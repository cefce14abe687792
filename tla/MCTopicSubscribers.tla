-------------------------- MODULE MCTopicSubscribers --------------------------
(***************************************************************************)
(* Two messages of the library, one that its contract refuses, an event of *)
(* the gateway with two times and one with a third, and what other         *)
(* publishers may send.                                                    *)
(***************************************************************************)
EXTENDS TopicSubscribers, TLC

Message(id, origin, key, time, defects) ==
    [event_id |-> id, origin |-> origin, ordering_key |-> key, time |-> time,
     defects |-> defects]

booking == Message("B", "built", "k1", 0, {})
change == Message("C", "built", "k1", 0, {})
oversized == Message("D", "built", "k2", 0, {})
early == Message("G", "gateway", "", 1, {})
between == Message("G", "gateway", "", 2, {})
later == Message("G", "gateway", "", 3, {})
mistyped == Message("M", "defective", "", 1, {"UNSUPPORTED_SCHEMA_VERSION", "INVALID_EVENT_TYPE"})
anonymous == Message("", "anonymous", "", 1, {})
notJson == Message("J", "not_json", "", 0, {})
notText == Message("T", "not_text", "", 0, {})

MCMessages == {booking, change, oversized, early, between, later, mistyped, anonymous, notJson, notText}
MCRefused == {oversized}
MCLists == {<<booking, change>>, <<change, oversized>>}
MCModes == {"fixed", "sliding", "session"}
MCStreams == [push |-> {<<booking, anonymous, booking>>, <<early, notText, booking>>},
              dataflow |-> {<<early, between, later>>, <<between, between, later>>,
                            <<mistyped, notJson, early>>, <<booking, notText, early>>}]

CONSTANTS i1, i2

MCInstances == {i1, i2}
Symmetry == Permutations(MCInstances)
===============================================================================
