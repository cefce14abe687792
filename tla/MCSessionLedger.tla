--------------------------- MODULE MCSessionLedger ---------------------------
(***************************************************************************)
(* Constants for model checking the consumer ledger: events of one session *)
(* whose versions and times disagree, and two that tie.                    *)
(***************************************************************************)
EXTENDS SessionLedger, TLC

CONSTANTS c1, c2

LOCAL Make(id, version, updated) ==
    [event_id |-> id, session |-> 1, version |-> version, updated |-> updated]

MCEvents == {Make(1, 1, 2), Make(2, 1, 2), Make(3, 2, 1)}
MCConsumers == {c1, c2}
MCSymmetry == Permutations(MCConsumers)
===============================================================================
