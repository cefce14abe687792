------------------------- MODULE MCCanonicalPipeline -------------------------
(***************************************************************************)
(* Envelopes for model checking: two events that tie in version and time,  *)
(* a redelivery of the first, a newer version whose clock is behind, an    *)
(* invalid one, one that cannot be parsed and one from the future.         *)
(***************************************************************************)
EXTENDS CanonicalPipeline

LOCAL Make(id, key, version, updated, body, due, delivery) ==
    [event_id |-> id, key |-> key, version |-> version, updated |-> updated,
     body |-> body, due |-> due, delivery |-> delivery]

MCEnvelopes == {
    Make(1, "a", 1, 2, "valid", 0, 0),
    Make(1, "a", 1, 2, "valid", 0, 1),
    Make(2, "a", 1, 2, "valid", 0, 0),
    Make(3, "a", 2, 1, "valid", 1, 0),
    Make(4, "b", 1, 1, "valid", 0, 0),
    Make(5, "b", 1, 1, "invalid", 0, 0),
    Make(6, "b", 1, 1, "malformed", 0, 0) }

MCFewEnvelopes == {
    Make(1, "a", 1, 1, "valid", 0, 0),
    Make(2, "a", 1, 1, "invalid", 0, 0),
    Make(3, "b", 1, 1, "unversioned", 1, 0) }
===============================================================================
