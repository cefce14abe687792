------------------------------- MODULE MCOutbox -------------------------------
(***************************************************************************)
(* Constants for model checking the outbox.  The worker set is symmetric;  *)
(* the events are not: one of them is a contract failure.                  *)
(***************************************************************************)
EXTENDS Outbox, TLC

CONSTANTS e1, e2, w1, w2

MCEvents == {e1, e2}
MCContractFailures == {e2}
MCWorkers == {w1, w2}
MCSymmetry == Permutations(MCWorkers)
===============================================================================
