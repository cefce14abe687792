---------------------------- MODULE MCEventIngest ----------------------------
(* Interchangeable handlers.                                               *)
EXTENDS EventIngest, TLC

MCSymmetry == Permutations(Handlers) \union Permutations(Consumers)
===============================================================================
