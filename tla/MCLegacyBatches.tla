--------------------------- MODULE MCLegacyBatches ---------------------------
(***************************************************************************)
(* Constants for model checking the batch packages: one valid and one      *)
(* invalid row, and executions that are symmetric.                         *)
(***************************************************************************)
EXTENDS LegacyBatches, TLC

CONSTANTS k1, k2, r1, r2

MCRows == {k1, k2}
MCInvalidRows == {k2}
MCPostdatedRows == {k1}
MCRuns == {r1, r2}
MCSymmetry == Permutations(MCRuns)
===============================================================================
