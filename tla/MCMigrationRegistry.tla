------------------------- MODULE MCMigrationRegistry -------------------------
(* Two workloads of default_workloads, one waiting for the other.          *)
EXTENDS MigrationRegistry

MCDependencies == [w \in Workloads |->
                    IF w = "reward_activity" THEN {"hotel_reservation"} ELSE {}]

Evidence(counts, quality) ==
    [counts_match |-> counts, checksums_match |-> counts,
     schema_compatible |-> TRUE, quality_passed |-> quality]

MCEvidences == {Evidence(TRUE, TRUE), Evidence(FALSE, TRUE), Evidence(TRUE, FALSE)}
===============================================================================
