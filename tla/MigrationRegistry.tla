-------------------------- MODULE MigrationRegistry --------------------------
(***************************************************************************)
(* MigrationRegistry: the operators call its methods in any order.  A      *)
(* method that raises changes nothing, so it is an action that is not      *)
(* enabled.  Reports, scores and the checklist read only and are left out. *)
(***************************************************************************)
EXTENDS Naturals, Sequences

CONSTANTS
    Workloads,      \* workload ids given to the constructor
    Strangers,      \* ids the callers use that no workload has
    dependency_ids, \* the workloads each workload waits for
    Evidences,      \* evidence that may be observed
    MaxEvidence     \* validations of one workload

Ids == Workloads \union Strangers

WaveStatus == {"PLANNED", "READY", "MIGRATING", "DUAL_RUN", "VALIDATING",
               "CUTOVER", "COMPLETE", "ROLLED_BACK"}

MigrationEvidence == [counts_match: BOOLEAN, checksums_match: BOOLEAN,
                      schema_compatible: BOOLEAN, quality_passed: BOOLEAN]

ASSUME RegistryAssumption ==
    /\ Workloads \intersect Strangers = {}
    /\ dependency_ids \in [Workloads -> SUBSET Ids]
    /\ Evidences \subseteq MigrationEvidence
    /\ MaxEvidence \in Nat

VARIABLES
    status,         \* a partial function on ids
    evidence,       \* validations of each id, in the order they came
    checkpoints,    \* ids with a cutover checkpoint, its contents left out
    decision        \* what the last decision on each id was

vars == <<status, evidence, checkpoints, decision>>

TypeOK ==
    /\ DOMAIN status \subseteq Ids
    /\ status \in [DOMAIN status -> WaveStatus]
    /\ evidence \in [Ids -> Seq(Evidences)]
    /\ \A id \in Ids \ Workloads : evidence[id] = <<>>
    /\ checkpoints \subseteq Ids
    /\ decision \in [Ids -> {"none", "approved", "refused"}]

\* The constructor reads its argument twice: of an iterable that can be read
\* only once (a generator) nothing is left for status.
Init ==
    /\ \/ status = [w \in Workloads |-> "PLANNED"]
       \/ status = [w \in {} |-> "PLANNED"]
    /\ evidence = [id \in Ids |-> <<>>]
    /\ checkpoints = {}
    /\ decision = [id \in Ids |-> "none"]

-------------------------------------------------------------------------------
HasStatus(id, s) == id \in DOMAIN status /\ status[id] = s

SetStatus(id, s) ==
    status' = [i \in DOMAIN status \union {id} |-> IF i = id THEN s ELSE status[i]]

reconciled(e) == e.counts_match /\ e.checksums_match

cutover_ready(e) == reconciled(e) /\ e.schema_compatible /\ e.quality_passed

dependencies_complete(w) == \A d \in dependency_ids[w] : HasStatus(d, "COMPLETE")

BothRecentSucceeded(history) ==
    /\ Len(history) >= 2
    /\ \A i \in (Len(history) - 1)..Len(history) : cutover_ready(history[i])

-------------------------------------------------------------------------------
\* Faulty: the dependencies are not looked at.
MarkReadyAnyway(w) ==
    /\ SetStatus(w, "READY")
    /\ UNCHANGED <<evidence, checkpoints, decision>>

mark_ready(w) ==
    /\ dependencies_complete(w)
    /\ SetStatus(w, "READY")
    /\ UNCHANGED <<evidence, checkpoints, decision>>

start(id) ==
    /\ HasStatus(id, "READY")
    /\ SetStatus(id, "MIGRATING")
    /\ UNCHANGED <<evidence, checkpoints, decision>>

start_dual_run(id) ==
    /\ HasStatus(id, "MIGRATING")
    /\ SetStatus(id, "DUAL_RUN")
    /\ UNCHANGED <<evidence, checkpoints, decision>>

\* Faulty: a workload that is through its cutover keeps its status.
ValidateInPlace(w, e) ==
    /\ w \in Workloads
    /\ Len(evidence[w]) < MaxEvidence
    /\ evidence' = [evidence EXCEPT ![w] = Append(@, e)]
    /\ IF HasStatus(w, "CUTOVER") THEN UNCHANGED status ELSE SetStatus(w, "VALIDATING")
    /\ UNCHANGED <<checkpoints, decision>>

\* Faulty: an unknown workload is not refused.
ValidateAnyId(id, e) ==
    /\ Len(evidence[id]) < MaxEvidence
    /\ evidence' = [evidence EXCEPT ![id] = Append(@, e)]
    /\ SetStatus(id, "VALIDATING")
    /\ UNCHANGED <<checkpoints, decision>>

validate(id, e) ==
    /\ id \in Workloads
    /\ Len(evidence[id]) < MaxEvidence
    /\ evidence' = [evidence EXCEPT ![id] = Append(@, e)]
    /\ SetStatus(id, "VALIDATING")
    /\ UNCHANGED <<checkpoints, decision>>

record_checkpoint(id) ==
    /\ checkpoints' = checkpoints \union {id}
    /\ UNCHANGED <<status, evidence, decision>>

\* cutover with an empty list of reasons, whatever the status.
ApproveCutover(id) ==
    /\ BothRecentSucceeded(evidence[id])
    /\ id \in checkpoints
    /\ decision' = [decision EXCEPT ![id] = "approved"]
    /\ SetStatus(id, "CUTOVER")
    /\ UNCHANGED <<evidence, checkpoints>>

RefuseCutover(id) ==
    /\ ~BothRecentSucceeded(evidence[id]) \/ id \notin checkpoints
    /\ decision' = [decision EXCEPT ![id] = "refused"]
    /\ UNCHANGED <<status, evidence, checkpoints>>

complete(id) ==
    /\ HasStatus(id, "CUTOVER")
    /\ SetStatus(id, "COMPLETE")
    /\ UNCHANGED <<evidence, checkpoints, decision>>

rollback(id) ==
    /\ id \in checkpoints
    /\ SetStatus(id, "ROLLED_BACK")
    /\ UNCHANGED <<evidence, checkpoints, decision>>

Next ==
    \/ \E w \in Workloads : mark_ready(w)
    \/ \E id \in Ids :
        \/ start(id)
        \/ start_dual_run(id)
        \/ \E e \in Evidences : validate(id, e)
        \/ record_checkpoint(id)
        \/ ApproveCutover(id)
        \/ RefuseCutover(id)
        \/ complete(id)
        \/ rollback(id)

Spec == Init /\ [][Next]_vars

-------------------------------------------------------------------------------
\* Somewhere in its history the workload passed two validations in a row.
OnceValidated(id) ==
    \E i \in 2..Len(evidence[id]) :
        cutover_ready(evidence[id][i - 1]) /\ cutover_ready(evidence[id][i])

\* A workload that is cut over or complete has its last two validations passed
\* and a checkpoint to roll back to, and the last decision on it was approval:
\* later validations, decisions and checkpoints, in any order, take none of the
\* three away without moving the workload out of these states.
CutoverHasEvidence ==
    \A id \in DOMAIN status : status[id] \in {"CUTOVER", "COMPLETE"} =>
        /\ BothRecentSucceeded(evidence[id])
        /\ id \in checkpoints
        /\ decision[id] = "approved"

\* A migration under way began after its dependencies: each of them was cut over
\* on evidence and with a checkpoint, even if it has been rolled back or is being
\* validated again since.
StartedAfterDependencies ==
    \A w \in DOMAIN status : status[w] \in {"READY", "MIGRATING", "DUAL_RUN"} =>
        \A d \in dependency_ids[w] : OnceValidated(d) /\ d \in checkpoints

\* An id that no workload has can get a checkpoint and be rolled back to it, and
\* so enter the status table, but it never takes part in a migration.
StrangersNeverMigrate ==
    \A id \in DOMAIN status \ Workloads : status[id] = "ROLLED_BACK"
===============================================================================
