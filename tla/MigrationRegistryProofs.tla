----------------------- MODULE MigrationRegistryProofs -----------------------
(***************************************************************************)
(* Proofs about the migration registry, for any workloads, dependencies    *)
(* (cycles included) and evidence.  The properties support each other: a   *)
(* workload becomes ready because its dependencies are complete, and what  *)
(* a complete workload leaves behind outlives its status.                  *)
(***************************************************************************)
EXTENDS MigrationRegistry, SequenceTheorems, TLAPS

IInv ==
    /\ TypeOK
    /\ CutoverHasEvidence
    /\ StartedAfterDependencies
    /\ StrangersNeverMigrate

-------------------------------------------------------------------------------
\* What a step may do to the status: it sets one id to one status.
LEMMA SetStatusEffect ==
    ASSUME TypeOK, NEW id \in Ids, NEW s \in WaveStatus, SetStatus(id, s)
    PROVE  /\ DOMAIN status' = DOMAIN status \union {id}
           /\ DOMAIN status' \subseteq Ids
           /\ status' \in [DOMAIN status' -> WaveStatus]
           /\ status'[id] = s
           /\ \A i \in DOMAIN status : i # id => status'[i] = status[i]
  BY DEF SetStatus, TypeOK

\* Two passed validations at the end of a history are two in a row.
LEMMA RecentIsOnce ==
    ASSUME TypeOK, NEW id \in Ids, BothRecentSucceeded(evidence[id])
    PROVE  OnceValidated(id)
  <1> DEFINE h == evidence[id]
  <1>1. h \in Seq(Evidences) /\ Len(h) \in Nat /\ Len(h) >= 2
    BY DEF TypeOK, BothRecentSucceeded
  <1>2. /\ Len(h) - 1 \in (Len(h) - 1)..Len(h)
        /\ Len(h) \in (Len(h) - 1)..Len(h)
        /\ Len(h) \in 2..Len(h)
    BY <1>1
  <1>3. cutover_ready(h[Len(h) - 1]) /\ cutover_ready(h[Len(h)])
    BY <1>2 DEF BothRecentSucceeded
  <1> QED BY <1>2, <1>3 DEF OnceValidated

\* Histories only grow at their end, so what was validated once stays so.
LEMMA OnceValidatedStays ==
    ASSUME TypeOK, NEW id \in Ids, NEW w \in Ids, NEW e \in Evidences,
           evidence' = [evidence EXCEPT ![w] = Append(@, e)],
           OnceValidated(id)
    PROVE  OnceValidated(id)'
  <1> DEFINE h == evidence[id]
  <1>1. evidence \in [Ids -> Seq(Evidences)] /\ h \in Seq(Evidences)
    BY DEF TypeOK
  <1>2. PICK i \in 2..Len(h) : cutover_ready(h[i - 1]) /\ cutover_ready(h[i])
    BY DEF OnceValidated
  <1>3. CASE id = w
    <2>1. evidence'[id] = Append(h, e)
      BY <1>1, <1>3
    <2>2. Len(Append(h, e)) = Len(h) + 1 /\ Len(h) \in Nat
      BY <1>1
    <2>3. Append(h, e)[i] = h[i] /\ Append(h, e)[i - 1] = h[i - 1]
      BY <1>1, <2>2
    <2>4. i \in 2..Len(evidence'[id])
      BY <2>1, <2>2
    <2> QED BY <1>2, <2>1, <2>3, <2>4 DEF OnceValidated
  <1>4. CASE id # w
    BY <1>1, <1>2, <1>4 DEF OnceValidated
  <1> QED BY <1>3, <1>4

-------------------------------------------------------------------------------
\* Every step keeps the types.
LEMMA TypeOKStep == TypeOK /\ [Next]_vars => TypeOK'
  <1> SUFFICES ASSUME TypeOK, [Next]_vars PROVE TypeOK'
    OBVIOUS
  <1>0. /\ DOMAIN status \subseteq Ids
        /\ status \in [DOMAIN status -> WaveStatus]
        /\ evidence \in [Ids -> Seq(Evidences)]
        /\ \A id \in Ids \ Workloads : evidence[id] = <<>>
        /\ checkpoints \subseteq Ids
        /\ decision \in [Ids -> {"none", "approved", "refused"}]
    BY DEF TypeOK
  <1>s. /\ "READY" \in WaveStatus /\ "MIGRATING" \in WaveStatus /\ "DUAL_RUN" \in WaveStatus
        /\ "VALIDATING" \in WaveStatus /\ "CUTOVER" \in WaveStatus
        /\ "COMPLETE" \in WaveStatus /\ "ROLLED_BACK" \in WaveStatus
    BY DEF WaveStatus
  <1>w. Workloads \subseteq Ids
    BY DEF Ids
  <1>1. ASSUME NEW w \in Workloads, mark_ready(w) PROVE TypeOK'
    BY <1>0, <1>s, <1>w, <1>1, SetStatusEffect DEF mark_ready, TypeOK
  <1>2. ASSUME NEW id \in Ids, start(id) PROVE TypeOK'
    BY <1>0, <1>s, <1>2, SetStatusEffect DEF start, TypeOK
  <1>3. ASSUME NEW id \in Ids, start_dual_run(id) PROVE TypeOK'
    BY <1>0, <1>s, <1>3, SetStatusEffect DEF start_dual_run, TypeOK
  <1>4. ASSUME NEW id \in Ids, NEW e \in Evidences, validate(id, e) PROVE TypeOK'
    <2>1. id \in Workloads /\ evidence' = [evidence EXCEPT ![id] = Append(@, e)]
      BY <1>4 DEF validate
    <2>2. Append(evidence[id], e) \in Seq(Evidences)
      BY <1>0
    <2>3. /\ evidence' \in [Ids -> Seq(Evidences)]
          /\ \A i \in Ids \ Workloads : evidence'[i] = <<>>
      BY <1>0, <2>1, <2>2
    <2>4. /\ DOMAIN status' \subseteq Ids
          /\ status' \in [DOMAIN status' -> WaveStatus]
      BY <1>s, <1>4, SetStatusEffect DEF validate
    <2> QED BY <1>0, <1>4, <2>3, <2>4 DEF validate, TypeOK
  <1>5. ASSUME NEW id \in Ids, record_checkpoint(id) PROVE TypeOK'
    BY <1>0, <1>5 DEF record_checkpoint, TypeOK
  <1>6. ASSUME NEW id \in Ids, ApproveCutover(id) PROVE TypeOK'
    BY <1>0, <1>s, <1>6, SetStatusEffect DEF ApproveCutover, TypeOK
  <1>7. ASSUME NEW id \in Ids, RefuseCutover(id) PROVE TypeOK'
    BY <1>0, <1>7 DEF RefuseCutover, TypeOK
  <1>8. ASSUME NEW id \in Ids, complete(id) PROVE TypeOK'
    BY <1>0, <1>s, <1>8, SetStatusEffect DEF complete, TypeOK
  <1>9. ASSUME NEW id \in Ids, rollback(id) PROVE TypeOK'
    BY <1>0, <1>s, <1>9, SetStatusEffect DEF rollback, TypeOK
  <1>10. CASE UNCHANGED vars
    BY <1>0, <1>10 DEF vars, TypeOK
  <1> QED
    BY <1>1, <1>2, <1>3, <1>4, <1>5, <1>6, <1>7, <1>8, <1>9, <1>10 DEF Next

-------------------------------------------------------------------------------
\* A workload enters CUTOVER on its evidence and COMPLETE from CUTOVER, and what
\* adds to its history takes it out of both.
LEMMA CutoverStep == TypeOK /\ CutoverHasEvidence /\ [Next]_vars => CutoverHasEvidence'
  <1> SUFFICES ASSUME TypeOK, CutoverHasEvidence, [Next]_vars PROVE CutoverHasEvidence'
    OBVIOUS
  <1>0. \A id \in DOMAIN status : status[id] \in {"CUTOVER", "COMPLETE"} =>
            /\ BothRecentSucceeded(evidence[id])
            /\ id \in checkpoints
            /\ decision[id] = "approved"
    BY DEF CutoverHasEvidence
  <1>t. /\ DOMAIN status \subseteq Ids
        /\ evidence \in [Ids -> Seq(Evidences)]
        /\ decision \in [Ids -> {"none", "approved", "refused"}]
        /\ Workloads \subseteq Ids
    BY DEF TypeOK, Ids
  <1>a. ASSUME NEW id \in Ids, NEW s \in WaveStatus \ {"CUTOVER", "COMPLETE"},
               SetStatus(id, s), UNCHANGED <<checkpoints, decision>>,
               \A i \in DOMAIN status : i # id => evidence'[i] = evidence[i]
        PROVE  CutoverHasEvidence'
    <2>1. SUFFICES ASSUME NEW i \in DOMAIN status', status'[i] \in {"CUTOVER", "COMPLETE"}
                   PROVE  /\ BothRecentSucceeded(evidence'[i])
                          /\ i \in checkpoints
                          /\ decision[i] = "approved"
      BY <1>a DEF CutoverHasEvidence
    <2>2. /\ DOMAIN status' = DOMAIN status \union {id} /\ status'[id] = s
          /\ \A j \in DOMAIN status : j # id => status'[j] = status[j]
      BY <1>a, SetStatusEffect
    <2>3. i # id
      BY <1>a, <2>1, <2>2
    <2>4. i \in DOMAIN status /\ status'[i] = status[i]
      BY <2>1, <2>2, <2>3
    <2> QED BY <1>0, <1>a, <2>1, <2>3, <2>4
  <1>1. ASSUME NEW w \in Workloads, mark_ready(w) PROVE CutoverHasEvidence'
    BY <1>t, <1>1, <1>a DEF mark_ready, WaveStatus
  <1>2. ASSUME NEW id \in Ids, start(id) PROVE CutoverHasEvidence'
    BY <1>2, <1>a DEF start, WaveStatus
  <1>3. ASSUME NEW id \in Ids, start_dual_run(id) PROVE CutoverHasEvidence'
    BY <1>3, <1>a DEF start_dual_run, WaveStatus
  <1>4. ASSUME NEW id \in Ids, NEW e \in Evidences, validate(id, e) PROVE CutoverHasEvidence'
    <2>1. \A i \in DOMAIN status : i # id => evidence'[i] = evidence[i]
      BY <1>t, <1>4 DEF validate
    <2> QED BY <1>4, <1>a, <2>1 DEF validate, WaveStatus
  <1>5. ASSUME NEW id \in Ids, record_checkpoint(id) PROVE CutoverHasEvidence'
    BY <1>0, <1>5 DEF record_checkpoint, CutoverHasEvidence
  <1>6. ASSUME NEW id \in Ids, ApproveCutover(id) PROVE CutoverHasEvidence'
    <2>1. /\ BothRecentSucceeded(evidence[id]) /\ id \in checkpoints
          /\ decision' = [decision EXCEPT ![id] = "approved"]
          /\ SetStatus(id, "CUTOVER")
          /\ UNCHANGED <<evidence, checkpoints>>
      BY <1>6 DEF ApproveCutover
    <2>2. /\ DOMAIN status' = DOMAIN status \union {id}
          /\ \A i \in DOMAIN status : i # id => status'[i] = status[i]
      BY <2>1, SetStatusEffect DEF WaveStatus
    <2>3. /\ decision'[id] = "approved"
          /\ \A i \in DOMAIN status : i # id => decision'[i] = decision[i]
      BY <1>t, <2>1
    <2> QED BY <1>0, <2>1, <2>2, <2>3 DEF CutoverHasEvidence
  <1>7. ASSUME NEW id \in Ids, RefuseCutover(id) PROVE CutoverHasEvidence'
    <2>1. /\ ~BothRecentSucceeded(evidence[id]) \/ id \notin checkpoints
          /\ decision' = [decision EXCEPT ![id] = "refused"]
          /\ UNCHANGED <<status, evidence, checkpoints>>
      BY <1>7 DEF RefuseCutover
    <2>2. \A i \in DOMAIN status : i # id => decision'[i] = decision[i]
      BY <1>t, <2>1
    <2> QED BY <1>0, <2>1, <2>2 DEF CutoverHasEvidence
  <1>8. ASSUME NEW id \in Ids, complete(id) PROVE CutoverHasEvidence'
    <2>1. /\ id \in DOMAIN status /\ status[id] = "CUTOVER" /\ SetStatus(id, "COMPLETE")
          /\ UNCHANGED <<evidence, checkpoints, decision>>
      BY <1>8 DEF complete, HasStatus
    <2>2. /\ DOMAIN status' = DOMAIN status \union {id}
          /\ \A i \in DOMAIN status : i # id => status'[i] = status[i]
      BY <2>1, SetStatusEffect DEF WaveStatus
    <2> QED BY <1>0, <2>1, <2>2 DEF CutoverHasEvidence
  <1>9. ASSUME NEW id \in Ids, rollback(id) PROVE CutoverHasEvidence'
    BY <1>9, <1>a DEF rollback, WaveStatus
  <1>10. CASE UNCHANGED vars
    BY <1>0, <1>10 DEF vars, CutoverHasEvidence
  <1> QED
    BY <1>1, <1>2, <1>3, <1>4, <1>5, <1>6, <1>7, <1>8, <1>9, <1>10 DEF Next

\* A workload becomes ready on complete dependencies, and what they were validated
\* with stays on record.
LEMMA StartedStep ==
    TypeOK /\ CutoverHasEvidence /\ StartedAfterDependencies /\ StrangersNeverMigrate
        /\ [Next]_vars => StartedAfterDependencies'
  <1> SUFFICES ASSUME TypeOK, CutoverHasEvidence, StartedAfterDependencies,
                      StrangersNeverMigrate, [Next]_vars
               PROVE  StartedAfterDependencies'
    OBVIOUS
  <1> DEFINE Started == {"READY", "MIGRATING", "DUAL_RUN"}
             Prepared(w) == \A d \in dependency_ids[w] : OnceValidated(d) /\ d \in checkpoints
  <1>0. \A w \in DOMAIN status : status[w] \in Started => Prepared(w)
    BY DEF StartedAfterDependencies
  <1>t. DOMAIN status \subseteq Ids /\ Workloads \subseteq Ids
    BY DEF TypeOK, Ids
  <1>b. ASSUME NEW id \in Ids, NEW s \in WaveStatus, SetStatus(id, s),
               s \in Started => Prepared(id),
               UNCHANGED <<evidence, checkpoints>>
        PROVE  StartedAfterDependencies'
    <2>1. \A d : OnceValidated(d)' = OnceValidated(d)
      BY <1>b DEF OnceValidated
    <2>2. SUFFICES ASSUME NEW w \in DOMAIN status', status'[w] \in Started
                   PROVE  Prepared(w)
      BY <1>b, <2>1 DEF StartedAfterDependencies
    <2>3. CASE w = id
      BY <1>b, <2>2, <2>3, SetStatusEffect
    <2>4. CASE w # id
      <3>1. w \in DOMAIN status /\ status'[w] = status[w]
        BY <1>b, <2>2, <2>4, SetStatusEffect
      <3> QED BY <1>0, <2>2, <3>1
    <2> QED BY <2>3, <2>4
  <1>1. ASSUME NEW w \in Workloads, mark_ready(w) PROVE StartedAfterDependencies'
    <2>1. Prepared(w)
      <3> SUFFICES ASSUME NEW d \in dependency_ids[w]
                   PROVE  OnceValidated(d) /\ d \in checkpoints
        OBVIOUS
      <3>1. d \in DOMAIN status /\ status[d] = "COMPLETE"
        BY <1>1 DEF mark_ready, dependencies_complete, HasStatus
      <3>2. d \in Ids /\ BothRecentSucceeded(evidence[d]) /\ d \in checkpoints
        BY <1>t, <3>1 DEF CutoverHasEvidence
      <3> QED BY <3>2, RecentIsOnce
    <2> QED BY <1>t, <1>1, <1>b, <2>1 DEF mark_ready, WaveStatus
  <1>2. ASSUME NEW id \in Ids, start(id) PROVE StartedAfterDependencies'
    BY <1>0, <1>2, <1>b DEF start, HasStatus, WaveStatus
  <1>3. ASSUME NEW id \in Ids, start_dual_run(id) PROVE StartedAfterDependencies'
    BY <1>0, <1>3, <1>b DEF start_dual_run, HasStatus, WaveStatus
  <1>4. ASSUME NEW id \in Ids, NEW e \in Evidences, validate(id, e)
        PROVE  StartedAfterDependencies'
    <2>1. /\ evidence' = [evidence EXCEPT ![id] = Append(@, e)]
          /\ checkpoints' = checkpoints
          /\ SetStatus(id, "VALIDATING")
      BY <1>4 DEF validate
    <2>2. \A d \in Ids : OnceValidated(d) => OnceValidated(d)'
      BY <2>1, OnceValidatedStays
    <2>3. \A w \in DOMAIN status' : status'[w] \in Started => w \in DOMAIN status /\ Prepared(w)
      BY <1>0, <2>1, SetStatusEffect DEF WaveStatus
    <2>4. \A w \in DOMAIN status : status[w] \in Started => w \in Workloads
      BY DEF StrangersNeverMigrate
    <2>5. \A w \in DOMAIN status' : status'[w] \in Started =>
            status[w] \in Started /\ dependency_ids[w] \subseteq Ids
      BY <2>1, <2>4, SetStatusEffect, RegistryAssumption DEF WaveStatus
    <2> QED BY <2>1, <2>2, <2>3, <2>5 DEF StartedAfterDependencies
  <1>5. ASSUME NEW id \in Ids, record_checkpoint(id) PROVE StartedAfterDependencies'
    BY <1>0, <1>5 DEF record_checkpoint, StartedAfterDependencies, OnceValidated
  <1>6. ASSUME NEW id \in Ids, ApproveCutover(id) PROVE StartedAfterDependencies'
    BY <1>6, <1>b DEF ApproveCutover, WaveStatus
  <1>7. ASSUME NEW id \in Ids, RefuseCutover(id) PROVE StartedAfterDependencies'
    BY <1>0, <1>7 DEF RefuseCutover, StartedAfterDependencies, OnceValidated
  <1>8. ASSUME NEW id \in Ids, complete(id) PROVE StartedAfterDependencies'
    BY <1>8, <1>b DEF complete, WaveStatus
  <1>9. ASSUME NEW id \in Ids, rollback(id) PROVE StartedAfterDependencies'
    BY <1>9, <1>b DEF rollback, WaveStatus
  <1>10. CASE UNCHANGED vars
    BY <1>0, <1>10 DEF vars, StartedAfterDependencies, OnceValidated
  <1> QED
    BY <1>1, <1>2, <1>3, <1>4, <1>5, <1>6, <1>7, <1>8, <1>9, <1>10 DEF Next

\* An id outside the inventory is refused by every method but the checkpoint and
\* the rollback: it has no evidence, and READY is for workloads.
LEMMA StrangersStep == TypeOK /\ StrangersNeverMigrate /\ [Next]_vars => StrangersNeverMigrate'
  <1> SUFFICES ASSUME TypeOK, StrangersNeverMigrate, [Next]_vars PROVE StrangersNeverMigrate'
    OBVIOUS
  <1>0. \A i \in DOMAIN status \ Workloads : status[i] = "ROLLED_BACK"
    BY DEF StrangersNeverMigrate
  <1>a. ASSUME NEW id \in Ids, NEW s \in WaveStatus, SetStatus(id, s),
               id \in Workloads \/ s = "ROLLED_BACK"
        PROVE  StrangersNeverMigrate'
    BY <1>0, <1>a, SetStatusEffect DEF StrangersNeverMigrate
  <1>1. ASSUME NEW w \in Workloads, mark_ready(w) PROVE StrangersNeverMigrate'
    BY <1>1, <1>a DEF mark_ready, WaveStatus, Ids
  <1>2. ASSUME NEW id \in Ids, start(id) PROVE StrangersNeverMigrate'
    BY <1>0, <1>2, <1>a DEF start, HasStatus, WaveStatus
  <1>3. ASSUME NEW id \in Ids, start_dual_run(id) PROVE StrangersNeverMigrate'
    BY <1>0, <1>3, <1>a DEF start_dual_run, HasStatus, WaveStatus
  <1>4. ASSUME NEW id \in Ids, NEW e \in Evidences, validate(id, e) PROVE StrangersNeverMigrate'
    BY <1>4, <1>a DEF validate, WaveStatus
  <1>5. ASSUME NEW id \in Ids, ApproveCutover(id) PROVE StrangersNeverMigrate'
    <2>1. Len(evidence[id]) >= 2
      BY <1>5 DEF ApproveCutover, BothRecentSucceeded
    <2>2. id \in Workloads
      BY <2>1 DEF TypeOK
    <2> QED BY <1>5, <1>a, <2>2 DEF ApproveCutover, WaveStatus
  <1>6. ASSUME NEW id \in Ids, complete(id) PROVE StrangersNeverMigrate'
    BY <1>0, <1>6, <1>a DEF complete, HasStatus, WaveStatus
  <1>7. ASSUME NEW id \in Ids, rollback(id) PROVE StrangersNeverMigrate'
    BY <1>7, <1>a DEF rollback, WaveStatus
  <1>8. ASSUME UNCHANGED status PROVE StrangersNeverMigrate'
    BY <1>0, <1>8 DEF StrangersNeverMigrate
  <1> QED
    BY <1>1, <1>2, <1>3, <1>4, <1>5, <1>6, <1>7, <1>8
       DEF Next, record_checkpoint, RefuseCutover, vars

\* The registry starts planned or without any status, and without evidence.
LEMMA InitInv == Init => IInv
  <1> SUFFICES ASSUME Init PROVE IInv
    OBVIOUS
  <1>1. \A id \in DOMAIN status : id \in Workloads /\ status[id] = "PLANNED"
    BY DEF Init
  <1>2. status \in [DOMAIN status -> WaveStatus]
    BY DEF Init, WaveStatus
  <1>3. TypeOK
    BY <1>1, <1>2 DEF Init, TypeOK, Ids
  <1> QED
    BY <1>1, <1>3 DEF IInv, CutoverHasEvidence, StartedAfterDependencies, StrangersNeverMigrate

-------------------------------------------------------------------------------
\* The inductive invariant holds whatever the operators call, in any order.
THEOREM RegistryInvariance == Spec => []IInv
  <1>1. IInv /\ [Next]_vars => IInv'
    BY TypeOKStep, CutoverStep, StartedStep, StrangersStep DEF IInv
  <1> QED BY InitInv, <1>1, PTL DEF Spec

\* Type correctness: the tables of the registry are well formed, and only
\* workloads have evidence.
THEOREM RegistryTypeCorrect == Spec => []TypeOK
  <1>1. IInv => TypeOK
    BY DEF IInv
  <1> QED BY <1>1, RegistryInvariance, PTL

\* The cutover gate: no workload is in CUTOVER or COMPLETE without two passed
\* validations, a checkpoint and an approval that still hold.
THEOREM CutoverRestsOnEvidence == Spec => []CutoverHasEvidence
  <1>1. IInv => CutoverHasEvidence
    BY DEF IInv
  <1> QED BY <1>1, RegistryInvariance, PTL

\* The waves: a migration under way began after its dependencies were validated
\* and had a checkpoint.
THEOREM WavesFollowDependencies == Spec => []StartedAfterDependencies
  <1>1. IInv => StartedAfterDependencies
    BY DEF IInv
  <1> QED BY <1>1, RegistryInvariance, PTL

\* Unknown ids stay out of the migration.
THEOREM StrangersStayOut == Spec => []StrangersNeverMigrate
  <1>1. IInv => StrangersNeverMigrate
    BY DEF IInv
  <1> QED BY <1>1, RegistryInvariance, PTL
===============================================================================
