-------------------------- MODULE LegacyBatchesProofs --------------------------
(***************************************************************************)
(* Proofs that neither the CDC handoff nor a load of hotel reservations    *)
(* leaves a row behind its watermark, for any rows, runs, routes and       *)
(* number of writes.                                                       *)
(***************************************************************************)
EXTENDS LegacyBatches, TLAPS

\* The rows that are owed: of those whose last write was rolled back nothing is
\* promised before they are written again.
Owed == {k \in Rows \ postdated : k \notin undone \/ written[k] # 0}

Vis == [k \in Rows |-> Visible(k)]

\* The visible version of the row is in a target of its pipeline.
Kept(k) ==
    IF IsHandoff
      THEN <<k, Visible(k)>> \in IF k \in InvalidRows THEN rejected ELSE accepted
      ELSE fact[k] = Visible(k) \/ <<k, Visible(k)>> \in quarantined \union landed

Held == {k \in Rows : Kept(k)}

\* What holds of an execution, over the last sequence n, the visible versions V,
\* the owed rows O and the held rows H.  Its bounds lie in the past, it stages
\* one version of a row and none that is newer than the visible one ...
RunShape(rec, n, V, O) ==
    /\ rec.low <= n
    /\ rec.high <= n
    /\ rec.phase \in {"IDLE", "CAPTURE"} => rec.staged = {}
    /\ rec.phase # "EXTRACT" => rec.scan = {}
    /\ rec.phase = "VALID" => Refused(rec.staged) = {}
    /\ \A k \in Rows, s \in Sequences : <<k, s>> \in rec.staged =>
            /\ s <= n
            /\ k \notin rec.scan
            /\ k \in O => s <= V[k]
            /\ \A t \in Sequences : <<k, t>> \in rec.staged => s = t

\* ... rows up to its low watermark are held, and those of its range are held or
\* staged once they are scanned, and held once the run applied what it staged.
RunReach(rec, V, O, H) ==
    \A k \in O :
        /\ rec.phase \in {"CAPTURE", "EXTRACT"} => (V[k] \in 1..rec.low => k \in H)
        /\ rec.phase \in {"EXTRACT", "STAGED", "VALID", "LANDED", "READY"} /\ k \notin rec.scan =>
              (V[k] \in 1..rec.high => k \in H \/ <<k, V[k]>> \in rec.staged)
        /\ rec.phase \in {"APPLIED", "COMMIT"} => (V[k] \in 1..rec.high => k \in H)

FactsInPast(f, n, V, O) == \A k \in Rows : f[k] <= n /\ (k \in O => f[k] <= V[k])

Passed(bound, n, V, O, H) ==
    /\ bound <= n
    /\ \A k \in O : V[k] \in 1..bound => k \in H

IInv ==
    /\ TypeOK
    /\ IsHandoff => postdated = {}
    /\ \A k \in Rows : committed[k] <= sequence /\ written[k] <= sequence
    /\ announced <= sequence
    /\ FactsInPast(fact, sequence, Vis, Owed)
    /\ Passed(watermark, sequence, Vis, Owed, Held)
    /\ \A r \in Runs : /\ RunShape(run[r], sequence, Vis, Owed)
                       /\ RunReach(run[r], Vis, Owed, Held)

-------------------------------------------------------------------------------
\* How an action changes one execution.
RunTo(r, phase, low, high, scan, staged) ==
    /\ run' \in [Runs -> RunState]
    /\ \A q \in Runs \ {r} : run'[q] = run[q]
    /\ run'[r].phase = phase
    /\ run'[r].low = low
    /\ run'[r].high = high
    /\ run'[r].scan = scan
    /\ run'[r].staged = staged

LEMMA Fields ==
    ASSUME NEW rec \in RunState
    PROVE  /\ rec.phase \in Phases
           /\ rec.low \in Sequences
           /\ rec.high \in Sequences
           /\ rec.scan \in SUBSET Rows
           /\ rec.staged \in SUBSET Versions
  BY DEF RunState

\* The records that the actions make of a record are records of a run.
LEMMA Turned ==
    ASSUME NEW rec \in RunState, NEW ph \in Phases, NEW n \in Sequences,
           NEW sc \in SUBSET Rows, NEW st \in SUBSET Versions
    PROVE  /\ [rec EXCEPT !.phase = ph] \in RunState
           /\ [rec EXCEPT !.scan = sc] \in RunState
           /\ [rec EXCEPT !.staged = st] \in RunState
           /\ [rec EXCEPT !.scan = sc, !.staged = st] \in RunState
           /\ [rec EXCEPT !.phase = ph, !.staged = st] \in RunState
           /\ [rec EXCEPT !.phase = ph, !.low = n] \in RunState
           /\ [rec EXCEPT !.phase = ph, !.low = n, !.staged = st] \in RunState
           /\ [rec EXCEPT !.phase = ph, !.high = n, !.scan = sc] \in RunState
  BY DEF RunState

LEMMA IdleIsState == IdleRun \in RunState
  BY ExtractAssumption DEF IdleRun, RunState, Phases, Sequences

LEMMA ReadLowEffect ==
    ASSUME TypeOK, NEW r \in Runs, ReadLowWatermark(r)
    PROVE  RunTo(r, "CAPTURE", watermark, 0, {}, {})
  <1>1. run \in [Runs -> RunState] /\ watermark \in Sequences
    BY DEF TypeOK, ExtractTypeOK
  <1>2. [IdleRun EXCEPT !.phase = "CAPTURE", !.low = watermark] \in RunState
    BY <1>1, IdleIsState, Turned DEF Phases
  <1>3. run' = [run EXCEPT ![r] = [IdleRun EXCEPT !.phase = "CAPTURE", !.low = watermark]]
    BY DEF ReadLowWatermark
  <1> QED
    BY <1>1, <1>2, <1>3 DEF RunTo, IdleRun

LEMMA StartScanEffect ==
    ASSUME TypeOK, NEW r \in Runs, NEW high \in Sequences, StartScan(r, high)
    PROVE  RunTo(r, "EXTRACT", run[r].low, high, Rows, run[r].staged)
  <1>1. run \in [Runs -> RunState]
    BY DEF TypeOK, ExtractTypeOK
  <1>2. [run[r] EXCEPT !.phase = "EXTRACT", !.high = high, !.scan = Rows] \in RunState
    BY <1>1, Turned DEF Phases
  <1>3. run' = [run EXCEPT ![r] = [run[r] EXCEPT !.phase = "EXTRACT", !.high = high, !.scan = Rows]]
    BY <1>1 DEF StartScan, RunState
  <1> QED
    BY <1>1, <1>2, <1>3 DEF RunTo, RunState

LEMMA ExtractRowEffect ==
    ASSUME TypeOK, NEW r \in Runs, NEW k \in Rows, ExtractRow(r, k)
    PROVE  /\ Visible(k) \in Sequences
           /\ RunTo(r, run[r].phase, run[r].low, run[r].high, run[r].scan \ {k},
                    IF InWindow(r, k) THEN run[r].staged \union {<<k, Visible(k)>>}
                                      ELSE run[r].staged)
  <1> DEFINE st == IF InWindow(r, k) THEN run[r].staged \union {<<k, Visible(k)>>}
                                     ELSE run[r].staged
             sc == run[r].scan \ {k}
  <1>1. run \in [Runs -> RunState]
    BY DEF TypeOK, ExtractTypeOK
  <1>2. Visible(k) \in Sequences
    BY DEF TypeOK, ExtractTypeOK, Visible
  <1>3. st \in SUBSET Versions /\ sc \in SUBSET Rows
    BY <1>1, <1>2, Fields DEF Versions
  <1>4. run' = [run EXCEPT ![r] = [run[r] EXCEPT !.scan = sc, !.staged = st]]
    BY <1>1 DEF ExtractRow, RunState
  <1> HIDE DEF st, sc
  <1>5. [run[r] EXCEPT !.scan = sc, !.staged = st] \in RunState
    BY <1>1, <1>3, Turned, Fields
  <1>6. RunTo(r, run[r].phase, run[r].low, run[r].high, sc, st)
    BY <1>1, <1>4, <1>5 DEF RunTo, RunState
  <1> QED
    BY <1>2, <1>6 DEF st, sc

LEMMA FinishScanEffect ==
    ASSUME TypeOK, NEW r \in Runs, NEW ph \in Phases, NEW st \in SUBSET Versions,
           FinishScan(r, ph, st)
    PROVE  RunTo(r, ph, 0, run[r].high, run[r].scan, st)
  <1>1. run \in [Runs -> RunState] /\ 0 \in Sequences
    BY ExtractAssumption DEF TypeOK, ExtractTypeOK, Sequences
  <1>2. [run[r] EXCEPT !.phase = ph, !.low = 0, !.staged = st] \in RunState
    BY <1>1, Turned
  <1>3. run' = [run EXCEPT ![r] = [run[r] EXCEPT !.phase = ph, !.low = 0, !.staged = st]]
    BY <1>1 DEF FinishScan, RunState
  <1> QED
    BY <1>1, <1>2, <1>3 DEF RunTo, RunState

\* The other actions assign a phase, a scan, staged rows, or an idle run.
LEMMA PhaseEffect ==
    ASSUME TypeOK, NEW r \in Runs, NEW ph \in Phases,
           run' = [run EXCEPT ![r].phase = ph]
    PROVE  RunTo(r, ph, run[r].low, run[r].high, run[r].scan, run[r].staged)
  <1>1. run \in [Runs -> RunState]
    BY DEF TypeOK, ExtractTypeOK
  <1>2. [run[r] EXCEPT !.phase = ph] \in RunState
    BY <1>1, Turned, Fields
  <1>3. run' = [run EXCEPT ![r] = [run[r] EXCEPT !.phase = ph]]
    BY <1>1 DEF RunState
  <1> QED
    BY <1>1, <1>2, <1>3 DEF RunTo, RunState

LEMMA StagedEffect ==
    ASSUME TypeOK, NEW r \in Runs, NEW ph \in Phases, NEW st \in SUBSET Versions,
           run' = [run EXCEPT ![r].phase = ph, ![r].staged = st]
    PROVE  RunTo(r, ph, run[r].low, run[r].high, run[r].scan, st)
  <1>1. run \in [Runs -> RunState]
    BY DEF TypeOK, ExtractTypeOK
  <1>2. [run[r] EXCEPT !.phase = ph, !.staged = st] \in RunState
    BY <1>1, Turned, Fields
  <1>3. run' = [run EXCEPT ![r] = [run[r] EXCEPT !.phase = ph, !.staged = st]]
    BY <1>1 DEF RunState
  <1> QED
    BY <1>1, <1>2, <1>3 DEF RunTo, RunState

LEMMA OnlyStagedEffect ==
    ASSUME TypeOK, NEW r \in Runs, NEW st \in SUBSET Versions,
           run' = [run EXCEPT ![r].staged = st]
    PROVE  RunTo(r, run[r].phase, run[r].low, run[r].high, run[r].scan, st)
  <1>1. run \in [Runs -> RunState]
    BY DEF TypeOK, ExtractTypeOK
  <1>2. [run[r] EXCEPT !.staged = st] \in RunState
    BY <1>1, Turned, Fields
  <1>3. run' = [run EXCEPT ![r] = [run[r] EXCEPT !.staged = st]]
    BY <1>1 DEF RunState
  <1> QED
    BY <1>1, <1>2, <1>3 DEF RunTo, RunState

LEMMA ScanEffect ==
    ASSUME TypeOK, NEW r \in Runs, NEW sc \in SUBSET Rows,
           run' = [run EXCEPT ![r].scan = sc]
    PROVE  RunTo(r, run[r].phase, run[r].low, run[r].high, sc, run[r].staged)
  <1>1. run \in [Runs -> RunState]
    BY DEF TypeOK, ExtractTypeOK
  <1>2. [run[r] EXCEPT !.scan = sc] \in RunState
    BY <1>1, Turned, Fields
  <1>3. run' = [run EXCEPT ![r] = [run[r] EXCEPT !.scan = sc]]
    BY <1>1 DEF RunState
  <1> QED
    BY <1>1, <1>2, <1>3 DEF RunTo, RunState

LEMMA RescanEffect ==
    ASSUME TypeOK, NEW r \in Runs,
           run' = [run EXCEPT ![r].scan = Rows, ![r].staged = {}]
    PROVE  RunTo(r, run[r].phase, run[r].low, run[r].high, Rows, {})
  <1>1. run \in [Runs -> RunState]
    BY DEF TypeOK, ExtractTypeOK
  <1>2. [run[r] EXCEPT !.scan = Rows, !.staged = {}] \in RunState
    BY <1>1, Turned, Fields
  <1>3. run' = [run EXCEPT ![r] = [run[r] EXCEPT !.scan = Rows, !.staged = {}]]
    BY <1>1 DEF RunState
  <1> QED
    BY <1>1, <1>2, <1>3 DEF RunTo, RunState

LEMMA IdleEffect ==
    ASSUME TypeOK, NEW r \in Runs, run' = [run EXCEPT ![r] = IdleRun]
    PROVE  RunTo(r, "IDLE", 0, 0, {}, {})
  <1>1. run \in [Runs -> RunState]
    BY DEF TypeOK, ExtractTypeOK
  <1> QED
    BY <1>1, IdleIsState DEF RunTo, IdleRun
-------------------------------------------------------------------------------
\* What is said of a run stays true while other actors move: owed rows keep their
\* version and stay held, or have a version newer than any the run knows.
LEMMA RunStable ==
    ASSUME NEW rec \in RunState, NEW n \in Sequences, NEW m \in Sequences, n <= m,
           NEW V \in [Rows -> Sequences], NEW W \in [Rows -> Sequences],
           NEW O, NEW P \in SUBSET Rows, NEW H, NEW G,
           \A k \in P : \/ k \in O /\ W[k] = V[k] /\ (k \in H => k \in G)
                        \/ W[k] > n,
           RunShape(rec, n, V, O), RunReach(rec, V, O, H)
    PROVE  RunShape(rec, m, W, P) /\ RunReach(rec, W, P, G)
  <1>0. MaxSequence \in Nat
    BY ExtractAssumption
  <1>1. rec.low \in 0..n /\ rec.high \in 0..n
    BY <1>0, Fields DEF RunShape, Sequences
  <1>2. RunShape(rec, m, W, P)
    BY <1>0, <1>1 DEF RunShape, Sequences
  <1>3. RunReach(rec, W, P, G)
    <2> SUFFICES ASSUME NEW k \in P
                 PROVE  /\ rec.phase \in {"CAPTURE", "EXTRACT"} => (W[k] \in 1..rec.low => k \in G)
                        /\ rec.phase \in {"EXTRACT", "STAGED", "VALID", "LANDED", "READY"} /\ k \notin rec.scan =>
                              (W[k] \in 1..rec.high => k \in G \/ <<k, W[k]>> \in rec.staged)
                        /\ rec.phase \in {"APPLIED", "COMMIT"} => (W[k] \in 1..rec.high => k \in G)
      BY DEF RunReach
    <2>1. CASE k \in O /\ W[k] = V[k] /\ (k \in H => k \in G)
      BY <2>1 DEF RunReach
    <2>2. CASE W[k] > n
      BY <1>0, <1>1, <2>2 DEF Sequences
    <2> QED
      BY <2>1, <2>2
  <1> QED
    BY <1>2, <1>3

LEMMA StateTypes ==
    ASSUME TypeOK
    PROVE  /\ MaxSequence \in Nat
           /\ sequence \in Sequences
           /\ watermark \in Sequences
           /\ Vis \in [Rows -> Sequences]
           /\ Owed \in SUBSET Rows
           /\ \A r \in Runs : run[r] \in RunState
  BY ExtractAssumption DEF TypeOK, ExtractTypeOK, Vis, Visible, Owed

\* A task of one run keeps the invariant if it leaves the source alone, takes no
\* row out of a target, and what it makes of its run, the facts and the watermark
\* is right.
LEMMA TaskKeeps ==
    ASSUME IInv, TypeOK', UNCHANGED <<source, postdated, route>>, NEW r \in Runs,
           \A q \in Runs \ {r} : run'[q] = run[q],
           \A k \in Owed : k \in Held => k \in Held',
           announced' <= sequence,
           FactsInPast(fact', sequence, Vis, Owed),
           Passed(watermark', sequence, Vis, Owed, Held'),
           RunShape(run'[r], sequence, Vis, Owed),
           RunReach(run'[r], Vis, Owed, Held')
    PROVE  IInv'
  <1>1. Vis' = Vis /\ Owed' = Owed /\ sequence' = sequence
    BY DEF source, Vis, Visible, Owed
  <1>2. ASSUME NEW q \in Runs, q # r
        PROVE  RunShape(run'[q], sequence, Vis, Owed) /\ RunReach(run'[q], Vis, Owed, Held')
    <2>1. /\ RunShape(run[q], sequence, Vis, Owed)
          /\ RunReach(run[q], Vis, Owed, Held)
          /\ run'[q] = run[q]
      BY <1>2 DEF IInv
    <2>2. sequence <= sequence
      BY StateTypes DEF IInv, Sequences
    <2> QED
      BY <2>1, <2>2, StateTypes, RunStable DEF IInv
  <1>3. \A q \in Runs : /\ RunShape(run'[q], sequence, Vis, Owed)
                        /\ RunReach(run'[q], Vis, Owed, Held')
    BY <1>2
  <1> QED
    BY <1>1, <1>3 DEF IInv, source, IsHandoff

\* Most tasks touch neither a target nor the watermark.
LEMMA QuietTaskKeeps ==
    ASSUME IInv, UNCHANGED <<source, watermark, handoffVars, hotelVars, route>>,
           NEW r \in Runs, run' \in [Runs -> RunState],
           \A q \in Runs \ {r} : run'[q] = run[q],
           RunShape(run'[r], sequence, Vis, Owed),
           RunReach(run'[r], Vis, Owed, Held)
    PROVE  IInv'
  <1>1. Held' = Held
    BY DEF Held, Kept, IsHandoff, handoffVars, hotelVars, source, Visible
  <1>2. TypeOK'
    BY DEF IInv, TypeOK, ExtractTypeOK, HandoffTypeOK, HotelTypeOK, source, handoffVars, hotelVars
  <1> QED
    BY <1>1, <1>2, TaskKeeps DEF IInv, hotelVars

\* No row is visible at a sequence that was not drawn yet.
LEMMA VisibleDrawn ==
    ASSUME IInv, NEW k \in Rows
    PROVE  Visible(k) \in Sequences /\ Visible(k) <= sequence /\ Vis[k] = Visible(k)
  BY DEF IInv, TypeOK, ExtractTypeOK, Visible, Vis

LEMMA ReadLowKeeps ==
    ASSUME IInv, NEW r \in Runs, ReadLowWatermark(r), UNCHANGED <<handoffVars, hotelVars, route>>
    PROVE  IInv'
  <1>1. RunTo(r, "CAPTURE", watermark, 0, {}, {})
    BY ReadLowEffect DEF IInv
  <1>2. RunShape(run'[r], sequence, Vis, Owed)
    BY <1>1, StateTypes DEF RunTo, RunShape, IInv, Passed, Sequences
  <1>3. RunReach(run'[r], Vis, Owed, Held)
    BY <1>1 DEF RunTo, RunReach, IInv, Passed
  <1> QED
    BY <1>1, <1>2, <1>3, QuietTaskKeeps DEF RunTo, ReadLowWatermark

LEMMA CaptureKeeps ==
    ASSUME IInv, NEW r \in Runs, CaptureHighWatermark(r), UNCHANGED <<handoffVars, hotelVars, route>>
    PROVE  IInv'
  <1>1. PICK high \in Sequences : IsHighest(high) /\ StartScan(r, high)
    BY DEF CaptureHighWatermark
  <1>2. RunTo(r, "EXTRACT", run[r].low, high, Rows, run[r].staged)
    BY <1>1, StartScanEffect DEF IInv
  <1>3. high <= sequence
    BY <1>1, VisibleDrawn, StateTypes DEF IsHighest, IInv, Sequences
  <1>4. /\ RunShape(run[r], sequence, Vis, Owed)
        /\ RunReach(run[r], Vis, Owed, Held)
        /\ run[r].phase = "CAPTURE"
    BY <1>1 DEF IInv, StartScan
  <1>5. RunShape(run'[r], sequence, Vis, Owed)
    BY <1>2, <1>3, <1>4 DEF RunTo, RunShape
  <1>6. RunReach(run'[r], Vis, Owed, Held)
    BY <1>2, <1>4, StateTypes DEF RunTo, RunReach, IInv
  <1> QED
    BY <1>1, <1>2, <1>5, <1>6, QuietTaskKeeps DEF RunTo, StartScan

LEMMA ExtractKeeps ==
    ASSUME IInv, NEW r \in Runs, NEW k \in Rows, ExtractRow(r, k),
           UNCHANGED <<handoffVars, hotelVars, route>>
    PROVE  IInv'
  <1> DEFINE st == IF InWindow(r, k) THEN run[r].staged \union {<<k, Visible(k)>>}
                                     ELSE run[r].staged
  <1>0. MaxSequence \in Nat /\ run[r] \in RunState
    BY StateTypes DEF IInv
  <1>1. RunTo(r, run[r].phase, run[r].low, run[r].high, run[r].scan \ {k}, st)
    BY ExtractRowEffect DEF IInv
  <1>2. /\ RunShape(run[r], sequence, Vis, Owed)
        /\ RunReach(run[r], Vis, Owed, Held)
        /\ run[r].phase = "EXTRACT"
        /\ k \in run[r].scan
    BY DEF IInv, ExtractRow
  <1>3. Visible(k) \in Sequences /\ Visible(k) <= sequence /\ Vis[k] = Visible(k)
    BY VisibleDrawn
  <1>4. ASSUME NEW j \in Rows, NEW s \in Sequences, <<j, s>> \in st
        PROVE  /\ s <= sequence
               /\ j \notin run[r].scan \ {k}
               /\ j \in Owed => s <= Vis[j]
               /\ \A t \in Sequences : <<j, t>> \in st => s = t
    <2>1. CASE <<j, s>> \in run[r].staged
      BY <1>2, <2>1 DEF RunShape
    <2>2. CASE <<j, s>> = <<k, Visible(k)>>
      BY <1>0, <1>2, <1>3, <2>2 DEF RunShape, Sequences
    <2> QED
      BY <1>4, <2>1, <2>2
  <1>5. RunShape(run'[r], sequence, Vis, Owed)
    BY <1>1, <1>2, <1>4 DEF RunTo, RunShape
  <1>6. ASSUME NEW j \in Owed
        PROVE  /\ Vis[j] \in 1..run[r].low => j \in Held
               /\ j \notin run[r].scan \ {k} =>
                     (Vis[j] \in 1..run[r].high => j \in Held \/ <<j, Vis[j]>> \in st)
    <2>1. Vis[j] \in 1..run[r].low => j \in Held
      BY <1>2 DEF RunReach
    <2>2. CASE j = k
      BY <1>0, <1>3, <2>1, <2>2, Fields DEF InWindow, Sequences
    <2>3. CASE j # k
      BY <1>2, <2>3 DEF RunReach
    <2> QED
      BY <2>1, <2>2, <2>3
  <1>7. RunReach(run'[r], Vis, Owed, Held)
    BY <1>1, <1>2, <1>6 DEF RunTo, RunReach
  <1> QED
    BY <1>1, <1>5, <1>7, QuietTaskKeeps DEF RunTo, ExtractRow

LEMMA FailKeeps ==
    ASSUME IInv, NEW r \in Runs, Fail(r), UNCHANGED <<handoffVars, hotelVars, route>>
    PROVE  IInv'
  <1>1. RunTo(r, "IDLE", 0, 0, {}, {})
    BY IdleEffect DEF IInv, Fail
  <1>2. RunShape(run'[r], sequence, Vis, Owed)
    BY <1>1, StateTypes DEF RunTo, RunShape, IInv, Sequences
  <1>3. RunReach(run'[r], Vis, Owed, Held)
    BY <1>1 DEF RunTo, RunReach
  <1> QED
    BY <1>1, <1>2, <1>3, QuietTaskKeeps DEF RunTo, Fail

\* Tasks that turn an applied run to its commit.
LEMMA ToCommitKeeps ==
    ASSUME IInv, NEW r \in Runs, run[r].phase = "APPLIED",
           run' = [run EXCEPT ![r].phase = "COMMIT"],
           UNCHANGED <<source, watermark, handoffVars, hotelVars, route>>
    PROVE  IInv'
  <1>1. RunTo(r, "COMMIT", run[r].low, run[r].high, run[r].scan, run[r].staged)
    BY PhaseEffect DEF IInv, Phases
  <1>2. RunShape(run'[r], sequence, Vis, Owed)
    BY <1>1 DEF RunTo, RunShape, IInv
  <1>3. RunReach(run'[r], Vis, Owed, Held)
    BY <1>1 DEF RunTo, RunReach, IInv
  <1> QED
    BY <1>1, <1>2, <1>3, QuietTaskKeeps DEF RunTo

LEMMA ResolveKeeps ==
    ASSUME IInv, NEW r \in Runs, NEW e \in run[r].staged, Resolve(r, e),
           UNCHANGED <<hotelVars, route>>
    PROVE  IInv'
  <1>1. run[r].staged \ {e} \in SUBSET Versions
    BY StateTypes, Fields DEF IInv
  <1>2. RunTo(r, run[r].phase, run[r].low, run[r].high, run[r].scan, run[r].staged \ {e})
    BY <1>1, OnlyStagedEffect DEF IInv, Resolve, TypeOK, ExtractTypeOK, RunState
  <1>3. RunShape(run'[r], sequence, Vis, Owed)
    BY <1>2 DEF RunTo, RunShape, IInv, Resolve
  <1>4. RunReach(run'[r], Vis, Owed, Held)
    BY <1>2 DEF RunTo, RunReach, IInv, Resolve
  <1> QED
    BY <1>2, <1>3, <1>4, QuietTaskKeeps DEF RunTo, Resolve

LEMMA SkipKeeps ==
    ASSUME IInv, NEW r \in Runs, NEW k \in Rows, SkipPostdated(r, k),
           UNCHANGED <<handoffVars, route>>
    PROVE  IInv'
  <1>1. run[r].scan \ {k} \in SUBSET Rows
    BY StateTypes, Fields DEF IInv
  <1>2. RunTo(r, run[r].phase, run[r].low, run[r].high, run[r].scan \ {k}, run[r].staged)
    BY <1>1, ScanEffect DEF IInv, SkipPostdated, TypeOK, ExtractTypeOK, RunState
  <1>3. RunShape(run'[r], sequence, Vis, Owed)
    BY <1>2 DEF RunTo, RunShape, IInv, SkipPostdated
  <1>4. RunReach(run'[r], Vis, Owed, Held)
    BY <1>2 DEF RunTo, RunReach, IInv, SkipPostdated, Owed
  <1> QED
    BY <1>2, <1>3, <1>4, QuietTaskKeeps DEF RunTo, SkipPostdated

LEMMA FillKeeps ==
    ASSUME IInv, NEW r \in Runs, FillStaging(r), UNCHANGED <<handoffVars, route>>
    PROVE  IInv'
  <1>0. run[r].staged \in SUBSET Versions /\ "STAGED" \in Phases /\ sequence \in Nat
    BY StateTypes, Fields DEF IInv, Phases, Sequences
  <1>1. RunTo(r, "STAGED", 0, run[r].high, run[r].scan, run[r].staged)
    BY <1>0, FinishScanEffect DEF IInv, FillStaging
  <1>2. RunShape(run'[r], sequence, Vis, Owed)
    BY <1>0, <1>1 DEF RunTo, RunShape, IInv, FillStaging, FinishScan
  <1>3. RunReach(run'[r], Vis, Owed, Held)
    BY <1>1 DEF RunTo, RunReach, IInv, FillStaging, FinishScan
  <1> QED
    BY <1>1, <1>2, <1>3, QuietTaskKeeps DEF RunTo, FillStaging, FinishScan

LEMMA RetryKeeps ==
    ASSUME IInv, NEW r \in Runs, RetryCopy(r), UNCHANGED <<handoffVars, route>>
    PROVE  IInv'
  <1>1. RunTo(r, run[r].phase, run[r].low, run[r].high, Rows, {})
    BY RescanEffect DEF IInv, RetryCopy
  <1>2. RunShape(run'[r], sequence, Vis, Owed)
    BY <1>1 DEF RunTo, RunShape, IInv, RetryCopy
  <1>3. RunReach(run'[r], Vis, Owed, Held)
    BY <1>1 DEF RunTo, RunReach, IInv, RetryCopy, Owed
  <1> QED
    BY <1>1, <1>2, <1>3, QuietTaskKeeps DEF RunTo, RetryCopy

-------------------------------------------------------------------------------
\* Runs of the handoff are among themselves.
LEMMA RouteOfRun ==
    ASSUME TypeOK, NEW r \in Runs
    PROVE  IsHandoff <=> route[r] = "handoff"
  BY DEF TypeOK, IsHandoff, HandoffRoutes, HotelRoutes, PackageRoutes

LEMMA SplitKeeps ==
    ASSUME IInv, NEW r \in Runs, IsHandoff, SplitExtract(r), UNCHANGED <<hotelVars, route>>
    PROVE  IInv'
  <1> DEFINE st == run[r].staged \ Refused(run[r].staged)
  <1>0. /\ run[r].staged \in SUBSET Versions
        /\ st \in SUBSET Versions
        /\ "VALID" \in Phases
        /\ sequence \in Nat
    BY StateTypes, Fields DEF IInv, Phases, Sequences
  <1>1. RunTo(r, "VALID", 0, run[r].high, run[r].scan, st)
    BY <1>0, FinishScanEffect DEF IInv, SplitExtract
  <1>2. TypeOK'
    BY <1>0, <1>1 DEF RunTo, IInv, TypeOK, ExtractTypeOK, HandoffTypeOK, HotelTypeOK,
                     SplitExtract, FinishScan, source, hotelVars, Refused
  <1>3. \A k \in Owed : k \in Held => k \in Held'
    BY DEF Held, Kept, IsHandoff, SplitExtract, FinishScan, source, Visible
  <1>4. RunShape(run'[r], sequence, Vis, Owed)
    BY <1>0, <1>1 DEF RunTo, RunShape, IInv, SplitExtract, FinishScan, Refused
  <1>5. ASSUME NEW k \in Owed, Vis[k] \in 1..run[r].high
        PROVE  k \in Held' \/ <<k, Vis[k]>> \in st
    <2>1. k \in Held \/ <<k, Vis[k]>> \in run[r].staged
      BY <1>5 DEF IInv, RunReach, SplitExtract, FinishScan
    <2>2. k \in Rows /\ Vis[k] = Visible(k) /\ Visible(k)' = Visible(k) /\ IsHandoff'
      BY DEF Owed, Vis, SplitExtract, FinishScan, source, Visible, IsHandoff
    <2>3. CASE k \in InvalidRows /\ <<k, Vis[k]>> \in run[r].staged
      <3>1. <<k, Vis[k]>> \in rejected'
        BY <2>3 DEF SplitExtract, Refused
      <3> QED
        BY <2>2, <2>3, <3>1 DEF Held, Kept
    <2>4. CASE k \notin InvalidRows /\ <<k, Vis[k]>> \in run[r].staged
      BY <2>4 DEF Refused
    <2> QED
      BY <1>3, <2>1, <2>3, <2>4
  <1>6. RunReach(run'[r], Vis, Owed, Held')
    BY <1>1, <1>5 DEF RunTo, RunReach
  <1>7. FactsInPast(fact', sequence, Vis, Owed) /\ Passed(watermark', sequence, Vis, Owed, Held')
    BY <1>3 DEF IInv, Passed, SplitExtract, FinishScan, hotelVars
  <1> QED
    BY <1>1, <1>2, <1>3, <1>4, <1>6, <1>7, TaskKeeps
      DEF RunTo, SplitExtract, FinishScan, hotelVars, IInv

LEMMA WriteOutboxKeeps ==
    ASSUME IInv, NEW r \in Runs, IsHandoff, WriteOutbox(r), UNCHANGED <<hotelVars, route>>
    PROVE  IInv'
  <1> DEFINE st == run[r].staged \ accepted
  <1>0. run[r].staged \in SUBSET Versions /\ st \in SUBSET Versions /\ "APPLIED" \in Phases
    BY StateTypes, Fields DEF IInv, Phases
  <1>1. RunTo(r, "APPLIED", run[r].low, run[r].high, run[r].scan, st)
    <2>1. run' = [run EXCEPT ![r].phase = "APPLIED", ![r].staged = st]
      BY DEF WriteOutbox, IInv, TypeOK, ExtractTypeOK, RunState
    <2> HIDE DEF st
    <2> QED
      BY <1>0, <2>1, StagedEffect DEF IInv
  <1>2. TypeOK'
    BY <1>0, <1>1 DEF RunTo, IInv, TypeOK, ExtractTypeOK, HandoffTypeOK, HotelTypeOK,
                     WriteOutbox, source, hotelVars
  <1>3. \A k \in Owed : k \in Held => k \in Held'
    BY DEF Held, Kept, IsHandoff, WriteOutbox, source, Visible
  <1>4. RunShape(run'[r], sequence, Vis, Owed)
    BY <1>1 DEF RunTo, RunShape, IInv, WriteOutbox
  <1>5. ASSUME NEW k \in Owed, Vis[k] \in 1..run[r].high
        PROVE  k \in Held'
    <2>1. /\ k \in Held \/ <<k, Vis[k]>> \in run[r].staged
          /\ Refused(run[r].staged) = {}
      BY <1>5 DEF IInv, RunReach, RunShape, WriteOutbox
    <2>2. k \in Rows /\ Vis[k] = Visible(k) /\ Visible(k)' = Visible(k) /\ IsHandoff'
      BY DEF Owed, Vis, WriteOutbox, source, Visible, IsHandoff
    <2>3. CASE <<k, Vis[k]>> \in run[r].staged
      <3>1. k \notin InvalidRows
        BY <2>1, <2>3 DEF Refused
      <3>2. <<k, Vis[k]>> \in accepted'
        BY <2>3 DEF WriteOutbox
      <3> QED
        BY <2>2, <3>1, <3>2 DEF Held, Kept
    <2> QED
      BY <1>3, <2>1, <2>3
  <1>6. RunReach(run'[r], Vis, Owed, Held')
    BY <1>1, <1>5 DEF RunTo, RunReach
  <1>7. FactsInPast(fact', sequence, Vis, Owed) /\ Passed(watermark', sequence, Vis, Owed, Held')
    BY <1>3 DEF IInv, Passed, WriteOutbox, hotelVars
  <1> QED
    BY <1>1, <1>2, <1>3, <1>4, <1>6, <1>7, TaskKeeps DEF RunTo, WriteOutbox, hotelVars, IInv

\* A run that commits moves the watermark to its high bound, or leaves it.
LEMMA CommitKeeps ==
    ASSUME IInv, NEW r \in Runs, run[r].phase = "COMMIT",
           watermark' = run[r].high \/ watermark' = watermark,
           run' = [run EXCEPT ![r] = IdleRun],
           UNCHANGED <<source, handoffVars, hotelVars, route>>
    PROVE  IInv'
  <1>1. RunTo(r, "IDLE", 0, 0, {}, {})
    BY IdleEffect DEF IInv
  <1>2. run[r].high \in Sequences /\ watermark \in Sequences /\ sequence \in Nat
    BY StateTypes, Fields DEF IInv, Sequences
  <1>3. TypeOK'
    BY <1>1, <1>2 DEF RunTo, IInv, TypeOK, ExtractTypeOK, HandoffTypeOK, HotelTypeOK,
                     source, handoffVars, hotelVars
  <1>4. Held' = Held
    BY DEF Held, Kept, IsHandoff, handoffVars, hotelVars, source, Visible
  <1>5. RunShape(run'[r], sequence, Vis, Owed) /\ RunReach(run'[r], Vis, Owed, Held')
    BY <1>1, <1>2 DEF RunTo, RunShape, RunReach
  <1>6. Passed(watermark', sequence, Vis, Owed, Held)
    BY DEF IInv, Passed, RunShape, RunReach
  <1> QED
    BY <1>1, <1>3, <1>4, <1>5, <1>6, TaskKeeps DEF RunTo, IInv, hotelVars

LEMMA ValidateKeeps ==
    ASSUME IInv, NEW r \in Runs, ~IsHandoff, Validate(r), UNCHANGED <<handoffVars, route>>
    PROVE  IInv'
  <1> DEFINE st == run[r].staged \ Refused(run[r].staged)
  <1>0. run[r].staged \in SUBSET Versions /\ st \in SUBSET Versions /\ "VALID" \in Phases
    BY StateTypes, Fields DEF IInv, Phases
  <1>1. RunTo(r, "VALID", run[r].low, run[r].high, run[r].scan, st)
    <2>1. run' = [run EXCEPT ![r].phase = "VALID", ![r].staged = st]
      BY DEF Validate, IInv, TypeOK, ExtractTypeOK, RunState
    <2> HIDE DEF st
    <2> QED
      BY <1>0, <2>1, StagedEffect DEF IInv
  <1>2. TypeOK'
    BY <1>0, <1>1 DEF RunTo, IInv, TypeOK, ExtractTypeOK, HandoffTypeOK, HotelTypeOK,
                     Validate, source, handoffVars, Refused
  <1>3. \A k \in Owed : k \in Held => k \in Held'
    BY DEF Held, Kept, IsHandoff, Validate, source, Visible
  <1>4. RunShape(run'[r], sequence, Vis, Owed)
    BY <1>1 DEF RunTo, RunShape, IInv, Validate, Refused
  <1>5. ASSUME NEW k \in Owed, Vis[k] \in 1..run[r].high
        PROVE  k \in Held' \/ <<k, Vis[k]>> \in st
    <2>1. k \in Held \/ <<k, Vis[k]>> \in run[r].staged
      BY <1>5 DEF IInv, RunReach, RunShape, Validate
    <2>2. k \in Rows /\ Vis[k] = Visible(k) /\ Visible(k)' = Visible(k) /\ ~IsHandoff'
      BY DEF Owed, Vis, Validate, source, Visible, IsHandoff
    <2>3. CASE k \in InvalidRows /\ <<k, Vis[k]>> \in run[r].staged
      <3>1. <<k, Vis[k]>> \in quarantined'
        BY <2>3 DEF Validate, Refused
      <3> QED
        BY <2>2, <2>3, <3>1 DEF Held, Kept
    <2>4. CASE k \notin InvalidRows /\ <<k, Vis[k]>> \in run[r].staged
      BY <2>4 DEF Refused
    <2> QED
      BY <1>3, <2>1, <2>3, <2>4
  <1>6. RunReach(run'[r], Vis, Owed, Held')
    BY <1>1, <1>5 DEF RunTo, RunReach
  <1>7. FactsInPast(fact', sequence, Vis, Owed) /\ Passed(watermark', sequence, Vis, Owed, Held')
    BY <1>3 DEF IInv, Passed, Validate
  <1> QED
    BY <1>1, <1>2, <1>3, <1>4, <1>6, <1>7, TaskKeeps DEF RunTo, Validate, IInv

LEMMA FinishCopyKeeps ==
    ASSUME IInv, NEW r \in Runs, ~IsHandoff, FinishCopy(r), UNCHANGED <<handoffVars, route>>
    PROVE  IInv'
  <1>0. /\ run[r].staged \in SUBSET Versions
        /\ "APPLIED" \in Phases
        /\ sequence \in Nat
    BY StateTypes, Fields DEF IInv, Phases, Sequences
  <1>1. RunTo(r, "APPLIED", 0, run[r].high, run[r].scan, {})
    BY <1>0, FinishScanEffect DEF IInv, FinishCopy
  <1>2. TypeOK'
    BY <1>0, <1>1 DEF RunTo, IInv, TypeOK, ExtractTypeOK, HandoffTypeOK, HotelTypeOK,
                     FinishCopy, FinishScan, source, handoffVars
  <1>3. \A k \in Owed : k \in Held => k \in Held'
    BY DEF Held, Kept, IsHandoff, FinishCopy, FinishScan, source, Visible
  <1>4. RunShape(run'[r], sequence, Vis, Owed)
    BY <1>0, <1>1 DEF RunTo, RunShape, IInv, FinishCopy, FinishScan
  <1>5. ASSUME NEW k \in Owed, Vis[k] \in 1..run[r].high
        PROVE  k \in Held'
    <2>1. k \in Held \/ <<k, Vis[k]>> \in run[r].staged
      BY <1>5 DEF IInv, RunReach, FinishCopy, FinishScan
    <2>2. k \in Rows /\ Vis[k] = Visible(k) /\ Visible(k)' = Visible(k) /\ ~IsHandoff'
      BY DEF Owed, Vis, FinishCopy, FinishScan, source, Visible, IsHandoff
    <2>3. CASE <<k, Vis[k]>> \in run[r].staged
      <3>1. <<k, Vis[k]>> \in landed'
        BY <2>3 DEF FinishCopy
      <3> QED
        BY <2>2, <3>1 DEF Held, Kept
    <2> QED
      BY <1>3, <2>1, <2>3
  <1>6. RunReach(run'[r], Vis, Owed, Held')
    BY <1>1, <1>5 DEF RunTo, RunReach
  <1>7. FactsInPast(fact', sequence, Vis, Owed) /\ Passed(watermark', sequence, Vis, Owed, Held')
    BY <1>3 DEF IInv, Passed, FinishCopy, FinishScan
  <1> QED
    BY <1>1, <1>2, <1>3, <1>4, <1>6, <1>7, TaskKeeps DEF RunTo, FinishCopy, FinishScan, IInv

\* The MERGE leaves the fact or a staged version, whichever is later.
LEMMA MergedIsLatest ==
    ASSUME NEW k \in Rows, NEW st \in SUBSET Versions, fact[k] \in Sequences,
           \A s, t \in Sequences : <<k, s>> \in st /\ <<k, t>> \in st => s = t
    PROVE  /\ Merged(k, st) \in Sequences
           /\ Merged(k, st) >= fact[k]
           /\ \A t \in Sequences : <<k, t>> \in st => t <= Merged(k, st)
           /\ Merged(k, st) = fact[k] \/ <<k, Merged(k, st)>> \in st
  <1> DEFINE S == {fact[k]} \union {v[2] : v \in {w \in st : w[1] = k}}
             Good(s) == s >= fact[k] /\ \A t \in Sequences : <<k, t>> \in st => t <= s
  <1>0. MaxSequence \in Nat /\ Sequences = 0..MaxSequence
    BY ExtractAssumption DEF Sequences
  <1>1. ASSUME NEW s \in S
        PROVE  s \in Sequences /\ (s = fact[k] \/ <<k, s>> \in st)
    <2>1. CASE s = fact[k]
      BY <2>1
    <2>2. ASSUME NEW v \in st, v[1] = k, s = v[2]
          PROVE  s \in Sequences /\ <<k, s>> \in st
      BY <2>2 DEF Versions
    <2> QED
      BY <2>1, <2>2
  <1>2. \E s \in S : Good(s)
    <2>1. CASE \E t \in Sequences : <<k, t>> \in st /\ t > fact[k]
      <3>1. PICK t \in Sequences : <<k, t>> \in st /\ t > fact[k]
        BY <2>1
      <3>2. <<k, t>> \in {w \in st : w[1] = k} /\ <<k, t>>[2] = t
        BY <3>1
      <3>3. t \in S
        BY <3>2
      <3>4. Good(t)
        BY <1>0, <3>1
      <3> QED
        BY <3>3, <3>4
    <2>2. CASE \A t \in Sequences : <<k, t>> \in st => ~(t > fact[k])
      BY <1>0, <2>2
    <2> QED
      BY <2>1, <2>2
  <1>3. Merged(k, st) = CHOOSE s \in S : Good(s)
    BY DEF Merged
  <1> HIDE DEF S, Good
  <1>4. Merged(k, st) \in S /\ Good(Merged(k, st))
    BY <1>2, <1>3
  <1> QED
    BY <1>1, <1>4 DEF Good

LEMMA MergeKeeps ==
    ASSUME IInv, NEW r \in Runs, ~IsHandoff, MergeFacts(r), UNCHANGED <<handoffVars, route>>
    PROVE  IInv'
  <1>0. /\ run[r].staged \in SUBSET Versions
        /\ run[r].high \in Sequences
        /\ "APPLIED" \in Phases
        /\ MaxSequence \in Nat
        /\ sequence \in Sequences
    BY StateTypes, Fields DEF IInv, Phases
  <1>1. RunTo(r, "APPLIED", run[r].low, run[r].high, run[r].scan, {})
    BY StagedEffect, <1>0 DEF IInv, MergeFacts
  <1>2. /\ RunShape(run[r], sequence, Vis, Owed)
        /\ RunReach(run[r], Vis, Owed, Held)
        /\ run[r].phase = "VALID"
        /\ run[r].scan = {}
    BY DEF IInv, MergeFacts, RunShape
  <1>3. ASSUME NEW k \in Rows
        PROVE  /\ fact'[k] \in Sequences
               /\ fact'[k] >= fact[k]
               /\ \A t \in Sequences : <<k, t>> \in run[r].staged => t <= fact'[k]
               /\ fact'[k] = fact[k] \/ <<k, fact'[k]>> \in run[r].staged
    <2>1. fact'[k] = Merged(k, run[r].staged)
      BY DEF MergeFacts
    <2>2. fact[k] \in Sequences
      BY DEF IInv, TypeOK, HotelTypeOK
    <2>3. \A s, t \in Sequences :
              <<k, s>> \in run[r].staged /\ <<k, t>> \in run[r].staged => s = t
      BY <1>2 DEF RunShape
    <2> QED
      BY <1>0, <2>1, <2>2, <2>3, MergedIsLatest
  <1>4. TypeOK'
    <2>1. fact' \in [Rows -> Sequences]
      BY <1>3 DEF MergeFacts
    <2> QED
      BY <1>0, <1>1, <2>1 DEF RunTo, IInv, TypeOK, ExtractTypeOK, HandoffTypeOK,
                              HotelTypeOK, MergeFacts, source, handoffVars
  <1>5. FactsInPast(fact', sequence, Vis, Owed)
    BY <1>2, <1>3 DEF FactsInPast, RunShape, IInv
  <1>6. \A k \in Rows : Visible(k)' = Visible(k) /\ Vis[k] = Visible(k) /\ ~IsHandoff'
    BY DEF Vis, MergeFacts, source, Visible, IsHandoff
  <1>7. ASSUME NEW k \in Owed, fact'[k] = Vis[k] \/ k \in Held
        PROVE  k \in Held'
    <2>1. k \in Rows /\ Vis[k] \in Sequences
      BY StateTypes DEF IInv
    <2>2. CASE fact'[k] = Vis[k]
      BY <1>6, <2>1, <2>2 DEF Held, Kept
    <2>3. CASE fact[k] = Vis[k]
      <3>1. fact'[k] <= Vis[k]
        BY <1>5, <2>1 DEF FactsInPast
      <3>2. fact'[k] \in Sequences /\ fact'[k] >= Vis[k]
        BY <1>3, <2>1, <2>3
      <3>3. fact'[k] = Vis[k]
        BY <1>0, <2>1, <3>1, <3>2 DEF Sequences
      <3> QED
        BY <2>2, <3>3
    <2>4. CASE <<k, Vis[k]>> \in quarantined \union landed
      BY <1>6, <2>1, <2>4 DEF Held, Kept, MergeFacts
    <2> QED
      BY <1>6, <1>7, <2>1, <2>2, <2>3, <2>4 DEF Held, Kept
  <1>8. ASSUME NEW k \in Owed, Vis[k] \in 1..run[r].high
        PROVE  k \in Held'
    <2>1. k \in Rows /\ Vis[k] \in Sequences
      BY StateTypes DEF IInv
    <2>2. k \in Held \/ <<k, Vis[k]>> \in run[r].staged
      BY <1>2, <1>8 DEF RunReach
    <2>3. CASE <<k, Vis[k]>> \in run[r].staged
      <3>1. fact'[k] <= Vis[k]
        BY <1>5, <2>1 DEF FactsInPast
      <3>2. fact'[k] \in Sequences /\ fact'[k] >= Vis[k]
        BY <1>3, <2>1, <2>3
      <3>3. fact'[k] = Vis[k]
        BY <1>0, <2>1, <3>1, <3>2 DEF Sequences
      <3> QED
        BY <1>7, <3>3
    <2> QED
      BY <1>7, <2>2, <2>3
  <1>9. RunShape(run'[r], sequence, Vis, Owed) /\ RunReach(run'[r], Vis, Owed, Held')
    BY <1>1, <1>2, <1>8 DEF RunTo, RunShape, RunReach
  <1>10. Passed(watermark', sequence, Vis, Owed, Held')
    BY <1>2, <1>8 DEF Passed, RunShape, MergeFacts
  <1> QED
    BY <1>1, <1>4, <1>5, <1>7, <1>9, <1>10, TaskKeeps DEF RunTo, MergeFacts, IInv

-------------------------------------------------------------------------------
\* The tasks of the package that lands reservations

LEMMA TakeBoundKeeps ==
    ASSUME IInv, NEW r \in Runs, TakeBound(r), UNCHANGED <<handoffVars, route>>
    PROVE  IInv'
  <1>1. PICK high \in Sequences :
            /\ IsHighest(high)
            /\ run' = [run EXCEPT ![r] = [IdleRun EXCEPT !.phase = "BEGIN", !.high = high]]
    BY DEF TakeBound
  <1>2. [IdleRun EXCEPT !.phase = "BEGIN", !.high = high] \in RunState
    BY IdleIsState DEF IdleRun, RunState, Phases
  <1>3. RunTo(r, "BEGIN", 0, high, {}, {})
    BY <1>1, <1>2 DEF RunTo, IInv, TypeOK, ExtractTypeOK, IdleRun
  <1>4. high <= sequence /\ 0 <= sequence
    BY <1>1, VisibleDrawn, StateTypes DEF IsHighest, IInv, Sequences
  <1>5. RunShape(run'[r], sequence, Vis, Owed)
    BY <1>3, <1>4 DEF RunTo, RunShape, Refused
  <1>6. RunReach(run'[r], Vis, Owed, Held)
    BY <1>3 DEF RunTo, RunReach
  <1> QED
    BY <1>3, <1>5, <1>6, QuietTaskKeeps DEF RunTo, TakeBound

LEMMA AcquireKeeps ==
    ASSUME IInv, NEW r \in Runs, AcquireRunLock(r), UNCHANGED <<handoffVars, route>>
    PROVE  IInv'
  <1>1. run[r].high \in Sequences /\ run[r].high <= sequence /\ 0 <= sequence
    BY StateTypes, Fields DEF IInv, RunShape, Sequences
  <1>2. [IdleRun EXCEPT !.phase = "CAPTURE"] \in RunState
    BY IdleIsState DEF IdleRun, RunState, Phases
  <1>3. RunTo(r, "CAPTURE", 0, 0, {}, {})
    BY <1>2 DEF AcquireRunLock, RunTo, IInv, TypeOK, ExtractTypeOK, IdleRun
  <1>4. TypeOK'
    BY <1>1, <1>3 DEF RunTo, IInv, TypeOK, ExtractTypeOK, HandoffTypeOK, HotelTypeOK,
                      AcquireRunLock, source, handoffVars
  <1>5. Held' = Held
    BY DEF Held, Kept, IsHandoff, handoffVars, AcquireRunLock, source, Visible
  <1>6. RunShape(run'[r], sequence, Vis, Owed)
    BY <1>1, <1>3 DEF RunTo, RunShape, Refused
  <1>7. RunReach(run'[r], Vis, Owed, Held')
    BY <1>3 DEF RunTo, RunReach
  <1> QED
    BY <1>1, <1>3, <1>4, <1>5, <1>6, <1>7, TaskKeeps DEF RunTo, AcquireRunLock, IInv

LEMMA ReadWatermarkKeeps ==
    ASSUME IInv, NEW r \in Runs, ReadWatermark(r), UNCHANGED <<handoffVars, route>>
    PROVE  IInv'
  <1> DEFINE rec == [phase |-> "EXTRACT", low |-> watermark, high |-> announced,
                     scan |-> Rows, staged |-> {}]
  <1>1. rec \in RunState
    BY DEF IInv, TypeOK, ExtractTypeOK, HotelTypeOK, RunState, Phases
  <1>2. RunTo(r, "EXTRACT", watermark, announced, Rows, {})
    BY <1>1 DEF ReadWatermark, RunTo, IInv, TypeOK, ExtractTypeOK
  <1>3. RunShape(run'[r], sequence, Vis, Owed)
    BY <1>2 DEF RunTo, RunShape, IInv, Passed
  <1>4. RunReach(run'[r], Vis, Owed, Held)
    BY <1>2 DEF RunTo, RunReach, IInv, Passed, Owed
  <1> QED
    BY <1>2, <1>3, <1>4, QuietTaskKeeps DEF RunTo, ReadWatermark

LEMMA LandingKeeps ==
    ASSUME IInv, NEW r \in Runs, ~IsHandoff, WriteLanding(r), UNCHANGED <<handoffVars, route>>
    PROVE  IInv'
  <1> DEFINE st == Refused(run[r].staged)
  <1>0. run[r].staged \in SUBSET Versions /\ st \in SUBSET Versions /\ "LANDED" \in Phases
    BY StateTypes, Fields DEF IInv, Phases, Refused
  <1>1. RunTo(r, "LANDED", run[r].low, run[r].high, run[r].scan, st)
    <2>1. run' = [run EXCEPT ![r].phase = "LANDED", ![r].staged = st]
      BY DEF WriteLanding, IInv, TypeOK, ExtractTypeOK, RunState
    <2> HIDE DEF st
    <2> QED
      BY <1>0, <2>1, StagedEffect DEF IInv
  <1>2. TypeOK'
    BY <1>0, <1>1 DEF RunTo, IInv, TypeOK, ExtractTypeOK, HandoffTypeOK, HotelTypeOK,
                      WriteLanding, source, handoffVars
  <1>3. \A k \in Owed : k \in Held => k \in Held'
    BY DEF Held, Kept, IsHandoff, WriteLanding, source, Visible
  <1>4. RunShape(run'[r], sequence, Vis, Owed)
    BY <1>1 DEF RunTo, RunShape, IInv, WriteLanding, Refused
  <1>5. ASSUME NEW k \in Owed, Vis[k] \in 1..run[r].high
        PROVE  k \in Held' \/ <<k, Vis[k]>> \in st
    <2>1. k \in Held \/ <<k, Vis[k]>> \in run[r].staged
      BY <1>5 DEF IInv, RunReach, RunShape, WriteLanding
    <2>2. k \in Rows /\ Vis[k] = Visible(k) /\ Visible(k)' = Visible(k) /\ ~IsHandoff'
      BY DEF Owed, Vis, WriteLanding, source, Visible, IsHandoff
    <2>3. CASE <<k, Vis[k]>> \in run[r].staged \ st
      <3>1. <<k, Vis[k]>> \in landed'
        BY <2>3 DEF WriteLanding
      <3> QED
        BY <2>2, <3>1 DEF Held, Kept
    <2> QED
      BY <1>3, <2>1, <2>3
  <1>6. RunReach(run'[r], Vis, Owed, Held')
    BY <1>1, <1>5 DEF RunTo, RunReach
  <1>7. FactsInPast(fact', sequence, Vis, Owed) /\ Passed(watermark', sequence, Vis, Owed, Held')
    BY <1>3 DEF IInv, Passed, WriteLanding
  <1> QED
    BY <1>1, <1>2, <1>3, <1>4, <1>6, <1>7, TaskKeeps DEF RunTo, WriteLanding, IInv

LEMMA RejectsKeep ==
    ASSUME IInv, NEW r \in Runs, ~IsHandoff, QuarantineRejects(r), UNCHANGED <<handoffVars, route>>
    PROVE  IInv'
  <1> DEFINE st == run[r].staged \ Refused(run[r].staged)
  <1>0. run[r].staged \in SUBSET Versions /\ st \in SUBSET Versions
    BY StateTypes, Fields DEF IInv
  <1>1. RunTo(r, run[r].phase, run[r].low, run[r].high, run[r].scan, st)
    <2>1. run' = [run EXCEPT ![r].staged = st]
      BY DEF QuarantineRejects, IInv, TypeOK, ExtractTypeOK, RunState
    <2> HIDE DEF st
    <2> QED
      BY <1>0, <2>1, OnlyStagedEffect DEF IInv
  <1>2. TypeOK'
    BY <1>0, <1>1 DEF RunTo, IInv, TypeOK, ExtractTypeOK, HandoffTypeOK, HotelTypeOK,
                      QuarantineRejects, source, handoffVars, Refused
  <1>3. \A k \in Owed : k \in Held => k \in Held'
    BY DEF Held, Kept, IsHandoff, QuarantineRejects, source, Visible
  <1>4. RunShape(run'[r], sequence, Vis, Owed)
    BY <1>1 DEF RunTo, RunShape, IInv, QuarantineRejects, Refused
  <1>5. ASSUME NEW k \in Owed, k \notin run[r].scan, Vis[k] \in 1..run[r].high
        PROVE  k \in Held' \/ <<k, Vis[k]>> \in st
    <2>1. k \in Held \/ <<k, Vis[k]>> \in run[r].staged
      BY <1>5 DEF IInv, RunReach, RunShape, QuarantineRejects
    <2>2. k \in Rows /\ Vis[k] = Visible(k) /\ Visible(k)' = Visible(k) /\ ~IsHandoff'
      BY DEF Owed, Vis, QuarantineRejects, source, Visible, IsHandoff
    <2>3. CASE <<k, Vis[k]>> \in Refused(run[r].staged)
      <3>1. <<k, Vis[k]>> \in quarantined'
        BY <2>3 DEF QuarantineRejects
      <3> QED
        BY <2>2, <3>1 DEF Held, Kept
    <2> QED
      BY <1>3, <2>1, <2>3
  <1>6. RunReach(run'[r], Vis, Owed, Held')
    BY <1>1, <1>5 DEF RunTo, RunReach, QuarantineRejects
  <1>7. FactsInPast(fact', sequence, Vis, Owed) /\ Passed(watermark', sequence, Vis, Owed, Held')
    BY <1>3 DEF IInv, Passed, QuarantineRejects
  <1> QED
    BY <1>1, <1>2, <1>3, <1>4, <1>6, <1>7, TaskKeeps DEF RunTo, QuarantineRejects, IInv

LEMMA ReconcileRunKeeps ==
    ASSUME IInv, NEW r \in Runs, ReconcileRun(r), UNCHANGED <<handoffVars, route>>
    PROVE  IInv'
  <1>1. RunTo(r, "READY", run[r].low, run[r].high, run[r].scan, run[r].staged)
    BY PhaseEffect DEF IInv, Phases, ReconcileRun
  <1>2. RunShape(run'[r], sequence, Vis, Owed)
    BY <1>1 DEF RunTo, RunShape, IInv, ReconcileRun
  <1>3. RunReach(run'[r], Vis, Owed, Held)
    BY <1>1 DEF RunTo, RunReach, IInv, ReconcileRun
  <1> QED
    BY <1>1, <1>2, <1>3, QuietTaskKeeps DEF RunTo, ReconcileRun

\* The counts agree when nothing that was staged is outside the targets.
LEMMA CommitPipelineKeeps ==
    ASSUME IInv, NEW r \in Runs, CommitPipeline(r), UNCHANGED <<handoffVars, route>>
    PROVE  IInv'
  <1>1. RunTo(r, "IDLE", 0, 0, {}, {})
    BY IdleEffect DEF IInv, CommitPipeline
  <1>2. run[r].high \in Sequences /\ run[r].high <= sequence /\ sequence \in Nat
    BY StateTypes, Fields DEF IInv, RunShape, Sequences
  <1>3. TypeOK'
    BY <1>1, <1>2 DEF RunTo, IInv, TypeOK, ExtractTypeOK, HandoffTypeOK, HotelTypeOK,
                     CommitPipeline, source, handoffVars
  <1>4. Held' = Held
    BY DEF Held, Kept, IsHandoff, handoffVars, CommitPipeline, source, Visible
  <1>5. RunShape(run'[r], sequence, Vis, Owed) /\ RunReach(run'[r], Vis, Owed, Held')
    BY <1>1, <1>2 DEF RunTo, RunShape, RunReach
  <1>6. Passed(watermark', sequence, Vis, Owed, Held)
    BY <1>2 DEF IInv, Passed, RunShape, RunReach, CommitPipeline
  <1> QED
    BY <1>1, <1>2, <1>3, <1>4, <1>5, <1>6, TaskKeeps DEF RunTo, IInv, CommitPipeline

-------------------------------------------------------------------------------
\* The source moves: what the platform says of its runs, facts and watermark
\* stays true, if each row that is owed then was owed before and keeps its
\* version, or has a version that nobody knows yet.
LEMMA SourceKeeps ==
    ASSUME IInv, TypeOK', UNCHANGED <<watermark, run, handoffVars, hotelVars, route>>,
           sequence <= sequence',
           \A k \in Rows : committed'[k] <= sequence' /\ written'[k] <= sequence',
           \A k \in Owed' : \/ k \in Owed /\ Vis'[k] = Vis[k]
                            \/ Vis'[k] > sequence
    PROVE  IInv'
  <1>0. /\ MaxSequence \in Nat
        /\ sequence \in Sequences /\ sequence' \in Sequences
        /\ Vis \in [Rows -> Sequences] /\ Vis' \in [Rows -> Sequences]
        /\ Owed' \in SUBSET Rows
        /\ fact \in [Rows -> Sequences]
        /\ watermark \in Sequences
        /\ \A r \in Runs : run[r] \in RunState
    <2>1. Vis' \in [Rows -> Sequences] /\ sequence' \in Sequences /\ Owed' \in SUBSET Rows
      BY DEF TypeOK, ExtractTypeOK, Vis, Visible, Owed
    <2> QED
      BY <2>1, StateTypes DEF IInv, TypeOK, HotelTypeOK
  <1>1. \A k \in Owed' : \/ k \in Owed /\ Vis'[k] = Vis[k] /\ (k \in Held => k \in Held')
                         \/ Vis'[k] > sequence
    BY DEF Held, Kept, IsHandoff, handoffVars, hotelVars, Vis, Owed
  <1>2. ASSUME NEW r \in Runs
        PROVE  RunShape(run[r], sequence', Vis', Owed') /\ RunReach(run[r], Vis', Owed', Held')
    <2>1. run[r] \in RunState /\ RunShape(run[r], sequence, Vis, Owed) /\ RunReach(run[r], Vis, Owed, Held)
      BY <1>0 DEF IInv
    <2> QED
      BY <1>0, <1>1, <2>1, RunStable
  <1>3. Passed(watermark, sequence', Vis', Owed', Held')
    BY <1>0, <1>1 DEF IInv, Passed, Sequences
  <1>4. FactsInPast(fact, sequence', Vis', Owed')
    BY <1>0, <1>1 DEF IInv, FactsInPast, Sequences
  <1>5. announced \in Sequences /\ announced <= sequence'
    BY <1>0 DEF IInv, TypeOK, HotelTypeOK, Sequences
  <1> QED
    BY <1>2, <1>3, <1>4, <1>5 DEF IInv, hotelVars, IsHandoff

LEMMA SourceStep ==
    ASSUME IInv, SourceNext, UNCHANGED <<handoffVars, hotelVars, route>>
    PROVE  IInv'
  <1>0. /\ MaxSequence \in Nat
        /\ sequence \in Sequences
        /\ committed \in [Rows -> Sequences]
        /\ written \in [Rows -> Sequences]
        /\ undone \in SUBSET Rows
        /\ \A k \in Rows : committed[k] <= sequence /\ written[k] <= sequence
    BY StateTypes DEF IInv, TypeOK, ExtractTypeOK
  <1>1. UNCHANGED <<watermark, run, handoffVars, hotelVars, route>>
    BY DEF SourceNext, Write, CommitWrite, RollBack
  <1>2. ASSUME sequence' \in Sequences, committed' \in [Rows -> Sequences],
               written' \in [Rows -> Sequences], undone' \in SUBSET Rows
        PROVE  TypeOK'
    BY <1>1, <1>2 DEF IInv, TypeOK, ExtractTypeOK, HandoffTypeOK, HotelTypeOK, handoffVars, hotelVars
  <1>3. ASSUME NEW k \in Rows, Write(k) PROVE IInv'
    <2>1. sequence' = sequence + 1 /\ sequence' \in Sequences /\ sequence + 1 # 0
      BY <1>0, <1>3 DEF Write, Sequences
    <2>2. written' = [written EXCEPT ![k] = sequence + 1] /\ committed' = committed /\ undone' = undone
      BY <1>3 DEF Write
    <2>3. TypeOK'
      BY <1>0, <1>2, <2>1, <2>2
    <2>4. \A j \in Rows : committed'[j] <= sequence' /\ written'[j] <= sequence'
      BY <1>0, <2>1, <2>2 DEF Sequences
    <2>5. ASSUME NEW j \in Owed' PROVE (j \in Owed /\ Vis'[j] = Vis[j]) \/ Vis'[j] > sequence
      <3>1. CASE j = k
        BY <1>0, <2>1, <2>2, <3>1 DEF Vis, Visible, Owed, Sequences
      <3>2. CASE j # k
        BY <1>0, <1>1, <2>2, <3>2 DEF Vis, Visible, Owed, hotelVars
      <3> QED
        BY <3>1, <3>2
    <2> QED
      BY <1>0, <1>1, <2>1, <2>3, <2>4, <2>5, SourceKeeps DEF Sequences
  <1>4. ASSUME NEW k \in Rows, CommitWrite(k) PROVE IInv'
    <2>1. /\ written[k] # 0
          /\ sequence' = sequence
          /\ committed' = [committed EXCEPT ![k] = written[k]]
          /\ written' = [written EXCEPT ![k] = 0]
          /\ undone' = undone \ {k}
      BY <1>4 DEF CommitWrite
    <2>2. TypeOK'
      BY <1>0, <1>2, <2>1 DEF Sequences
    <2>3. \A j \in Rows : committed'[j] <= sequence' /\ written'[j] <= sequence'
      BY <1>0, <2>1 DEF Sequences
    <2>4. ASSUME NEW j \in Owed' PROVE j \in Owed /\ Vis'[j] = Vis[j]
      BY <1>0, <1>1, <2>1 DEF Vis, Visible, Owed, hotelVars
    <2> QED
      BY <1>0, <1>1, <2>1, <2>2, <2>3, <2>4, SourceKeeps DEF Sequences
  <1>5. ASSUME NEW k \in Rows, RollBack(k) PROVE IInv'
    <2>1. /\ sequence' = sequence
          /\ committed' = committed
          /\ written' = [written EXCEPT ![k] = 0]
          /\ undone' = undone \union {k}
      BY <1>5 DEF RollBack
    <2>2. TypeOK'
      BY <1>0, <1>2, <2>1 DEF Sequences
    <2>3. \A j \in Rows : committed'[j] <= sequence' /\ written'[j] <= sequence'
      BY <1>0, <2>1 DEF Sequences
    <2>4. ASSUME NEW j \in Owed' PROVE j \in Owed /\ Vis'[j] = Vis[j]
      BY <1>0, <1>1, <2>1 DEF Vis, Visible, Owed, hotelVars
    <2> QED
      BY <1>0, <1>1, <2>1, <2>2, <2>3, <2>4, SourceKeeps DEF Sequences
  <1> QED
    BY <1>3, <1>4, <1>5 DEF SourceNext

-------------------------------------------------------------------------------
LEMMA InitIInv == Init => IInv
  <1> SUFFICES ASSUME Init PROVE IInv
    OBVIOUS
  <1>0. MaxSequence \in Nat /\ 0 \in Sequences
    BY ExtractAssumption DEF Sequences
  <1>1. TypeOK
    BY <1>0, LegacyAssumption, IdleIsState
      DEF Init, ExtractInit, HandoffInit, HotelInit, TypeOK, ExtractTypeOK, HandoffTypeOK, HotelTypeOK
  <1>2. IsHandoff => postdated = {}
    <2>1. ASSUME route \in HandoffRoutes, route \in HotelRoutes PROVE Runs = {}
      BY <2>1 DEF HandoffRoutes, HotelRoutes
    <2> QED
      BY <2>1, LegacyAssumption DEF Init, IsHandoff
  <1> QED
    BY <1>0, <1>1, <1>2
      DEF Init, ExtractInit, HotelInit, IInv, FactsInPast, Passed, RunShape, RunReach,
          Vis, Visible, IdleRun, Owed

LEMMA NextIInv == IInv /\ [Next]_vars => IInv'
  <1> SUFFICES ASSUME IInv, [Next]_vars PROVE IInv'
    OBVIOUS
  <1>1. CASE SourceNext /\ UNCHANGED <<handoffVars, hotelVars, route>>
    BY <1>1, SourceStep
  <1>2. ASSUME NEW r \in Runs, route[r] = "handoff", HandoffNext(r), UNCHANGED <<hotelVars, route>>
        PROVE  IInv'
    <2>0. IsHandoff
      BY <1>2, RouteOfRun DEF IInv
    <2>1. CASE SharedTask(r)
      BY <1>2, <2>1, ReadLowKeeps, ExtractKeeps, FailKeeps DEF SharedTask
    <2>2. CASE CaptureKnown(r)
      BY <1>2, <2>2, CaptureKeeps DEF CaptureKnown
    <2>3. CASE SplitExtract(r)
      BY <1>2, <2>0, <2>3, SplitKeeps
    <2>4. CASE WriteOutbox(r)
      BY <1>2, <2>0, <2>4, WriteOutboxKeeps
    <2>5. CASE \E e \in run[r].staged : Resolve(r, e)
      BY <1>2, <2>5, ResolveKeeps
    <2>6. CASE Reconcile(r)
      BY <1>2, <2>6, ToCommitKeeps DEF Reconcile
    <2>7. CASE CommitWatermark(r)
      BY <1>2, <2>7, CommitKeeps DEF CommitWatermark
    <2> QED
      BY <1>2, <2>1, <2>2, <2>3, <2>4, <2>5, <2>6, <2>7 DEF HandoffNext
  <1>3. ASSUME NEW r \in Runs, BoundRun(r), UNCHANGED <<handoffVars, route>>
        PROVE  IInv'
    BY <1>3, ReadLowKeeps, CaptureKeeps, FailKeeps DEF BoundRun
  <1>4. ASSUME NEW r \in Runs, NEW k \in Rows, ScanRow(r, k), UNCHANGED <<handoffVars, route>>
        PROVE  IInv'
    BY <1>4, ExtractKeeps DEF ScanRow
  <1>5. ASSUME NEW r \in Runs, CommitHighWatermark(r), UNCHANGED <<handoffVars, route>>
        PROVE  IInv'
    BY <1>5, CommitKeeps DEF CommitHighWatermark
  <1>6. ASSUME NEW r \in Runs, route[r] = "ssis", SsisNext(r), UNCHANGED <<handoffVars, route>>
        PROVE  IInv'
    <2>0. ~IsHandoff
      BY <1>6, RouteOfRun DEF IInv
    <2>1. ASSUME NEW k \in Rows, SkipPostdated(r, k) PROVE IInv'
      BY <1>6, <2>1, SkipKeeps
    <2>2. CASE FillStaging(r)
      BY <1>6, <2>2, FillKeeps
    <2>3. CASE Validate(r)
      BY <1>6, <2>0, <2>3, ValidateKeeps
    <2>4. CASE MergeFacts(r)
      BY <1>6, <2>0, <2>4, MergeKeeps
    <2>5. CASE ReconcileCounts(r)
      BY <1>6, <2>5, ToCommitKeeps DEF ReconcileCounts
    <2> QED
      BY <1>3, <1>4, <1>5, <1>6, <2>1, <2>2, <2>3, <2>4, <2>5 DEF SsisNext
  <1>7. ASSUME NEW r \in Runs, route[r] = "adf", AdfNext(r), UNCHANGED <<handoffVars, route>>
        PROVE  IInv'
    <2>0. ~IsHandoff
      BY <1>7, RouteOfRun DEF IInv
    <2>1. CASE RetryCopy(r)
      BY <1>7, <2>1, RetryKeeps
    <2>2. CASE FinishCopy(r)
      BY <1>7, <2>0, <2>2, FinishCopyKeeps
    <2>3. CASE ValidationPasses(r)
      BY <1>7, <2>3, ToCommitKeeps DEF ValidationPasses
    <2> QED
      BY <1>3, <1>4, <1>5, <1>7, <2>1, <2>2, <2>3 DEF AdfNext
  <1>8. CASE UNCHANGED vars
    BY <1>8 DEF vars, extractVars, source, handoffVars, hotelVars, IInv, TypeOK, ExtractTypeOK,
                HandoffTypeOK, HotelTypeOK, Vis, Visible, Owed, Held, Kept, IsHandoff
  <1>9. ASSUME NEW r \in Runs, route[r] = "package", PackageNext(r), UNCHANGED <<handoffVars, route>>
        PROVE  IInv'
    <2>0. ~IsHandoff
      BY <1>9, RouteOfRun DEF IInv
    <2>1. CASE TakeBound(r)
      BY <1>9, <2>1, TakeBoundKeeps
    <2>2. CASE AcquireRunLock(r)
      BY <1>9, <2>2, AcquireKeeps
    <2>3. CASE ReadWatermark(r)
      BY <1>9, <2>3, ReadWatermarkKeeps
    <2>4. CASE RetryCopy(r)
      BY <1>9, <2>4, RetryKeeps
    <2>5. CASE FillStaging(r)
      BY <1>9, <2>5, FillKeeps
    <2>6. CASE WriteLanding(r)
      BY <1>9, <2>0, <2>6, LandingKeeps
    <2>7. CASE QuarantineRejects(r)
      BY <1>9, <2>0, <2>7, RejectsKeep
    <2>8. CASE ReconcileRun(r)
      BY <1>9, <2>8, ReconcileRunKeeps
    <2>9. CASE CommitPipeline(r)
      BY <1>9, <2>9, CommitPipelineKeeps
    <2>10. CASE Fail(r) /\ UNCHANGED hotelVars
      BY <1>9, <2>10, FailKeeps
    <2> QED
      BY <1>4, <1>9, <2>1, <2>2, <2>3, <2>4, <2>5, <2>6, <2>7, <2>8, <2>9, <2>10 DEF PackageNext
  <1> QED
    BY <1>1, <1>2, <1>6, <1>7, <1>8, <1>9 DEF Next

LEMMA SpecIInv == Spec => []IInv
  BY InitIInv, NextIInv, PTL DEF Spec

\* The values of all variables stay in their types, whatever the bounds are.
THEOREM SpecTypeOK == Spec => []TypeOK
  <1>1. IInv => TypeOK
    BY DEF IInv
  <1> QED
    BY <1>1, SpecIInv, PTL

\* The handoff leaves no row behind its watermark, for any number of overlapping
\* executions, failed tasks and writes (the package of the CDC handoff).
THEOREM SpecNoGap == Spec => []NoGap
  <1>1. IInv => NoGap
    <2> SUFFICES ASSUME IInv, IsHandoff, NEW k \in Rows \ undone PROVE HandedOver(k)
      BY DEF NoGap
    <2>1. k \in Owed /\ k \in Rows
      BY DEF IInv, Owed
    <2>2. Visible(k) \in 1..watermark => k \in Held
      BY <2>1, VisibleDrawn DEF IInv, Passed
    <2> QED
      BY <2>2 DEF Held, Kept, HandedOver
  <1> QED
    BY <1>1, SpecIInv, PTL

\* The loads of hotel reservations skip no row, in whatever order runs merge, copy,
\* land, quarantine, fail, and move the watermark and the bound that they share.
THEOREM SpecNothingSkipped == Spec => []NothingSkipped
  <1>1. IInv => NothingSkipped
    <2> SUFFICES ASSUME IInv, ~IsHandoff, NEW k \in Rows \ (undone \union postdated)
                 PROVE  Loaded(k)
      BY DEF NothingSkipped
    <2>1. k \in Owed /\ k \in Rows
      BY DEF Owed
    <2>2. Visible(k) \in 1..watermark => k \in Held
      BY <2>1, VisibleDrawn DEF IInv, Passed
    <2> QED
      BY <2>2 DEF Held, Kept, Loaded
  <1> QED
    BY <1>1, SpecIInv, PTL
===============================================================================
