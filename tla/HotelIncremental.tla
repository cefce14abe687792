--------------------------- MODULE HotelIncremental ---------------------------
(***************************************************************************)
(* The incremental loads of hotel reservations.  Two of them read HOTEL.-  *)
(* RESERVATION_CURRENT and share the watermark hotel_reservation_incre-    *)
(* mental: the SSIS package, which validates its staged rows and merges    *)
(* them into the warehouse, and the Data Factory pipeline, which copies    *)
(* them to the landing bucket.  The merge procedure moves the watermark    *)
(* and closes the run in its own transaction, before the counts are        *)
(* reconciled.  The package PKG_HOTELRESERVATIONS_INCREMENTAL lands the    *)
(* rows of HOSPITALITY.RESERVATION; its control row holds the bound of the *)
(* run that began last beside the watermark, and begin locks nobody out.   *)
(***************************************************************************)
EXTENDS BoundedExtract

VARIABLES
    postdated,      \* rows stamped more than five minutes ahead of DB2's clock
    fact,           \* dw.fact_reservation.source_sequence, 0 without row
    quarantined,    \* versions in dq.quarantine
    landed,         \* versions in objects of the landing folder
    announced       \* high_watermark of the package's control row

hotelVars == <<postdated, fact, quarantined, landed, announced>>

HotelTypeOK ==
    /\ postdated \subseteq Rows
    /\ fact \in [Rows -> Sequences]
    /\ quarantined \subseteq Versions
    /\ landed \subseteq Versions
    /\ announced \in Sequences

HotelInit ==
    /\ fact = [k \in Rows |-> 0]
    /\ quarantined = {}
    /\ landed = {}
    /\ announced = 0

-------------------------------------------------------------------------------
\* The first tasks of the two routes that share a watermark.
BoundRun(r) ==
    /\ ReadLowWatermark(r) \/ CaptureHighWatermark(r) \/ Fail(r)
    /\ UNCHANGED hotelVars

ScanRow(r, k) ==
    /\ ExtractRow(r, k)
    /\ UNCHANGED hotelVars

\* The query of the SSIS data flow leaves out rows stamped ahead of the clock,
\* until the clock is there.
SkipPostdated(r, k) ==
    /\ run[r].phase = "EXTRACT"
    /\ k \in run[r].scan \intersect postdated
    /\ run' = [run EXCEPT ![r].scan = @ \ {k}]
    /\ UNCHANGED <<source, watermark, hotelVars>>

-------------------------------------------------------------------------------
\* The SSIS package

\* Task 02: staging keeps the rows of each run apart.
FillStaging(r) ==
    /\ FinishScan(r, "STAGED", run[r].staged)
    /\ UNCHANGED hotelVars

\* Task 03
Validate(r) ==
    /\ run[r].phase = "STAGED"
    /\ quarantined' = quarantined \union Refused(run[r].staged)
    /\ run' = [run EXCEPT ![r].phase = "VALID", ![r].staged = @ \ Refused(@)]
    /\ UNCHANGED <<source, watermark, postdated, fact, landed, announced>>

\* Faulty: WHEN MATCHED without a comparison of the sequences.
MergedAny(k, versions) ==
    IF \E s \in Sequences : <<k, s>> \in versions
      THEN CHOOSE s \in Sequences :
              /\ <<k, s>> \in versions
              /\ \A t \in Sequences : <<k, t>> \in versions => t <= s
      ELSE fact[k]

\* The version of a row after the MERGE of staged versions: a row that is
\* matched takes the greatest sequence staged for it if that is a later one.
Merged(k, versions) ==
    CHOOSE s \in {fact[k]} \union {v[2] : v \in {w \in versions : w[1] = k}} :
        /\ s >= fact[k]
        /\ \A t \in Sequences : <<k, t>> \in versions => t <= s

\* Task 04, one transaction: facts, watermark and the status of the run.
MergeFacts(r) ==
    /\ run[r].phase = "VALID"
    /\ fact' = [k \in Rows |-> Merged(k, run[r].staged)]
    /\ watermark' = run[r].high
    /\ run' = [run EXCEPT ![r].phase = "APPLIED", ![r].staged = {}]
    /\ UNCHANGED <<source, postdated, quarantined, landed, announced>>

\* Task 05 passes; when it throws, that is a failure of the run.
ReconcileCounts(r) ==
    /\ run[r].phase = "APPLIED"
    /\ run' = [run EXCEPT ![r].phase = "COMMIT"]
    /\ UNCHANGED <<source, watermark, hotelVars>>

\* Task 06 of the package, and the last activity of the pipeline.
CommitHighWatermark(r) ==
    /\ run[r].phase = "COMMIT"
    /\ watermark' = run[r].high
    /\ run' = [run EXCEPT ![r] = IdleRun]
    /\ UNCHANGED <<source, hotelVars>>

SsisNext(r) ==
    \/ BoundRun(r)
    \/ \E k \in Rows : ScanRow(r, k) \/ SkipPostdated(r, k)
    \/ FillStaging(r)
    \/ Validate(r)
    \/ MergeFacts(r)
    \/ ReconcileCounts(r)
    \/ CommitHighWatermark(r)

-------------------------------------------------------------------------------
\* The Data Factory pipeline

\* The copy is tried again from its start; what it uploaded so far is no
\* object yet.
RetryCopy(r) ==
    /\ run[r].phase = "EXTRACT"
    /\ run' = [run EXCEPT ![r].scan = Rows, ![r].staged = {}]
    /\ UNCHANGED <<source, watermark, hotelVars>>

FinishCopy(r) ==
    /\ FinishScan(r, "APPLIED", {})
    /\ landed' = landed \union run[r].staged
    /\ UNCHANGED <<postdated, fact, quarantined, announced>>

\* The endpoint, which is not in the repository, answers without an error.
ValidationPasses(r) ==
    /\ run[r].phase = "APPLIED"
    /\ run' = [run EXCEPT ![r].phase = "COMMIT"]
    /\ UNCHANGED <<source, watermark, hotelVars>>

AdfNext(r) ==
    \/ BoundRun(r)
    \/ \E k \in Rows : ScanRow(r, k)
    \/ RetryCopy(r)
    \/ FinishCopy(r)
    \/ ValidationPasses(r)
    \/ CommitHighWatermark(r)

-------------------------------------------------------------------------------
\* The package with begin and commit procedures

\* The caller captures the bound, at any time before the run begins.
TakeBound(r) ==
    /\ run[r].phase = "IDLE"
    /\ \E high \in Sequences :
        /\ IsHighest(high)
        /\ run' = [run EXCEPT ![r] = [IdleRun EXCEPT !.phase = "BEGIN", !.high = high]]
    /\ UNCHANGED <<source, watermark, hotelVars>>

\* Task 1, usp_begin_pipeline: whoever runs already, its bound is overwritten.
AcquireRunLock(r) ==
    /\ run[r].phase = "BEGIN"
    /\ announced' = run[r].high
    /\ run' = [run EXCEPT ![r] = [IdleRun EXCEPT !.phase = "CAPTURE"]]
    /\ UNCHANGED <<source, watermark, postdated, fact, quarantined, landed>>

\* Task 2: both bounds as the control row has them by now.
ReadWatermark(r) ==
    /\ run[r].phase = "CAPTURE"
    /\ run' = [run EXCEPT ![r] =
            [phase |-> "EXTRACT", low |-> watermark, high |-> announced, scan |-> Rows, staged |-> {}]]
    /\ UNCHANGED <<source, watermark, hotelVars>>

\* Task 5
WriteLanding(r) ==
    /\ run[r].phase = "STAGED"
    /\ landed' = landed \union (run[r].staged \ Refused(run[r].staged))
    /\ run' = [run EXCEPT ![r].phase = "LANDED", ![r].staged = Refused(@)]
    /\ UNCHANGED <<source, watermark, postdated, fact, quarantined, announced>>

\* Task 6: no other task depends on it.
QuarantineRejects(r) ==
    /\ run[r].phase \in {"STAGED", "LANDED", "READY"}
    /\ quarantined' = quarantined \union Refused(run[r].staged)
    /\ run' = [run EXCEPT ![r].staged = @ \ Refused(@)]
    /\ UNCHANGED <<source, watermark, postdated, fact, landed, announced>>

\* Tasks 7 and 8: the reconciliation, whose procedure is not in the repository,
\* passes, and the landing is announced.
ReconcileRun(r) ==
    /\ run[r].phase = "LANDED"
    /\ run' = [run EXCEPT ![r].phase = "READY"]
    /\ UNCHANGED <<source, watermark, hotelVars>>

\* Tasks 9 and 10, usp_commit_pipeline: it throws unless the rows read are those
\* landed and those quarantined.
CommitPipeline(r) ==
    /\ run[r].phase = "READY"
    /\ run[r].staged = {}
    /\ watermark' = run[r].high
    /\ announced' = run[r].high
    /\ run' = [run EXCEPT ![r] = IdleRun]
    /\ UNCHANGED <<source, postdated, fact, quarantined, landed>>

PackageNext(r) ==
    \/ TakeBound(r)
    \/ AcquireRunLock(r)
    \/ ReadWatermark(r)
    \/ \E k \in Rows : ScanRow(r, k)
    \/ RetryCopy(r)
    \/ FillStaging(r)
    \/ WriteLanding(r)
    \/ QuarantineRejects(r)
    \/ ReconcileRun(r)
    \/ CommitPipeline(r)
    \/ Fail(r) /\ UNCHANGED hotelVars

\* The version of a row that the watermark has passed is the one in the
\* warehouse, or it is in quarantine, or it lies in the landing folder.
Loaded(k) ==
    Visible(k) \in 1..watermark =>
        \/ fact[k] = Visible(k)
        \/ <<k, Visible(k)>> \in quarantined \union landed
===============================================================================
