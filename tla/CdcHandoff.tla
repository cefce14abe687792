------------------------------ MODULE CdcHandoff ------------------------------
(***************************************************************************)
(* The SSIS package CDC_To_EventBus_Continuous_Handoff: of the rows an     *)
(* execution extracts it splits off the invalid ones, loads the outbox,    *)
(* waits for its rows to be published, reconciles, and moves the           *)
(* watermark.  Of the outbox, which module Outbox models, this one keeps   *)
(* what the package asks of it: which events it accepted, and which of its *)
(* own events an execution still waits for.                                *)
(***************************************************************************)
EXTENDS BoundedExtract

VARIABLES
    rejected,       \* versions in stream.QuarantineEvent
    accepted        \* events with a row in stream.OutboxEvent

\* The stable id of an event is made of the row and its sequence.
handoffVars == <<rejected, accepted>>

HandoffTypeOK ==
    /\ rejected \subseteq Versions
    /\ accepted \subseteq Versions

HandoffInit ==
    /\ rejected = {}
    /\ accepted = {}

\* Task 02.  MAX of an empty table is NULL, which fails the task.
CaptureKnown(r) ==
    /\ \E k \in Rows : Visible(k) # 0
    /\ CaptureHighWatermark(r)
    /\ UNCHANGED handoffVars

\* Task 03 splits its rows in two destinations, which commit when the scan is
\* through.
SplitExtract(r) ==
    /\ FinishScan(r, "VALID", run[r].staged \ Refused(run[r].staged))
    /\ rejected' = rejected \union Refused(run[r].staged)
    /\ UNCHANGED accepted

\* Tasks 04 and 05: one transaction that ignores the ids the outbox has.  Those
\* are explained as duplicates; what stays in staged is owed to the bus.
WriteOutbox(r) ==
    /\ run[r].phase = "VALID"
    /\ run' = [run EXCEPT ![r].phase = "APPLIED", ![r].staged = @ \ accepted]
    /\ accepted' = accepted \union run[r].staged
    /\ UNCHANGED <<source, watermark, rejected>>

\* Tasks 06 and 07 of this run and of any other: a publisher publishes an event
\* that the run waits for, or gives it up to quarantine.
Resolve(r, e) ==
    /\ run[r].phase = "APPLIED"
    /\ e \in run[r].staged
    /\ run' = [run EXCEPT ![r].staged = @ \ {e}]
    /\ UNCHANGED <<source, watermark, handoffVars>>

\* Faulty: the reconciliation does not wait for the outbox.
ReconcileStaged(r) ==
    /\ run[r].phase \in {"VALID", "APPLIED"}
    /\ run' = [run EXCEPT ![r].phase = "COMMIT", ![r].staged = {}]
    /\ UNCHANGED <<source, watermark, handoffVars>>

\* Task 08: every extracted row is published, quarantined or a duplicate.
Reconcile(r) ==
    /\ run[r].phase = "APPLIED"
    /\ run[r].staged = {}
    /\ run' = [run EXCEPT ![r].phase = "COMMIT"]
    /\ UNCHANGED <<source, watermark, handoffVars>>

\* Tasks 09 and 10.  The procedure is not in the repository: it may or may not
\* refuse to move the watermark back behind what another run committed.
CommitWatermark(r) ==
    /\ run[r].phase = "COMMIT"
    /\ \/ watermark' = run[r].high
       \/ run[r].high < watermark /\ UNCHANGED watermark
    /\ run' = [run EXCEPT ![r] = IdleRun]
    /\ UNCHANGED <<source, handoffVars>>

\* Tasks 00 and 01, the rows of task 03, and OnError.
SharedTask(r) ==
    /\ ReadLowWatermark(r) \/ (\E k \in Rows : ExtractRow(r, k)) \/ Fail(r)
    /\ UNCHANGED handoffVars

HandoffNext(r) ==
    \/ SharedTask(r)
    \/ CaptureKnown(r)
    \/ SplitExtract(r)
    \/ WriteOutbox(r)
    \/ \E e \in run[r].staged : Resolve(r, e)
    \/ Reconcile(r)
    \/ CommitWatermark(r)

\* The version of a row that the watermark has passed is in the outbox, or in
\* quarantine if the row is invalid.  While a transaction writes the row its
\* old version is not owed: the new one is, or the old one after a rollback.
HandedOver(k) ==
    Visible(k) \in 1..watermark =>
        <<k, Visible(k)>> \in IF k \in InvalidRows THEN rejected ELSE accepted
===============================================================================
