---------------------------- MODULE BoundedExtract ----------------------------
(***************************************************************************)
(* What the batch packages have in common: executions of a pipeline read   *)
(* the watermark of its last success, capture the highest SOURCE_SEQUENCE  *)
(* of a DB2 table, and extract the rows in between without locks (WITH UR) *)
(* while transactions write them.  Any task may fail.  What a package does *)
(* with the rows it staged is said in the modules that extend this one.    *)
(***************************************************************************)
EXTENDS Naturals, FiniteSets

CONSTANTS
    Rows,           \* reservations in the table
    InvalidRows,    \* those that the package's rules refuse
    Runs,           \* executions that may overlap
    MaxSequence     \* writes to the table

ASSUME ExtractAssumption ==
    /\ IsFiniteSet(Rows)
    /\ InvalidRows \subseteq Rows
    /\ MaxSequence \in Nat

VARIABLES
    committed,      \* the committed SOURCE_SEQUENCE of each row, 0 without row
    written,        \* the sequence an open transaction wrote, 0 without one
    sequence,       \* the last SOURCE_SEQUENCE drawn
    undone,         \* rows whose last write was rolled back
    watermark,      \* the watermark of the pipeline
    run             \* variables and staged rows of each execution

source == <<committed, written, sequence, undone>>
extractVars == <<source, watermark, run>>

Sequences == 0..MaxSequence

\* A version of a row, which is what the keys of the targets are made of.
Versions == Rows \X Sequences

Phases == {"IDLE", "BEGIN", "CAPTURE", "EXTRACT", "STAGED", "VALID", "LANDED", "READY",
           "APPLIED", "COMMIT"}

\* scan holds the rows still to be read.  What no later task of the run reads
\* is forgotten.
RunState == [phase: Phases, low: Sequences, high: Sequences, scan: SUBSET Rows,
             staged: SUBSET Versions]

IdleRun == [phase |-> "IDLE", low |-> 0, high |-> 0, scan |-> {}, staged |-> {}]

ExtractTypeOK ==
    /\ committed \in [Rows -> Sequences]
    /\ written \in [Rows -> Sequences]
    /\ sequence \in Sequences
    /\ undone \subseteq Rows
    /\ watermark \in Sequences
    /\ run \in [Runs -> RunState]

ExtractInit ==
    /\ committed = [k \in Rows |-> 0]
    /\ written = [k \in Rows |-> 0]
    /\ sequence = 0
    /\ undone = {}
    /\ watermark = 0
    /\ run = [r \in Runs |-> IdleRun]

-------------------------------------------------------------------------------
\* The source: transactions draw a sequence as they write, one row each, and
\* end either way.  All of it is outside the platform.

Write(k) ==
    /\ written[k] = 0
    /\ sequence < MaxSequence
    /\ sequence' = sequence + 1
    /\ written' = [written EXCEPT ![k] = sequence + 1]
    /\ UNCHANGED <<committed, undone, watermark, run>>

CommitWrite(k) ==
    /\ written[k] # 0
    /\ committed' = [committed EXCEPT ![k] = written[k]]
    /\ written' = [written EXCEPT ![k] = 0]
    /\ undone' = undone \ {k}
    /\ UNCHANGED <<sequence, watermark, run>>

RollBack(k) ==
    /\ written[k] # 0
    /\ written' = [written EXCEPT ![k] = 0]
    /\ undone' = undone \union {k}
    /\ UNCHANGED <<committed, sequence, watermark, run>>

SourceNext == \E k \in Rows : Write(k) \/ CommitWrite(k) \/ RollBack(k)

\* What an uncommitted read sees of a row.
Visible(k) == IF written[k] # 0 THEN written[k] ELSE committed[k]

-------------------------------------------------------------------------------
\* The tasks of an execution

ReadLowWatermark(r) ==
    /\ run[r].phase = "IDLE"
    /\ run' = [run EXCEPT ![r] = [IdleRun EXCEPT !.phase = "CAPTURE", !.low = watermark]]
    /\ UNCHANGED <<source, watermark>>

\* The maximum of the table, or 0 where COALESCE stands for the NULL of an
\* empty one.
IsHighest(high) ==
    /\ \A k \in Rows : Visible(k) <= high
    /\ high = 0 \/ \E k \in Rows : Visible(k) = high

StartScan(r, high) ==
    /\ run[r].phase = "CAPTURE"
    /\ run' = [run EXCEPT ![r].phase = "EXTRACT", ![r].high = high, ![r].scan = Rows]
    /\ UNCHANGED <<source, watermark>>

\* Faulty: the bound is captured as if it were exclusive.
CaptureExclusive(r) == \E high \in Sequences : IsHighest(high) /\ StartScan(r, high + 1)

CaptureHighWatermark(r) == \E high \in Sequences : IsHighest(high) /\ StartScan(r, high)

InWindow(r, k) == run[r].low < Visible(k) /\ Visible(k) <= run[r].high

\* One row of the scan: writers are not kept out.
ExtractRow(r, k) ==
    /\ run[r].phase = "EXTRACT"
    /\ k \in run[r].scan
    /\ run' = [run EXCEPT
                ![r].scan = @ \ {k},
                ![r].staged = IF InWindow(r, k) THEN @ \union {<<k, Visible(k)>>} ELSE @]
    /\ UNCHANGED <<source, watermark>>

Refused(versions) == {v \in versions : v[1] \in InvalidRows}

\* The scan is through: the run goes on with what it keeps of its rows.
FinishScan(r, phase, kept) ==
    /\ run[r].phase = "EXTRACT"
    /\ run[r].scan = {}
    /\ run' = [run EXCEPT ![r].phase = phase, ![r].low = 0, ![r].staged = kept]
    /\ UNCHANGED <<source, watermark>>

\* Any task fails, or the process dies: nothing of what was done is undone.
Fail(r) ==
    /\ run[r].phase # "IDLE"
    /\ run' = [run EXCEPT ![r] = IdleRun]
    /\ UNCHANGED <<source, watermark>>
===============================================================================
