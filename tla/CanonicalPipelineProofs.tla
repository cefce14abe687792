----------------------- MODULE CanonicalPipelineProofs -----------------------
(***************************************************************************)
(* Proofs about the canonical pipeline, for any finite set of envelopes,   *)
(* any batches and any number of calls: the rows are the newest merged     *)
(* records, the metrics match the store, and a balanced reconciliation     *)
(* accounts for every envelope.                                            *)
(***************************************************************************)
EXTENDS CanonicalPipeline, FiniteSetTheorems, SequenceTheorems, TLAPS

\* Outputs exist only while a call runs; the remembered hashes and the keys are
\* finitely many.
SupportInv ==
    /\ ~call.active => call = NoCall
    /\ IsFiniteSet(seen)
    /\ IsFiniteSet(DOMAIN rows)

\* BalancedMeansAccounted, with the outputs the running call has not returned.
AccountInv ==
    Balanced =>
        \A x \in seen : \/ Canonical(x) \in audit
                        \/ x \in quarantined
                        \/ x \in call.quarantine

IInv == TypeOK /\ SupportInv /\ RowsAreNewest /\ CountsMatchStore /\ AccountInv

-------------------------------------------------------------------------------
\* The order of records
\*
\* Of two records of one key that differ, one is newer.
LEMMA EventOrderTotal ==
    ASSUME NEW a \in CanonicalRecord, NEW b \in CanonicalRecord, a.key = b.key
    PROVE  a = b \/ EventNewer(a, b) \/ EventNewer(b, a)
  <1>1. CASE a.version = b.version /\ a.updated = b.updated /\ a.event_id = b.event_id
    BY <1>1 DEF CanonicalRecord
  <1>2. CASE ~(a.version = b.version /\ a.updated = b.updated /\ a.event_id = b.event_id)
    BY <1>2 DEF CanonicalRecord, EventNewer, VersionNewer
  <1> QED BY <1>1, <1>2

\* Newer is transitive.
LEMMA EventOrderTransitive ==
    ASSUME NEW a \in CanonicalRecord, NEW b \in CanonicalRecord, NEW c \in CanonicalRecord,
           EventNewer(a, b), EventNewer(b, c)
    PROVE  EventNewer(a, c)
  BY DEF CanonicalRecord, EventNewer, VersionNewer

\* The record of an envelope keeps its key.
LEMMA CanonicalType ==
    ASSUME NEW x \in Envelopes
    PROVE  /\ Canonical(x) \in CanonicalRecord
           /\ Canonical(x).key = x.key
  BY PipelineAssumption DEF Canonical, CanonicalRecord, Envelope

\* Each metric goes up by one if it is named, and keeps its value if not.
LEMMA CountedValues ==
    ASSUME counts \in [Metrics -> Nat], NEW names
    PROVE  /\ Counted(names) \in [Metrics -> Nat]
           /\ \A m \in Metrics :
                Counted(names)[m] = IF m \in names THEN counts[m] + 1 ELSE counts[m]
  BY DEF Counted

\* merge answers with one of its four outcomes.
LEMMA OutcomeKnown == ASSUME NEW r PROVE MergeOutcome(r) \in Outcomes
  BY DEF MergeOutcome, Outcomes

-------------------------------------------------------------------------------
\* Type correctness

\* What is left of a batch is a sequence of envelopes.
LEMMA TakenType ==
    ASSUME TypeOK, NEW x \in Envelopes, IsNext(x)
    PROVE  /\ Taken \in [active: BOOLEAN, batch: SUBSET Envelopes, todo: Seq(Envelopes),
                         quarantine: SUBSET Envelopes]
           /\ Taken.active = call.active
           /\ Taken.quarantine = call.quarantine
           /\ Taken.batch = call.batch
  <1>1. Tail(call.todo) \in Seq(Envelopes)
    BY DEF TypeOK, IsNext
  <1> QED BY <1>1 DEF TypeOK, Taken

\* The empty call is well typed.
LEMMA NoCallType ==
    NoCall \in [active: BOOLEAN, batch: SUBSET Envelopes, todo: Seq(Envelopes),
                quarantine: SUBSET Envelopes]
  <1>1. <<>> \in Seq(Envelopes)
    OBVIOUS
  <1> QED BY <1>1 DEF NoCall

\* Every step keeps the types.
LEMMA TypeOKStep == TypeOK /\ [Next]_vars => TypeOK'
  <1> SUFFICES ASSUME TypeOK, [Next]_vars PROVE TypeOK'
    OBVIOUS
  <1>0. /\ seen \subseteq Envelopes
        /\ audit \subseteq {Canonical(x) : x \in Envelopes}
        /\ rows \in [DOMAIN rows -> audit]
        /\ counts \in [Metrics -> Nat]
        /\ quarantined \subseteq Envelopes
        /\ returned \subseteq Envelopes
        /\ calls \in 0..MaxCalls
        /\ now \in 0..MaxTime
    BY DEF TypeOK
  <1>c. call \in [active: BOOLEAN, batch: SUBSET Envelopes, todo: Seq(Envelopes),
                  quarantine: SUBSET Envelopes]
    BY DEF TypeOK
  <1>1. ASSUME NEW n \in 1..MaxBatch, NEW batch \in [1..n -> Envelopes], StartCall(batch)
        PROVE TypeOK'
    <2>1. n \in Nat
      BY PipelineAssumption
    <2>2. batch \in Seq(Envelopes)
      BY <2>1
    <2>3. {batch[i] : i \in DOMAIN batch} \subseteq Envelopes
      OBVIOUS
    <2>4. call' \in [active: BOOLEAN, batch: SUBSET Envelopes, todo: Seq(Envelopes),
                     quarantine: SUBSET Envelopes]
      BY <1>1, <2>2, <2>3 DEF StartCall
    <2>5. calls' \in 0..MaxCalls
      BY <1>0, <1>1, PipelineAssumption DEF StartCall
    <2> QED BY <1>0, <1>1, <2>4, <2>5 DEF StartCall, TypeOK
  <1>2. ASSUME NEW x \in Envelopes, SkipDuplicate(x) PROVE TypeOK'
    BY <1>0, <1>2, TakenType, CountedValues DEF SkipDuplicate, TypeOK
  <1>3. ASSUME NEW x \in Envelopes, QuarantineEvent(x) PROVE TypeOK'
    <2>1. call' \in [active: BOOLEAN, batch: SUBSET Envelopes, todo: Seq(Envelopes),
                     quarantine: SUBSET Envelopes]
      BY <1>3, TakenType DEF QuarantineEvent
    <2> QED BY <1>0, <1>3, <2>1, CountedValues DEF QuarantineEvent, TypeOK
  <1>4. ASSUME NEW x \in Envelopes, MergeEvent(x) PROVE TypeOK'
    <2>1. audit' = audit \union {Canonical(x)}
      BY <1>4 DEF MergeEvent
    <2>2. rows' \in [DOMAIN rows' -> audit']
      BY <1>0, <1>4, <2>1 DEF MergeEvent
    <2>3. counts' \in [Metrics -> Nat] /\ seen' \subseteq Envelopes
      BY <1>0, <1>4, CountedValues DEF MergeEvent
    <2>4. call' \in [active: BOOLEAN, batch: SUBSET Envelopes, todo: Seq(Envelopes),
                     quarantine: SUBSET Envelopes]
      BY <1>4, TakenType DEF MergeEvent
    <2>5. UNCHANGED <<quarantined, returned, calls, now>>
      BY <1>4 DEF MergeEvent
    <2> QED BY <1>0, <2>1, <2>2, <2>3, <2>4, <2>5 DEF TypeOK
  <1>5. ASSUME NEW x \in Envelopes, Raise(x) PROVE TypeOK'
    BY <1>0, <1>5, NoCallType, CountedValues DEF Raise, TypeOK
  <1>6. CASE Return
    BY <1>0, <1>c, <1>6, NoCallType DEF Return, TypeOK
  <1>7. CASE Tick
    BY <1>0, <1>c, <1>7, PipelineAssumption DEF Tick, TypeOK
  <1>8. CASE UNCHANGED vars
    BY <1>0, <1>c, <1>8 DEF vars, TypeOK
  <1> QED BY <1>1, <1>2, <1>3, <1>4, <1>5, <1>6, <1>7, <1>8 DEF Next

-------------------------------------------------------------------------------
\* The invariants

\* Outputs end with the call; hashes and keys come one at a time.
LEMMA SupportStep == TypeOK /\ SupportInv /\ [Next]_vars => SupportInv'
  <1> SUFFICES ASSUME TypeOK, SupportInv, [Next]_vars PROVE SupportInv'
    OBVIOUS
  <1>0. /\ ~call.active => call = NoCall
        /\ IsFiniteSet(seen)
        /\ IsFiniteSet(DOMAIN rows)
    BY DEF SupportInv
  <1>1. ASSUME NEW n \in 1..MaxBatch, NEW batch \in [1..n -> Envelopes], StartCall(batch)
        PROVE SupportInv'
    BY <1>0, <1>1 DEF StartCall, SupportInv
  <1>2. ASSUME NEW x \in Envelopes, SkipDuplicate(x) PROVE SupportInv'
    BY <1>0, <1>2, TakenType DEF SkipDuplicate, SupportInv, IsNext
  <1>3. ASSUME NEW x \in Envelopes, QuarantineEvent(x) PROVE SupportInv'
    <2>1. call'.active
      BY <1>3, TakenType DEF QuarantineEvent, IsNext
    <2>2. IsFiniteSet(seen') /\ rows' = rows
      BY <1>0, <1>3, FS_AddElement DEF QuarantineEvent
    <2> QED BY <1>0, <2>1, <2>2 DEF SupportInv
  <1>4. ASSUME NEW x \in Envelopes, MergeEvent(x) PROVE SupportInv'
    <2>1. call'.active
      BY <1>4, TakenType DEF MergeEvent, IsNext
    <2>2. IsFiniteSet(seen')
      BY <1>0, <1>4, FS_AddElement DEF MergeEvent
    <2>3. DOMAIN rows' = DOMAIN rows \/ DOMAIN rows' = DOMAIN rows \union {x.key}
      BY <1>4 DEF MergeEvent
    <2> QED BY <1>0, <2>1, <2>2, <2>3, FS_AddElement DEF SupportInv
  <1>5. ASSUME NEW x \in Envelopes, Raise(x) PROVE SupportInv'
    BY <1>0, <1>5, FS_AddElement DEF Raise, SupportInv
  <1>6. CASE Return
    BY <1>0, <1>6 DEF Return, SupportInv
  <1>7. CASE Tick
    BY <1>0, <1>7 DEF Tick, SupportInv
  <1>8. CASE UNCHANGED vars
    BY <1>0, <1>8 DEF vars, SupportInv
  <1> QED BY <1>1, <1>2, <1>3, <1>4, <1>5, <1>6, <1>7, <1>8 DEF Next

\* What merge answers says how the arriving record stands to the row: the row
\* is missing, older, the same, or newer.
LEMMA OutcomeMeaning ==
    ASSUME TypeOK, NEW x \in Envelopes, RowsAreNewest
    PROVE  LET r == Canonical(x)
               o == MergeOutcome(r)
           IN  /\ o = "inserted" <=> x.key \notin DOMAIN rows
               /\ o = "updated" => x.key \in DOMAIN rows /\ EventNewer(r, rows[x.key])
               /\ o \in {"duplicate_ignored", "stale_ignored"} =>
                    /\ x.key \in DOMAIN rows
                    /\ r = rows[x.key] \/ EventNewer(rows[x.key], r)
  <1> DEFINE r == Canonical(x)
  <1>1. r \in CanonicalRecord /\ r.key = x.key
    BY CanonicalType
  <1>2. ASSUME x.key \in DOMAIN rows
        PROVE  /\ rows[x.key] \in CanonicalRecord
               /\ rows[x.key].key = x.key
    <2>1. rows[x.key] \in Applied(x.key)
      BY <1>2 DEF RowsAreNewest
    <2> QED BY <2>1, CanonicalType DEF Applied, TypeOK
  <1>3. ASSUME x.key \in DOMAIN rows
        PROVE  r = rows[x.key] \/ EventNewer(r, rows[x.key]) \/ EventNewer(rows[x.key], r)
    BY <1>1, <1>2, <1>3, EventOrderTotal
  <1> QED BY <1>1, <1>3 DEF MergeOutcome, Supersedes

\* A merge leaves each row the newest of its records.
LEMMA RowsStep == TypeOK /\ RowsAreNewest /\ [Next]_vars => RowsAreNewest'
  <1> SUFFICES ASSUME TypeOK, RowsAreNewest, [Next]_vars PROVE RowsAreNewest'
    OBVIOUS
  <1>0. /\ DOMAIN rows = {r.key : r \in audit}
        /\ \A k \in DOMAIN rows :
            /\ rows[k] \in Applied(k)
            /\ \A r \in Applied(k) : r = rows[k] \/ EventNewer(rows[k], r)
    BY DEF RowsAreNewest
  <1>a. \A r \in audit : r \in CanonicalRecord
    BY CanonicalType DEF TypeOK
  <1>1. ASSUME NEW x \in Envelopes, MergeEvent(x) PROVE RowsAreNewest'
    <2> DEFINE new == Canonical(x)
               old == rows[x.key]
    <2>1. new \in CanonicalRecord /\ new.key = x.key
      BY CanonicalType
    <2>2. audit' = audit \union {new}
      BY <1>1 DEF MergeEvent
    <2>3. \A k : /\ k # x.key => Applied(k)' = Applied(k)
                 /\ Applied(x.key)' = Applied(x.key) \union {new}
      BY <2>1, <2>2 DEF Applied
    <2>4. CASE MergeOutcome(new) \in {"inserted", "updated"}
      <3>1. rows' = [k \in DOMAIN rows \union {x.key} |-> IF k = x.key THEN new ELSE rows[k]]
        BY <1>1, <2>4 DEF MergeEvent
      <3>2. DOMAIN rows' = {r.key : r \in audit'}
        BY <1>0, <2>1, <2>2, <3>1
      <3>3. \A r \in Applied(x.key) : r = new \/ EventNewer(new, r)
        <4>1. CASE MergeOutcome(new) = "inserted"
          BY <1>0, <4>1, OutcomeMeaning DEF Applied
        <4>2. CASE MergeOutcome(new) = "updated"
          <5>1. x.key \in DOMAIN rows /\ EventNewer(new, old)
            BY <4>2, OutcomeMeaning
          <5>2. \A r \in Applied(x.key) : r = old \/ EventNewer(old, r)
            BY <1>0, <5>1
          <5>3. old \in CanonicalRecord
            BY <1>0, <1>a, <5>1 DEF Applied
          <5>4. \A r \in Applied(x.key) : r \in CanonicalRecord
            BY <1>a DEF Applied
          <5> QED BY <2>1, <5>1, <5>2, <5>3, <5>4, EventOrderTransitive
        <4> QED BY <2>4, <4>1, <4>2
      <3>4. ASSUME NEW k \in DOMAIN rows'
            PROVE  /\ rows'[k] \in Applied(k)'
                   /\ \A r \in Applied(k)' : r = rows'[k] \/ EventNewer(rows'[k], r)
        <4>1. CASE k = x.key
          BY <2>3, <3>1, <3>3, <4>1
        <4>2. CASE k # x.key
          BY <1>0, <2>3, <3>1, <4>2
        <4> QED BY <4>1, <4>2
      <3> QED BY <3>2, <3>4 DEF RowsAreNewest
    <2>5. CASE MergeOutcome(new) \in {"duplicate_ignored", "stale_ignored"}
      <3>1. rows' = rows
        BY <1>1, <2>5 DEF MergeEvent
      <3>2. x.key \in DOMAIN rows /\ (new = old \/ EventNewer(old, new))
        BY <2>5, OutcomeMeaning
      <3>3. DOMAIN rows' = {r.key : r \in audit'}
        BY <1>0, <2>1, <2>2, <3>1, <3>2
      <3>4. ASSUME NEW k \in DOMAIN rows
            PROVE  /\ rows'[k] \in Applied(k)'
                   /\ \A r \in Applied(k)' : r = rows'[k] \/ EventNewer(rows'[k], r)
        <4>1. CASE k = x.key
          BY <1>0, <2>3, <3>1, <3>2, <4>1
        <4>2. CASE k # x.key
          BY <1>0, <2>3, <3>1, <4>2
        <4> QED BY <4>1, <4>2
      <3> QED BY <3>1, <3>3, <3>4 DEF RowsAreNewest
    <2> QED BY <2>4, <2>5, OutcomeKnown DEF Outcomes
  <1>2. ASSUME UNCHANGED <<rows, audit>> PROVE RowsAreNewest'
    BY <1>2 DEF RowsAreNewest, Applied
  <1> QED
    BY <1>1, <1>2 DEF Next, StartCall, SkipDuplicate, QuarantineEvent, Raise, Return, Tick, vars

\* The metrics that a step changes, written out.
LEMMA CountsOf ==
    ASSUME TypeOK, NEW names, counts' = Counted(names)
    PROVE  \A m \in Metrics :
                /\ counts[m] \in Nat
                /\ counts'[m] = IF m \in names THEN counts[m] + 1 ELSE counts[m]
  BY CountedValues DEF TypeOK

\* One step adds to the metrics what it adds to the store.
LEMMA CountsStep ==
    TypeOK /\ SupportInv /\ RowsAreNewest /\ CountsMatchStore /\ [Next]_vars => CountsMatchStore'
  <1> SUFFICES ASSUME TypeOK, SupportInv, RowsAreNewest, CountsMatchStore, [Next]_vars
               PROVE  CountsMatchStore'
    OBVIOUS
  <1>0. IsFiniteSet(seen) /\ IsFiniteSet(DOMAIN rows)
    BY DEF SupportInv
  <1>m. Metrics = {"inserted", "updated", "duplicate_ignored", "stale_ignored",
                   "source", "clean", "quarantine", "duplicate"}
    BY DEF Metrics, Outcomes
  <1>n. Cardinality(seen) \in Nat /\ Cardinality(DOMAIN rows) \in Nat
    BY <1>0, FS_CardinalityType
  <1>t. counts \in [Metrics -> Nat]
    BY DEF TypeOK
  <1>1. ASSUME NEW x \in Envelopes, SkipDuplicate(x) PROVE CountsMatchStore'
    <2>1. /\ counts' = Counted({"source", "duplicate"})
          /\ seen' = seen /\ rows' = rows
      BY <1>1 DEF SkipDuplicate
    <2>2. \A m \in Metrics : /\ counts[m] \in Nat
                             /\ counts'[m] = IF m \in {"source", "duplicate"}
                                             THEN counts[m] + 1 ELSE counts[m]
      BY <2>1, CountsOf
    <2> QED BY <1>m, <1>n, <2>1, <2>2 DEF CountsMatchStore, Explained
  <1>2. ASSUME NEW x \in Envelopes, QuarantineEvent(x) PROVE CountsMatchStore'
    <2>1. /\ counts' = Counted({"source", "quarantine"})
          /\ seen' = seen \union {x} /\ x \notin seen /\ rows' = rows
      BY <1>2 DEF QuarantineEvent
    <2>2. \A m \in Metrics : /\ counts[m] \in Nat
                             /\ counts'[m] = IF m \in {"source", "quarantine"}
                                             THEN counts[m] + 1 ELSE counts[m]
      BY <2>1, CountsOf
    <2>3. Cardinality(seen') = Cardinality(seen) + 1
      BY <1>0, <2>1, FS_AddElement
    <2> QED BY <1>m, <1>n, <2>1, <2>2, <2>3 DEF CountsMatchStore, Explained
  <1>3. ASSUME NEW x \in Envelopes, Raise(x) PROVE CountsMatchStore'
    <2>1. /\ counts' = Counted({"source"})
          /\ seen' = seen \union {x} /\ x \notin seen /\ rows' = rows
      BY <1>3 DEF Raise
    <2>2. \A m \in Metrics : /\ counts[m] \in Nat
                             /\ counts'[m] = IF m \in {"source"}
                                             THEN counts[m] + 1 ELSE counts[m]
      BY <2>1, CountsOf
    <2>3. Cardinality(seen') = Cardinality(seen) + 1
      BY <1>0, <2>1, FS_AddElement
    <2> QED BY <1>m, <1>n, <2>1, <2>2, <2>3 DEF CountsMatchStore, Explained
  <1>4. ASSUME NEW x \in Envelopes, MergeEvent(x) PROVE CountsMatchStore'
    <2> DEFINE o == MergeOutcome(Canonical(x))
    <2>1. /\ counts' = Counted({"source", "clean", o})
          /\ seen' = seen \union {x} /\ x \notin seen
      BY <1>4 DEF MergeEvent
    <2>2. \A m \in Metrics : /\ counts[m] \in Nat
                             /\ counts'[m] = IF m \in {"source", "clean", o}
                                             THEN counts[m] + 1 ELSE counts[m]
      BY <2>1, CountsOf
    <2>3. Cardinality(seen') = Cardinality(seen) + 1
      BY <1>0, <2>1, FS_AddElement
    <2>4. Cardinality(DOMAIN rows') = IF o = "inserted" THEN Cardinality(DOMAIN rows) + 1
                                                        ELSE Cardinality(DOMAIN rows)
      <3>1. CASE o \in {"inserted", "updated"}
        <4>1. DOMAIN rows' = DOMAIN rows \union {x.key}
          BY <1>4, <3>1 DEF MergeEvent
        <4>2. o = "inserted" <=> x.key \notin DOMAIN rows
          BY OutcomeMeaning
        <4> QED BY <1>0, <4>1, <4>2, FS_AddElement
      <3>2. CASE o \notin {"inserted", "updated"}
        BY <1>4, <3>2 DEF MergeEvent
      <3> QED BY <3>1, <3>2
    <2>5. o \in {"inserted", "updated", "duplicate_ignored", "stale_ignored"}
      BY OutcomeKnown DEF Outcomes
    <2> HIDE DEF o
    <2> QED BY <1>m, <1>n, <2>2, <2>3, <2>4, <2>5 DEF CountsMatchStore, Explained
  <1>5. ASSUME UNCHANGED <<counts, seen, rows>> PROVE CountsMatchStore'
    BY <1>5 DEF CountsMatchStore, Explained
  <1> QED
    BY <1>1, <1>2, <1>3, <1>4, <1>5 DEF Next, StartCall, Return, Tick, vars

\* A step that counts an envelope as one thing at most closes no gap.
LEMMA GapStays ==
    ASSUME TypeOK, CountsMatchStore,
           NEW names, counts' = Counted(names), "source" \in names,
           NEW m \in {"clean", "quarantine", "duplicate"},
           \A other \in {"clean", "quarantine", "duplicate"} : other # m => other \notin names
    PROVE  Balanced' => Balanced
  <1>1. /\ "source" \in Metrics /\ "clean" \in Metrics
        /\ "quarantine" \in Metrics /\ "duplicate" \in Metrics
    BY DEF Metrics
  <1>2. /\ counts["source"] \in Nat /\ counts["clean"] \in Nat
        /\ counts["quarantine"] \in Nat /\ counts["duplicate"] \in Nat
    BY <1>1 DEF TypeOK
  <1>3. /\ counts'["source"] = counts["source"] + 1
        /\ counts'["clean"] \in {counts["clean"], counts["clean"] + 1}
        /\ counts'["quarantine"] \in {counts["quarantine"], counts["quarantine"] + 1}
        /\ counts'["duplicate"] \in {counts["duplicate"], counts["duplicate"] + 1}
        /\ m # "clean" => counts'["clean"] = counts["clean"]
        /\ m # "quarantine" => counts'["quarantine"] = counts["quarantine"]
        /\ m # "duplicate" => counts'["duplicate"] = counts["duplicate"]
    BY <1>1, CountsOf
  <1>4. counts["source"] >= Explained
    BY DEF CountsMatchStore
  <1>5. counts'["clean"] + counts'["quarantine"] + counts'["duplicate"]
            <= counts["clean"] + counts["quarantine"] + counts["duplicate"] + 1
    <2>1. CASE m = "clean"
      BY <1>2, <1>3, <2>1
    <2>2. CASE m = "quarantine"
      BY <1>2, <1>3, <2>2
    <2>3. CASE m = "duplicate"
      BY <1>2, <1>3, <2>3
    <2> QED BY <2>1, <2>2, <2>3
  <1> QED BY <1>2, <1>3, <1>4, <1>5 DEF Balanced, Explained

\* While the reconciliation balances no call has raised; an exception opens a gap
\* that no later step closes.
LEMMA AccountStep ==
    TypeOK /\ SupportInv /\ CountsMatchStore /\ AccountInv /\ [Next]_vars => AccountInv'
  <1> SUFFICES ASSUME TypeOK, SupportInv, CountsMatchStore, AccountInv, [Next]_vars
               PROVE  AccountInv'
    OBVIOUS
  <1>m. Metrics = {"inserted", "updated", "duplicate_ignored", "stale_ignored",
                   "source", "clean", "quarantine", "duplicate"}
    BY DEF Metrics, Outcomes
  <1>1. ASSUME NEW x \in Envelopes, SkipDuplicate(x) PROVE AccountInv'
    <2>1. /\ counts' = Counted({"source", "duplicate"})
          /\ UNCHANGED <<seen, audit, quarantined>>
          /\ call'.quarantine = call.quarantine
      BY <1>1, TakenType DEF SkipDuplicate
    <2>2. Balanced' => Balanced
      BY <2>1, GapStays
    <2> QED BY <2>1, <2>2 DEF AccountInv
  <1>2. ASSUME NEW x \in Envelopes, QuarantineEvent(x) PROVE AccountInv'
    <2>1. /\ counts' = Counted({"source", "quarantine"})
          /\ seen' = seen \union {x}
          /\ UNCHANGED <<audit, quarantined>>
          /\ call'.quarantine = call.quarantine \union {x}
      BY <1>2, TakenType DEF QuarantineEvent
    <2>2. Balanced' => Balanced
      BY <2>1, GapStays
    <2> QED BY <2>1, <2>2 DEF AccountInv
  <1>3. ASSUME NEW x \in Envelopes, MergeEvent(x) PROVE AccountInv'
    <2> DEFINE o == MergeOutcome(Canonical(x))
    <2>1. /\ counts' = Counted({"source", "clean", o})
          /\ seen' = seen \union {x}
          /\ audit' = audit \union {Canonical(x)}
          /\ UNCHANGED quarantined
          /\ call'.quarantine = call.quarantine
      BY <1>3, TakenType DEF MergeEvent
    <2>2. o \in {"inserted", "updated", "duplicate_ignored", "stale_ignored"}
      BY OutcomeKnown DEF Outcomes
    <2>3. Balanced' => Balanced
      <3> HIDE DEF o
      <3>1. /\ "source" \in {"source", "clean", o}
            /\ "quarantine" \notin {"source", "clean", o}
            /\ "duplicate" \notin {"source", "clean", o}
        BY <2>2
      <3> QED BY <2>1, <3>1, GapStays
    <2> QED BY <2>1, <2>3 DEF AccountInv
  <1>4. ASSUME NEW x \in Envelopes, Raise(x) PROVE AccountInv'
    <2>1. counts' = Counted({"source"})
      BY <1>4 DEF Raise
    <2>2. ~Balanced'
      BY <1>m, <2>1, CountsOf DEF Balanced, Explained, CountsMatchStore
    <2> QED BY <2>2 DEF AccountInv
  <1>5. ASSUME NEW n \in 1..MaxBatch, NEW batch \in [1..n -> Envelopes], StartCall(batch)
        PROVE AccountInv'
    <2>1. call.quarantine = {}
      BY <1>5 DEF StartCall, SupportInv, NoCall
    <2> QED BY <1>5, <2>1 DEF StartCall, AccountInv, Balanced, Explained
  <1>6. CASE Return
    BY <1>6 DEF Return, AccountInv, Balanced, Explained
  <1>7. CASE Tick
    BY <1>7 DEF Tick, AccountInv, Balanced, Explained
  <1>8. CASE UNCHANGED vars
    BY <1>8 DEF vars, AccountInv, Balanced, Explained
  <1> QED BY <1>1, <1>2, <1>3, <1>4, <1>5, <1>6, <1>7, <1>8 DEF Next

\* The pipeline starts empty.
LEMMA InitInv == Init => IInv
  <1> SUFFICES ASSUME Init PROVE IInv
    OBVIOUS
  <1>1. DOMAIN rows = {} /\ rows \in [DOMAIN rows -> audit]
    BY DEF Init
  <1>2. TypeOK
    BY <1>1, NoCallType, PipelineAssumption DEF Init, TypeOK, Metrics, Outcomes
  <1>3. SupportInv
    BY <1>1, FS_EmptySet DEF Init, SupportInv
  <1>4. RowsAreNewest
    BY <1>1 DEF Init, RowsAreNewest
  <1>5. CountsMatchStore
    BY <1>1, FS_EmptySet DEF Init, CountsMatchStore, Explained, Metrics, Outcomes
  <1>6. AccountInv
    BY DEF Init, AccountInv
  <1> QED BY <1>2, <1>3, <1>4, <1>5, <1>6 DEF IInv

-------------------------------------------------------------------------------
\* The inductive invariant holds of the loop of process, its exceptions and its
\* resubmissions.
THEOREM PipelineInvariance == Spec => []IInv
  <1>1. IInv /\ [Next]_vars => IInv'
    BY TypeOKStep, SupportStep, RowsStep, CountsStep, AccountStep DEF IInv
  <1> QED BY InitInv, <1>1, PTL DEF Spec

\* Type correctness: the call, the store and the metrics are well formed.
THEOREM PipelineTypeCorrect == Spec => []TypeOK
  <1>1. IInv => TypeOK
    BY DEF IInv
  <1> QED BY <1>1, PipelineInvariance, PTL

\* CanonicalMergeStore converges: its rows are the newest of the merged records,
\* whatever the order, batching and repetition of the events.
THEOREM RowsStayNewest == Spec => []RowsAreNewest
  <1>1. IInv => RowsAreNewest
    BY DEF IInv
  <1> QED BY <1>1, PipelineInvariance, PTL

\* PipelineMetrics agrees with the store after any calls, raised or returned.
THEOREM CountsAlwaysMatchStore == Spec => []CountsMatchStore
  <1>1. IInv => CountsMatchStore
    BY DEF IInv
  <1> QED BY <1>1, PipelineInvariance, PTL

\* When reconcile_metrics says balanced, between calls, no envelope is lost.
THEOREM BalanceCanBeTrusted == Spec => []BalancedMeansAccounted
  <1>1. IInv => BalancedMeansAccounted
    BY DEF IInv, SupportInv, AccountInv, BalancedMeansAccounted, NoCall
  <1> QED BY <1>1, PipelineInvariance, PTL
===============================================================================
