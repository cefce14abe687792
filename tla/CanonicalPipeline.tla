-------------------------- MODULE CanonicalPipeline --------------------------
(***************************************************************************)
(* EnterprisePipeline and its CanonicalMergeStore: a call of process takes *)
(* a batch of envelopes one by one, drops those whose hash it remembers,   *)
(* routes the others to quarantine or to the merge, and hands its outputs  *)
(* back when it returns.  An exception in a validator or in _normalize     *)
(* ends the call and its outputs are gone, while the store and the metrics *)
(* keep what was done; the caller may submit the batch again.              *)
(***************************************************************************)
EXTENDS MergeOrder, Sequences, FiniteSets

CONSTANTS
    Envelopes,      \* the envelopes that may be submitted, redeliveries included
    MaxBatch,       \* longest batch
    MaxCalls,       \* calls of process
    MaxTime         \* ticks of the clock

Bodies == {"valid", "invalid", "malformed", "unversioned"}

\* delivery is what a redelivery changes (trace, partition, offset), due the
\* time from which event_time is not in the future any more.
Envelope == [event_id: Nat, key: STRING, version: Nat, updated: Nat,
             body: Bodies, due: Nat, delivery: Nat]

ASSUME PipelineAssumption ==
    /\ Envelopes \subseteq Envelope
    /\ IsFiniteSet(Envelopes)
    /\ MaxBatch \in Nat
    /\ MaxCalls \in Nat
    /\ MaxTime \in Nat

VARIABLES
    seen,           \* _event_hashes: the hash covers the whole envelope
    rows,           \* _rows, a partial function on business keys
    audit,          \* the records of _audit, their order and outcome left out
    counts,         \* PipelineMetrics
    call,           \* the running call of process
    quarantined,    \* quarantine outputs of the calls that returned
    returned,       \* envelopes in batches of the calls that returned
    calls,          \* calls made so far
    now             \* utcnow()

vars == <<seen, rows, audit, counts, call, quarantined, returned, calls, now>>

Outcomes == {"inserted", "updated", "duplicate_ignored", "stale_ignored"}
Metrics == Outcomes \union {"source", "clean", "quarantine", "duplicate"}

CanonicalRecord == [key: STRING, version: Nat, updated: Nat, event_id: Nat]

Canonical(x) ==
    [key |-> x.key, version |-> x.version, updated |-> x.updated, event_id |-> x.event_id]

NoCall == [active |-> FALSE, batch |-> {}, todo |-> <<>>, quarantine |-> {}]

TypeOK ==
    /\ seen \subseteq Envelopes
    /\ audit \subseteq {Canonical(x) : x \in Envelopes}
    /\ rows \in [DOMAIN rows -> audit]
    /\ counts \in [Metrics -> Nat]
    /\ call \in [active: BOOLEAN, batch: SUBSET Envelopes, todo: Seq(Envelopes),
                 quarantine: SUBSET Envelopes]
    /\ quarantined \subseteq Envelopes
    /\ returned \subseteq Envelopes
    /\ calls \in 0..MaxCalls
    /\ now \in 0..MaxTime

Init ==
    /\ seen = {}
    /\ rows = [k \in {} |-> [key |-> "", version |-> 0, updated |-> 0, event_id |-> 0]]
    /\ audit = {}
    /\ counts = [m \in Metrics |-> 0]
    /\ call = NoCall
    /\ quarantined = {}
    /\ returned = {}
    /\ calls = 0
    /\ now = 0

-------------------------------------------------------------------------------
\* Routing: validators raise on values they cannot parse, whatever else is
\* wrong with the envelope; _normalize raises only on envelopes routed to clean.

RouteRaises(x) == x.body = "malformed"
Refused(x) == x.body = "invalid" \/ x.due > now
NormalizeRaises(x) == x.body = "unversioned"

\* Faulty: exact ties are not broken by the event id.
SupersedesByTime(new, current) == VersionNewer(new, current)

\* candidate_order > current_order
Supersedes(new, current) == EventNewer(new, current)

\* What merge answers.
MergeOutcome(r) ==
    CASE r.key \notin DOMAIN rows       -> "inserted"
      [] r.key \in DOMAIN rows /\ Supersedes(r, rows[r.key]) -> "updated"
      [] r.key \in DOMAIN rows /\ rows[r.key] = r -> "duplicate_ignored"
      [] OTHER                          -> "stale_ignored"

Counted(names) == [m \in Metrics |-> IF m \in names THEN counts[m] + 1 ELSE counts[m]]

IsNext(x) == call.active /\ call.todo # <<>> /\ x = Head(call.todo)

Taken == [call EXCEPT !.todo = Tail(@)]

-------------------------------------------------------------------------------
StartCall(batch) ==
    /\ ~call.active
    /\ calls < MaxCalls
    /\ call' = [active |-> TRUE, batch |-> {batch[i] : i \in DOMAIN batch},
                todo |-> batch, quarantine |-> {}]
    /\ calls' = calls + 1
    /\ UNCHANGED <<seen, rows, audit, counts, quarantined, returned, now>>

\* remember_event answers False.
SkipDuplicate(x) ==
    /\ IsNext(x)
    /\ x \in seen
    /\ counts' = Counted({"source", "duplicate"})
    /\ call' = Taken
    /\ UNCHANGED <<seen, rows, audit, quarantined, returned, calls, now>>

\* Faulty: the hash is remembered only for clean events.
QuarantineForgotten(x) ==
    /\ IsNext(x)
    /\ x \notin seen
    /\ ~RouteRaises(x)
    /\ Refused(x)
    /\ counts' = Counted({"source", "quarantine"})
    /\ call' = [Taken EXCEPT !.quarantine = @ \union {x}]
    /\ UNCHANGED <<seen, rows, audit, quarantined, returned, calls, now>>

QuarantineEvent(x) ==
    /\ IsNext(x)
    /\ x \notin seen
    /\ ~RouteRaises(x)
    /\ Refused(x)
    /\ seen' = seen \union {x}
    /\ counts' = Counted({"source", "quarantine"})
    /\ call' = [Taken EXCEPT !.quarantine = @ \union {x}]
    /\ UNCHANGED <<rows, audit, quarantined, returned, calls, now>>

\* Faulty: merge answers "inserted" before it appends to the audit.
MergeEventUnaudited(x) ==
    LET outcome == MergeOutcome(Canonical(x)) IN
    /\ IsNext(x)
    /\ x \notin seen
    /\ ~RouteRaises(x) /\ ~Refused(x) /\ ~NormalizeRaises(x)
    /\ seen' = seen \union {x}
    /\ audit' = IF outcome = "inserted" THEN audit ELSE audit \union {Canonical(x)}
    /\ counts' = Counted({"source", "clean", outcome})
    /\ rows' = IF outcome \in {"inserted", "updated"}
               THEN [k \in DOMAIN rows \union {x.key} |->
                        IF k = x.key THEN Canonical(x) ELSE rows[k]]
               ELSE rows
    /\ call' = Taken
    /\ UNCHANGED <<quarantined, returned, calls, now>>

MergeEvent(x) ==
    LET outcome == MergeOutcome(Canonical(x)) IN
    /\ IsNext(x)
    /\ x \notin seen
    /\ ~RouteRaises(x) /\ ~Refused(x) /\ ~NormalizeRaises(x)
    /\ seen' = seen \union {x}
    /\ audit' = audit \union {Canonical(x)}
    /\ counts' = Counted({"source", "clean", outcome})
    /\ rows' = IF outcome \in {"inserted", "updated"}
               THEN [k \in DOMAIN rows \union {x.key} |->
                        IF k = x.key THEN Canonical(x) ELSE rows[k]]
               ELSE rows
    /\ call' = Taken
    /\ UNCHANGED <<quarantined, returned, calls, now>>

\* Faulty: the source is counted when the envelope is done with.
RaiseUncounted(x) ==
    /\ IsNext(x)
    /\ x \notin seen
    /\ RouteRaises(x) \/ (~Refused(x) /\ NormalizeRaises(x))
    /\ seen' = seen \union {x}
    /\ call' = NoCall
    /\ UNCHANGED <<counts, rows, audit, quarantined, returned, calls, now>>

\* The exception leaves process after the hash was remembered.
Raise(x) ==
    /\ IsNext(x)
    /\ x \notin seen
    /\ RouteRaises(x) \/ (~Refused(x) /\ NormalizeRaises(x))
    /\ seen' = seen \union {x}
    /\ counts' = Counted({"source"})
    /\ call' = NoCall
    /\ UNCHANGED <<rows, audit, quarantined, returned, calls, now>>

Return ==
    /\ call.active
    /\ call.todo = <<>>
    /\ quarantined' = quarantined \union call.quarantine
    /\ returned' = returned \union call.batch
    /\ call' = NoCall
    /\ UNCHANGED <<seen, rows, audit, counts, calls, now>>

Tick ==
    /\ now < MaxTime
    /\ now' = now + 1
    /\ UNCHANGED <<seen, rows, audit, counts, call, quarantined, returned, calls>>

Next ==
    \/ \E n \in 1..MaxBatch : \E batch \in [1..n -> Envelopes] : StartCall(batch)
    \/ \E x \in Envelopes : \/ SkipDuplicate(x)
                            \/ QuarantineEvent(x)
                            \/ MergeEvent(x)
                            \/ Raise(x)
    \/ Return
    \/ Tick

Spec == Init /\ [][Next]_vars

-------------------------------------------------------------------------------
Explained == counts["clean"] + counts["quarantine"] + counts["duplicate"]

\* reconcile_metrics
Balanced == counts["source"] = Explained

Applied(k) == {r \in audit : r.key = k}

\* The current row of a key is the newest of all records that were merged for
\* it, whatever the order, the batches and the repetitions in which they came:
\* replaying the same events in another order ends in the same rows.
RowsAreNewest ==
    /\ DOMAIN rows = {r.key : r \in audit}
    /\ \A k \in DOMAIN rows :
        /\ rows[k] \in Applied(k)
        /\ \A r \in Applied(k) : r = rows[k] \/ EventNewer(rows[k], r)

\* The metrics tell the truth about the store, also after calls that raised:
\* one insert per row, one outcome per clean event, and every remembered hash
\* counted once, as clean, as quarantine, or as the gap of the reconciliation.
CountsMatchStore ==
    /\ counts["inserted"] = Cardinality(DOMAIN rows)
    /\ counts["clean"] = counts["inserted"] + counts["updated"]
                         + counts["duplicate_ignored"] + counts["stale_ignored"]
    /\ counts["source"] >= Explained
    /\ counts["clean"] + counts["quarantine"] + (counts["source"] - Explained)
        = Cardinality(seen)

\* A balanced reconciliation can be trusted: between calls, if source equals
\* clean + quarantine + duplicate, then every remembered envelope was merged
\* or its quarantine record was handed to a caller.
BalancedMeansAccounted ==
    Balanced /\ ~call.active =>
        \A x \in seen : Canonical(x) \in audit \/ x \in quarantined

\* docs/architecture.md:24, for the batches whose call came back: each of
\* their envelopes is merged, or in the quarantine output of some call.
NoSilentLoss == \A x \in returned : Canonical(x) \in audit \/ x \in quarantined
===============================================================================
