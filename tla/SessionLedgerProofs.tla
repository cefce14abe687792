------------------------- MODULE SessionLedgerProofs -------------------------
(***************************************************************************)
(* Proofs about the consumer ledger, for any finite set of events, any     *)
(* instances and any number of deliveries: an event is merged at most      *)
(* once, the newest merged version stays, and what was acknowledged was    *)
(* merged unless an instance was cut off.                                  *)
(***************************************************************************)
EXTENDS SessionLedger, FiniteSetTheorems, TLAPS

\* An instance works on one event.
OneJob == \A c \in Consumers : \A e, f \in consumer[c].job : e = f

\* Instances that have yet to register their delivery of e.
Pending(e) == {c \in Consumers : At(c, "CHECK", e) \/ At(c, "INSERT", e)}

\* Each of them has a delivery of its own that delivery_count does not count.
DeliveriesCount ==
    \A e \in Events :
        /\ IsFiniteSet(Pending(e))
        /\ ledger[e] + Cardinality(Pending(e)) <= deliveries[e]

\* The one instance whose insert succeeded may merge.
OneMerger ==
    /\ \A e \in Events : merges[e] <= 1 /\ (merges[e] > 0 => ledger[e] > 0)
    /\ \A c \in Consumers, e \in Events :
            At(c, "MERGE", e) =>
                /\ merges[e] = 0
                /\ ledger[e] > 0
                /\ \A d \in Consumers : At(d, "MERGE", e) => d = c

Settled(e) ==
    \/ merges[e] > 0
    \/ \E c \in Consumers : At(c, "MERGE", e)
    \/ e \in cutOff

\* A row of the ledger is the trace of a merge: done, under way, or cut off.
RegisteredIsSettled ==
    /\ \A e \in Events : ledger[e] > 0 => Settled(e)
    /\ \A e \in acked : ledger[e] > 0
    /\ \A c \in Consumers, e \in Events : At(c, "ACK", e) => ledger[e] > 0

\* Current rows are merged ones, and no merged one is newer.
RowsAreMerged ==
    /\ \A s \in DOMAIN current : merges[current[s]] > 0
    /\ \A e \in Events : merges[e] > 0 =>
            /\ e.session \in DOMAIN current
            /\ ~VersionNewer(e, current[e.session])

IInv == TypeOK /\ OneJob /\ DeliveriesCount /\ OneMerger /\ RegisteredIsSettled /\ RowsAreMerged

-------------------------------------------------------------------------------
\* How an action moves one instance

LEMMA IdleType == Idle \in [phase: Phases, job: SUBSET Events]
  BY DEF Idle, Phases

\* Goto keeps the event of the instance.
LEMMA GotoEffect ==
    ASSUME TypeOK, OneJob, NEW c \in Consumers, NEW p \in Phases, Goto(c, p)
    PROVE  /\ consumer' \in [Consumers -> [phase: Phases, job: SUBSET Events]]
           /\ OneJob'
           /\ \A f : At(c, p, f)' <=> f \in consumer[c].job
           /\ \A q, f : q # p => ~At(c, q, f)'
           /\ \A d \in Consumers \ {c} : \A q, f : At(d, q, f)' <=> At(d, q, f)
  <1>1. /\ consumer' = [consumer EXCEPT ![c].phase = p]
        /\ consumer \in [Consumers -> [phase: Phases, job: SUBSET Events]]
    BY DEF Goto, TypeOK
  <1>2. /\ consumer' \in [Consumers -> [phase: Phases, job: SUBSET Events]]
        /\ consumer'[c].phase = p /\ consumer'[c].job = consumer[c].job
        /\ \A d \in Consumers \ {c} : consumer'[d] = consumer[d]
    BY <1>1
  <1>3. OneJob'
    BY <1>2 DEF OneJob
  <1> QED BY <1>2, <1>3 DEF At

\* Stop leaves it without work.
LEMMA StopEffect ==
    ASSUME TypeOK, OneJob, NEW c \in Consumers, Stop(c)
    PROVE  /\ consumer' \in [Consumers -> [phase: Phases, job: SUBSET Events]]
           /\ OneJob'
           /\ \A q, f : ~At(c, q, f)'
           /\ \A d \in Consumers \ {c} : \A q, f : At(d, q, f)' <=> At(d, q, f)
  <1>1. /\ consumer' = [consumer EXCEPT ![c] = Idle]
        /\ consumer \in [Consumers -> [phase: Phases, job: SUBSET Events]]
    BY DEF Stop, TypeOK
  <1>2. /\ consumer' \in [Consumers -> [phase: Phases, job: SUBSET Events]]
        /\ consumer'[c] = Idle
        /\ \A d \in Consumers \ {c} : consumer'[d] = consumer[d]
    BY <1>1, IdleType
  <1>3. OneJob'
    BY <1>2 DEF OneJob, Idle
  <1> QED BY <1>2, <1>3 DEF At, Idle

\* The pending instances of an event when one leaves them, or none does.
LEMMA PendingShrinks ==
    ASSUME DeliveriesCount, TypeOK, NEW c \in Consumers, NEW f \in Events,
           Pending(f)' \subseteq Pending(f)
    PROVE  /\ IsFiniteSet(Pending(f)')
           /\ Cardinality(Pending(f)') \in Nat
           /\ Cardinality(Pending(f)) \in Nat
           /\ Cardinality(Pending(f)') <= Cardinality(Pending(f))
           /\ c \in Pending(f) /\ c \notin Pending(f)' =>
                Cardinality(Pending(f)') + 1 <= Cardinality(Pending(f))
  <1>1. IsFiniteSet(Pending(f))
    BY DEF DeliveriesCount
  <1>2. /\ IsFiniteSet(Pending(f)') /\ Cardinality(Pending(f)') <= Cardinality(Pending(f))
        /\ Cardinality(Pending(f)') \in Nat /\ Cardinality(Pending(f)) \in Nat
    BY <1>1, FS_Subset, FS_CardinalityType
  <1>3. ASSUME c \in Pending(f), c \notin Pending(f)'
        PROVE  Cardinality(Pending(f)') + 1 <= Cardinality(Pending(f))
    <2>1. /\ IsFiniteSet(Pending(f) \ {c})
          /\ Cardinality(Pending(f) \ {c}) = Cardinality(Pending(f)) - 1
      BY <1>1, <1>3, FS_RemoveElement
    <2>2. Pending(f)' \subseteq Pending(f) \ {c}
      BY <1>3
    <2>3. Cardinality(Pending(f)') <= Cardinality(Pending(f) \ {c})
      BY <2>1, <2>2, FS_Subset
    <2> QED BY <2>1, <2>3, <1>2
  <1> QED BY <1>1, <1>2, <1>3

-------------------------------------------------------------------------------
LEMMA InitIInv == Init => IInv
<1>1. SUFFICES ASSUME Init PROVE IInv
    OBVIOUS
<1>2. TypeOK
    BY <1>1, IdleType, LedgerAssumption DEF Init, TypeOK
<1>3. \A c \in Consumers : consumer[c].phase = "IDLE" /\ consumer[c].job = {}
    BY <1>1 DEF Init, Idle
<1>4. OneJob
    BY <1>3 DEF OneJob
<1>5. DeliveriesCount
    <2>1. \A e \in Events : Pending(e) = {}
      BY <1>3 DEF Pending, At
    <2>2. \A e \in Events : IsFiniteSet(Pending(e)) /\ Cardinality(Pending(e)) = 0
      BY <2>1, FS_EmptySet
    <2>3. \A e \in Events : ledger[e] = 0 /\ deliveries[e] = 0
      BY <1>1 DEF Init
    <2> QED BY <2>2, <2>3 DEF DeliveriesCount
<1>6. OneMerger /\ RegisteredIsSettled /\ RowsAreMerged
    BY <1>1, <1>3 DEF Init, OneMerger, RegisteredIsSettled, RowsAreMerged, At
<1> QED BY <1>2, <1>4, <1>5, <1>6 DEF IInv

-------------------------------------------------------------------------------
\* One lemma for each action

LEMMA DeliverKeeps ==
    ASSUME IInv, NEW c \in Consumers, NEW e \in Events, Deliver(c, e)
    PROVE  IInv'
<1> USE DEF IInv
<1>1. /\ consumer[c].phase = "IDLE"
      /\ deliveries[e] < MaxDeliveries
      /\ deliveries' = [deliveries EXCEPT ![e] = @ + 1]
      /\ consumer' = [consumer EXCEPT ![c] = [phase |-> "CHECK", job |-> {e}]]
      /\ UNCHANGED <<acked, ledger, current, merges, cutOff>>
    BY DEF Deliver
<1>2. /\ consumer' \in [Consumers -> [phase: Phases, job: SUBSET Events]]
      /\ consumer'[c].phase = "CHECK" /\ consumer'[c].job = {e}
      /\ \A d \in Consumers \ {c} : consumer'[d] = consumer[d]
    <2>1. [phase |-> "CHECK", job |-> {e}] \in [phase: Phases, job: SUBSET Events]
      BY DEF Phases
    <2> QED BY <1>1, <2>1 DEF TypeOK
<1>3. /\ deliveries' \in [Events -> 0..MaxDeliveries]
      /\ deliveries'[e] = deliveries[e] + 1
      /\ \A f \in Events \ {e} : deliveries'[f] = deliveries[f]
    BY <1>1, LedgerAssumption DEF TypeOK
<1>4. TypeOK'
    BY <1>1, <1>2, <1>3 DEF TypeOK
<1>5. OneJob'
    BY <1>2 DEF OneJob
<1>6. /\ \A d \in Consumers, f \in Events : At(d, "MERGE", f)' <=> At(d, "MERGE", f)
      /\ \A d \in Consumers, f \in Events : At(d, "ACK", f)' <=> At(d, "ACK", f)
    BY <1>1, <1>2 DEF At
<1>7. DeliveriesCount'
    <2>1. SUFFICES ASSUME NEW f \in Events
                   PROVE  /\ IsFiniteSet(Pending(f)')
                          /\ ledger'[f] + Cardinality(Pending(f)') <= deliveries'[f]
      BY DEF DeliveriesCount
    <2>2. /\ IsFiniteSet(Pending(f)) /\ Cardinality(Pending(f)) \in Nat
          /\ ledger[f] + Cardinality(Pending(f)) <= deliveries[f]
      BY FS_CardinalityType DEF DeliveriesCount
    <2>3. ledger' = ledger /\ ledger[f] \in Nat /\ deliveries[f] \in Nat
      BY <1>1 DEF TypeOK
    <2>4. CASE f # e
      <3>1. Pending(f)' = Pending(f)
        BY <1>1, <1>2, <2>4 DEF Pending, At
      <3> QED BY <3>1, <2>2, <2>3, <2>4, <1>3
    <2>5. CASE f = e
      <3>1. c \notin Pending(f)
        BY <1>1 DEF Pending, At
      <3>2. Pending(f)' = Pending(f) \union {c}
        BY <1>2, <2>5 DEF Pending, At
      <3>3. /\ IsFiniteSet(Pending(f)')
            /\ Cardinality(Pending(f)') = Cardinality(Pending(f)) + 1
        BY <3>1, <3>2, <2>2, FS_AddElement
      <3> QED BY <3>3, <2>2, <2>3, <2>5, <1>3
    <2> QED BY <2>4, <2>5
<1>8. OneMerger' /\ RegisteredIsSettled' /\ RowsAreMerged'
    <2>1. \A f \in Events : Settled(f) => Settled(f)'
      BY <1>1, <1>6 DEF Settled
    <2>2. acked \subseteq Events
      BY DEF TypeOK
    <2> QED BY <1>1, <1>6, <2>1, <2>2 DEF OneMerger, RegisteredIsSettled, RowsAreMerged
<1> QED BY <1>4, <1>5, <1>7, <1>8

\* For the actions after it: no instance becomes pending, and the count of the
\* ledger grows only by an instance that stops to be.
LEMMA CountKept ==
    ASSUME IInv, NEW c \in Consumers, NEW e \in Events,
           TypeOK', deliveries' = deliveries,
           \A f \in Events : Pending(f)' \subseteq Pending(f),
           \A f \in Events \ {e} : ledger'[f] = ledger[f],
           \/ ledger'[e] = ledger[e]
           \/ ledger'[e] = ledger[e] + 1 /\ c \in Pending(e) /\ c \notin Pending(e)'
    PROVE  DeliveriesCount'
<1>1. SUFFICES ASSUME NEW f \in Events
               PROVE  /\ IsFiniteSet(Pending(f)')
                      /\ ledger'[f] + Cardinality(Pending(f)') <= deliveries'[f]
    BY DEF DeliveriesCount
<1>2. /\ IsFiniteSet(Pending(f)')
      /\ Cardinality(Pending(f)') \in Nat
      /\ Cardinality(Pending(f)) \in Nat
      /\ Cardinality(Pending(f)') <= Cardinality(Pending(f))
      /\ c \in Pending(f) /\ c \notin Pending(f)' =>
            Cardinality(Pending(f)') + 1 <= Cardinality(Pending(f))
    BY PendingShrinks DEF IInv
<1>3. /\ ledger[f] + Cardinality(Pending(f)) <= deliveries[f]
      /\ ledger[f] \in Nat /\ deliveries[f] \in Nat
    BY DEF IInv, DeliveriesCount, TypeOK
<1>4. \/ ledger'[f] = ledger[f]
      \/ ledger'[f] = ledger[f] + 1 /\ c \in Pending(f) /\ c \notin Pending(f)'
    OBVIOUS
<1> QED BY <1>2, <1>3, <1>4

\* A pending instance has room in delivery_count.
LEMMA RoomToRegister ==
    ASSUME IInv, NEW c \in Consumers, NEW e \in Events, c \in Pending(e)
    PROVE  ledger[e] + 1 \in 0..MaxDeliveries
<1>1. /\ IsFiniteSet(Pending(e))
      /\ ledger[e] + Cardinality(Pending(e)) <= deliveries[e]
      /\ ledger[e] \in Nat /\ deliveries[e] \in 0..MaxDeliveries
    BY DEF IInv, DeliveriesCount, TypeOK
<1>2. Cardinality(Pending(e)) \in Nat /\ Cardinality(Pending(e)) # 0
    BY <1>1, FS_CardinalityType, FS_EmptySet
<1> QED BY <1>1, <1>2, LedgerAssumption
\* What the actions that touch neither merges nor current keep of the rest.
LEMMA RowsKept ==
    ASSUME IInv, merges' = merges, current' = current
    PROVE  RowsAreMerged'
  BY DEF IInv, RowsAreMerged

LEMMA DuplicateKeeps ==
    ASSUME IInv, NEW c \in Consumers, NEW e \in Events, RegisterDuplicate(c, e)
    PROVE  IInv'
<1>1. /\ At(c, "CHECK", e)
      /\ ledger[e] > 0
      /\ ledger' = [ledger EXCEPT ![e] = @ + 1]
      /\ Goto(c, "ACK")
      /\ UNCHANGED <<deliveries, acked, current, merges, cutOff>>
    BY DEF RegisterDuplicate
<1>2. TypeOK /\ OneJob /\ "ACK" \in Phases
    BY DEF IInv, Phases
<1>3. /\ consumer' \in [Consumers -> [phase: Phases, job: SUBSET Events]]
      /\ OneJob'
      /\ \A f : At(c, "ACK", f)' <=> f \in consumer[c].job
      /\ \A q, f : q # "ACK" => ~At(c, q, f)'
      /\ \A d \in Consumers \ {c} : \A q, f : At(d, q, f)' <=> At(d, q, f)
    BY <1>1, <1>2, GotoEffect
<1>4. \A f : f \in consumer[c].job <=> f = e
    BY <1>1, <1>2 DEF OneJob, At
<1>5. c \in Pending(e) /\ c \notin Pending(e)'
    BY <1>1, <1>3 DEF Pending
<1>6. /\ ledger' \in [Events -> 0..MaxDeliveries]
      /\ ledger'[e] = ledger[e] + 1
      /\ \A f \in Events \ {e} : ledger'[f] = ledger[f]
    <2>1. ledger[e] + 1 \in 0..MaxDeliveries
      BY <1>5, RoomToRegister
    <2> QED BY <1>1, <1>2, <2>1 DEF TypeOK
<1>7. TypeOK'
    BY <1>1, <1>2, <1>3, <1>6 DEF TypeOK
<1>8. DeliveriesCount'
    <2>1. \A f \in Events : Pending(f)' \subseteq Pending(f)
      BY <1>3 DEF Pending
    <2> QED BY <1>1, <1>5, <1>6, <1>7, <2>1, CountKept
<1>9. \A f \in Events : ledger[f] \in Nat /\ (ledger[f] > 0 => ledger'[f] > 0)
    BY <1>2, <1>6 DEF TypeOK
<1>10. OneMerger'
    BY <1>1, <1>3, <1>9 DEF IInv, OneMerger
<1>11. \A d \in Consumers, f \in Events : At(d, "MERGE", f)' <=> At(d, "MERGE", f)
    BY <1>1, <1>3 DEF At
<1>12. RegisteredIsSettled'
    <2>1. \A f \in Events : Settled(f) => Settled(f)'
      BY <1>1, <1>11 DEF Settled
    <2>2. \A f \in Events : ledger'[f] > 0 => ledger[f] > 0
      BY <1>1, <1>6
    <2>3. \A d \in Consumers, f \in Events : At(d, "ACK", f)' => ledger'[f] > 0
      BY <1>1, <1>3, <1>4, <1>9 DEF IInv, RegisteredIsSettled
    <2>4. \A f \in acked' : ledger'[f] > 0
      BY <1>1, <1>2, <1>9 DEF IInv, RegisteredIsSettled, TypeOK
    <2> QED BY <2>1, <2>2, <2>3, <2>4 DEF IInv, RegisteredIsSettled
<1>13. RowsAreMerged'
    BY <1>1, RowsKept
<1> QED BY <1>3, <1>7, <1>8, <1>10, <1>12, <1>13 DEF IInv

LEMMA AbsentKeeps ==
    ASSUME IInv, NEW c \in Consumers, NEW e \in Events, CheckAbsent(c, e)
    PROVE  IInv'
<1>1. /\ At(c, "CHECK", e)
      /\ Goto(c, "INSERT")
      /\ UNCHANGED <<deliveries, acked, ledger, current, merges, cutOff>>
    BY DEF CheckAbsent
<1>2. TypeOK /\ OneJob /\ "INSERT" \in Phases
    BY DEF IInv, Phases
<1>3. /\ consumer' \in [Consumers -> [phase: Phases, job: SUBSET Events]]
      /\ OneJob'
      /\ \A f : At(c, "INSERT", f)' <=> f \in consumer[c].job
      /\ \A q, f : q # "INSERT" => ~At(c, q, f)'
      /\ \A d \in Consumers \ {c} : \A q, f : At(d, q, f)' <=> At(d, q, f)
    BY <1>1, <1>2, GotoEffect
<1>4. TypeOK'
    BY <1>1, <1>2, <1>3 DEF TypeOK
<1>5. DeliveriesCount'
    <2>1. \A f \in consumer[c].job : At(c, "CHECK", f)
      BY <1>1 DEF At
    <2>2. \A f \in Events : Pending(f)' \subseteq Pending(f)
      BY <1>3, <2>1 DEF Pending
    <2> QED BY <1>1, <1>4, <2>2, CountKept
<1>6. \A d \in Consumers, f \in Events :
            (At(d, "MERGE", f)' <=> At(d, "MERGE", f)) /\ (At(d, "ACK", f)' => At(d, "ACK", f))
    BY <1>1, <1>3 DEF At
<1>7. OneMerger'
    BY <1>1, <1>6 DEF IInv, OneMerger
<1>8. RegisteredIsSettled'
    BY <1>1, <1>6 DEF IInv, RegisteredIsSettled, Settled
<1>9. RowsAreMerged'
    BY <1>1, RowsKept
<1> QED BY <1>3, <1>4, <1>5, <1>7, <1>8, <1>9 DEF IInv

\* An instance that ends a delivery without a merge left to do, and any that is cut off.
LEMMA EndKeeps ==
    ASSUME IInv, NEW c \in Consumers, Stop(c),
           acked' \subseteq Events, \A f \in acked' : ledger[f] > 0,
           cutOff' \subseteq Events, cutOff \subseteq cutOff',
           \A f \in Events : At(c, "MERGE", f) => f \in cutOff',
           UNCHANGED <<deliveries, ledger, current, merges>>
    PROVE  IInv'
<1>1. TypeOK /\ OneJob
    BY DEF IInv
<1>2. /\ consumer' \in [Consumers -> [phase: Phases, job: SUBSET Events]]
      /\ OneJob'
      /\ \A q, f : ~At(c, q, f)'
      /\ \A d \in Consumers \ {c} : \A q, f : At(d, q, f)' <=> At(d, q, f)
    BY <1>1, StopEffect
<1>3. TypeOK'
    BY <1>1, <1>2 DEF TypeOK
<1>4. DeliveriesCount'
    <2>1. \A f \in Events : Pending(f)' \subseteq Pending(f)
      BY <1>2 DEF Pending
    <2>2. CASE Events = {}
      BY <2>2 DEF DeliveriesCount
    <2>3. CASE Events # {}
      <3>1. PICK e \in Events : TRUE
        BY <2>3
      <3>2. \A f \in Events \ {e} : ledger'[f] = ledger[f]
        OBVIOUS
      <3> QED BY <1>3, <2>1, <3>2, CountKept
    <2> QED BY <2>2, <2>3
<1>5. \A d \in Consumers : \A q, f : At(d, q, f)' => At(d, q, f)
    BY <1>2
<1>6. OneMerger'
    BY <1>5 DEF IInv, OneMerger
<1>7. RegisteredIsSettled'
    <2>1. \A f \in Events : Settled(f) => Settled(f)'
      BY <1>2 DEF Settled
    <2> QED BY <1>5, <2>1 DEF IInv, RegisteredIsSettled
<1>8. RowsAreMerged'
    BY RowsKept
<1> QED BY <1>2, <1>3, <1>4, <1>6, <1>7, <1>8 DEF IInv

LEMMA AcknowledgeKeeps ==
    ASSUME IInv, NEW c \in Consumers, NEW e \in Events, Acknowledge(c, e)
    PROVE  IInv'
<1>1. /\ At(c, "ACK", e)
      /\ acked' = acked \union {e}
      /\ Stop(c)
      /\ UNCHANGED <<deliveries, ledger, current, merges, cutOff>>
    BY DEF Acknowledge
<1>2. acked' \subseteq Events /\ cutOff' \subseteq Events /\ cutOff \subseteq cutOff'
    BY <1>1 DEF IInv, TypeOK
<1>3. \A f \in acked' : ledger[f] > 0
    BY <1>1 DEF IInv, RegisteredIsSettled
<1>4. \A f \in Events : At(c, "MERGE", f) => f \in cutOff'
    BY <1>1 DEF At
<1> QED BY <1>1, <1>2, <1>3, <1>4, EndKeeps

LEMMA AbandonKeeps ==
    ASSUME IInv, NEW c \in Consumers, Abandon(c)
    PROVE  IInv'
<1>1. /\ cutOff' = IF consumer[c].phase = "MERGE" THEN cutOff \union consumer[c].job ELSE cutOff
      /\ Stop(c)
      /\ UNCHANGED <<deliveries, acked, ledger, current, merges>>
    BY DEF Abandon
<1>2. /\ consumer[c].job \subseteq Events
      /\ acked \subseteq Events /\ cutOff \subseteq Events
    BY DEF IInv, TypeOK
<1>3. cutOff' \subseteq Events /\ cutOff \subseteq cutOff'
    BY <1>1, <1>2
<1>4. \A f \in acked' : ledger[f] > 0
    BY <1>1 DEF IInv, RegisteredIsSettled
<1>5. \A f \in Events : At(c, "MERGE", f) => f \in cutOff'
    BY <1>1 DEF At
<1> QED BY <1>1, <1>2, <1>3, <1>4, <1>5, EndKeeps

LEMMA InsertKeeps ==
    ASSUME IInv, NEW c \in Consumers, NEW e \in Events, InsertLedger(c, e)
    PROVE  IInv'
<1>1. /\ At(c, "INSERT", e)
      /\ UNCHANGED <<deliveries, acked, current, merges, cutOff>>
    BY DEF InsertLedger
<1>2. CASE ledger[e] > 0 /\ Stop(c) /\ UNCHANGED ledger
    <2>1. acked' \subseteq Events /\ cutOff' \subseteq Events /\ cutOff \subseteq cutOff'
      BY <1>1 DEF IInv, TypeOK
    <2>2. \A f \in acked' : ledger[f] > 0
      BY <1>1 DEF IInv, RegisteredIsSettled
    <2>3. \A f \in Events : At(c, "MERGE", f) => f \in cutOff'
      BY <1>1 DEF At
    <2> QED BY <1>1, <1>2, <2>1, <2>2, <2>3, EndKeeps
<1>3. CASE ledger[e] = 0 /\ ledger' = [ledger EXCEPT ![e] = 1] /\ Goto(c, "MERGE")
    <2>1. TypeOK /\ OneJob /\ "MERGE" \in Phases
      BY DEF IInv, Phases
    <2>2. /\ consumer' \in [Consumers -> [phase: Phases, job: SUBSET Events]]
          /\ OneJob'
          /\ \A f : At(c, "MERGE", f)' <=> f \in consumer[c].job
          /\ \A q, f : q # "MERGE" => ~At(c, q, f)'
          /\ \A d \in Consumers \ {c} : \A q, f : At(d, q, f)' <=> At(d, q, f)
      BY <1>3, <2>1, GotoEffect
    <2>3. \A f : f \in consumer[c].job <=> f = e
      BY <1>1, <2>1 DEF OneJob, At
    <2>4. c \in Pending(e) /\ c \notin Pending(e)'
      BY <1>1, <2>2 DEF Pending
    <2>5. /\ ledger' \in [Events -> 0..MaxDeliveries]
          /\ ledger'[e] = 1 /\ ledger'[e] = ledger[e] + 1
          /\ \A f \in Events \ {e} : ledger'[f] = ledger[f]
      <3>1. ledger[e] + 1 \in 0..MaxDeliveries
        BY <2>4, RoomToRegister
      <3> QED BY <1>3, <2>1, <3>1 DEF TypeOK
    <2>6. TypeOK'
      BY <1>1, <2>1, <2>2, <2>5 DEF TypeOK
    <2>7. DeliveriesCount'
      <3>1. \A f \in Events : Pending(f)' \subseteq Pending(f)
        BY <2>2 DEF Pending
      <3> QED BY <1>1, <2>4, <2>5, <2>6, <3>1, CountKept
    <2>8. OneMerger'
      <3>1. merges[e] \in Nat /\ ~(merges[e] > 0)
        BY <1>3 DEF IInv, OneMerger, TypeOK
      <3>2. \A d \in Consumers : ~At(d, "MERGE", e)
        BY <1>3 DEF IInv, OneMerger
      <3>3. \A d \in Consumers : At(d, "MERGE", e)' => d = c
        BY <2>2, <3>2
      <3>4. \A d \in Consumers, f \in Events : f # e => (At(d, "MERGE", f)' => At(d, "MERGE", f))
        BY <2>2, <2>3
      <3>5. \A f \in Events : ledger[f] > 0 => ledger'[f] > 0
        BY <2>5
      <3>6. \A f \in Events : merges'[f] <= 1 /\ (merges'[f] > 0 => ledger'[f] > 0)
        BY <1>1, <3>5 DEF IInv, OneMerger
      <3>7. ASSUME NEW d \in Consumers, NEW f \in Events, At(d, "MERGE", f)'
            PROVE  /\ merges'[f] = 0 /\ ledger'[f] > 0
                   /\ \A b \in Consumers : At(b, "MERGE", f)' => b = d
        <4>1. CASE f = e
          BY <4>1, <3>1, <3>3, <3>7, <1>1, <2>5
        <4>2. CASE f # e
          BY <4>2, <3>4, <3>5, <3>7, <1>1 DEF IInv, OneMerger
        <4> QED BY <4>1, <4>2
      <3> QED BY <3>6, <3>7 DEF OneMerger
    <2>9. RegisteredIsSettled'
      <3>1. \A d \in Consumers, f \in Events : At(d, "MERGE", f) => At(d, "MERGE", f)'
        BY <1>1, <2>2 DEF At
      <3>2. \A f \in Events : Settled(f) => Settled(f)'
        BY <1>1, <3>1 DEF Settled
      <3>3. Settled(e)'
        BY <2>2, <2>3 DEF Settled
      <3>4. \A f \in Events : ledger[f] > 0 => ledger'[f] > 0
        BY <2>5
      <3>5. \A f \in Events : ledger'[f] > 0 => Settled(f)'
        BY <2>5, <3>2, <3>3 DEF IInv, RegisteredIsSettled
      <3>6. \A f \in acked' : ledger'[f] > 0
        BY <1>1, <2>1, <3>4 DEF IInv, RegisteredIsSettled, TypeOK
      <3>7. \A d \in Consumers, f \in Events : At(d, "ACK", f)' => ledger'[f] > 0
        BY <2>2, <3>4 DEF IInv, RegisteredIsSettled
      <3> QED BY <3>5, <3>6, <3>7 DEF RegisteredIsSettled
    <2>10. RowsAreMerged'
      BY <1>1, RowsKept
    <2> QED BY <2>2, <2>6, <2>7, <2>8, <2>9, <2>10 DEF IInv
<1> QED BY <1>2, <1>3 DEF InsertLedger
\* A row that supersedes another is not older than what the other was not older than.
LEMMA SupersedingStays ==
    ASSUME NEW a \in SessionEvent, NEW b \in SessionEvent, NEW d \in SessionEvent,
           ~VersionNewer(a, b), VersionNewer(d, b)
    PROVE  ~VersionNewer(a, d)
  BY DEF SessionEvent, VersionNewer

LEMMA NeverNewerThanItself ==
    ASSUME NEW a \in SessionEvent
    PROVE  ~VersionNewer(a, a)
  BY DEF SessionEvent, VersionNewer

LEMMA MergeKeeps ==
    ASSUME IInv, NEW c \in Consumers, NEW e \in Events, MergeGamingSession(c, e)
    PROVE  IInv'
<1>1. /\ At(c, "MERGE", e)
      /\ current' = IF e.session \notin DOMAIN current \/ VersionNewer(e, current[e.session])
                    THEN [s \in DOMAIN current \union {e.session} |->
                              IF s = e.session THEN e ELSE current[s]]
                    ELSE current
      /\ merges' = [merges EXCEPT ![e] = @ + 1]
      /\ Goto(c, "ACK")
      /\ UNCHANGED <<deliveries, acked, ledger, cutOff>>
    BY DEF MergeGamingSession, Supersedes
<1>2. TypeOK /\ OneJob /\ "ACK" \in Phases
    BY DEF IInv, Phases
<1>3. /\ consumer' \in [Consumers -> [phase: Phases, job: SUBSET Events]]
      /\ OneJob'
      /\ \A f : At(c, "ACK", f)' <=> f \in consumer[c].job
      /\ \A q, f : q # "ACK" => ~At(c, q, f)'
      /\ \A d \in Consumers \ {c} : \A q, f : At(d, q, f)' <=> At(d, q, f)
    BY <1>1, <1>2, GotoEffect
<1>4. \A f : f \in consumer[c].job <=> f = e
    BY <1>1, <1>2 DEF OneJob, At
<1>5. /\ merges[e] = 0 /\ ledger[e] > 0
      /\ \A d \in Consumers : At(d, "MERGE", e) => d = c
    BY <1>1 DEF IInv, OneMerger
<1>6. /\ merges' \in [Events -> 0..MaxDeliveries]
      /\ merges'[e] = 1
      /\ \A f \in Events \ {e} : merges'[f] = merges[f]
    <2>1. 1 \in 0..MaxDeliveries
      BY <1>2, <1>5, LedgerAssumption DEF TypeOK
    <2> QED BY <1>1, <1>2, <1>5, <2>1 DEF TypeOK
<1>7. /\ current \in [DOMAIN current -> Events] /\ DOMAIN current \subseteq Sessions
      /\ e.session \in Sessions
    BY <1>2 DEF TypeOK, Sessions
<1>8. /\ current' \in [DOMAIN current' -> Events] /\ DOMAIN current' \subseteq Sessions
      /\ e.session \in DOMAIN current'
      /\ DOMAIN current' = DOMAIN current \union {e.session}
      /\ \A s \in DOMAIN current : s # e.session => current'[s] = current[s]
    BY <1>1, <1>7
<1>9. \/ current'[e.session] = e
         /\ (e.session \in DOMAIN current => VersionNewer(e, current[e.session]))
      \/ /\ e.session \in DOMAIN current
         /\ current'[e.session] = current[e.session]
         /\ ~VersionNewer(e, current[e.session])
    BY <1>1, <1>7
<1>10. TypeOK'
    BY <1>1, <1>2, <1>3, <1>6, <1>8 DEF TypeOK
<1>11. DeliveriesCount'
    <2>1. \A f \in consumer[c].job : At(c, "MERGE", f)
      BY <1>1 DEF At
    <2>2. \A f \in Events : Pending(f)' \subseteq Pending(f)
      BY <1>3 DEF Pending
    <2> QED BY <1>1, <1>10, <2>2, CountKept
<1>12. OneMerger'
    <2>1. \A d \in Consumers, f \in Events : At(d, "MERGE", f)' => f # e /\ At(d, "MERGE", f)
      BY <1>3, <1>5
    <2>2. \A f \in Events : merges'[f] <= 1 /\ (merges'[f] > 0 => ledger'[f] > 0)
      BY <1>1, <1>5, <1>6 DEF IInv, OneMerger
    <2> QED BY <1>1, <1>6, <2>1, <2>2 DEF IInv, OneMerger
<1>13. RegisteredIsSettled'
    <2>1. ASSUME NEW f \in Events, Settled(f)
          PROVE  Settled(f)'
      <3>1. CASE f = e
        BY <3>1, <1>6 DEF Settled
      <3>2. CASE f # e
        <4>1. \A d \in Consumers : At(d, "MERGE", f) => At(d, "MERGE", f)'
          BY <3>2, <1>1, <1>3, <1>4 DEF At
        <4> QED BY <2>1, <3>2, <4>1, <1>1, <1>6 DEF Settled
      <3> QED BY <3>1, <3>2
    <2>2. \A d \in Consumers, f \in Events : At(d, "ACK", f)' => f = e \/ At(d, "ACK", f)
      BY <1>3, <1>4
    <2> QED BY <1>1, <1>5, <2>1, <2>2 DEF IInv, RegisteredIsSettled
<1>14. RowsAreMerged'
    <2>1. \A f \in Events : merges[f] \in Nat /\ merges'[f] \in Nat
                           /\ (merges[f] > 0 => merges'[f] > 0)
      BY <1>2, <1>5, <1>6 DEF TypeOK
    <2>2. \A s \in DOMAIN current' : merges'[current'[s]] > 0
      BY <1>6, <1>7, <1>8, <1>9, <2>1 DEF IInv, RowsAreMerged
    <2>3. ASSUME NEW f \in Events, merges'[f] > 0
          PROVE  f.session \in DOMAIN current' /\ ~VersionNewer(f, current'[f.session])
      <3>1. e \in SessionEvent /\ f \in SessionEvent
        BY LedgerAssumption
      <3>2. CASE f = e
        BY <3>1, <3>2, <1>8, <1>9, NeverNewerThanItself
      <3>3. CASE f # e
        <4>1. f.session \in DOMAIN current /\ ~VersionNewer(f, current[f.session])
          BY <2>3, <3>3, <1>6 DEF IInv, RowsAreMerged
        <4>2. current[f.session] \in SessionEvent
          BY <4>1, <1>7, LedgerAssumption
        <4>3. CASE f.session # e.session
          BY <4>1, <4>3, <1>8
        <4>4. CASE f.session = e.session
          <5>1. CASE current'[e.session] = current[e.session]
            BY <4>1, <4>4, <5>1, <1>8
          <5>2. CASE current'[e.session] = e /\ VersionNewer(e, current[e.session])
            BY <4>1, <4>2, <4>4, <5>2, <3>1, <1>8, SupersedingStays
          <5> QED BY <4>1, <4>4, <5>1, <5>2, <1>9
        <4> QED BY <4>3, <4>4
      <3> QED BY <3>2, <3>3
    <2> QED BY <2>2, <2>3 DEF RowsAreMerged
<1> QED BY <1>3, <1>10, <1>11, <1>12, <1>13, <1>14 DEF IInv

-------------------------------------------------------------------------------
LEMMA NextIInv == IInv /\ [Next]_vars => IInv'
<1>1. SUFFICES ASSUME IInv, [Next]_vars PROVE IInv'
    OBVIOUS
<1>2. CASE UNCHANGED vars
    BY <1>1, <1>2 DEF vars, IInv, TypeOK, OneJob, DeliveriesCount, Pending, OneMerger,
                      RegisteredIsSettled, Settled, RowsAreMerged, At
<1>3. ASSUME NEW c \in Consumers, NEW e \in Events,
             \/ Deliver(c, e) \/ RegisterDuplicate(c, e) \/ CheckAbsent(c, e)
             \/ InsertLedger(c, e) \/ MergeGamingSession(c, e) \/ Acknowledge(c, e)
      PROVE  IInv'
    BY <1>1, <1>3, DeliverKeeps, DuplicateKeeps, AbsentKeeps, InsertKeeps, MergeKeeps,
       AcknowledgeKeeps
<1>4. ASSUME NEW c \in Consumers, Abandon(c) PROVE IInv'
    BY <1>1, <1>4, AbandonKeeps
<1> QED BY <1>1, <1>2, <1>3, <1>4 DEF Next

LEMMA SpecIInv == Spec => []IInv
  BY InitIInv, NextIInv, PTL DEF Spec

\* The state keeps its types; in particular no event is merged or registered more often
\* than it is delivered.
THEOREM LedgerTypeCorrect == Spec => []TypeOK
<1>1. IInv => TypeOK
    BY DEF IInv
<1> QED BY <1>1, SpecIInv, PTL

\* Racing instances, redeliveries and crashes never merge an event twice, and the ledger
\* counts no more deliveries than there were.
THEOREM MergesAtMostOnce == Spec => []MergedAtMostOnce
<1>1. ASSUME IInv PROVE MergedAtMostOnce
    <2>1. SUFFICES ASSUME NEW e \in Events
                   PROVE  merges[e] <= 1 /\ merges[e] <= ledger[e] /\ ledger[e] <= deliveries[e]
      BY DEF MergedAtMostOnce
    <2>2. merges[e] \in Nat /\ ledger[e] \in Nat /\ deliveries[e] \in Nat
      BY <1>1 DEF IInv, TypeOK
    <2>3. merges[e] <= 1 /\ (merges[e] > 0 => ledger[e] > 0)
      BY <1>1 DEF IInv, OneMerger
    <2>4. ledger[e] + Cardinality(Pending(e)) <= deliveries[e] /\ Cardinality(Pending(e)) \in Nat
      BY <1>1, FS_CardinalityType DEF IInv, DeliveriesCount
    <2> QED BY <2>2, <2>3, <2>4
<1> QED BY <1>1, SpecIInv, PTL

\* The current row of a session is a merged event that no merged event is newer than.
THEOREM NewestStays == Spec => []NewestVersionStays
<1>1. IInv => NewestVersionStays
    BY DEF IInv, RowsAreMerged, NewestVersionStays
<1> QED BY <1>1, SpecIInv, PTL

\* An acknowledged event was merged or is being merged, unless an instance was cut off
\* between the two procedures.
THEOREM AcknowledgedIsMerged == Spec => []AckedIsMerged
<1>1. IInv => AckedIsMerged
    BY DEF IInv, TypeOK, RegisteredIsSettled, Settled, AckedIsMerged
<1> QED BY <1>1, SpecIInv, PTL
===============================================================================
