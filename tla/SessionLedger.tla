---------------------------- MODULE SessionLedger ----------------------------
(***************************************************************************)
(* The consumer side in SQL Server: instances of one consumer register     *)
(* each delivery in stream.ConsumerLedger and merge new events into        *)
(* curated.GamingSessionCurrent.  The bus delivers an event until it is    *)
(* acknowledged, also to several instances at once and in any order.  The  *)
(* repository has the two procedures and not their caller: that a          *)
(* duplicate is acknowledged without a merge, which is what is_duplicate   *)
(* is for, is taken from the ledger's interface.                           *)
(***************************************************************************)
EXTENDS MergeOrder, FiniteSets

CONSTANTS
    Events,         \* gaming session events, by value
    Consumers,      \* instances that share one consumer_name
    MaxDeliveries   \* deliveries of one event

SessionEvent == [event_id: Nat, session: Nat, version: Nat, updated: Nat]

ASSUME LedgerAssumption ==
    /\ Events \subseteq SessionEvent
    /\ IsFiniteSet(Events)
    /\ MaxDeliveries \in Nat

VARIABLES
    deliveries,     \* deliveries of each event so far
    acked,          \* events the bus need not deliver again
    ledger,         \* delivery_count of each event, 0 without a row
    current,        \* GamingSessionCurrent, a partial function on sessions
    merges,         \* calls of usp_MergeGamingSession per event
    consumer,       \* the delivery each instance works on
    cutOff          \* events whose registered delivery ended before its merge

vars == <<deliveries, acked, ledger, current, merges, consumer, cutOff>>

Phases == {"IDLE", "CHECK", "INSERT", "MERGE", "ACK"}

Idle == [phase |-> "IDLE", job |-> {}]

Sessions == {e.session : e \in Events}

TypeOK ==
    /\ deliveries \in [Events -> 0..MaxDeliveries]
    /\ acked \subseteq Events
    /\ ledger \in [Events -> 0..MaxDeliveries]
    /\ current \in [DOMAIN current -> Events]
    /\ DOMAIN current \subseteq Sessions
    /\ merges \in [Events -> 0..MaxDeliveries]
    /\ consumer \in [Consumers -> [phase: Phases, job: SUBSET Events]]
    /\ cutOff \subseteq Events

Init ==
    /\ deliveries = [e \in Events |-> 0]
    /\ acked = {}
    /\ ledger = [e \in Events |-> 0]
    /\ current = [s \in {} |-> 0]
    /\ merges = [e \in Events |-> 0]
    /\ consumer = [c \in Consumers |-> Idle]
    /\ cutOff = {}

-------------------------------------------------------------------------------
\* Instance c works on event e and has reached the given phase.
At(c, phase, e) == consumer[c].phase = phase /\ e \in consumer[c].job

Goto(c, phase) == consumer' = [consumer EXCEPT ![c].phase = phase]
Stop(c) == consumer' = [consumer EXCEPT ![c] = Idle]

\* An acknowledged event may come again as well: the acknowledgement is lost,
\* or somebody replays the topic.
Deliver(c, e) ==
    /\ consumer[c].phase = "IDLE"
    /\ deliveries[e] < MaxDeliveries
    /\ deliveries' = [deliveries EXCEPT ![e] = @ + 1]
    /\ consumer' = [consumer EXCEPT ![c] = [phase |-> "CHECK", job |-> {e}]]
    /\ UNCHANGED <<acked, ledger, current, merges, cutOff>>

\* The EXISTS branch of usp_RegisterConsumerDelivery.
RegisterDuplicate(c, e) ==
    /\ At(c, "CHECK", e)
    /\ ledger[e] > 0
    /\ ledger' = [ledger EXCEPT ![e] = @ + 1]
    /\ Goto(c, "ACK")
    /\ UNCHANGED <<deliveries, acked, current, merges, cutOff>>

\* The row is not there.  Outside a transaction the UPDLOCK and HOLDLOCK of the
\* check end with its statement, and another instance may insert the row now.
CheckAbsent(c, e) ==
    /\ At(c, "CHECK", e)
    /\ ledger[e] = 0
    /\ Goto(c, "INSERT")
    /\ UNCHANGED <<deliveries, acked, ledger, current, merges, cutOff>>

\* Faulty: without PK_ConsumerLedger both of two racing inserts succeed.
InsertUnchecked(c, e) ==
    /\ At(c, "INSERT", e)
    /\ ledger' = [ledger EXCEPT ![e] = @ + 1]
    /\ Goto(c, "MERGE")
    /\ UNCHANGED <<deliveries, acked, current, merges, cutOff>>

\* Faulty: the default of delivery_count and the update both count the insert.
InsertCountedTwice(c, e) ==
    /\ At(c, "INSERT", e)
    /\ ledger[e] = 0
    /\ ledger' = [ledger EXCEPT ![e] = 2]
    /\ Goto(c, "MERGE")
    /\ UNCHANGED <<deliveries, acked, current, merges, cutOff>>

\* Faulty: is_duplicate stays 1 for a new row.
InsertAsDuplicate(c, e) ==
    /\ At(c, "INSERT", e)
    /\ ledger[e] = 0
    /\ ledger' = [ledger EXCEPT ![e] = 1]
    /\ Goto(c, "ACK")
    /\ UNCHANGED <<deliveries, acked, current, merges, cutOff>>

\* PK_ConsumerLedger fails the slower of two racing inserts; the error leaves
\* the delivery unacknowledged.
InsertLedger(c, e) ==
    /\ At(c, "INSERT", e)
    /\ \/ /\ ledger[e] = 0
          /\ ledger' = [ledger EXCEPT ![e] = 1]
          /\ Goto(c, "MERGE")
       \/ /\ ledger[e] > 0
          /\ Stop(c)
          /\ UNCHANGED ledger
    /\ UNCHANGED <<deliveries, acked, current, merges, cutOff>>

\* Faulty: the later update wins, whatever the version.
SupersedesByTime(e, row) == e.updated > row.updated

\* The WHEN MATCHED guard of usp_MergeGamingSession.
Supersedes(e, row) == VersionNewer(e, row)

\* One MERGE statement under HOLDLOCK.
MergeGamingSession(c, e) ==
    /\ At(c, "MERGE", e)
    /\ current' = IF e.session \notin DOMAIN current \/ Supersedes(e, current[e.session])
                  THEN [s \in DOMAIN current \union {e.session} |->
                            IF s = e.session THEN e ELSE current[s]]
                  ELSE current
    /\ merges' = [merges EXCEPT ![e] = @ + 1]
    /\ Goto(c, "ACK")
    /\ UNCHANGED <<deliveries, acked, ledger, cutOff>>

Acknowledge(c, e) ==
    /\ At(c, "ACK", e)
    /\ acked' = acked \union {e}
    /\ Stop(c)
    /\ UNCHANGED <<deliveries, ledger, current, merges, cutOff>>

\* An error or a crash of the instance.
Abandon(c) ==
    /\ consumer[c].phase # "IDLE"
    /\ cutOff' = IF consumer[c].phase = "MERGE" THEN cutOff \union consumer[c].job ELSE cutOff
    /\ Stop(c)
    /\ UNCHANGED <<deliveries, acked, ledger, current, merges>>

Next ==
    \E c \in Consumers :
        \/ \E e \in Events : \/ Deliver(c, e)
                             \/ RegisterDuplicate(c, e)
                             \/ CheckAbsent(c, e)
                             \/ InsertLedger(c, e)
                             \/ MergeGamingSession(c, e)
                             \/ Acknowledge(c, e)
        \/ Abandon(c)

Spec == Init /\ [][Next]_vars

-------------------------------------------------------------------------------
\* The ledger makes the consumer idempotent: racing instances, redeliveries and
\* crashes never lead to a second merge of an event, and every delivery that
\* was registered is in delivery_count, the one that merged included.
MergedAtMostOnce ==
    \A e \in Events : /\ merges[e] <= 1
                      /\ merges[e] <= ledger[e]
                      /\ ledger[e] <= deliveries[e]

\* Merged events leave the newest version as the current row, whatever the order
\* in which they come.  Of two that tie in version and time either may stay:
\* the SQL merge has no event id in its guard, unlike CanonicalMergeStore.
NewestVersionStays ==
    \A e \in Events :
        merges[e] > 0 =>
            /\ e.session \in DOMAIN current
            /\ ~VersionNewer(e, current[e.session])
            /\ merges[current[e.session]] > 0

\* An acknowledged event was merged, or is being merged by the instance that
\* registered it first, unless that instance was cut off between the two
\* procedures: the ledger row then answers duplicate for good, as nothing ever
\* moves processing_status on from 'RECEIVED'.
AckedIsMerged ==
    \A e \in acked : \/ merges[e] > 0
                     \/ \E c \in Consumers : At(c, "MERGE", e)
                     \/ e \in cutOff
===============================================================================
