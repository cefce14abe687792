------------------------------ MODULE MergeOrder ------------------------------
(***************************************************************************)
(* The two orders by which the platform decides whether an arriving        *)
(* version of a business row replaces the current one.  Records carry at   *)
(* least version and updated; event_id stands for the place of the id in   *)
(* the order of strings.                                                   *)
(***************************************************************************)
EXTENDS Naturals

\* The MATCHED guard of the SQL and Delta merges: later version, and within a
\* version the later update.
VersionNewer(a, b) ==
    \/ a.version > b.version
    \/ a.version = b.version /\ a.updated > b.updated

\* The tuple comparison of CanonicalMergeStore.merge: exact ties go to the
\* greater event id.
EventNewer(a, b) ==
    \/ VersionNewer(a, b)
    \/ a.version = b.version /\ a.updated = b.updated /\ a.event_id > b.event_id
===============================================================================
