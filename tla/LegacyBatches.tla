---------------------------- MODULE LegacyBatches ----------------------------
(***************************************************************************)
(* Three pipelines with bounded extracts: the CDC handoff, the hotel load  *)
(* with its two routes, and the package that lands reservations.  They     *)
(* have tables and watermarks of their own and share nothing, so a         *)
(* behaviour shows the table of one of them, with every run on the route   *)
(* of the handoff or of the package, or with the routes that the runs of   *)
(* the hotel load take.                                                    *)
(***************************************************************************)
EXTENDS CdcHandoff, HotelIncremental

CONSTANTS
    HotelWrites,    \* how many of the writes happen when the handoff is not shown
    PostdatedRows   \* its rows that may be stamped ahead of the clock

ASSUME LegacyAssumption ==
    /\ Runs # {}
    /\ HotelWrites \in 0..MaxSequence
    /\ PostdatedRows \subseteq Rows

VARIABLE route      \* the package that each run executes

vars == <<extractVars, handoffVars, hotelVars, route>>

HandoffRoutes == [Runs -> {"handoff"}]
HotelRoutes == [Runs -> {"ssis", "adf"}]
PackageRoutes == [Runs -> {"package"}]

IsHandoff == route \in HandoffRoutes

TypeOK ==
    /\ route \in HandoffRoutes \union HotelRoutes \union PackageRoutes
    /\ ExtractTypeOK
    /\ HandoffTypeOK
    /\ HotelTypeOK

Init ==
    /\ \/ route \in HandoffRoutes \union PackageRoutes /\ postdated = {}
       \/ route \in HotelRoutes /\ postdated \in {{}, PostdatedRows}
    /\ ExtractInit
    /\ HandoffInit
    /\ HotelInit

Next ==
    \/ /\ SourceNext
       /\ IsHandoff \/ sequence' <= HotelWrites
       /\ UNCHANGED <<handoffVars, hotelVars, route>>
    \/ \E r \in Runs :
        \/ route[r] = "handoff" /\ HandoffNext(r) /\ UNCHANGED <<hotelVars, route>>
        \/ route[r] = "ssis" /\ SsisNext(r) /\ UNCHANGED <<handoffVars, route>>
        \/ route[r] = "adf" /\ AdfNext(r) /\ UNCHANGED <<handoffVars, route>>
        \/ route[r] = "package" /\ PackageNext(r) /\ UNCHANGED <<handoffVars, route>>

Spec == Init /\ [][Next]_vars

-------------------------------------------------------------------------------
\* The handoff leaves no row behind its watermark, with overlapping executions,
\* failed tasks, and rows that move on while they are read, unless the write
\* that a lock-free read may have seen on the row was rolled back.
NoGap == IsHandoff => \A k \in Rows \ undone : HandedOver(k)

\* "No silent data loss" (docs/architecture.md:24) for every row of the handoff.
NoGapAtAll == IsHandoff => \A k \in Rows : HandedOver(k)

\* No load skips a row, though routes share a watermark, runs overlap, read each
\* other's bounds, retry, fail after the merge or before the quarantine, and commit
\* in any order: what one has passed is at least in that one's target.  Excepted are
\* rolled back writes, as above, and the rows that the SSIS query leaves out.
NothingSkipped == ~IsHandoff => \A k \in Rows \ (undone \union postdated) : Loaded(k)
===============================================================================
