---------------------------- MODULE PlateReporting ----------------------------
(***************************************************************************)
(* What a worker does with a plate it has read (workerLoop, control/       *)
(* MultiCameraPipeline.cpp): with consolidation it goes to the camera's    *)
(* PlateTracker, without to the PlateDeduplicator.  The configuration is   *)
(* read once; both use the steady clock.                                   *)
(***************************************************************************)
EXTENDS PlateTracker

CONSTANTS
    Plates,      \* what PlateDeduplicator knows a plate by
    Window       \* dedupWindowSeconds, in ticks

ASSUME ReportingAssumption == Window \in Nat

VARIABLES
    enabled,         \* consolidation.enabled
    lastReported, reports, withheld    \* PlateDeduplicator's

trackerVars == <<tracks, finals, phase, added, log>>
dedupVars == <<lastReported, reports, withheld>>
reportingVars == <<enabled, now, trackerVars, dedupVars>>

Dedup == INSTANCE PlateDeduplicator

ReportingInit ==
    /\ enabled \in BOOLEAN
    /\ Init
    /\ Dedup!Init

ReportingNext ==
    /\ \/ enabled /\ Next /\ UNCHANGED dedupVars
       \/ ~enabled /\ Dedup!Next /\ UNCHANGED trackerVars
    /\ UNCHANGED enabled

ReportingSpec == ReportingInit /\ [][ReportingNext]_reportingVars

(* PlateDeduplicator's properties. *)
ReportsApart == Dedup!ReportsApart
WithheldOnlyInWindow == Dedup!WithheldOnlyInWindow
=============================================================================
