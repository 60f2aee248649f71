----------------------------- MODULE ClockParts ------------------------------
(*****************************************************************************)
(* The clocks side by side: the receiver's timeline of a sender              *)
(* (ClockTimeline) and the sender's measurement of its offset                *)
(* (ClockSyncClient), under names that no other component has, and what      *)
(* each promises.                                                            *)
(*****************************************************************************)

\* The receiver's timeline of one sender
CONSTANTS MappedOffsets, MaxMapStamp, Slew, MinDuration, Limit, MaxMapSegments, MaxReports
VARIABLES model, segments, earliest, lastReport, lastMapped, reports, mapped
Clock == INSTANCE ClockTimeline WITH
    Offsets <- MappedOffsets, MaxSegments <- MaxMapSegments, MaxStamp <- MaxMapStamp
clockVars == <<model, segments, earliest, lastReport, lastMapped, reports, mapped>>

\* The sender's measurement
CONSTANTS Base, Skews, MaxDelay, LargeStep, MaxAge, Window, MaxProbeTime, MaxProbes, MaxTargets,
          MaxInFlight
VARIABLES clockNow, sets, probeTarget, client, probes, responses, state, samples, targetGen
Measure == INSTANCE ClockSyncClient WITH
    MaxTime <- MaxProbeTime, now <- clockNow, target <- probeTarget
measureVars == <<clockNow, sets, probeTarget, client, probes, responses, state, samples,
                 targetGen>>

-----------------------------------------------------------------------------
\* The receiver maps a time stamp to the same global time whenever the frame arrives, and
\* time does not run back (ClockSyncManager).
MappingStands == Clock!MappingStands

\* The offset a sender reports was measured against the receiver it talks to.
OffsetIsMeasured == Measure!OffsetIsMeasured
==============================================================================
