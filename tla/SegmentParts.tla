---------------------------- MODULE SegmentParts -----------------------------
(*****************************************************************************)
(* The life of a segment in four components: how packets are cut into        *)
(* segments (SegmentTimeline), what becomes of them in the media and tables  *)
(* of one (SegmentMedia), who has a segment until it is closed               *)
(* (SegmentFinalizers) and what becomes of its directory (SegmentClose),     *)
(* under names that no other component has, and what each promises.          *)
(*****************************************************************************)

\* Who has a segment
CONSTANTS Cameras, Workers, MaxPending, MaxSegments, MaxFaults
VARIABLES open, started, writer, closeTask, handing, outstanding, closeQueue, atWork, alive,
          asleep, closed, phase, toClose, faults
Finalizers == INSTANCE SegmentFinalizers WITH
    queue <- closeQueue, active <- atWork
finalizerVars == <<open, started, writer, closeTask, handing, outstanding, closeQueue, atWork,
                   alive, asleep, closed, phase, toClose, faults>>

\* The directory of a segment
CONSTANTS Series, TaskAudio, MaxCrashes, MaxEndFaults
VARIABLES endMode, dir, published, seg, service, up, toRecover, crashes, endFaults
End == INSTANCE SegmentClose WITH
    Segments <- Series, MaxFaults <- MaxEndFaults, faults <- endFaults, mode <- endMode
endVars == <<endMode, dir, published, seg, service, up, toRecover, crashes, endFaults>>

\* The cutting of packets into segments
CONSTANTS WindowStart, SegmentSeconds, HeldMax, MaxStamp, MaxCutPackets, MaxCutFaults
VARIABLES expectsRgb, cut, recording, heldBack, dropped, cutter, latest, numbered, cutFaults
Timeline == INSTANCE SegmentTimeline WITH
    MaxFaults <- MaxCutFaults, segments <- cut, active <- recording, held <- heldBack,
    worker <- cutter, last <- latest, count <- numbered, faults <- cutFaults,
    MaxPackets <- MaxCutPackets
timelineVars == <<expectsRgb, cut, recording, heldBack, dropped, cutter, latest, numbered,
                  cutFaults>>

\* The media of a segment
CONSTANTS MediaPayloads, HeldBytes, HeldFrames, MaxMediaPackets, MaxMediaFaults
VARIABLES mediaRecovery, rgb, media, pipe, depth, rows, mediaFrames, mediaPhase, final,
          mediaCount, mediaFaults
Media == INSTANCE SegmentMedia WITH
    Payloads <- MediaPayloads, PendingMax <- HeldBytes, DepthPendingMax <- HeldFrames,
    MaxPackets <- MaxMediaPackets, MaxFaults <- MaxMediaFaults,
    recovery <- mediaRecovery, frames <- mediaFrames, phase <- mediaPhase,
    count <- mediaCount, faults <- mediaFaults
mediaVars == <<mediaRecovery, rgb, media, pipe, depth, rows, mediaFrames, mediaPhase, final,
               mediaCount, mediaFaults>>

-----------------------------------------------------------------------------
\* Between cameras, close tasks and finalizers no segment is lost, closed twice or in two
\* hands, and the slots are counted exactly.
SegmentsAccounted == Finalizers!SegmentsAccounted

\* A segment's directory stays whole and single through crashes and restarts of the
\* receiver, failing operations and names taken twice.
SegmentsKeptWhole == End!SegmentsKeptWhole

\* Every packet a recording accepts is in the segment of its time and profile, once, held
\* back or counted as dropped (route_segment_slice and its callers).
SegmentsWellCut == Timeline!SegmentsWellCut

\* The frame index of a published segment names the frames that are in its media, although
\* pipes break and writes are retried (close()).
IndexMatchesMedia == Media!IndexMatchesMedia
==============================================================================
