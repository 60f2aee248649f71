----------------------------- MODULE SenderParts -----------------------------
(*****************************************************************************)
(* The sender outside its media path: exposure control (AdaptiveExposure),   *)
(* the receiver it follows (ReceiverDiscovery), photos and keyframes         *)
(* (PhotoCapture, ScheduledKeyframe) and its cameras (CameraRuntime), under  *)
(* names that no other component has, and what each promises.                *)
(*****************************************************************************)

\* Exposure control
CONSTANTS ExposureMin, ExposureMax, SoftFloor, GainMin, GainMax, MaxExposureStep,
          MaxRecoveryStep, MaxGainStep, MeteringWindow, UnderexposedSamples, ReversalSamples,
          ReleaseSamples, DiscardFrames
VARIABLES mode, controls, device, shown, reported, metered, dark, limit, recovery, lastDir,
          pendDir, pendCount, discard, waiting, wished, darkRun, broken, adjusted
Exposure == INSTANCE AdaptiveExposure
exposureVars == <<mode, controls, device, shown, reported, metered, dark, limit, recovery,
                  lastDir, pendDir, pendCount, discard, waiting, wished, darkRun, broken, adjusted>>

\* The receiver it follows
CONSTANTS Hubs, Hosts, Fallback, Sticky, MaxChanges
VARIABLES at, target, exchange, sinceSeen, sinceSuccess, window, candidates, saved, silent,
          changes
Discovery == INSTANCE ReceiverDiscovery WITH Receivers <- Hubs
discoveryVars == <<at, target, exchange, sinceSeen, sinceSuccess, window, candidates, saved,
                   silent, changes>>

\* Photos, on both machines
CONSTANTS Ids, Burst, PendingMax, QueueMax, PhotoQueueMax, MaxSubmits, MaxPhotoFaults
VARIABLES files, requests, pending, old, shot, jobs, cancelled, hand, result, clients,
          photoWire, acks, photoQueue, photoPending, completed, reserved, stage, staged, nas,
          submits, photoFaults
Photo == INSTANCE PhotoCapture WITH
    faults <- photoFaults, MaxFaults <- MaxPhotoFaults, waiting <- clients, wire <- photoWire
photoVars == <<files, requests, pending, old, shot, jobs, cancelled, hand, result, clients,
               photoWire, acks, photoQueue, photoPending, completed, reserved, stage, staged,
               nas, submits, photoFaults>>

\* Scheduled keyframes
CONSTANTS Targets, Offsets, MaxU, Lateness, RetryAfter, MaxTime, MaxRequests, MaxLost
VARIABLES now, offset, keyframeRequests, applied, observed, keyframeTarget, lastEvent, armed,
          asked, event, eventFor, lost
Keyframe == INSTANCE ScheduledKeyframe WITH
    requests <- keyframeRequests, target <- keyframeTarget
keyframeVars == <<now, offset, keyframeRequests, applied, observed, keyframeTarget, lastEvent,
                  armed, asked, event, eventFor, lost>>

\* Its cameras
CONSTANTS Devices, Configured, NumSlots, MaxActive, RestartAttempts, FlapEvents, MaxCameraFaults
VARIABLES present, sdk, camera, cooling, turn, scan, message, status, known, flapEvents,
          cameraFaults
Runtime == INSTANCE CameraRuntime WITH
    shown <- status, faults <- cameraFaults, MaxFaults <- MaxCameraFaults
runtimeVars == <<present, sdk, camera, cooling, turn, scan, message, status, known, flapEvents,
                 cameraFaults>>

-----------------------------------------------------------------------------
\* With a device that reports its controls the exposure is adjusted on frames that
\* show the adjustment before; and its direction reverses on repeated evidence.
AdjustsOnEvidence == Exposure!AdjustsOnEvidence

\* A sender leaves only a receiver from which nothing came for the sticky time.
LeavesSilentOnly == Discovery!LeavesSilentOnly

\* A photo reported as captured is on disk.
PhotosStand == Photo!PhotosStand

\* The encoder is told to make a key frame when it was asked for, and only then.
KeyframesOnTime == Keyframe!KeyframesOnTime

\* No device is opened for two cameras, whatever is unplugged and found again.
OneCameraPerDevice == Runtime!OneCameraPerDevice
==============================================================================
