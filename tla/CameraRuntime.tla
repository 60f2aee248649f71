---------------------------- MODULE CameraRuntime ----------------------------
(***************************************************************************)
(* The life of a sender's cameras (camera_capture, hotplug_and_run,            *)
(* camera_support): configured cameras whose workers start and restart them,   *)
(* further cameras that the main loop's scan starts for devices nobody has      *)
(* claimed and that retire when lost, the warm-up before frames are published,    *)
(* the reports to the receiver, and the guards that give the process up to its     *)
(* watchdog.  Devices are unplugged and plugged in, streams fail or stall, the   *)
(* SDK stops listing devices.                                                 *)
(*                                                                         *)
(* A configured camera names its device (uid or serial number); its slot has the  *)
(* device's number.  The main loop's turns are in their order, its timers left    *)
(* out.                                                                    *)
(***************************************************************************)
EXTENDS Naturals, FiniteSets

CONSTANTS
    Devices, Configured, \* numbers; Configured \subseteq Devices
    NumSlots,        \* cameras of one run of the process, the retired ones included
    MaxActive,       \* kMaxActiveCameras
    RestartAttempts, \* camera_reconnect_process_restart_attempts
    FlapEvents,      \* choices for camera_flap_restart_events; 0 is off
    MaxFaults        \* bound: unplugged devices, failures, guards that fire

VARIABLES
    present, sdk,    \* the devices on USB; does the SDK list them
    camera,          \* the cameras and their workers: see NoCamera
    cooling,         \* devices in hotplug_retry_cooldowns
    turn, scan, message, \* the main loop: its place, the identities left to scan, the report built
    shown, known,    \* the receiver: is a camera online, and which device was announced for it
    flapEvents,      \* the choice
    faults

vars == <<flapEvents, present, sdk, camera, cooling, turn, scan, message, shown, known, faults>>

Slots == 1..NumSlots
None == 0

\* worker: "absent", "loop", "failing" (between the report and stop_camera), "exited";
\* live: the pipeline delivers; waiting: next_reconnect is ahead; warm: the publish
\* warm-up; device: None for a slot not used yet.
NoCamera == [device |-> None, worker |-> "absent", online |-> FALSE, live |-> FALSE, announced |-> FALSE,
             attempts |-> 0, flaps |-> 0, waiting |-> FALSE, warm |-> "over"]

\* start_cameras
ConfiguredCamera(d) == [NoCamera EXCEPT !.device = d, !.worker = "loop", !.waiting = TRUE]

StartCameras == [s \in Slots |-> IF s \in Configured THEN ConfiguredCamera(s) ELSE NoCamera]

Init ==
    /\ present \in SUBSET Devices /\ sdk = TRUE /\ flapEvents \in FlapEvents
    /\ camera = StartCameras /\ cooling = {}
    /\ turn = 1 /\ scan = {} /\ message = <<>>
    /\ shown = [s \in Slots |-> FALSE] /\ known = [s \in Slots |-> None] /\ faults = 0

Main == <<turn, scan, message>>
World == <<present, sdk, faults>>
Receiver == <<shown, known>>
Fault == faults < MaxFaults /\ faults' = faults + 1

-----------------------------------------------------------------------------
\* The world

Unplug(d) ==
    /\ Fault /\ d \in present /\ present' = present \ {d}
    /\ camera' = [s \in Slots |-> IF camera[s].device = d THEN [camera[s] EXCEPT !.live = FALSE] ELSE camera[s]]
    /\ UNCHANGED <<sdk, cooling, Main, Receiver>>

Plug(d) == present' = present \cup {d} /\ present' # present
           /\ UNCHANGED <<sdk, camera, cooling, Main, Receiver, faults>>

SdkBreaks == Fault /\ sdk /\ sdk' = FALSE /\ UNCHANGED <<present, camera, cooling, Main, Receiver>>

\* The process exits or stops, and its watchdog starts it anew.
Restart ==
    /\ camera' = StartCameras /\ cooling' = {} /\ turn' = 1 /\ scan' = {} /\ message' = <<>>
    /\ sdk' = TRUE

\* update_media_outage_guard, update_capture_stall_guard
GuardStops == Fault /\ Restart /\ UNCHANGED <<present, Receiver>>

-----------------------------------------------------------------------------
\* start_camera_runtime and stop_camera

Started(c) ==
    [c EXCEPT !.online = TRUE, !.live = TRUE, !.announced = FALSE, !.warm = "early", !.attempts = 0, !.waiting = FALSE]

Stopped(c) == [c EXCEPT !.online = FALSE, !.live = FALSE, !.announced = FALSE]

\* select_device finds it.
CanStart(d) == sdk /\ d \in present

Reconnects(s) == s \in Configured
Working(s) == camera[s].worker = "loop"

\* A retry that fails: the report, the delay, and the guard that gives up on an
\* SDK that lists no device while USB has one.
RetryFails(s) ==
    LET attempts == IF camera[s].attempts < RestartAttempts THEN camera[s].attempts + 1 ELSE RestartAttempts
    IN /\ shown' = [shown EXCEPT ![s] = FALSE]
       /\ IF attempts = RestartAttempts /\ ~sdk /\ present # {} THEN Restart
          ELSE /\ camera' = [camera EXCEPT ![s] = [Stopped(@) EXCEPT !.attempts = attempts, !.waiting = TRUE]]
               /\ UNCHANGED <<sdk, cooling, Main>>

RetryReconnect(s) ==
    /\ Working(s) /\ ~camera[s].online /\ Reconnects(s) /\ ~camera[s].waiting
    /\ \/ /\ CanStart(camera[s].device)
          /\ camera' = [camera EXCEPT ![s] = Started(@)]
          /\ UNCHANGED <<sdk, cooling, Main, shown, faults>>
       \/ ~CanStart(camera[s].device) /\ RetryFails(s) /\ UNCHANGED faults
       \/ CanStart(camera[s].device) /\ Fault /\ RetryFails(s)
    /\ UNCHANGED <<present, known>>

WorkerExits(s) ==
    /\ Working(s) /\ ~camera[s].online /\ ~Reconnects(s)
    /\ camera' = [camera EXCEPT ![s].worker = "exited"]
    /\ UNCHANGED <<cooling, Main, World, Receiver>>

\* mark_camera_disconnected, up to its report
MarkDisconnected(s) ==
    /\ Working(s) /\ camera[s].online
    /\ IF camera[s].live THEN Fault ELSE UNCHANGED faults
    /\ IF flapEvents > 0 /\ camera[s].flaps + 1 >= flapEvents THEN Restart /\ UNCHANGED shown
       ELSE /\ camera' = [camera EXCEPT ![s] = [@ EXCEPT !.flaps = IF flapEvents > 0 THEN camera[s].flaps + 1 ELSE 0, !.attempts = 0, !.worker = "failing"]]
            /\ shown' = [shown EXCEPT ![s] = FALSE]
            /\ UNCHANGED <<sdk, cooling, Main>>
    /\ UNCHANGED <<present, known>>

StopCamera(s) ==
    /\ camera[s].worker = "failing"
    /\ camera' = [camera EXCEPT ![s] = [Stopped(@) EXCEPT !.worker = "loop", !.waiting = Reconnects(s)]]
    /\ UNCHANGED <<cooling, Main, World, Receiver>>

\* A frameset: dropped while the camera warms up, until its time has come and the
\* exposure is verified, or the deadline is over; then published.  A camera that
\* is not announced is announced with the first one.
Warmed(c) == IF c.warm = "overdue" THEN {"over"} ELSE IF c.warm = "due" THEN {"due", "over"} ELSE {c.warm}

Frame(s) ==
    /\ Working(s) /\ camera[s].live
    /\ \E warm \in Warmed(camera[s]) :
        /\ camera' = [camera EXCEPT ![s] = [@ EXCEPT !.warm = warm, !.announced = warm = "over" \/ camera[s].announced]]
        /\ known' = IF warm = "over" /\ ~camera[s].announced THEN [known EXCEPT ![s] = camera[s].device] ELSE known
    /\ camera' # camera
    /\ UNCHANGED <<cooling, Main, World, shown>>

\* Time passes for one camera: its warm-up, its delay, its window of disconnects.
WarmUpPasses(s) ==
    /\ camera[s].online /\ camera[s].warm \in {"early", "due"}
    /\ camera' = [camera EXCEPT ![s].warm = IF @ = "early" THEN "due" ELSE "overdue"]
    /\ UNCHANGED <<cooling, Main, World, Receiver>>

DelayPasses(s) == camera[s].waiting /\ camera' = [camera EXCEPT ![s].waiting = FALSE]
                  /\ UNCHANGED <<cooling, Main, World, Receiver>>

FlapWindowPasses(s) == camera[s].flaps > 0 /\ camera' = [camera EXCEPT ![s].flaps = 0]
                       /\ UNCHANGED <<cooling, Main, World, Receiver>>

Worker(s) == RetryReconnect(s) \/ WorkerExits(s) \/ MarkDisconnected(s) \/ StopCamera(s) \/ Frame(s)
             \/ WarmUpPasses(s) \/ DelayPasses(s)

-----------------------------------------------------------------------------
\* The main loop: a heartbeat for every camera, an announcement for every one online,
\* then the scan.  A report is built, then sent under the transport's lock.

Used(s) == camera[s].worker # "absent"

\* The reports of a round: the heartbeats, then the announcements.
IsHeartbeat(t) == t <= NumSlots
Of(t) == IF IsHeartbeat(t) THEN t ELSE t - NumSlots
Due(t) == Used(Of(t)) /\ (IsHeartbeat(t) \/ camera[Of(t)].online)

BuildReport ==
    /\ message = <<>>
    /\ turn > 0 /\ \E t \in turn..(2 * NumSlots) :
        /\ Due(t) /\ \A u \in turn..(t - 1) : ~Due(u)
        /\ turn' = t
        /\ message' = <<[slot |-> Of(t), online |-> camera[Of(t)].online, device |-> camera[Of(t)].device]>>
    /\ UNCHANGED <<camera, cooling, scan, World, Receiver>>

SendReport ==
    /\ message # <<>> /\ message' = <<>> /\ turn' = turn + 1
    /\ LET m == message[1]
       IN IF IsHeartbeat(turn) THEN shown' = [shown EXCEPT ![m.slot] = m.online] /\ UNCHANGED <<known, camera>>
          ELSE /\ known' = [known EXCEPT ![m.slot] = m.device] /\ UNCHANGED shown
               /\ camera' = [camera EXCEPT ![m.slot].announced = TRUE]
    /\ UNCHANGED <<cooling, scan, World>>

\* query_hotplug_device_identities
ScanBegins ==
    /\ turn > 0 /\ message = <<>> /\ (\A t \in turn..(2 * NumSlots) : ~Due(t)) /\ turn' = 0
    /\ scan' = IF sdk THEN present ELSE {}
    /\ UNCHANGED <<camera, cooling, message, World, Receiver>>

\* camera_matches_identity: a retired camera claims nothing any more.
\* (Mutants of Claimed: only cameras online claim their devices; the retired ones too.)
ClaimedOnline(d) == \E s \in Slots : camera[s].device = d /\ camera[s].online
ClaimedForEver(d) == \E s \in Slots : camera[s].device = d
Claimed(d) == \E s \in Slots : camera[s].device = d /\ (camera[s].online \/ Reconnects(s))

Active == {s \in Slots : camera[s].online \/ Reconnects(s)}

FreeSlots == {s \in Slots : ~Used(s) /\ ~Reconnects(s)}

ScanOne(d) ==
    /\ turn = 0 /\ d \in scan /\ scan' = scan \ {d}
    /\ IF Claimed(d) \/ Cardinality(Active) >= MaxActive \/ d \in cooling THEN UNCHANGED <<camera, cooling, faults>>
       ELSE \/ /\ CanStart(d) /\ FreeSlots # {}
               /\ LET s == CHOOSE s \in FreeSlots : \A t \in FreeSlots : s <= t
                  IN camera' = [camera EXCEPT ![s] = Started([NoCamera EXCEPT !.device = d, !.worker = "loop"])]
               /\ UNCHANGED <<cooling, faults>>
            \/ /\ IF CanStart(d) THEN Fault ELSE UNCHANGED faults
               /\ cooling' = cooling \cup {d} /\ UNCHANGED camera
    /\ UNCHANGED <<present, sdk, turn, message, Receiver>>

CoolDownPasses(d) == d \in cooling /\ cooling' = cooling \ {d} /\ UNCHANGED <<camera, Main, World, Receiver>>

ScanEnds == turn = 0 /\ scan = {} /\ turn' = 1 /\ UNCHANGED <<camera, cooling, scan, message, World, Receiver>>

MainLoop == BuildReport \/ SendReport \/ ScanBegins \/ (\E d \in Devices : ScanOne(d)) \/ ScanEnds

KeepsChoice == UNCHANGED flapEvents
Next ==
    /\ \/ \E d \in Devices : Unplug(d) \/ Plug(d) \/ CoolDownPasses(d)
       \/ SdkBreaks \/ GuardStops
       \/ \E s \in Slots : Worker(s) \/ FlapWindowPasses(s)
       \/ MainLoop
    /\ KeepsChoice

\* Every thread runs, and time passes.
Fairness ==
    /\ WF_vars(MainLoop /\ KeepsChoice)
    /\ \A s \in Slots : WF_vars(Worker(s) /\ KeepsChoice)
    /\ \A d \in Devices : WF_vars(CoolDownPasses(d) /\ KeepsChoice)

Spec == Init /\ [][Next]_vars /\ Fairness

-----------------------------------------------------------------------------
\* No device is opened for two cameras, however its configured camera is lost and
\* found while the scan runs; and no further camera makes more than the limit.
OneCameraPerDevice ==
    /\ \A s, t \in Slots : camera[s].online /\ camera[t].online /\ camera[s].device = camera[t].device => s = t
    /\ LET online == {s \in Slots : camera[s].online}
       IN  Cardinality(online) <= MaxActive \/ online \subseteq Configured

Up(d) == \E s \in Slots :
    camera[s].device = d /\ camera[s].live /\ camera[s].warm = "over" /\ shown[s] /\ known[s] = d

Excused(d) == d \notin Configured /\ (~sdk \/ Cardinality(Active) >= MaxActive)
Plugged(d) == d \in present

\* A device that stays plugged in is in the end streamed for good, published and
\* shown with its own device, whatever was lost before; unless, for a further
\* camera, the limit is reached or the SDK lists no devices.
PluggedComesUp == \A d \in Devices : <>[]Plugged(d) => <>[](Up(d) \/ Excused(d))
=============================================================================
