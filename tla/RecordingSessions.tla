-------------------------- MODULE RecordingSessions --------------------------
(***************************************************************************)
(* The recording state of the receiver (receiver_app.inl): the six start and  *)
(* stop requests of the admin API, the media threads that hand packets to a   *)
(* camera's record queue, the record worker that writes them to the camera's   *)
(* SegmentWriter, the maintenance thread, and the close tasks that drain the   *)
(* tail of a stopped recording and detach its writer before the next one may   *)
(* start.                                                                     *)
(*                                                                         *)
(* One action is one critical section of the code: mutex_ (the camera map and  *)
(* the recording state), a camera's record_mutex (input switch and queue) or   *)
(* its segment_mutex (the writer).  Capture timestamps are left out; a packet  *)
(* is told apart by its stream and by the session of the window it was         *)
(* captured in.  Every camera has an RGB and a depth stream.                   *)
(***************************************************************************)
EXTENDS Naturals, Sequences, FiniteSets, SequencesExt

CONSTANTS
    Cameras,       \* the keys of cameras_, in the order of the map
    Senders,       \* the cameras of each sender
    DrainsTail,    \* recording_stop_drain_timeout_ms > 0
    MaxPackets,    \* bound: packets read in a run
    MaxCalls,      \* bound: start and stop requests in a run
    MaxIdles,      \* bound: media-idle finalizations in a run
    MaxFaults,     \* bound: failed writes in a run
    StorageFaults  \* a failed write may be for lack of free space

ASSUME RecordingAssumption ==
    /\ Cameras \subseteq Nat /\ IsFiniteSet(Cameras)
    /\ Senders \subseteq SUBSET Cameras
    /\ DrainsTail \in BOOLEAN /\ StorageFaults \in BOOLEAN
    /\ {MaxPackets, MaxCalls, MaxIdles, MaxFaults} \subseteq Nat

VARIABLES
    known,     \* cameras_: the cameras the receiver has heard of
    ctl,       \* recording_all_, its pending flag and session; last session id
    cam,       \* CameraState: what mutex_ and record_mutex protect
    fault,     \* recording_fault_stop_requested_ and recording_faulted_
    ingress,   \* job a media thread has built and not yet enqueued
    queue,     \* record_queue
    worker,    \* record_worker_loop: where it stands, and its job
    segment,   \* SegmentWriter: its session and the sessions of its packets
    prestart,  \* session of prestart_depth_jobs (0: none)
    tasks,     \* close_segment_task: the ones running for the camera
    budget     \* packets, requests, idle finalizations and failures left

vars == <<known, ctl, cam, fault, ingress, queue, worker, segment,
          prestart, tasks, budget>>

Streams == {"rgb", "depth"}
NoJob    == [stream |-> "none", session |-> 0, generation |-> 0]
NoWriter == [session |-> 0, holds |-> {}]

\* A camera the receiver has just heard of (ensure_camera_ptr_locked).
NewCamera(k) ==
    LET open == k.all /\ ~k.pending /\ k.session # 0
    IN  [requested |-> k.all, pending |-> k.all /\ ~open,
         started |-> k.all /\ k.session # 0,
         session |-> IF k.all THEN k.session ELSE 0,
         accepting |-> open, generation |-> IF open THEN 1 ELSE 0,
         finalizing |-> FALSE, active |-> FALSE, tail |-> 0,
         storageFailed |-> FALSE]

NoRecording == [all |-> FALSE, pending |-> FALSE, session |-> 0, last |-> 0]

Init ==
    /\ known \in SUBSET Cameras
    /\ ctl = NoRecording
    /\ cam = [c \in Cameras |-> NewCamera(NoRecording)]
    /\ fault = [stop |-> FALSE, recorded |-> FALSE]
    /\ ingress = [c \in Cameras |-> NoJob]
    /\ queue = [c \in Cameras |-> <<>>]
    /\ worker = [c \in Cameras |-> [pc |-> "wait", job |-> NoJob]]
    /\ segment = [c \in Cameras |-> NoWriter]
    /\ prestart = [c \in Cameras |-> 0]
    /\ tasks = [c \in Cameras |-> <<>>]
    /\ budget = [packets |-> MaxPackets, calls |-> MaxCalls, idles |-> MaxIdles, faults |-> MaxFaults]

-----------------------------------------------------------------------------
\* Activation of the requested recordings.  k and m are ctl and cam as the
\* caller has left them, s the cameras of the map.

\* set_record_accepting: the generation moves only when the switch does.
Accepting(cm, on) ==
    IF cm.accepting = on THEN cm
    ELSE [cm EXCEPT !.accepting = on, !.generation = @ + 1]

HasWindow(cm) == cm.started /\ cm.session # 0

\* start-all waits while a requested camera still detaches its old writer.
Detaching(m, s) == \E c \in s : m[c].requested /\ m[c].finalizing

AwaitDetach(k, m, s) ==
    [ctl |-> [k EXCEPT !.pending = TRUE],
     cam |-> [c \in Cameras |->
        IF c \in s /\ m[c].requested /\ ~(m[c].accepting /\ HasWindow(m[c]))
        THEN [m[c] EXCEPT !.pending = TRUE] ELSE m[c]]]

\* start-all opens one session for every camera that is not recording already.
KeepsTimeline(cm) == cm.accepting /\ ~cm.pending /\ HasWindow(cm)

\* (Mutant of ActivateAll: every activation opens a session.)
ActivateAllAnew(k, m, s) ==
    LET id == k.last + 1
    IN  [ctl |-> [k EXCEPT !.pending = FALSE, !.session = id, !.last = id],
         cam |-> [c \in Cameras |->
            IF c \in s /\ m[c].requested /\ ~KeepsTimeline(m[c])
            THEN Accepting([m[c] EXCEPT !.started = TRUE, !.session = id,
                                        !.pending = FALSE], TRUE)
            ELSE m[c]]]

ActivateAll(k, m, s) ==
    LET last == IF k.session = 0 THEN k.last + 1 ELSE k.last
        id   == IF k.session = 0 THEN last ELSE k.session
    IN  [ctl |-> [k EXCEPT !.pending = FALSE, !.session = id, !.last = last],
         cam |-> [c \in Cameras |->
            IF c \in s /\ m[c].requested /\ ~KeepsTimeline(m[c])
            THEN Accepting([m[c] EXCEPT !.started = TRUE, !.session = id,
                                        !.pending = FALSE], TRUE)
            ELSE m[c]]]

\* Without start-all each camera gets a session of its own, in map order.
\* (Mutant of MayOpen: the old segment is not waited for.)
MayOpenWhileDetaching(cm) == cm.requested /\ ~cm.accepting

MayOpen(cm) == cm.requested /\ ~cm.finalizing /\ ~cm.accepting

\* (Mutant of ActivateEach: the number of the last session is not kept.)
ActivateEachForgets(k, m, s) ==
    LET fresh == {c \in s : MayOpen(m[c]) /\ ~HasWindow(m[c])}
        Id(c) == k.last + Cardinality({d \in fresh : d <= c})
    IN  [ctl |-> k,
         cam |-> [c \in Cameras |->
            IF c \in s /\ MayOpen(m[c])
            THEN Accepting([m[c] EXCEPT !.started = TRUE, !.pending = FALSE,
                              !.session = IF c \in fresh THEN Id(c) ELSE @], TRUE)
            ELSE m[c]]]

ActivateEach(k, m, s) ==
    LET fresh == {c \in s : MayOpen(m[c]) /\ ~HasWindow(m[c])}
        Id(c) == k.last + Cardinality({d \in fresh : d <= c})
    IN  [ctl |-> [k EXCEPT !.last = @ + Cardinality(fresh)],
         cam |-> [c \in Cameras |->
            IF c \in s /\ MayOpen(m[c])
            THEN Accepting([m[c] EXCEPT !.started = TRUE, !.pending = FALSE,
                              !.session = IF c \in fresh THEN Id(c) ELSE @], TRUE)
            ELSE m[c]]]

\* activate_pending_recordings_locked
Activated(k, m, s) ==
    IF ~k.all THEN ActivateEach(k, m, s)
    ELSE IF Detaching(m, s) THEN AwaitDetach(k, m, s)
    ELSE ActivateAll(k, m, s)

Activate(k, m, s) ==
    /\ known' = s
    /\ ctl' = Activated(k, m, s).ctl
    /\ cam' = Activated(k, m, s).cam

-----------------------------------------------------------------------------
\* Requests of the admin API

Call ==
    /\ budget.calls > 0
    /\ budget' = [budget EXCEPT !.calls = @ - 1]
    /\ UNCHANGED <<ingress, queue, worker, segment, prestart>>

\* A new recording forgets an earlier fault.
ForgetFault == fault' = [stop |-> FALSE, recorded |-> FALSE]
KeepFault   == UNCHANGED fault

\* The storage gate (recording_start_block_reason) has let the request through:
\* it is asked only when there is something to start.
StartAll ==
    /\ Call
    /\ LET promotes == \E c \in known : cam[c].requested
           Reset(cm) == IF ctl.all \/ (promotes /\ cm.requested) THEN cm
                        ELSE [cm EXCEPT !.storageFailed = FALSE]
           Open(cm)  == IF ctl.all \/ cm.requested \/ cm.active THEN cm
                        ELSE [cm EXCEPT !.started = FALSE, !.session = 0, !.pending = TRUE]
           k == IF ctl.all THEN ctl
                ELSE [ctl EXCEPT !.all = TRUE, !.pending = TRUE, !.session = 0]
           m == [c \in Cameras |->
                   IF c \in known THEN [Open(Reset(cam[c])) EXCEPT !.requested = TRUE]
                   ELSE cam[c]]
       IN  Activate(k, m, known)
    /\ IF ctl.all THEN KeepFault ELSE ForgetFault
    /\ UNCHANGED tasks

\* start_sender: the cameras of the sender that are live.
StartSender ==
    \E s \in Senders : \E live \in SUBSET (s \cap known) \ {{}} :
        LET starts == {c \in live : ~cam[c].requested}
            id == ctl.last + 1
            m  == [c \in Cameras |->
                     IF c \in starts
                     THEN [cam[c] EXCEPT !.requested = TRUE, !.pending = TRUE, !.started = TRUE,
                                         !.session = id, !.storageFailed = FALSE]
                     ELSE cam[c]]
            k  == IF starts = {} THEN ctl ELSE [ctl EXCEPT !.last = id]
        IN  /\ Call
            /\ Activate(k, m, known)
            /\ IF starts = {} THEN KeepFault ELSE ForgetFault
            /\ UNCHANGED tasks

\* start_camera.  A camera whose old segment is still open counts as recording.
StartCamera ==
    \E c \in Cameras :
        LET cm0 == IF c \in known THEN cam[c] ELSE NewCamera(ctl)
            resets == ~ctl.all /\ ~cm0.requested /\ ~cm0.active
            cm1 == IF resets THEN [cm0 EXCEPT !.storageFailed = FALSE, !.started = FALSE,
                                              !.session = 0, !.pending = TRUE]
                   ELSE IF ~cm0.started
                   THEN [cm0 EXCEPT !.started = ctl.all /\ ctl.session # 0, !.pending = TRUE]
                   ELSE cm0
        IN  /\ Call
            /\ Activate(ctl, [cam EXCEPT ![c] = [cm1 EXCEPT !.requested = TRUE]], known \cup {c})
            /\ IF resets THEN ForgetFault ELSE KeepFault
            /\ UNCHANGED tasks

\* (Mutant of NeedsClose: a close task under way is not noticed.)
NeedsCloseAgain(cm) == cm.requested \/ cm.active

NeedsClose(cm) == (cm.requested \/ cm.active) /\ ~cm.finalizing

\* prepare_record_stop_locked: a stopped recording keeps its input open for the
\* tail that is still in the network, under the window frozen here.
DrainStarts(cm) ==
    /\ DrainsTail /\ NeedsClose(cm) /\ cm.accepting
    /\ ~cm.storageFailed /\ ~fault.stop /\ cm.session # 0

\* (Mutant of PrepareStop: a second stop does not look for a drain under way.)
PrepareStopAgain(cm) ==
    IF DrainStarts(cm) THEN [cm EXCEPT !.tail = cm.session] ELSE Accepting(cm, FALSE)

PrepareStop(cm) ==
    IF cm.tail # 0 THEN cm
    ELSE IF DrainStarts(cm) THEN [cm EXCEPT !.tail = cm.session]
    ELSE Accepting(cm, FALSE)

\* What a stop does to a camera.
Stopped(cm) ==
    [PrepareStop(cm) EXCEPT !.requested = FALSE, !.pending = FALSE, !.started = FALSE,
                            !.finalizing = @ \/ NeedsClose(cm)]

\* The close task of a camera, as it is scheduled.
Close(reason) == [pc |-> "tail", reason |-> reason]

StopCameras(s) ==
    /\ cam' = [c \in Cameras |-> IF c \in s THEN Stopped(cam[c]) ELSE cam[c]]
    /\ tasks' = [c \in Cameras |->
          IF c \in s /\ NeedsClose(cam[c]) THEN Append(tasks[c], Close("stop")) ELSE tasks[c]]

LeaveAll == ctl' = [ctl EXCEPT !.all = FALSE, !.pending = FALSE, !.session = 0]

StopEverything ==
    /\ LeaveAll
    /\ StopCameras(known)

StopAll ==
    /\ Call
    /\ StopEverything
    /\ KeepFault /\ UNCHANGED known

\* stop_sender ends start-all: the cameras of other senders go on by themselves.
StopSender ==
    /\ Call
    /\ \E s \in Senders :
          /\ s \cap known # {}
          /\ StopCameras({c \in s \cap known :
                             cam[c].requested \/ cam[c].active \/ cam[c].finalizing})
    /\ LeaveAll
    /\ KeepFault /\ UNCHANGED known

StopCamera ==
    /\ Call
    /\ ~ctl.all
    /\ \E c \in known : StopCameras({c})
    /\ KeepFault /\ UNCHANGED <<ctl, known>>

-----------------------------------------------------------------------------
\* Media threads: a camera is discovered, a packet is read, a job is enqueued

Discover ==
    \E c \in Cameras \ known :
        /\ known' = known \cup {c}
        /\ cam' = [cam EXCEPT ![c] = NewCamera(ctl)]
        /\ UNCHANGED <<ctl, fault, ingress, queue, worker, segment, prestart, tasks, budget>>

\* handle_media_packet: should_record, and under which window.
\* (Mutant of JobSession: the window is not frozen for the tail.)
JobSessionCurrent(cm) == cm.session

JobSession(cm) == IF cm.tail # 0 THEN cm.tail ELSE cm.session

Recordable(cm) == (cm.tail # 0 \/ ctl.all \/ cm.requested) /\ cm.accepting

ReceivePacket(c) ==
    /\ c \in known
    /\ ingress[c] = NoJob
    /\ Recordable(cam[c])
    /\ budget.packets > 0
    /\ budget' = [budget EXCEPT !.packets = @ - 1]
    /\ \E stream \in Streams :
          ingress' = [ingress EXCEPT ![c] = [stream |-> stream, session |-> JobSession(cam[c]),
                                             generation |-> cam[c].generation]]
    /\ UNCHANGED <<known, ctl, cam, fault, queue, worker, segment, prestart, tasks>>

\* enqueue_record_job: the input must still be the one the packet was read under.
InputUnchanged(cm, job) == cm.accepting /\ cm.generation = job.generation

EnqueueJob(c) ==
    /\ ingress[c] # NoJob
    /\ IF InputUnchanged(cam[c], ingress[c])
       THEN queue[c] = <<>> /\ queue' = [queue EXCEPT ![c] = Append(@, ingress[c])]
       ELSE UNCHANGED queue
    /\ ingress' = [ingress EXCEPT ![c] = NoJob]
    /\ UNCHANGED <<known, ctl, cam, fault, worker, segment, prestart, tasks, budget>>

-----------------------------------------------------------------------------
\* The record worker

WorkerVars == <<worker, segment, prestart>>
Goto(c, pc) == worker' = [worker EXCEPT ![c].pc = pc]

TakeJob(c) ==
    /\ worker[c].pc = "wait" /\ queue[c] # <<>>
    /\ worker' = [worker EXCEPT ![c] = [pc |-> "write", job |-> Head(queue[c])]]
    /\ queue' = [queue EXCEPT ![c] = Tail(@)]
    /\ UNCHANGED <<known, ctl, cam, fault, ingress, segment, prestart, tasks, budget>>

Writing(c) ==
    /\ worker[c].pc = "write"
    /\ UNCHANGED <<known, ctl, ingress, tasks>>

\* A depth packet that cannot be decompressed is ignored.
IgnoreDepth(c) ==
    /\ Writing(c) /\ worker[c].job.stream = "depth"
    /\ Goto(c, "wait")
    /\ UNCHANGED <<cam, fault, queue, segment, prestart, budget>>

\* Depth kept for another session is dropped before anything else is written.
PrestartFor(c, job) == IF prestart[c] = job.session THEN prestart[c] ELSE 0

\* Until an IDR opens the segment depth is buffered (or dropped, the buffer being
\* full or the packet too old) and RGB is dropped.
HoldBack(c) ==
    LET job == worker[c].job
    IN  /\ Writing(c) /\ segment[c] = NoWriter
        /\ \/ /\ job.stream = "depth"
              /\ prestart' = [prestart EXCEPT ![c] = job.session]
           \/ prestart' = [prestart EXCEPT ![c] = PrestartFor(c, job)]
        /\ Goto(c, "wait")
        /\ UNCHANGED <<cam, fault, queue, segment, budget>>

\* SegmentWriter::start, and rotate_record_segment_async: the writers a packet
\* may find open when it is written.
Writers(c, job) ==
    LET opened == [session |-> job.session, holds |-> {}]
    IN  IF segment[c] = NoWriter THEN {opened} ELSE {segment[c], opened}

MayWrite(c) == Writing(c) /\ (segment[c] = NoWriter => worker[c].job.stream = "rgb")

WriteJob(c) ==
    LET job == worker[c].job
    IN  /\ MayWrite(c)
        /\ \E w \in Writers(c, job) :
              segment' = [segment EXCEPT ![c] = [w EXCEPT !.holds = @ \cup {job.session}]]
        /\ prestart' = [prestart EXCEPT ![c] = PrestartFor(c, job)]
        /\ Goto(c, "publish")
        /\ UNCHANGED <<cam, fault, queue, budget>>

\* The write throws: the input is closed, what is queued is discarded.
FailWrite(c) ==
    LET job == worker[c].job
    IN  /\ MayWrite(c) /\ budget.faults > 0
        /\ budget' = [budget EXCEPT !.faults = @ - 1]
        /\ \E w \in Writers(c, job) \cup {segment[c]} : segment' = [segment EXCEPT ![c] = w]
        /\ prestart' = [prestart EXCEPT ![c] = 0]
        /\ queue' = [queue EXCEPT ![c] = <<>>]
        /\ \E full \in {FALSE, StorageFaults} :
              /\ cam' = [cam EXCEPT ![c].accepting = FALSE, ![c].generation = @ + 1,
                                    ![c].storageFailed = @ \/ full]
              /\ Goto(c, IF full THEN "abort" ELSE "wait")
        /\ UNCHANGED fault

\* After a write the camera's status is published, and a packet of RGB lets the
\* depth that waited for it through, up to the end of the segment.
PublishSegment(c) ==
    /\ worker[c].pc = "publish"
    /\ cam' = [cam EXCEPT ![c].active = TRUE]
    /\ Goto(c, IF worker[c].job.stream = "rgb" /\ prestart[c] # 0 THEN "replay" ELSE "wait")
    /\ UNCHANGED <<known, ctl, fault, ingress, queue, segment, prestart, tasks, budget>>

ReplayDepth(c) ==
    /\ worker[c].pc = "replay"
    /\ \/ /\ worker' = [worker EXCEPT ![c] =
                [pc |-> "write", job |-> [NoJob EXCEPT !.stream = "depth", !.session = prestart[c]]]]
          /\ prestart' = [prestart EXCEPT ![c] = 0]
       \/ Goto(c, "wait") /\ UNCHANGED prestart
    /\ UNCHANGED <<known, ctl, cam, fault, ingress, queue, segment, tasks, budget>>

\* abort_recording_after_storage_failure, in three steps: only the first worker
\* to fail goes on, records the fault, and then stops every recording.
ClaimFault(c) ==
    /\ worker[c].pc = "abort"
    /\ fault' = [fault EXCEPT !.stop = TRUE]
    /\ Goto(c, IF fault.stop THEN "wait" ELSE "fault")
    /\ UNCHANGED <<known, ctl, cam, ingress, queue, segment, prestart, tasks, budget>>

RecordFault(c) ==
    /\ worker[c].pc = "fault"
    /\ fault' = [fault EXCEPT !.recorded = TRUE]
    /\ Goto(c, "stop")
    /\ UNCHANGED <<known, ctl, cam, ingress, queue, segment, prestart, tasks, budget>>

StopOnFault(c) ==
    /\ worker[c].pc = "stop"
    /\ StopEverything
    /\ Goto(c, "wait")
    /\ UNCHANGED <<known, fault, ingress, queue, segment, prestart, budget>>

Work(c) ==
    \/ TakeJob(c) \/ IgnoreDepth(c) \/ HoldBack(c) \/ WriteJob(c) \/ FailWrite(c)
    \/ PublishSegment(c) \/ ReplayDepth(c)
    \/ ClaimFault(c) \/ RecordFault(c) \/ StopOnFault(c)

-----------------------------------------------------------------------------
\* The maintenance thread: a segment without media, or whose storage failed, is
\* closed and its recording goes on in a new one.

Finalize(c, reason) ==
    /\ c \in known
    /\ cam[c].active /\ ~cam[c].finalizing
    /\ cam' = [cam EXCEPT ![c] = Accepting([@ EXCEPT !.finalizing = TRUE], FALSE)]
    /\ tasks' = [tasks EXCEPT ![c] = Append(@, Close(reason))]
    /\ UNCHANGED <<known, ctl, fault, ingress, queue, WorkerVars>>

FinalizeIdle(c) ==
    /\ ~cam[c].storageFailed
    /\ budget.idles > 0
    /\ budget' = [budget EXCEPT !.idles = @ - 1]
    /\ Finalize(c, "idle")

FinalizeFailed(c) ==
    /\ cam[c].storageFailed
    /\ Finalize(c, "storage")
    /\ UNCHANGED budget

-----------------------------------------------------------------------------
\* close_segment_task

Step(c, i, pc) == tasks' = [tasks EXCEPT ![c][i].pc = pc]

\* wait_record_tail: the streams have passed the end of the window, the deadline
\* has passed, or the input has been closed by a failure.
DrainTail(c, i) ==
    /\ tasks[c][i].pc = "tail"
    /\ cam' = IF cam[c].tail = 0 THEN cam
              ELSE [cam EXCEPT ![c] = Accepting([@ EXCEPT !.tail = 0], FALSE)]
    /\ Step(c, i, "queue")
    /\ UNCHANGED <<known, ctl, fault, ingress, queue, WorkerVars, budget>>

\* wait_record_queue_idle
AwaitQueue(c, i) ==
    /\ tasks[c][i].pc = "queue"
    /\ queue[c] = <<>> /\ worker[c].pc = "wait"
    /\ Step(c, i, "detach")
    /\ UNCHANGED <<known, ctl, cam, fault, ingress, queue, WorkerVars, budget>>

DetachWriter(c, i) ==
    /\ tasks[c][i].pc = "detach"
    /\ segment' = [segment EXCEPT ![c] = NoWriter]
    /\ prestart' = [prestart EXCEPT ![c] = 0]
    /\ Step(c, i, "finish")
    /\ UNCHANGED <<known, ctl, cam, fault, ingress, queue, worker, budget>>

\* The old writer is gone and a pending recording may start; not so after a
\* storage failure.
Detached(c) == [cam EXCEPT ![c].active = FALSE, ![c].finalizing = FALSE]

\* (Mutant of FinishClose: nobody activates what is pending.)
FinishCloseOnly(c, i) ==
    /\ tasks[c][i].pc = "finish"
    /\ cam' = Detached(c)
    /\ tasks' = [tasks EXCEPT ![c] = RemoveAt(@, i)]
    /\ UNCHANGED <<known, ctl, fault, ingress, queue, WorkerVars, budget>>

FinishClose(c, i) ==
    /\ tasks[c][i].pc = "finish"
    /\ IF tasks[c][i].reason = "storage"
       THEN /\ cam' = [Detached(c) EXCEPT ![c].pending = TRUE]
            /\ UNCHANGED <<known, ctl>>
       ELSE Activate(ctl, Detached(c), known)
    /\ tasks' = [tasks EXCEPT ![c] = RemoveAt(@, i)]
    /\ UNCHANGED <<fault, ingress, queue, WorkerVars, budget>>

CloseTask(c) ==
    \E i \in DOMAIN tasks[c] :
        DrainTail(c, i) \/ AwaitQueue(c, i) \/ DetachWriter(c, i) \/ FinishClose(c, i)

-----------------------------------------------------------------------------
Request == StartAll \/ StartSender \/ StartCamera \/ StopAll \/ StopSender \/ StopCamera

Next ==
    \/ Request \/ Discover
    \/ \E c \in Cameras :
          \/ ReceivePacket(c) \/ EnqueueJob(c) \/ Work(c)
          \/ FinalizeIdle(c) \/ FinalizeFailed(c) \/ CloseTask(c)

Spec == Init /\ [][Next]_vars

\* The threads of the receiver run; nobody has to call it, and no camera to send.
FairSpec ==
    /\ Spec
    /\ \A c \in Cameras :
          /\ WF_vars(EnqueueJob(c)) /\ WF_vars(Work(c)) /\ WF_vars(CloseTask(c))
          /\ WF_vars(FinalizeFailed(c))

-----------------------------------------------------------------------------
Job == [stream : Streams, session : Nat, generation : Nat]

\* Session numbers come from next_recording_session_id_locked alone.
SessionsIssued ==
    /\ ctl.session <= ctl.last
    /\ \A c \in Cameras :
          cam[c].session <= ctl.last /\ cam[c].tail <= ctl.last /\ segment[c].session <= ctl.last

TypeOK ==
    /\ known \subseteq Cameras
    /\ ctl \in [all : BOOLEAN, pending : BOOLEAN, session : Nat, last : Nat]
    /\ cam \in [Cameras -> [requested : BOOLEAN, pending : BOOLEAN, started : BOOLEAN,
                            session : Nat, accepting : BOOLEAN, generation : Nat,
                            finalizing : BOOLEAN, active : BOOLEAN, tail : Nat,
                            storageFailed : BOOLEAN]]
    /\ fault \in [stop : BOOLEAN, recorded : BOOLEAN]
    /\ ingress \in [Cameras -> Job \cup {NoJob}]
    /\ queue \in [Cameras -> Seq(Job)]
    /\ worker \in [Cameras -> [pc : {"wait", "write", "publish", "replay", "abort", "fault", "stop"},
                               job : Job \cup {NoJob}]]
    /\ segment \in [Cameras -> [session : Nat, holds : SUBSET Nat]]
    /\ prestart \in [Cameras -> Nat]
    /\ tasks \in [Cameras -> Seq([pc : {"tail", "queue", "detach", "finish"},
                                  reason : {"stop", "idle", "storage"}])]
    /\ SessionsIssued
    /\ budget \in [packets : Nat, calls : Nat, idles : Nat, faults : Nat]

\* At most one close task works on a camera, and the camera is marked as
\* finalizing for exactly as long: two tasks would detach one writer twice, or
\* open the next recording while the other still waits for the old one.
OneCloseTask ==
    \A c \in Cameras :
        /\ Len(tasks[c]) <= 1
        /\ cam[c].finalizing <=> tasks[c] # <<>>

\* The input of a camera is open only for a recording that somebody asked for and
\* that has a window, and during a drain only for the task that drains it; so no
\* packet is ever taken into a recording that no stop would end.
InputHasOwner ==
    \A c \in Cameras : cam[c].accepting =>
        IF cam[c].tail # 0 THEN cam[c].finalizing
        ELSE cam[c].requested /\ ~cam[c].finalizing /\ HasWindow(cam[c])

\* An open segment belongs to a requested recording or to a task that will
\* detach it: none is left open after its recording has ended.
WriterHasOwner ==
    \A c \in Cameras :
        segment[c] # NoWriter => cam[c].requested \/ cam[c].finalizing

\* Together: however requests, late packets, failed writes and drains interleave, no input
\* and no open segment is left without the recording or the task that will end it.
NothingOrphaned == InputHasOwner /\ WriterHasOwner

\* A segment holds packets of one recording session only: neither the tail of a
\* stopped recording nor depth that waited for its RGB gets into the next one.
OneSessionPerSegment ==
    \A c \in Cameras : segment[c].holds \subseteq {segment[c].session}

\* While the tail of a stopped recording is drained its input stays open, however
\* often it is stopped or started again; only a failed write may close it.
DrainKeepsInput ==
    [][\A c \in Cameras :
          /\ cam[c].tail # 0 /\ cam'[c].tail # 0
          /\ cam[c].accepting /\ ~cam'[c].accepting
          => budget'.faults < budget.faults]_vars

\* All cameras that begin to record under start-all get its session, and it does
\* not change until start-all ends.
AllShareOneSession ==
    [][/\ (ctl.all /\ ctl'.all /\ ctl.session # 0) => ctl'.session = ctl.session
       /\ \A c \in Cameras :
             (ctl'.all /\ ~cam[c].accepting /\ cam'[c].accepting)
                 => cam'[c].session = ctl'.session /\ ctl'.session # 0]_vars

\* A recording that has been asked for records, or is stopped first: a start
\* that has to wait for an old segment is not forgotten.
RequestedRecords ==
    \A c \in Cameras : cam[c].requested ~> (cam[c].accepting \/ ~cam[c].requested)

\* The same for a start that was told it is pending.
PendingStarts ==
    \A c \in Cameras :
        (cam[c].requested /\ cam[c].pending) ~> (cam[c].accepting \/ ~cam[c].requested)

\* A write that fails for lack of space ends start-all.
StorageFailureStopsAll ==
    \A c \in Cameras : worker[c].pc = "abort" ~> ~ctl.all

\* A stop comes to its end: the old writer is detached.
StopEnds ==
    \A c \in Cameras : cam[c].finalizing ~> ~cam[c].finalizing
=============================================================================
