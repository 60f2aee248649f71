------------------------- MODULE SegmentFinalizers -------------------------
(***************************************************************************)
(* The finalizers of detached segments (receiver_app.inl): a bounded number   *)
(* of slots, a queue, a few worker threads of which at most one works for a    *)
(* camera, and those that hand segments over: the record worker that rotates  *)
(* a segment, close tasks, and the thread that stops the receiver.            *)
(*                                                                         *)
(* All of them wait on one condition variable, segment_finalize_cv_.  A thread *)
(* that finds its predicate false joins `asleep`; only a notification takes it *)
(* out again.  What a segment holds is left out: it is a camera and a number.  *)
(***************************************************************************)
EXTENDS Naturals, Sequences, FiniteSets, SequencesExt

CONSTANTS
    Cameras,      \* cameras that record
    Workers,      \* record_finalize_workers: the finalizer threads
    MaxPending,   \* record_finalize_max_pending_segments
    MaxSegments,  \* bound: segments of a camera
    MaxFaults     \* bound: storage failures (recording_fault_stop_requested_: 1)

VARIABLES
    open,        \* CameraState::segment: number of the active segment, or 0
    started,     \* segments the camera has started
    writer,      \* record worker: "idle", "reserving", "starting", "paused", "joined"
    closeTask,   \* close task before it detaches: "none", "asked", "late"
    handing,     \* detached segments in the hands of a close task
    outstanding, \* segment_finalize_outstanding_
    queue,       \* segment_finalize_queue_
    active,      \* what each finalizer works on
    alive,       \* finalizers that have not exited
    asleep,      \* threads waiting on segment_finalize_cv_
    closed,      \* segments whose close() has returned or thrown
    phase,       \* stop(): "run", "futures", "join", "close", "flag", "exit", "done"
    toClose,     \* cameras stop() has not yet closed
    faults       \* for each storage failure so far: did it fall into the shutdown

recordVars == <<open, started, writer, closeTask>>
slotVars   == <<handing, outstanding, queue, active, alive, asleep, closed>>
stopVars   == <<phase, toClose, faults>>
vars == <<recordVars, slotVars, stopVars>>

None == [cam |-> 0, n |-> 0]
Segment(c, n) == [cam |-> c, n |-> n]

Init ==
    /\ open = [c \in Cameras |-> 0] /\ started = [c \in Cameras |-> 0]
    /\ writer = [c \in Cameras |-> "idle"]
    /\ closeTask = [c \in Cameras |-> "none"]
    /\ handing = {} /\ outstanding = 0 /\ queue = <<>>
    /\ active = [w \in Workers |-> None] /\ alive = Workers
    /\ asleep = {} /\ closed = {}
    /\ phase = "run" /\ toClose = Cameras /\ faults = <<>>

Awake(thread) == thread \notin asleep
Sleep(thread) == asleep' = asleep \cup {thread}
NotifyOne == asleep' \in IF asleep = {} THEN {asleep} ELSE {asleep \ {t} : t \in asleep}
NotifyAll == asleep' = {}

\* segment_finalize_worker_stop_ (set for good by stop_segment_finalize_worker)
WorkerStop == phase \in {"exit", "done"}
\* the predicate of reserve_segment_finalize_slot, without its stop flag
SlotFree == outstanding < MaxPending

-----------------------------------------------------------------------------
\* The record worker of a camera

Writable(c) == phase \in {"run", "futures", "join"} /\ started[c] < MaxSegments

\* The first packet of a recording starts a segment.
OpenSegment(c) ==
    /\ writer[c] = "idle" /\ open[c] = 0 /\ closeTask[c] = "none" /\ Writable(c)
    /\ open' = [open EXCEPT ![c] = started[c] + 1]
    /\ started' = [started EXCEPT ![c] = @ + 1]
    /\ UNCHANGED <<writer, closeTask, slotVars, stopVars>>

\* rotate_record_segment_async at the end of a slice: without a free slot the
\* rotation is put off, and the packet goes to the old segment.
RotateTimed(c) ==
    /\ writer[c] = "idle" /\ open[c] # 0 /\ Writable(c)
    /\ SlotFree
    /\ outstanding' = outstanding + 1
    /\ writer' = [writer EXCEPT ![c] = "starting"]
    /\ UNCHANGED <<open, started, closeTask, handing, queue, active, alive, asleep, closed, stopVars>>

\* ... when the stream's profile has changed it waits for a slot, with
\* segment_mutex held.
RotateProfile(c) ==
    /\ writer[c] = "idle" /\ open[c] # 0 /\ Writable(c)
    /\ writer' = [writer EXCEPT ![c] = "reserving"]
    /\ UNCHANGED <<open, started, closeTask, slotVars, stopVars>>

WaitForSlot(c) ==
    /\ writer[c] = "reserving" /\ Awake(<<"writer", c>>)
    /\ \/ /\ SlotFree
          /\ outstanding' = outstanding + 1
          /\ writer' = [writer EXCEPT ![c] = "starting"]
          /\ UNCHANGED asleep
       \/ /\ ~SlotFree
          /\ Sleep(<<"writer", c>>)
          /\ UNCHANGED <<outstanding, writer>>
    /\ UNCHANGED <<open, started, closeTask, handing, queue, active, alive, closed, stopVars>>

\* SegmentWriter::start throws: the slot is given back, the write has failed and
\* the camera takes no more packets (write_record_job).
StartFails(c) ==
    /\ writer[c] = "starting"
    /\ outstanding' = outstanding - 1 /\ NotifyAll
    /\ writer' = [writer EXCEPT ![c] = "paused"]
    /\ UNCHANGED <<open, started, closeTask, handing, queue, active, alive, closed, stopVars>>

\* The new segment takes the place of the old one, which is queued.
HandOver(c) ==
    /\ writer[c] = "starting"
    /\ queue' = Append(queue, Segment(c, open[c])) /\ NotifyOne
    /\ open' = [open EXCEPT ![c] = started[c] + 1]
    /\ started' = [started EXCEPT ![c] = @ + 1]
    /\ writer' = [writer EXCEPT ![c] = "idle"]
    /\ UNCHANGED <<closeTask, handing, outstanding, active, alive, closed, stopVars>>

\* A write fails for lack of space: abort_recording_after_storage_failure stops
\* every recording.  Once stop() runs nobody waits for its close tasks.
StorageFails(c) ==
    /\ Len(faults) < MaxFaults
    /\ writer[c] = "idle" /\ open[c] # 0 /\ Writable(c)
    /\ faults' = Append(faults, phase # "run")
    /\ writer' = [writer EXCEPT ![c] = "paused"]
    /\ closeTask' = [k \in Cameras |->
           IF open[k] # 0 /\ closeTask[k] = "none"
           THEN IF phase = "run" THEN "asked" ELSE "late"
           ELSE closeTask[k]]
    /\ UNCHANGED <<open, started, slotVars, phase, toClose>>

RecordWorker(c) ==
    OpenSegment(c) \/ RotateTimed(c) \/ RotateProfile(c) \/ WaitForSlot(c)
    \/ StartFails(c) \/ HandOver(c) \/ StorageFails(c)

-----------------------------------------------------------------------------
\* Close tasks

\* A stop request or the maintenance thread.
RequestClose(c) ==
    /\ phase = "run" /\ open[c] # 0 /\ closeTask[c] = "none"
    /\ closeTask' = [closeTask EXCEPT ![c] = "asked"]
    /\ UNCHANGED <<open, started, writer, slotVars, stopVars>>

\* What close_segment_task takes out of the camera, if its segment is active.
\* (Mutant of Taken: the writer is not replaced by an empty one.)
TakenTwice(c) == UNCHANGED open
Taken(c) == open' = [open EXCEPT ![c] = 0]

HandingAfter(c, owner) ==
    IF open[c] = 0 THEN handing
    ELSE handing \cup {[segment |-> Segment(c, open[c]), owner |-> owner, at |-> "slot"]}

\* The record worker has nothing in hand (wait_record_queue_idle); then the
\* writer is detached and the camera may record again.
Detach(c) ==
    /\ closeTask[c] # "none" /\ writer[c] \in {"idle", "paused", "joined"}
    /\ handing' = HandingAfter(c, closeTask[c])
    /\ Taken(c)
    /\ closeTask' = [closeTask EXCEPT ![c] = "none"]
    /\ writer' = [writer EXCEPT ![c] = IF @ = "paused" THEN "idle" ELSE @]
    /\ UNCHANGED <<started, outstanding, queue, active, alive, asleep, closed, stopVars>>

\* A close task waits for a slot; once the finalizers are told to stop it
\* closes the segment itself.
ReserveSlot(h) ==
    /\ h.at = "slot" /\ Awake(<<"closer", h.segment>>)
    /\ \/ /\ WorkerStop
          /\ handing' = handing \ {h} /\ closed' = closed \cup {h.segment}
          /\ UNCHANGED <<outstanding, asleep>>
       \/ /\ ~WorkerStop /\ SlotFree
          /\ outstanding' = outstanding + 1
          /\ handing' = (handing \ {h}) \cup {[h EXCEPT !.at = "enqueue"]}
          /\ UNCHANGED <<asleep, closed>>
       \/ /\ ~WorkerStop /\ ~SlotFree
          /\ Sleep(<<"closer", h.segment>>)
          /\ UNCHANGED <<handing, outstanding, closed>>
    /\ UNCHANGED <<recordVars, queue, active, alive, stopVars>>

EnqueueReserved(h) ==
    /\ h.at = "enqueue"
    /\ queue' = Append(queue, h.segment) /\ NotifyOne
    /\ handing' = handing \ {h}
    /\ UNCHANGED <<recordVars, outstanding, active, alive, closed, stopVars>>

Segments == {Segment(c, n) : c \in Cameras, n \in 1..MaxSegments}
Owners == {"asked", "late", "stop"}
\* Who closes a segment for such a reason goes on with it.
Closer(s, owner) ==
    \E h \in handing : h.segment = s /\ h.owner = owner /\ (ReserveSlot(h) \/ EnqueueReserved(h))
CloseTask == (\E c \in Cameras : Detach(c)) \/ (\E s \in Segments, owner \in Owners : Closer(s, owner))

-----------------------------------------------------------------------------
\* The finalizers

Routes == {active[w].cam : w \in Workers} \ {0}
Available == {i \in 1..Len(queue) : queue[i].cam \notin Routes}

TakeTask(w) ==
    /\ w \in alive /\ active[w] = None /\ Awake(<<"worker", w>>)
    /\ Available # {}
    /\ LET i == CHOOSE k \in Available : \A j \in Available : k <= j
       IN  /\ active' = [active EXCEPT ![w] = queue[i]]
           /\ queue' = RemoveAt(queue, i)
    /\ UNCHANGED <<recordVars, handing, outstanding, alive, asleep, closed, stopVars>>

WaitForTask(w) ==
    /\ w \in alive /\ active[w] = None /\ Awake(<<"worker", w>>)
    /\ Available = {} /\ ~(WorkerStop /\ queue = <<>>)
    /\ Sleep(<<"worker", w>>)
    /\ UNCHANGED <<recordVars, handing, outstanding, queue, active, alive, closed, stopVars>>

WorkerExits(w) ==
    /\ w \in alive /\ active[w] = None /\ Awake(<<"worker", w>>)
    /\ WorkerStop /\ queue = <<>>
    /\ alive' = alive \ {w}
    /\ UNCHANGED <<recordVars, handing, outstanding, queue, active, asleep, closed, stopVars>>

\* close() returns or throws; complete_segment_finalize_task
Complete(w) ==
    /\ closed' = closed \cup {active[w]}
    /\ outstanding' = outstanding - 1 /\ NotifyAll
    /\ active' = [active EXCEPT ![w] = None]

FinalizeSegment(w) ==
    /\ active[w] # None
    /\ Complete(w)
    /\ UNCHANGED <<recordVars, handing, queue, alive, stopVars>>

Finalizer(w) == TakeTask(w) \/ WaitForTask(w) \/ WorkerExits(w) \/ FinalizeSegment(w)

-----------------------------------------------------------------------------
\* The thread of stop()

Owned(owner) == {h \in handing : h.owner = owner}

StopReceiver ==
    /\ phase = "run"
    /\ phase' = "futures"
    /\ UNCHANGED <<recordVars, slotVars, toClose, faults>>

\* wait_segment_close_futures, for the close tasks it found.
AwaitFutures ==
    /\ phase = "futures"
    /\ Owned("asked") = {} /\ \A c \in Cameras : closeTask[c] # "asked"
    /\ phase' = "join"
    /\ UNCHANGED <<recordVars, slotVars, toClose, faults>>

\* stop_record_workers_sync: a worker exits when its queue is empty.
JoinWriters ==
    /\ phase = "join"
    /\ \A c \in Cameras : writer[c] \in {"idle", "paused"}
    /\ writer' = [c \in Cameras |-> "joined"]
    /\ phase' = "close"
    /\ UNCHANGED <<open, started, closeTask, slotVars, toClose, faults>>

\* close_segment_task for one camera after another.
CloseCamera(c) ==
    /\ phase = "close" /\ c \in toClose /\ Owned("stop") = {}
    /\ toClose' = toClose \ {c}
    /\ handing' = HandingAfter(c, "stop")
    /\ Taken(c)
    /\ UNCHANGED <<started, writer, closeTask, outstanding, queue, active, alive, asleep, closed, phase, faults>>

\* wait_segment_finalize_idle
AwaitIdle ==
    /\ phase = "close" /\ toClose = {} /\ Owned("stop") = {} /\ Awake(<<"stop">>)
    /\ \/ outstanding = 0 /\ phase' = "flag" /\ UNCHANGED asleep
       \/ outstanding # 0 /\ Sleep(<<"stop">>) /\ UNCHANGED phase
    /\ UNCHANGED <<recordVars, handing, outstanding, queue, active, alive, closed, toClose, faults>>

\* stop_segment_finalize_worker
StopWorkers ==
    /\ phase = "flag"
    /\ phase' = "exit" /\ NotifyAll
    /\ UNCHANGED <<recordVars, handing, outstanding, queue, active, alive, closed, toClose, faults>>

JoinWorkers ==
    /\ phase = "exit" /\ alive = {}
    /\ phase' = "done"
    /\ UNCHANGED <<recordVars, slotVars, toClose, faults>>

StopThread == AwaitFutures \/ JoinWriters \/ (\E c \in Cameras : CloseCamera(c))
              \/ AwaitIdle \/ StopWorkers \/ JoinWorkers

Next ==
    \/ \E c \in Cameras : RecordWorker(c) \/ RequestClose(c)
    \/ CloseTask
    \/ \E w \in Workers : Finalizer(w)
    \/ StopReceiver \/ StopThread

\* Threads run; nobody owes a packet, a request or a shutdown.
Fairness ==
    /\ \A c \in Cameras : WF_vars(WaitForSlot(c)) /\ WF_vars(HandOver(c)) /\ WF_vars(Detach(c))
    /\ \A s \in Segments, owner \in Owners : WF_vars(Closer(s, owner))
    /\ \A w \in Workers : WF_vars(Finalizer(w))
    /\ WF_vars(StopThread)

Spec == Init /\ [][Next]_vars /\ Fairness

-----------------------------------------------------------------------------
Holders(s) ==
    (IF open[s.cam] = s.n THEN 1 ELSE 0)
    + Cardinality({h \in handing : h.segment = s})
    + Cardinality({i \in 1..Len(queue) : queue[i] = s})
    + Cardinality({w \in Workers : active[w] = s})
    + (IF s \in closed THEN 1 ELSE 0)

\* A segment that was started is in exactly one hand until it is closed; slots
\* are those reserved, queued and worked on, and never more than there are; two
\* finalizers never work for one camera.
SegmentsAccounted ==
    /\ \A s \in Segments : Holders(s) = IF s.n <= started[s.cam] THEN 1 ELSE 0
    /\ outstanding = Cardinality({c \in Cameras : writer[c] = "starting"})
                     + Cardinality({h \in handing : h.at = "enqueue"})
                     + Len(queue) + Cardinality({w \in Workers : active[w] # None})
    /\ outstanding <= MaxPending
    /\ \A v, w \in Workers : active[v].cam = active[w].cam /\ active[v] # None => v = w

Detached(s) == s.n <= started[s.cam] /\ open[s.cam] # s.n
Closed(s) == s \in closed
Stopping == phase # "run"
Stopped == phase = "done"

\* A detached segment is closed in the end, and a shutdown ends ("after a stop
\* every camera finishes its finalization", field-delivery-solution.md).
DetachedIsClosed == \A s \in Segments : Detached(s) ~> Closed(s)
ShutdownEnds == Stopping ~> Stopped

SlotWaiter == \E t \in asleep : t[1] \in {"writer", "closer"}
LateFailure == TRUE \in ToSet(faults)

\* That holds as long as no thread is left waiting for a slot, whose wake-up
\* it would share with the finalizers, and no storage failure falls into the
\* shutdown.
FinalizersFinish == <>[](~SlotWaiter /\ ~LateFailure) => DetachedIsClosed /\ ShutdownEnds
=============================================================================
