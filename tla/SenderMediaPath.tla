--------------------------- MODULE SenderMediaPath ---------------------------
(***************************************************************************)
(* One dedicated media path of the sender (MediaSenderPath): the camera      *)
(* thread that publishes packets, the LatestMediaQueue slot they wait in, the *)
(* thread of media_sender_loop, and the Transport that writes them to the     *)
(* receiver's media TCP connection.  An RGB path also carries the keyframe    *)
(* guard (RgbTransportRecovery), shared by the two threads.                   *)
(*                                                                         *)
(* One action is one critical section: the queue mutex, the camera mutex and  *)
(* the transport mutex are each taken and released within an action, and the  *)
(* two threads interleave between them.  A packet of `size` chunks stands for *)
(* a header and payload that sendmsg accepts a piece at a time.               *)
(***************************************************************************)
EXTENDS LatestMediaQueue

CONSTANTS
    Stream,              \* "rgb" or "depth_raw": what this path carries
    RecordingBuffer,     \* recording_buffer.enabled (reliable writes)
    Sizes,               \* the packet sizes, in chunks, that a camera produces
    TimingRegresses,     \* the encoder's frame timing may go backwards
    MaxFrames,           \* bound: frames the camera produces in a run
    DropsBeforeReconnect \* 30 in the code: pre-write drops before a reconnect

ASSUME PathAssumption ==
    /\ Stream \in {"rgb", "depth_raw"}
    /\ RecordingBuffer \in BOOLEAN
    /\ TimingRegresses \in BOOLEAN
    /\ Sizes \subseteq Nat \ {0}
    /\ MaxFrames \in Nat
    /\ DropsBeforeReconnect \in Nat \ {0}

VARIABLES
    running,     \* MediaSenderPath::running
    producer,    \* camera thread: "encode", "overwrite", "joined"
    overwrite,   \* does the pending record_queue_overwrite also arm the guard
    fresh,       \* the encoder has just been built: its next frame is an IDR
    nextId,      \* id of the next frame out of the encoder
    queue,       \* jobs of the path's slot
    waiting,     \* RgbTransportRecovery::waiting_for_keyframe_
    keyframeRequested, \* a forced keyframe is requested and not yet observed
    dropped,     \* CameraRuntime::rgb_dropped / depth_dropped
    pc,          \* media_sender_loop: where the thread stands
    job,         \* the job it holds (at "check": retry_job)
    outcome,     \* what send_media returned for job
    drain,       \* drain_deadline: "unset", "set", "passed"
    connected,   \* media_tcp_fd_ >= 0
    stale,       \* media_target_generation_ is not the target's any more
    peerClosed,  \* the receiver has closed its end of the connection
    pending,     \* pending_media_: packet and number of chunks written
    drops,       \* consecutive_media_backpressure_drops_
    wire,        \* chunks the kernel accepted on the current connection
    accepted     \* packets the kernel accepted whole, over all connections

producerVars  == <<producer, overwrite, fresh, nextId>>
guardVars     == <<waiting, keyframeRequested>>
loopVars      == <<pc, job, outcome, drain>>
connVars      == <<connected, stale, peerClosed>>
transportVars == <<connVars, pending, drops, wire, accepted>>
vars == <<running, producerVars, queue, guardVars, dropped, loopVars, transportVars>>

Packet   == [id : Nat \ {0}, key : BOOLEAN, size : Sizes]
Chunk    == [id : Nat \ {0}, n : Nat \ {0}, of : Nat]  \* the n-th chunk of `of`
NoJob    == [id |-> 0]
NoPending == [packet |-> NoJob, offset |-> 0]

IsRgb == Stream = "rgb"

Init ==
    /\ running = TRUE
    /\ producer = "encode" /\ overwrite = FALSE /\ fresh = TRUE /\ nextId = 1
    /\ queue = <<>>
    /\ waiting = FALSE /\ keyframeRequested = FALSE
    /\ dropped = 0
    /\ pc = "check" /\ job = NoJob /\ outcome = "none" /\ drain = "unset"
    /\ connected = FALSE /\ stale = FALSE /\ peerClosed = FALSE
    /\ pending = NoPending /\ drops = 0
    /\ wire = <<>> /\ accepted = <<>>

-----------------------------------------------------------------------------
\* The camera thread

\* publish_rgb_encoded_units: without a recording buffer only an IDR may
\* replace what is queued.
RejectIfOccupied(packet) == IsRgb /\ ~RecordingBuffer /\ ~packet.key

\* (Mutant of ArmsGuard: a refused packet does not count as a loss.)
ArmsGuardUnlessRejected(result, packet) ==
    IsRgb /\ result = "overwritten" /\ ~packet.key

\* publish_media_job: which outcomes of publish arm the keyframe guard.
ArmsGuard(result, packet) ==
    /\ IsRgb
    /\ result # "queued"
    /\ ~(result = "overwritten" /\ packet.key)

\* A frame leaves the encoder.  The first RGB frame of an encoder is an IDR; a
\* requested keyframe is reported as observed when an IDR comes out.
FrameLeavesEncoder(isKey) ==
    /\ producer = "encode" /\ running
    /\ nextId <= MaxFrames
    /\ isKey => IsRgb
    /\ IsRgb /\ fresh => isKey
    /\ nextId' = nextId + 1
    /\ keyframeRequested' = (keyframeRequested /\ ~isKey)

PublishFrame ==
    \E isKey \in BOOLEAN, size \in Sizes :
        LET packet == [id |-> nextId, key |-> isKey, size |-> size]
            reject == RejectIfOccupied(packet)
            result == PublishResult(queue, packet, reject)
        IN  /\ FrameLeavesEncoder(isKey)
            /\ fresh' = FALSE
            /\ queue' = JobsAfterPublish(queue, packet, reject)
            /\ producer' = IF result = "queued" THEN "encode" ELSE "overwrite"
            /\ overwrite' = ArmsGuard(result, packet)
            /\ UNCHANGED <<running, waiting, dropped, loopVars, transportVars>>

\* rgb_encoded_timing_is_monotonic: the frame is dropped and the guard armed.
DropRegressedFrame ==
    /\ TimingRegresses /\ IsRgb
    /\ \E isKey \in BOOLEAN : FrameLeavesEncoder(isKey)
    /\ fresh' = FALSE
    /\ producer' = "overwrite" /\ overwrite' = TRUE
    /\ UNCHANGED <<running, queue, waiting, dropped, loopVars, transportVars>>

\* rgb_encoder_output_lag_too_large: the frame is dropped with its encoder.
ResetLaggingEncoder ==
    /\ IsRgb
    /\ \E isKey \in BOOLEAN : FrameLeavesEncoder(isKey)
    /\ fresh' = TRUE
    /\ dropped' = dropped + 1
    /\ UNCHANGED <<running, producer, overwrite, queue, waiting, loopVars, transportVars>>

\* (Mutant of RecordOverwrite: the guard is armed and the loss is not counted.)
RecordOverwriteUncounted ==
    /\ producer = "overwrite"
    /\ producer' = "encode"
    /\ overwrite' = FALSE
    /\ waiting' = (waiting \/ overwrite)
    /\ UNCHANGED <<running, fresh, nextId, queue, keyframeRequested, dropped, loopVars, transportVars>>

\* record_queue_overwrite and arm_rgb_keyframe_guard, after the queue mutex.
RecordOverwrite ==
    /\ producer = "overwrite"
    /\ producer' = "encode"
    /\ overwrite' = FALSE
    /\ dropped' = dropped + 1
    /\ waiting' = (waiting \/ overwrite)
    /\ UNCHANGED <<running, fresh, nextId, queue, keyframeRequested, loopVars, transportVars>>

\* g_running goes false and the camera threads are joined...
JoinProducers ==
    /\ producer = "encode"
    /\ producer' = "joined"
    /\ UNCHANGED <<running, overwrite, fresh, nextId, queue, guardVars, dropped, loopVars, transportVars>>

\* ...and only then is the path told to stop.
StopPath ==
    /\ running /\ producer = "joined"
    /\ running' = FALSE
    /\ UNCHANGED <<producerVars, queue, guardVars, dropped, loopVars, transportVars>>

-----------------------------------------------------------------------------
\* The connection and its environment

Disconnect ==
    /\ connected' = FALSE /\ stale' = FALSE /\ peerClosed' = FALSE
    /\ pending' = NoPending
    /\ wire' = <<>>

\* ReceiverTarget::update_locked while this path holds a connection.
TargetChanges ==
    /\ connected /\ ~stale
    /\ stale' = TRUE
    /\ UNCHANGED <<running, producerVars, queue, guardVars, dropped, loopVars,
                   connected, peerClosed, pending, drops, wire, accepted>>

PeerCloses ==
    /\ connected /\ ~peerClosed
    /\ peerClosed' = TRUE
    /\ UNCHANGED <<running, producerVars, queue, guardVars, dropped, loopVars,
                   connected, stale, pending, drops, wire, accepted>>

\* kGracefulQueueDrainTimeout runs out.
DrainDeadlinePasses ==
    /\ drain = "set" /\ pc # "exited"
    /\ drain' = "passed"
    /\ UNCHANGED <<running, producerVars, queue, guardVars, dropped, pc, job, outcome, transportVars>>

-----------------------------------------------------------------------------
\* media_sender_loop

\* The head of the loop: the two ways out, and the first look at the deadline.
\* (Mutant of CheckRunning: the loop ends only when it has nothing left.)
CheckRunningNoDeadline ==
    /\ pc = "check"
    /\ drain' = IF ~running /\ drain = "unset" THEN "set" ELSE drain
    /\ pc' = IF ~running /\ job = NoJob /\ queue = <<>> THEN "exited" ELSE "take"
    /\ UNCHANGED <<running, producerVars, queue, guardVars, dropped, job, outcome, transportVars>>

CheckRunning ==
    /\ pc = "check"
    /\ drain' = IF ~running /\ drain = "unset" THEN "set" ELSE drain
    /\ pc' = IF \/ ~running /\ job = NoJob /\ queue = <<>>
                \/ drain = "passed"
             THEN "exited" ELSE "take"
    /\ UNCHANGED <<running, producerVars, queue, guardVars, dropped, job, outcome, transportVars>>

TakeRetryJob ==
    /\ pc = "take" /\ job # NoJob
    /\ pc' = "decide"
    /\ UNCHANGED <<running, producerVars, queue, guardVars, dropped, job, outcome, drain, transportVars>>

\* (Mutant of PopQueue: the newest packet first.)
PopNewest ==
    /\ pc = "take" /\ job = NoJob /\ queue # <<>>
    /\ job' = Last(queue)
    /\ queue' = Front(queue)
    /\ pc' = "decide"
    /\ UNCHANGED <<running, producerVars, guardVars, dropped, outcome, drain, transportVars>>

PopQueue ==
    /\ pc = "take" /\ job = NoJob /\ queue # <<>>
    /\ job' = Head(queue)
    /\ queue' = Tail(queue)
    /\ pc' = "decide"
    /\ UNCHANGED <<running, producerVars, guardVars, dropped, outcome, drain, transportVars>>

\* wait_pop timed out: close_if_media_peer_closed.
IdleCheck ==
    /\ pc = "take" /\ job = NoJob /\ queue = <<>>
    /\ pc' = "check"
    /\ IF connected /\ peerClosed THEN Disconnect
       ELSE UNCHANGED <<connVars, pending, wire>>
    /\ UNCHANGED <<running, producerVars, queue, guardVars, dropped, job, outcome, drain, drops, accepted>>

\* before_send: a packet already on the wire is resumed whatever the guard says.
GuardDrops == IsRgb /\ pending = NoPending /\ waiting /\ ~job.key

\* (Mutant of DecideSend: one dropped frame lifts the guard.)
DecideSendForgets ==
    /\ pc = "decide"
    /\ IF GuardDrops
       THEN /\ job' = NoJob
            /\ waiting' = FALSE
            /\ dropped' = dropped + 1
            /\ pc' = "check"
            /\ keyframeRequested' \in {keyframeRequested, TRUE}
       ELSE /\ pc' = "send"
            /\ UNCHANGED <<job, waiting, dropped, keyframeRequested>>
    /\ UNCHANGED <<running, producerVars, queue, outcome, drain, transportVars>>

\* decide_rgb_keyframe_send: the drop may also ask for a keyframe.
DecideSend ==
    /\ pc = "decide"
    /\ IF GuardDrops
       THEN /\ job' = NoJob
            /\ dropped' = dropped + 1
            /\ pc' = "check"
            /\ keyframeRequested' \in {keyframeRequested, TRUE}
       ELSE /\ pc' = "send"
            /\ UNCHANGED <<job, dropped, keyframeRequested>>
    /\ UNCHANGED <<running, producerVars, queue, waiting, outcome, drain, transportVars>>

-----------------------------------------------------------------------------
\* Transport::send_media, one call under the transport mutex

Outcome(result) == outcome' = result /\ pc' = "result"

\* ensure_media_tcp_connected closes a connection that is stale or that the
\* peer has closed.
MustReconnect == connected /\ (stale \/ peerClosed)

\* send_all's first chunk still to write, and the chunks it writes next.
Offset == IF pending = NoPending THEN 0 ELSE pending.offset
ChunksFromZero(packet, from, count) == \* (mutant)
    [i \in 1..count |-> [id |-> packet.id, n |-> from + i - 1, of |-> packet.size]]
Chunks(packet, from, count) ==
    [i \in 1..count |-> [id |-> packet.id, n |-> from + i, of |-> packet.size]]
NextChunks(count) == Chunks(job, Offset, count)

\* The connection went away under a pending packet: this call fails, the
\* next one connects.
SendInterrupted ==
    /\ pc = "send" /\ MustReconnect /\ pending # NoPending
    /\ Disconnect
    /\ Outcome("failed")
    /\ UNCHANGED <<running, producerVars, queue, guardVars, dropped, job, drain, drops, accepted>>

\* The retry interval has not elapsed, or connect fails.
ConnectFails ==
    /\ pc = "send" /\ (~connected \/ MustReconnect) /\ pending = NoPending
    /\ Disconnect
    /\ Outcome("failed")
    /\ UNCHANGED <<running, producerVars, queue, guardVars, dropped, job, drain, drops, accepted>>

\* A call either runs on the open connection or opens one first.
Usable == connected /\ ~MustReconnect
Opens  == (~connected \/ MustReconnect) /\ pending = NoPending
WireBefore == IF Usable THEN wire ELSE <<>>
OnConnection ==
    /\ Usable \/ Opens
    /\ connected' = TRUE /\ stale' = FALSE /\ peerClosed' = FALSE

\* should_drop_before_write: only without a recording buffer, and only when
\* an open connection still has bytes in its send queue.
DropBeforeWrite ==
    /\ pc = "send" /\ ~RecordingBuffer
    /\ Usable
    /\ IF drops + 1 >= DropsBeforeReconnect
       THEN Disconnect /\ drops' = 0
       ELSE drops' = drops + 1 /\ UNCHANGED <<connVars, pending, wire>>
    /\ Outcome("failed")
    /\ UNCHANGED <<running, producerVars, queue, guardVars, dropped, job, drain, accepted>>

\* send_all writes every chunk that is left.
SendCompletes ==
    /\ pc = "send"
    /\ OnConnection
    /\ wire' = WireBefore \o NextChunks(job.size - Offset)
    /\ pending' = NoPending
    /\ drops' = 0
    /\ accepted' = Append(accepted, job)
    /\ Outcome("sent")
    /\ UNCHANGED <<running, producerVars, queue, guardVars, dropped, job, drain>>

\* send_all ran out of its time slice.  A reliable write keeps the packet and
\* the offset; the other kind gives the packet up, and the connection with it
\* once a part of the packet is written (SendBreaks).
PendingAfterYieldRestarted(written) == [packet |-> job, offset |-> 0] \* (mutant)
PendingAfterYield(written) == [packet |-> job, offset |-> Offset + written]
SendYields ==
    /\ pc = "send"
    /\ OnConnection
    /\ IF RecordingBuffer
       THEN \E written \in 0..(job.size - Offset - 1) :
               /\ wire' = WireBefore \o NextChunks(written)
               /\ pending' = PendingAfterYield(written)
               /\ Outcome("retained")
       ELSE /\ wire' = WireBefore
            /\ UNCHANGED pending
            /\ Outcome("failed")
    /\ UNCHANGED <<running, producerVars, queue, guardVars, dropped, job, drain, drops, accepted>>

\* A socket error, a peer that closes during the write, a reliable packet that
\* stalled for 60 seconds or a partial unreliable write: the socket is closed.
SendBreaks ==
    /\ pc = "send"
    /\ Usable \/ Opens
    /\ Disconnect
    /\ drops' = 0
    /\ Outcome("failed")
    /\ UNCHANGED <<running, producerVars, queue, guardVars, dropped, job, drain, accepted>>

SendMedia == SendInterrupted \/ ConnectFails \/ DropBeforeWrite \/ SendCompletes \/ SendYields \/ SendBreaks

-----------------------------------------------------------------------------
\* What the loop does with the outcome

\* complete_successful_send: an IDR lifts the guard.
LiftsGuard(packet) == IsRgb /\ packet.key

RetainJob ==
    /\ pc = "result" /\ outcome = "retained"
    /\ pc' = "check" /\ outcome' = "none"
    /\ UNCHANGED <<running, producerVars, queue, guardVars, dropped, job, drain, transportVars>>

\* (Mutant of FinishJob: retry_job is not cleared by a success.)
FinishJobKept ==
    /\ pc = "result" /\ outcome = "sent"
    /\ waiting' = (waiting /\ ~LiftsGuard(job))
    /\ pc' = "check" /\ outcome' = "none"
    /\ UNCHANGED <<running, producerVars, queue, job, keyframeRequested, dropped, drain, transportVars>>

FinishJob ==
    /\ pc = "result" /\ outcome = "sent"
    /\ waiting' = (waiting /\ ~LiftsGuard(job))
    /\ job' = NoJob
    /\ pc' = "check" /\ outcome' = "none"
    /\ UNCHANGED <<running, producerVars, queue, keyframeRequested, dropped, drain, transportVars>>

\* Which failed packets the loop keeps for another attempt.
RetriesAfterFailure(packet) ==
    /\ drain # "passed"
    /\ IsRgb => RecordingBuffer /\ packet.key

FailJob ==
    /\ pc = "result" /\ outcome = "failed"
    /\ waiting' = (waiting \/ IsRgb)
    /\ keyframeRequested' \in IF IsRgb THEN {keyframeRequested, TRUE} ELSE {keyframeRequested}
    /\ job' = IF RetriesAfterFailure(job) THEN job ELSE NoJob
    /\ dropped' = IF IsRgb /\ ~RetriesAfterFailure(job) THEN dropped + 1 ELSE dropped
    /\ pc' = "check" /\ outcome' = "none"
    /\ UNCHANGED <<running, producerVars, queue, drain, transportVars>>

Producer == \/ PublishFrame \/ DropRegressedFrame \/ ResetLaggingEncoder
            \/ RecordOverwrite \/ JoinProducers \/ StopPath
Loop == \/ CheckRunning \/ TakeRetryJob \/ PopQueue \/ IdleCheck \/ DecideSend
        \/ SendMedia \/ RetainJob \/ FinishJob \/ FailJob
Environment == TargetChanges \/ PeerCloses \/ DrainDeadlinePasses

\* The path has stopped for good.
Stopped == pc = "exited" /\ ~running /\ UNCHANGED vars

Next == Producer \/ Loop \/ Environment \/ Stopped

Spec == Init /\ [][Next]_vars

(***************************************************************************)
(* The two threads keep running, run() stops the paths once the cameras are   *)
(* joined, and the clock reaches a deadline that is set.  LiveSpec adds that a *)
(* write that could complete again and again does so in the end: the link is  *)
(* not down for ever.                                                         *)
(***************************************************************************)
Fairness ==
    /\ WF_vars(Loop)
    /\ WF_vars(RecordOverwrite)
    /\ WF_vars(StopPath)
    /\ WF_vars(DrainDeadlinePasses)

FairSpec == Spec /\ Fairness
LiveSpec == FairSpec /\ SF_vars(SendCompletes)
-----------------------------------------------------------------------------
\* Properties

\* Every variable keeps to its set of values.
TypeOK ==
    /\ running \in BOOLEAN
    /\ producer \in {"encode", "overwrite", "joined"} /\ overwrite \in BOOLEAN
    /\ fresh \in BOOLEAN /\ nextId \in Nat \ {0}
    /\ queue \in Seq(Packet)
    /\ waiting \in BOOLEAN /\ keyframeRequested \in BOOLEAN
    /\ dropped \in Nat
    /\ pc \in {"check", "take", "decide", "send", "result", "exited"}
    /\ job \in Packet \cup {NoJob}
    /\ outcome \in {"none", "sent", "retained", "failed"}
    /\ drain \in {"unset", "set", "passed"}
    /\ connected \in BOOLEAN /\ stale \in BOOLEAN /\ peerClosed \in BOOLEAN
    /\ pending \in [packet : Packet, offset : Nat] \cup {NoPending}
    /\ drops \in Nat
    /\ wire \in Seq(Chunk)
    /\ accepted \in Seq(Packet)

\* While media_retry_pending() is true the loop holds exactly that packet, so
\* the next thing it submits is the packet the transport is in the middle of
\* (the contract of transport.hpp, without which send_all fails the packet).
PendingIsHeld ==
    pending # NoPending => pending.packet = job

\* What the receiver can read on one connection is a sequence of whole packets
\* and at most one unfinished packet at its end: a retry resumes at its offset,
\* nothing is written inside another packet, and a new connection starts at
\* the head of a packet.
IsLast(chunk) == chunk.n = chunk.of
WellFramed(chunks) ==
    \A i \in 1..Len(chunks) :
        IF chunks[i].n = 1
        THEN i = 1 \/ IsLast(chunks[i - 1])
        ELSE /\ i > 1
             /\ ~IsLast(chunks[i - 1])
             /\ chunks[i - 1].id = chunks[i].id
             /\ chunks[i - 1].n = chunks[i].n - 1
WireWellFramed == WellFramed(wire)

\* Together: whatever interrupts a packet, it is resumed where it stopped or dropped as a
\* whole (media_sender_loop and Transport::send_media).
RetriesResume == PendingIsHeld /\ WireWellFramed

\* Packets reach the kernel in encoder order, each at most once, whatever is
\* retried over however many connections.
AcceptedInOrder ==
    \A i, j \in 1..Len(accepted) : i < j => accepted[i].id < accepted[j].id

\* The frames that left the encoder and are neither accepted, queued nor held are
\* lost.  rgb_dropped / depth_dropped never counts a frame that is not lost; and until
\* the drain deadline, which discards without counting, it knows of each loss: what it
\* counts once is one frame or, when a large packet pushes out several small ones, at
\* most a slotful.  With one packet per slot the count is exact.
InHand == IF job # NoJob /\ ~(pc = "result" /\ outcome = "sent") THEN 1 ELSE 0
Kept    == Len(accepted) + Len(queue) + InHand
Counted == dropped + (IF producer = "overwrite" THEN 1 ELSE 0)
LossesCounted ==
    /\ Kept + Counted <= nextId - 1
    /\ drain # "passed" => nextId - 1 <= Kept + Counted * FramesPerSlot

\* The receiver can decode what it gets: every P frame accepted by the kernel
\* directly follows the frame it refers to ("dropping non-IDR frames until
\* next IDR", camera_support.inl).
Decodable ==
    \A i \in 1..Len(accepted) :
        accepted[i].key \/ (i > 1 /\ accepted[i - 1].id = accepted[i].id - 1)

\* A loss in the queue is followed by the guard: when the camera thread has
\* dealt with an overwrite, a P frame at the head of the queue whose reference
\* frame is gone finds the guard armed ("rgb queue overwrite; waiting for next
\* keyframe", camera_capture.inl).
ReferenceGone ==
    /\ queue # <<>>
    /\ ~Head(queue).key
    /\ job.id # Head(queue).id - 1
    /\ \A i \in 1..Len(accepted) : accepted[i].id # Head(queue).id - 1
OverwriteIsGuarded == [][producer = "overwrite" /\ producer' = "encode" /\ ReferenceGone' => waiting']_vars

\* Once the path is told to stop, its thread comes to an end, whatever the
\* link does, so that run() can join it.
DrainEnds == ~running ~> pc = "exited"

\* A packet does not sit in the queue or in the loop's hand for ever: it is
\* accepted or given up, even when every write is cut into slices.
HeldOrQueued(n) == job.id = n \/ \E i \in 1..Len(queue) : queue[i].id = n
NothingStuck ==
    \A n \in 1..MaxFrames : HeldOrQueued(n) ~> (~HeldOrQueued(n) \/ pc = "exited")

\* The path as a lossy FIFO (MediaStream): what the transport promises whoever
\* reads the connection.
FifoBuffer ==
    (IF InHand = 1 THEN <<job>> ELSE <<>>) \o queue
Fifo == INSTANCE MediaStream WITH buffer <- FifoBuffer, delivered <- accepted, next <- nextId
ImplementsFifo == Fifo!Spec
=============================================================================
