------------------------- MODULE RecordBackpressure -------------------------
(***************************************************************************)
(* The bytes of the receiver's record queues (receiver_app.inl).  A media     *)
(* thread blocks in enqueue_record_job until its camera's queue and the total *)
(* of all cameras have room; the record worker of the camera gives the bytes  *)
(* back when it takes a job.  Depth that precedes the first decodable RGB of a *)
(* segment is kept in a buffer of its own, which counts in the same total and  *)
(* is replayed behind that RGB.                                              *)
(*                                                                         *)
(* A job is its stream, its size and the generation of the camera's input.    *)
(***************************************************************************)
EXTENDS Integers, Sequences, FiniteSets

CONSTANTS
    Cameras,
    RgbSizes, DepthSizes,  \* queue_bytes of the packets
    CameraMax,             \* record_queue_max_bytes
    TotalMax,              \* record_queue_total_max_bytes
    MaxPackets,            \* bound: packets in a run
    MaxSwitches            \* bound: starts and stops in a run

VARIABLES
    input,    \* per camera: record_accepting, record_generation, stop not yet done
    queue,    \* record_queue
    bytes,    \* record_queue_bytes
    prestart, \* prestart_depth_jobs
    worker,   \* job of the record worker, or NoJob
    active,   \* the writer has an open segment
    ingress,  \* job a media thread is about to enqueue, or NoJob
    total,    \* total_record_queue_bytes_
    prestartTotal, \* total_prestart_depth_bytes_
    budget    \* packets and switches left

vars == <<input, queue, bytes, prestart, worker, active, ingress, total, prestartTotal, budget>>

Streams == {"rgb", "depth"}
NoJob   == [stream |-> "none", size |-> 0, generation |-> 0]
Replay  == [stream |-> "replay", size |-> 0, generation |-> 0]
\* The bytes of jobs, each with the position of its job, and their number.
ByteSet(jobs) == UNION {{i} \X (1..jobs[i].size) : i \in DOMAIN jobs}
Bytes(jobs) == Cardinality(ByteSet(jobs))

Init ==
    /\ input = [c \in Cameras |-> [accepting |-> FALSE, generation |-> 0, draining |-> FALSE]]
    /\ queue = [c \in Cameras |-> <<>>] /\ bytes = [c \in Cameras |-> 0]
    /\ prestart = [c \in Cameras |-> <<>>]
    /\ worker = [c \in Cameras |-> NoJob] /\ active = [c \in Cameras |-> FALSE]
    /\ ingress = [c \in Cameras |-> [s \in Streams |-> NoJob]]
    /\ total = 0 /\ prestartTotal = 0
    /\ budget = [packets |-> MaxPackets, switches |-> MaxSwitches]

-----------------------------------------------------------------------------
\* Requests, as far as they touch the queue

\* set_record_accepting(true)
StartInput(c) ==
    /\ ~input[c].accepting /\ ~input[c].draining /\ budget.switches > 0
    /\ input' = [input EXCEPT ![c].accepting = TRUE, ![c].generation = @ + 1]
    /\ budget' = [budget EXCEPT !.switches = @ - 1]
    /\ UNCHANGED <<queue, bytes, prestart, worker, active, ingress, total, prestartTotal>>

\* set_record_accepting(false) of a stop, or what is left of a failed write
StopInput(c) ==
    /\ ~input[c].draining /\ (input[c].accepting \/ active[c])
    /\ budget.switches > 0
    /\ input' = [input EXCEPT ![c].accepting = FALSE, ![c].draining = TRUE,
                              ![c].generation = IF input[c].accepting THEN @ + 1 ELSE @]
    /\ budget' = [budget EXCEPT !.switches = @ - 1]
    /\ UNCHANGED <<queue, bytes, prestart, worker, active, ingress, total, prestartTotal>>

\* close_segment_task, once the queue is empty and the worker idle: depth that
\* waits for an RGB that has not come is dropped (clear_prestart_depth_locked).
DetachWriter(c) ==
    /\ input[c].draining /\ queue[c] = <<>> /\ worker[c] = NoJob
    /\ input' = [input EXCEPT ![c].draining = FALSE]
    /\ active' = [active EXCEPT ![c] = FALSE]
    /\ prestart' = [prestart EXCEPT ![c] = <<>>]
    /\ prestartTotal' = prestartTotal - Bytes(prestart[c])
    /\ total' = total - Bytes(prestart[c])
    /\ UNCHANGED <<queue, bytes, worker, ingress, budget>>

-----------------------------------------------------------------------------
\* Media threads

ReceivePacket(c, s) ==
    /\ ingress[c][s] = NoJob /\ budget.packets > 0 /\ input[c].accepting
    /\ \E size \in IF s = "rgb" THEN RgbSizes ELSE DepthSizes :
           ingress' = [ingress EXCEPT ![c][s] =
               [stream |-> s, size |-> size, generation |-> input[c].generation]]
    /\ budget' = [budget EXCEPT !.packets = @ - 1]
    /\ UNCHANGED <<input, queue, bytes, prestart, worker, active, total, prestartTotal>>

InputIsCurrent(c, job) == input[c].accepting /\ input[c].generation = job.generation

\* an empty queue takes a packet of any size
CameraHasRoom(c, size) ==
    \/ queue[c] = <<>>
    \/ bytes[c] <= CameraMax /\ size <= CameraMax - bytes[c]

TotalHasRoom(size) == total <= TotalMax /\ size <= TotalMax - total

Enqueue(c, s) ==
    /\ ingress[c][s] # NoJob
    /\ LET job == ingress[c][s]
       IN  \/ /\ ~InputIsCurrent(c, job)
              /\ UNCHANGED <<queue, bytes, total>>
           \/ /\ InputIsCurrent(c, job)
              /\ CameraHasRoom(c, job.size) /\ TotalHasRoom(job.size)
              /\ queue' = [queue EXCEPT ![c] = Append(@, job)]
              /\ bytes' = [bytes EXCEPT ![c] = @ + job.size]
              /\ total' = total + job.size
    /\ ingress' = [ingress EXCEPT ![c][s] = NoJob]
    /\ UNCHANGED <<input, prestart, worker, active, prestartTotal, budget>>

-----------------------------------------------------------------------------
\* The record worker

TakeJob(c) ==
    /\ worker[c] = NoJob /\ queue[c] # <<>>
    /\ LET job == Head(queue[c])
       IN  /\ worker' = [worker EXCEPT ![c] = job]
           /\ bytes' = [bytes EXCEPT ![c] = @ - job.size]
           /\ total' = total - job.size
    /\ queue' = [queue EXCEPT ![c] = Tail(@)]
    /\ UNCHANGED <<input, prestart, active, ingress, prestartTotal, budget>>

\* buffer_prestart_depth_locked
PrestartHasRoom(c, size) ==
    /\ size <= CameraMax \div 4 - Bytes(prestart[c])
    /\ size <= TotalMax \div 4 - prestartTotal
    /\ size <= TotalMax - total

\* Depth before the first RGB: buffered, or dropped for want of room.
HoldDepth(c) ==
    /\ worker[c].stream = "depth" /\ ~active[c]
    /\ \/ /\ PrestartHasRoom(c, worker[c].size)
          /\ prestart' = [prestart EXCEPT ![c] = Append(@, worker[c])]
          /\ prestartTotal' = prestartTotal + worker[c].size
          /\ total' = total + worker[c].size
       \/ /\ ~PrestartHasRoom(c, worker[c].size)
          /\ UNCHANGED <<prestart, prestartTotal, total>>
    /\ worker' = [worker EXCEPT ![c] = NoJob]
    /\ UNCHANGED <<input, queue, bytes, active, ingress, budget>>

\* RGB that cannot start a segment is dropped; any other job is written.  Behind
\* RGB the worker replays the depth it has held back.
WriteJob(c) ==
    /\ worker[c].stream \in Streams
    /\ worker[c].stream = "depth" => active[c]
    /\ \/ /\ active' = [active EXCEPT ![c] = TRUE]
          /\ worker' = [worker EXCEPT ![c] = IF @.stream = "rgb" THEN Replay ELSE NoJob]
       \/ /\ ~active[c]
          /\ worker' = [worker EXCEPT ![c] = NoJob]
          /\ UNCHANGED active
    /\ UNCHANGED <<input, queue, bytes, prestart, ingress, total, prestartTotal, budget>>

\* One turn of the loop at the end of write_record_job: the first job leaves the
\* buffer before it is written (or dropped, if it is older than the segment).
ReplayDepth(c) ==
    /\ worker[c] = Replay
    /\ IF prestart[c] = <<>>
       THEN /\ worker' = [worker EXCEPT ![c] = NoJob]
            /\ UNCHANGED <<prestart, prestartTotal, total>>
       ELSE /\ prestart' = [prestart EXCEPT ![c] = Tail(@)]
            /\ prestartTotal' = prestartTotal - Head(prestart[c]).size
            /\ total' = total - Head(prestart[c]).size
            /\ UNCHANGED worker
    /\ UNCHANGED <<input, queue, bytes, active, ingress, budget>>

\* What waits for a later slice stays in the buffer.
EndReplay(c) ==
    /\ worker[c] = Replay /\ prestart[c] # <<>>
    /\ worker' = [worker EXCEPT ![c] = NoJob]
    /\ UNCHANGED <<input, queue, bytes, prestart, active, ingress, total, prestartTotal, budget>>

\* (Mutant of Discarded: the total keeps the bytes of the discarded queue.)
DiscardedPrestartOnly(c) == Bytes(prestart[c])
\* bytes of the total that a failed write gives back
Discarded(c) == bytes[c] + Bytes(prestart[c])

\* A failed write closes the input and discards what is queued and held back.
FailWrite(c) ==
    /\ worker[c].stream = "rgb" \/ worker[c] = Replay \/ (worker[c].stream = "depth" /\ active[c])
    /\ budget.switches > 0
    /\ budget' = [budget EXCEPT !.switches = @ - 1]
    /\ input' = [input EXCEPT ![c].accepting = FALSE, ![c].generation = @ + 1]
    /\ total' = total - Discarded(c)
    /\ prestartTotal' = prestartTotal - Bytes(prestart[c])
    /\ queue' = [queue EXCEPT ![c] = <<>>] /\ bytes' = [bytes EXCEPT ![c] = 0]
    /\ prestart' = [prestart EXCEPT ![c] = <<>>]
    /\ worker' = [worker EXCEPT ![c] = NoJob]
    /\ UNCHANGED <<active, ingress>>

Worker(c) == TakeJob(c) \/ HoldDepth(c) \/ WriteJob(c) \/ ReplayDepth(c) \/ EndReplay(c)

Next ==
    \E c \in Cameras :
        \/ StartInput(c) \/ StopInput(c) \/ DetachWriter(c)
        \/ \E s \in Streams : ReceivePacket(c, s) \/ Enqueue(c, s)
        \/ Worker(c) \/ FailWrite(c)

Fairness ==
    \A c \in Cameras :
        /\ WF_vars(Worker(c))
        /\ \A s \in Streams : WF_vars(Enqueue(c, s))

Spec == Init /\ [][Next]_vars /\ Fairness

-----------------------------------------------------------------------------
AllBytes(of) == Cardinality(UNION {{c} \X ByteSet(of[c]) : c \in Cameras})

\* The totals are what queues and buffers hold, whatever fails, stops or starts in
\* between, and never more than configured; the buffers keep to their quarter.
BytesAccounted ==
    /\ \A c \in Cameras : bytes[c] = Bytes(queue[c])
    /\ total = AllBytes(queue) + AllBytes(prestart) /\ total <= TotalMax
    /\ prestartTotal = AllBytes(prestart) /\ prestartTotal <= TotalMax \div 4
    /\ \A c \in Cameras : bytes[c] <= CameraMax \/ Len(queue[c]) = 1

Blocked(c, s) == ingress[c][s] # NoJob

\* A media thread is not blocked for ever: its packet is queued or refused, also
\* when the depth that waits for that very packet takes up its part of the total.
EnqueueEnds == \A c \in Cameras, s \in Streams : Blocked(c, s) ~> ~Blocked(c, s)
=============================================================================
