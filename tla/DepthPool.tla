------------------------------- MODULE DepthPool -------------------------------
(***************************************************************************)
(* The depth compression workers of a sender (LatestDepthCompressionQueue and       *)
(* depth_compression_loop): every camera has a slot with a few frames, the newest     *)
(* push out the oldest; any worker may take a slot's next frame, one at a time, and    *)
(* the compressed frames go on to the slot's media queue.  At the end the cameras       *)
(* stop first, and the workers empty the slots for a while.                            *)
(***************************************************************************)
EXTENDS Naturals, Sequences, FiniteSets, SequencesExt

CONSTANTS
    Slots, Workers,
    FramesPerSlot, SlotBytes, \* frames_per_slot_, kDepthCompressionQueueMaxBytesPerSlot
    Sizes,                    \* sizes of frames
    MaxFrames, MaxSlots       \* bounds; slots are appended up to MaxSlots

VARIABLES
    slots,      \* slots_: [jobs, busy], jobs are [n, size]
    nextSlot, stopping,
    at,         \* per worker: where it is in its loop
    work,       \* per worker: <<slot, frame>> in its hands, or <<>>
    late,       \* the workers whose drain_deadline is over
    out,        \* per slot: the frames handed on, ghost
    gone,       \* per slot: the frames pushed out, refused or failed, ghost
    frames      \* frames published so far, ghost

vars == <<slots, nextSlot, stopping, at, work, late, out, gone, frames>>

Empty == [jobs |-> <<>>, busy |-> FALSE]
Init ==
    /\ slots = [s \in 1..Slots |-> Empty] /\ nextSlot = 1 /\ stopping = FALSE
    /\ at = [w \in Workers |-> "check"] /\ work = [w \in Workers |-> <<>>] /\ late = {}
    /\ out = [s \in 1..MaxSlots |-> <<>>] /\ gone = [s \in 1..MaxSlots |-> {}] /\ frames = 0

Bytes(jobs) == FoldLeft(LAMBDA b, j : b + j.size, 0, jobs)

\* How many of the oldest go so that a frame of this size has room.
PushedOut(jobs, size) ==
    CHOOSE k \in 0..Len(jobs) :
        /\ k = Len(jobs) \/ (Len(jobs) - k < FramesPerSlot /\ Bytes(SubSeq(jobs, k + 1, Len(jobs))) + size <= SlotBytes)
        /\ \A i \in 0..(k - 1) : ~(Len(jobs) - i < FramesPerSlot
                                   /\ Bytes(SubSeq(jobs, i + 1, Len(jobs))) + size <= SlotBytes)

\* LatestDepthCompressionQueue::publish by the camera of slot s.
Publish(s, size) ==
    /\ ~stopping /\ s \in DOMAIN slots /\ frames < MaxFrames /\ frames' = frames + 1
    /\ LET jobs == slots[s].jobs
           k == PushedOut(jobs, size)
       IN IF size = 0 \/ size > SlotBytes
          THEN gone' = [gone EXCEPT ![s] = @ \cup {frames'}] /\ UNCHANGED slots
          ELSE /\ slots' = [slots EXCEPT ![s].jobs = Append(SubSeq(jobs, k + 1, Len(jobs)), [n |-> frames', size |-> size])]
               /\ gone' = [gone EXCEPT ![s] = @ \cup {jobs[i].n : i \in 1..k}]
    /\ UNCHANGED <<nextSlot, stopping, at, work, late, out>>

\* append_slots, for a camera plugged in.
AppendSlot == /\ ~stopping /\ Len(slots) < MaxSlots /\ slots' = Append(slots, Empty)
              /\ UNCHANGED <<nextSlot, stopping, at, work, late, out, gone, frames>>

\* The cameras have ended.
Stop == ~stopping /\ stopping' = TRUE /\ UNCHANGED <<slots, nextSlot, at, work, late, out, gone, frames>>

\* (Mutant of Free: a slot that a worker has a frame of counts as well.)
FreeAnyway(slot) == slot.jobs # <<>>
Free(slot) == slot.jobs # <<>> /\ ~slot.busy
HasJob == \E s \in DOMAIN slots : Free(slots[s])

\* The head of the worker's loop.
MayLeave(w) == stopping /\ (~HasJob \/ w \in late)
Check(w) ==
    /\ at[w] = "check" /\ at' = [at EXCEPT ![w] = IF MayLeave(w) THEN "left" ELSE "pop"]
    /\ UNCHANGED <<slots, nextSlot, stopping, work, late, out, gone, frames>>

\* kGracefulQueueDrainTimeout is over for a worker.
DeadlinePasses(w) == /\ stopping /\ at[w] # "left" /\ w \notin late /\ late' = late \cup {w}
                     /\ UNCHANGED <<slots, nextSlot, stopping, at, work, out, gone, frames>>

\* wait_pop: the free slot that comes first from next_slot_ on, or nothing within the time-out.
Order(s) == IF s >= nextSlot THEN s ELSE s + Len(slots)
Pop(w) ==
    /\ at[w] = "pop"
    /\ IF ~HasJob
       THEN at' = [at EXCEPT ![w] = "check"] /\ UNCHANGED <<slots, nextSlot, work>>
       ELSE LET s == CHOOSE s \in DOMAIN slots :
                        Free(slots[s]) /\ \A r \in DOMAIN slots : Free(slots[r]) => Order(s) <= Order(r)
            IN /\ work' = [work EXCEPT ![w] = <<s, Head(slots[s].jobs).n>>]
               /\ slots' = [slots EXCEPT ![s] = [jobs |-> Tail(@.jobs), busy |-> TRUE]]
               /\ nextSlot' = (s % Len(slots)) + 1
               /\ at' = [at EXCEPT ![w] = "compress"]
    /\ UNCHANGED <<stopping, late, out, gone, frames>>

\* Compress and hand on; a frame that cannot be compressed is dropped.
Compress(w) ==
    /\ at[w] = "compress" /\ at' = [at EXCEPT ![w] = "complete"]
    /\ LET s == work[w][1]
       IN \/ out' = [out EXCEPT ![s] = Append(@, work[w][2])] /\ UNCHANGED gone
          \/ gone' = [gone EXCEPT ![s] = @ \cup {work[w][2]}] /\ UNCHANGED out
    /\ UNCHANGED <<slots, nextSlot, stopping, work, late, frames>>

\* LatestDepthCompressionQueue::complete
Complete(w) ==
    /\ at[w] = "complete" /\ at' = [at EXCEPT ![w] = "check"] /\ work' = [work EXCEPT ![w] = <<>>]
    /\ slots' = [slots EXCEPT ![work[w][1]].busy = FALSE]
    /\ UNCHANGED <<nextSlot, stopping, late, out, gone, frames>>

Worker(w) == Check(w) \/ Pop(w) \/ Compress(w) \/ Complete(w)
Next == \/ AppendSlot \/ Stop
        \/ \E w \in Workers : Worker(w) \/ DeadlinePasses(w)
        \/ \E s \in DOMAIN slots, size \in Sizes : Publish(s, size)

Spec == Init /\ [][Next]_vars

-----------------------------------------------------------------------------
\* The frames of a slot come out in the order they went in, each at most once, though
\* several workers share the slots; and when the workers have left, and none because its
\* time was over, every frame of every camera has come out or was pushed out, refused or
\* not compressible.
DepthInOrder ==
    /\ \A s \in DOMAIN out : /\ \A i \in 1..(Len(out[s]) - 1) : out[s][i] < out[s][i + 1]
                             /\ Range(out[s]) \cap gone[s] = {}
    /\ (\A w \in Workers : at[w] = "left") /\ late = {} =>
            UNION {Range(out[s]) \cup gone[s] : s \in DOMAIN out} = 1..frames
=============================================================================
