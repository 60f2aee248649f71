-------------------------- MODULE LatestMediaQueue --------------------------
(***************************************************************************)
(* One slot of the sender's LatestMediaQueue (runtime.inl): a bounded deque *)
(* of media packets that drops its OLDEST entries to make room.  A packet is *)
(* a record with an `id` (its place in encoder order), a `key` flag (it is an *)
(* IDR) and a `size` (its bytes, in chunks).                                *)
(***************************************************************************)
EXTENDS Naturals, Sequences, SequencesExt

CONSTANTS
    FramesPerSlot,   \* rgb_frames_per_slot_ / depth_frames_per_slot_
    MaxSlotBytes     \* kMediaQueueMaxBytesPerSlot, in chunks

ASSUME QueueAssumption ==
    /\ FramesPerSlot \in Nat \ {0}
    /\ MaxSlotBytes \in Nat \ {0}

PublishResults == {"queued", "overwritten", "rejected_occupied"}

SlotBytes(jobs) == FoldLeft(LAMBDA total, job : total + job.size, 0, jobs)

\* The discard_front loop stops as soon as the new job fits behind what is left.
Fits(jobs, job) ==
    \/ jobs = <<>>
    \/ /\ Len(jobs) < FramesPerSlot
       /\ SlotBytes(jobs) + job.size <= MaxSlotBytes

Behind(jobs, n) == SubSeq(jobs, n + 1, Len(jobs))

\* How many packets the discard_front loop removes: one for every m such that
\* the job fits neither behind m packets fewer nor behind any number up to m.
EvictCount(jobs, job) ==
    Cardinality({m \in 1..Len(jobs) : \A k \in 0..(m - 1) : ~Fits(Behind(jobs, k), job)})

Rejected(jobs, job, rejectIfOccupied) ==
    \/ rejectIfOccupied /\ jobs # <<>>
    \/ job.size > MaxSlotBytes

PublishResult(jobs, job, rejectIfOccupied) ==
    IF Rejected(jobs, job, rejectIfOccupied) THEN "rejected_occupied"
    ELSE IF EvictCount(jobs, job) > 0 THEN "overwritten" ELSE "queued"

JobsAfterPublish(jobs, job, rejectIfOccupied) ==
    IF Rejected(jobs, job, rejectIfOccupied) THEN jobs
    ELSE Append(Behind(jobs, EvictCount(jobs, job)), job)
=============================================================================
