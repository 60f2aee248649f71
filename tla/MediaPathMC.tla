----------------------------- MODULE MediaPathMC -----------------------------
(***************************************************************************)
(* Three media paths for TLC, one of which is chosen in the initial state:    *)
(*   "reliable"  RGB with a recording buffer and a queue that never overflows, *)
(*               over a link that is not down for ever;                       *)
(*   "direct"    RGB without a recording buffer: one packet per slot, drops    *)
(*               before a write, and frame timing that may go backwards;       *)
(*   "overflow"  depth with packets of two sizes and a queue that overflows by *)
(*               frames or by bytes: a large packet pushes out two small ones. *)
(* The constants of the extended module are the widest of the three; they     *)
(* only give its types their range.                                          *)
(***************************************************************************)
EXTENDS SenderMediaPath

VARIABLE config   \* the path of this behaviour; never changes

Reliable == INSTANCE SenderMediaPath WITH
    Stream <- "rgb", RecordingBuffer <- TRUE, Sizes <- {2},
    TimingRegresses <- FALSE, MaxFrames <- 4, FramesPerSlot <- 4
Direct == INSTANCE SenderMediaPath WITH
    Stream <- "rgb", RecordingBuffer <- FALSE, Sizes <- {2},
    TimingRegresses <- TRUE, MaxFrames <- 4, FramesPerSlot <- 1
Overflow == INSTANCE SenderMediaPath WITH
    Stream <- "depth_raw", RecordingBuffer <- TRUE, Sizes <- {1, 3},
    TimingRegresses <- FALSE, MaxFrames <- 4, FramesPerSlot <- 2, MaxSlotBytes <- 3

PathInit == config \in {"reliable", "direct", "overflow"} /\ Init

PathNext ==
    /\ UNCHANGED config
    /\ \/ config = "reliable" /\ Reliable!Next
       \/ config = "direct" /\ Direct!Next
       \/ config = "overflow" /\ Overflow!Next

\* SenderMediaPath!LiveSpec for the reliable path, FairSpec for the other two.
PathFairness ==
    /\ WF_vars(config = "reliable" /\ Reliable!Loop)
    /\ WF_vars(config = "direct" /\ Direct!Loop)
    /\ WF_vars(config = "overflow" /\ Overflow!Loop)
    /\ WF_vars(RecordOverwrite)
    /\ WF_vars(StopPath)
    /\ WF_vars(DrainDeadlinePasses)
    /\ SF_vars(config = "reliable" /\ Reliable!SendCompletes)

PathSpec == PathInit /\ [][PathNext]_<<vars, config>> /\ PathFairness

-----------------------------------------------------------------------------
\* As long as nothing overflows and writes are reliable, the receiver can decode
\* every frame the kernel took.  (Without a recording buffer and with a queue
\* that overflows it cannot: runs direct_undecodable and overflow_unguarded.)
ReliableDecodable == config = "reliable" => Decodable

\* On a path without a recording buffer a frame lost in the queue is followed by
\* the keyframe guard before the camera thread goes on (publish_media_job).
DirectOverwriteIsGuarded ==
    [][config = "direct" /\ producer = "overwrite" /\ producer' = "encode" /\ ReferenceGone'
          => waiting']_vars

\* On a link that takes a packet again and again, no packet is stuck; and told to stop, the
\* thread comes to an end whatever the link does (media_sender_loop).
PathLives == (config = "reliable" => NothingStuck) /\ DrainEnds
=============================================================================
