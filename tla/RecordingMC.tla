----------------------------- MODULE RecordingMC -----------------------------
(***************************************************************************)
(* Two instances of RecordingSessions for TLC, one of which is chosen in the  *)
(* initial state:                                                           *)
(*   "calls"   two cameras of one sender and no failed write;                *)
(*   "faults"  one camera whose writes fail, for lack of space or otherwise. *)
(* They share the cameras and differ in what their budgets begin with.        *)
(***************************************************************************)
EXTENDS RecordingSessions

VARIABLE config   \* the instance of this behaviour; never changes

Calls == INSTANCE RecordingSessions WITH
    MaxPackets <- 2, MaxCalls <- 3, MaxIdles <- 1, MaxFaults <- 0
Faults == INSTANCE RecordingSessions WITH
    MaxPackets <- 3, MaxCalls <- 4, MaxIdles <- 1, MaxFaults <- 2

RecordingInit ==
    \/ config = "calls" /\ Calls!Init
    \/ config = "faults" /\ Faults!Init /\ known \subseteq {1}

\* In the second instance the receiver never hears of the other camera.
RecordingNext ==
    /\ UNCHANGED config
    /\ Next
    /\ config = "faults" => known' \subseteq {1}

\* RecordingSessions!FairSpec.
RecordingSpec ==
    /\ RecordingInit /\ [][RecordingNext]_<<vars, config>>
    /\ \A c \in Cameras :
          /\ WF_vars(EnqueueJob(c)) /\ WF_vars(Work(c)) /\ WF_vars(CloseTask(c))
          /\ WF_vars(FinalizeFailed(c))

-----------------------------------------------------------------------------
\* As long as no write fails, a segment holds packets of one session only.  (After a
\* failed write it does not: run rec_promoted_mix.)
OneSessionWithoutFaults == config = "calls" => OneSessionPerSegment

\* What was requested happens: as long as no write fails, what is asked for records unless
\* it is stopped first (after one it may not: run rec_start_forgotten); a write that fails
\* for lack of space ends start-all; and a stop comes to its end.
RequestsAnswered ==
    /\ config = "calls" => RequestedRecords
    /\ StorageFailureStopsAll
    /\ StopEnds
=============================================================================
