----------------------------- MODULE SegmentClose -----------------------------
(***************************************************************************)
(* The directory of a segment, from SegmentWriter::start to the marker that   *)
(* hands it over, and what a restart of the receiver makes of it              *)
(* (recording.inl, recover_direct_nas_segments).  With local staging the       *)
(* directory stays where it is and the uploader takes it on; without, it is   *)
(* renamed from the hidden root to the published one.  The audio service puts  *)
(* its own files beside the video.                                           *)
(*                                                                         *)
(* One camera; its segments fall on one directory name, the later ones get a  *)
(* suffix.  A file system operation is a step, and the receiver may die        *)
(* between any two.                                                          *)
(***************************************************************************)
EXTENDS Naturals, FiniteSets

CONSTANTS
    Segments,   \* 1..n: the segments of the camera, in order
    TaskAudio,  \* task_audio.enabled
    MaxCrashes, \* bound
    MaxFaults   \* bound: operations that fail

VARIABLES
    mode,      \* "direct", "staged" (deferred to the uploader), "local"
    dir,       \* the directory of each name under the hidden (staging) root
    published, \* ... and under the published root
    seg,       \* what the receiver does with each segment, and under which name
    service,   \* the audio service: what it does for each name
    up,        \* the receiver: "recover", "run", "down"
    toRecover, \* ready segments found by the scan at the start
    crashes, faults

vars == <<mode, dir, published, seg, service, up, toRecover, crashes, faults>>

Names  == 0..Cardinality(Segments)
Absent == [seg |-> 0]
\* (warned is a history: the wait for the audio of this segment threw.)
NewDir(s) == [seg |-> s, frames |-> "none", media |-> "open", meta |-> "none",
              audio |-> "none", warned |-> FALSE, marker |-> "none"]
Exists(d) == d # Absent

Init ==
    /\ mode \in {"direct", "staged", "local"}
    /\ dir = [n \in Names |-> Absent] /\ published = [n \in Names |-> Absent]
    /\ seg = [s \in Segments |-> [pc |-> "none", name |-> 0]]
    /\ service = [n \in Names |-> "idle"]
    /\ up = "run" /\ toRecover = {}
    /\ crashes = 0 /\ faults = 0

At(s, pc) == up = "run" /\ seg[s].pc = pc
Goto(s, pc) == seg' = [seg EXCEPT ![s].pc = pc]
Dir(s) == dir[seg[s].name]
Put(s, field, value) == dir' = [dir EXCEPT ![seg[s].name][field] = value]

\* An operation throws: reset_after_close, the directory stays as it is.
Throw(s) ==
    /\ faults < MaxFaults /\ faults' = faults + 1
    /\ Goto(s, "gone")
    /\ UNCHANGED <<mode, dir, published, service, up, toRecover, crashes>>

Done(s, next) ==
    /\ Goto(s, next)
    /\ UNCHANGED <<mode, published, service, up, toRecover, crashes, faults>>

-----------------------------------------------------------------------------
\* SegmentWriter::start

Looking  == {"lookHidden", "lookPublished", "create"}
Starting == Looking \cup {"open"}

StartSegment(s) ==
    /\ At(s, "none")
    /\ \A r \in Segments : r < s => seg[r].pc \notin {"none"} \cup Starting
    /\ Done(s, "lookHidden") /\ UNCHANGED dir

NextName(s) == seg' = [seg EXCEPT ![s] = [pc |-> "lookHidden", name |-> @.name + 1]]

\* (Mutant of LookHidden: a directory that is there already is used again.)
LookHiddenNot(s) ==
    /\ At(s, "lookHidden")
    /\ Goto(s, "lookPublished")
    /\ UNCHANGED <<mode, dir, published, service, up, toRecover, crashes, faults>>

LookHidden(s) ==
    /\ At(s, "lookHidden")
    /\ IF Exists(Dir(s)) THEN NextName(s) ELSE Goto(s, "lookPublished")
    /\ UNCHANGED <<mode, dir, published, service, up, toRecover, crashes, faults>>

LookPublished(s) ==
    /\ At(s, "lookPublished")
    /\ IF mode = "direct" /\ Exists(published[seg[s].name]) THEN NextName(s) ELSE Goto(s, "create")
    /\ UNCHANGED <<mode, dir, published, service, up, toRecover, crashes, faults>>

Create(s) ==
    /\ At(s, "create")
    /\ dir' = [dir EXCEPT ![seg[s].name] = NewDir(s)]
    /\ Done(s, "open")

\* frames.csv.inprogress, meta.json, and the task the audio service reads: there
\* is none for a sender without a microphone, or when writing it fails, which only
\* warns.
OpenFiles(s) ==
    /\ At(s, "open")
    /\ \/ Throw(s)
       \/ \E task \in IF TaskAudio THEN {"task", "none"} ELSE {"none"} :
          /\ dir' = [dir EXCEPT ![seg[s].name] =
                [@ EXCEPT !.frames = "inprogress", !.meta = "open", !.audio = task]]
          /\ Done(s, "active")

-----------------------------------------------------------------------------
\* SegmentWriter::close

\* request_task_audio_finalize, flush_pending_media: the segment is closed all the
\* same when either fails. The request does not ask whether the task was written.
RequestAudio(s) ==
    /\ At(s, "active")
    /\ \/ UNCHANGED dir
       \/ TaskAudio /\ Put(s, "audio", "asked")
    /\ Done(s, "merge")

\* merge_rgb_recorded_frames_into_frames: a failure only warns.
MergeFrames(s) ==
    /\ At(s, "merge")
    /\ \/ Put(s, "frames", "finalizing") /\ Done(s, "media")
       \/ /\ faults < MaxFaults /\ faults' = faults + 1 /\ Goto(s, "media")
          /\ UNCHANGED <<mode, dir, published, service, up, toRecover, crashes>>

FinalizeMedia(s) ==
    /\ At(s, "media")
    /\ \/ Throw(s)
       \/ Put(s, "media", "final") /\ Done(s, "frames")

\* publish_finalized_frames
PublishFrames(s) ==
    /\ At(s, "frames")
    /\ \/ /\ Dir(s).frames = "finalizing"
          /\ Put(s, "frames", "published") /\ Done(s, "audio")
       \/ Throw(s)
       \/ /\ Dir(s).frames # "finalizing" /\ Goto(s, "gone")
          /\ UNCHANGED <<mode, dir, published, service, up, toRecover, crashes, faults>>

\* wait_for_task_audio: the service answers in time, or a marker without audio is
\* written and the files of the service are removed. When it throws, because that
\* marker cannot be written, close only warns and goes on without one.
AwaitAudio(s) ==
    /\ At(s, "audio")
    /\ \/ /\ TaskAudio => Dir(s).audio \in {"ready", "noInput"}
          /\ UNCHANGED dir /\ Done(s, "meta")
       \/ /\ TaskAudio /\ Dir(s).audio \notin {"ready", "noInput"}
          /\ Put(s, "audio", "noInput") /\ Done(s, "meta")
       \/ /\ TaskAudio /\ faults < MaxFaults /\ faults' = faults + 1
          /\ Put(s, "warned", TRUE) /\ Goto(s, "meta")
          /\ UNCHANGED <<mode, published, service, up, toRecover, crashes>>

\* write_meta(closed)
CloseMeta(s) ==
    /\ At(s, "meta")
    /\ \/ Throw(s)
       \/ Put(s, "meta", "closed") /\ Done(s, "marker")

\* write_recording_staged_marker, write_recording_ready_marker: written beside
\* and renamed.
WriteMarker(s) ==
    /\ At(s, "marker")
    /\ \/ Throw(s)
       \/ /\ Put(s, "marker", IF mode = "staged" THEN "staged" ELSE "ready")
          /\ Done(s, IF mode = "direct" THEN "publish" ELSE "done")

\* publish_direct_nas_segment: the destination is looked at, the files are
\* synced, and the directory is renamed.
PublishDirect(s) ==
    /\ At(s, "publish")
    /\ IF Exists(published[seg[s].name])
       THEN Done(s, "gone") /\ UNCHANGED dir
       ELSE \/ Throw(s)
            \/ Done(s, "rename") /\ UNCHANGED dir

\* rename(2) does not replace a directory that holds files
Moved(n) ==
    /\ ~Exists(published[n])
    /\ published' = [published EXCEPT ![n] = dir[n]]
    /\ dir' = [dir EXCEPT ![n] = Absent]

RenameSegment(s) ==
    /\ At(s, "rename")
    /\ \/ Throw(s)
       \/ /\ Moved(seg[s].name) /\ Goto(s, "done")
          /\ UNCHANGED <<mode, service, up, toRecover, crashes, faults>>

Close(s) == RequestAudio(s) \/ MergeFrames(s) \/ FinalizeMedia(s) \/ PublishFrames(s)
            \/ AwaitAudio(s) \/ CloseMeta(s) \/ WriteMarker(s) \/ PublishDirect(s) \/ RenameSegment(s)
Start(s) == StartSegment(s) \/ LookHidden(s) \/ LookPublished(s) \/ Create(s) \/ OpenFiles(s)

-----------------------------------------------------------------------------
\* The audio service: it renames its own files, then writes its marker, by the
\* path it was told; it finds neither once the directory has moved, nor its own
\* files once the receiver has removed them.
SealAudio(n) ==
    /\ service[n] = "idle" /\ Exists(dir[n]) /\ dir[n].audio = "asked"
    /\ service' = [service EXCEPT ![n] = "sealed"]
    /\ UNCHANGED <<mode, dir, published, seg, up, toRecover, crashes, faults>>

AudioReady(n) ==
    /\ service[n] = "sealed"
    /\ service' = [service EXCEPT ![n] = "idle"]
    /\ dir' = IF Exists(dir[n]) /\ dir[n].audio \in {"asked", "noInput"}
              THEN [dir EXCEPT ![n].audio = "ready"] ELSE dir
    /\ UNCHANGED <<mode, published, seg, up, toRecover, crashes, faults>>

-----------------------------------------------------------------------------
\* The receiver dies and starts again.

Crash ==
    /\ up # "down" /\ crashes < MaxCrashes
    /\ crashes' = crashes + 1
    /\ up' = "down" /\ toRecover' = {}
    /\ seg' = [s \in Segments |->
                  [seg[s] EXCEPT !.pc = CASE @ = "none" -> "none"
                                          [] @ \in Looking \cup {"unmade"} -> "unmade"
                                          [] OTHER -> "gone"]]
    /\ UNCHANGED <<mode, dir, published, service, faults>>

\* The scan finds directories with a valid ready marker; it is not done with staging.
Recoverable ==
    IF mode # "direct" THEN {} ELSE {n \in Names : Exists(dir[n]) /\ dir[n].marker = "ready"}

Restart ==
    /\ up = "down"
    /\ up' = "recover" /\ toRecover' = Recoverable
    /\ UNCHANGED <<mode, dir, published, seg, service, crashes, faults>>

\* One ready segment: published, or left for the next start.
Recover(n) ==
    /\ up = "recover" /\ n \in toRecover
    /\ toRecover' = toRecover \ {n}
    /\ \/ /\ Moved(n) /\ UNCHANGED faults
       \/ /\ Exists(published[n]) /\ UNCHANGED <<dir, published, faults>>
       \/ /\ faults < MaxFaults /\ faults' = faults + 1 /\ UNCHANGED <<dir, published>>
    /\ UNCHANGED <<mode, seg, service, up, crashes>>

RecoveryEnds ==
    /\ up = "recover" /\ toRecover = {}
    /\ up' = "run"
    /\ UNCHANGED <<mode, dir, published, seg, service, toRecover, crashes, faults>>

Next ==
    \/ \E s \in Segments : Start(s) \/ Close(s)
    \/ \E n \in Names : SealAudio(n) \/ AudioReady(n) \/ Recover(n)
    \/ Crash \/ Restart \/ RecoveryEnds

CloseGoesOn(s) == Close(s) /\ seg[s].pc # "active"

\* A close goes on and a receiver that died is started again; nobody owes a
\* segment, a stop or audio.
Fairness ==
    /\ \A s \in Segments : WF_vars(CloseGoesOn(s))
    /\ WF_vars(Restart) /\ WF_vars(RecoveryEnds)
    /\ \A n \in Names : WF_vars(Recover(n))

Spec == Init /\ [][Next]_vars /\ Fairness

-----------------------------------------------------------------------------
\* Where a segment's directory is: under which root, and under which name.
Places(s) == {p \in {"hidden", "published"} \X Names :
                 IF p[1] = "hidden" THEN dir[p[2]].seg = s ELSE published[p[2]].seg = s}

Whole(d) ==
    /\ d.frames = "published" /\ d.media = "final" /\ d.meta = "closed"
    /\ TaskAudio => d.audio \in {"ready", "noInput"} \/ d.warned

\* A segment that got a directory keeps exactly one, with its own files in it,
\* whatever crashes, fails or gets the same name; a directory with a marker, and
\* so every published one, has its frame index, sealed media and closed meta data,
\* and an audio marker unless the wait for its audio threw and was warned about.
SegmentsKeptWhole ==
    /\ \A s \in Segments :
          Cardinality(Places(s)) = IF seg[s].pc \in Looking \cup {"none", "unmade"} THEN 0 ELSE 1
    /\ \A n \in Names :
          /\ Exists(dir[n]) /\ dir[n].marker # "none" => Whole(dir[n])
          /\ Exists(published[n]) => published[n].marker = "ready" /\ Whole(published[n])

AwaitsPublication(n) == mode = "direct" /\ Exists(dir[n]) /\ dir[n].marker = "ready"
LeftHidden(n) == ~Exists(dir[n]) \/ faults > 0

\* Without staging a segment that is ready gets published, by the receiver that
\* wrote the marker or by the next one, unless a NAS operation fails.
ReadyIsPublished == \A n \in Names : AwaitsPublication(n) ~> LeftHidden(n)
=============================================================================
