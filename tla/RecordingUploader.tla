--------------------------- MODULE RecordingUploader ---------------------------
(***************************************************************************)
(* The recording uploader (recording_uploader.py) for one closed segment: from *)
(* the receiver's staging directory through the hidden capture queue on the NAS *)
(* to the published directory.                                               *)
(*                                                                         *)
(* A directory is the set of its entries: "dir" while it exists, its files and  *)
(* its control markers.  One action is one operation on a file system or one    *)
(* decision between two of them; the process may be killed and started again    *)
(* between any two, and an operation on the NAS may fail.  Writing a marker     *)
(* (atomic_json_write) and copying a segment (into a directory that is renamed  *)
(* when it is complete) are single operations: what a crash leaves of them is   *)
(* ignored and overwritten.                                                  *)
(***************************************************************************)
EXTENDS Naturals, Sequences, FiniteSets

CONSTANTS
    Media,              \* the media files of the segment
    MaxRecovered,       \* bound: names <base>_recovered_001 and following
    Configs,            \* the configurations the uploader is started with
    MaxCrashes,         \* bound: crashes in a run
    MaxFaults           \* bound: failed NAS operations in a run

ASSUME UploaderAssumption ==
    /\ Media \subseteq {"rgb", "depth"} /\ Media # {}
    /\ Configs \subseteq SUBSET {"retain", "delete", "pressure", "torn"}
    /\ {MaxRecovered, MaxCrashes, MaxFaults} \subseteq Nat

VARIABLES
    local,    \* the segment's directory in the staging root
    capture,  \* its directory in the capture queue
    dest,     \* the final directory and the _recovered_ names after it
    journal,  \* destination named by the publish journal, or NoJournal
    proc,     \* where run_once stands
    config,   \* what holds of this uploader and its disk (never changes)
    budget    \* crashes and failed NAS operations left

vars == <<local, capture, dest, journal, proc, config, budget>>

RetainLocal       == "retain" \in config    \* retain_local_capture_for_finalize
DeleteAfterUpload == "delete" \in config    \* delete_after_upload
DiskPressure      == "pressure" \in config  \* staging may be above its high watermark
TornDeletes       == "torn" \in config      \* a deletion may be interrupted half way

\* frames.csv and meta.json, without which a segment is refused, are "index".
Files     == Media \cup {"index"}
Names     == 0 .. MaxRecovered
NoJournal == MaxRecovered + 1
Markers   == {"staged", "cached", "uploaded", "captured", "finalized",
              "pending", "incomplete", "ready"}
Absent    == {}

Exists(d)   == "dir" \in d
Manifest(d) == d \cap Files
Whole(d)    == Files \subseteq d

\* The phases of run_once, in their order.
Round == <<"journal", "caches", "queue", "caches", "staging", "watermark", "queue", "caches">>

Init ==
    /\ local = {"dir", "staged"} \cup Files
    /\ capture = Absent
    /\ dest = [n \in Names |-> Absent]
    /\ journal = NoJournal
    /\ proc = [phase |-> 1, at |-> "enter"]
    /\ config \in Configs
    /\ budget = [crashes |-> MaxCrashes, faults |-> MaxFaults]

In(phase) == Round[proc.phase] = phase
At(at)    == proc.at = at
Goto(at)  == proc' = [proc EXCEPT !.at = at]
NextPhase == proc' = [phase |-> (proc.phase % Len(Round)) + 1, at |-> "enter"]

\* What is left of directory d when shutil.rmtree, which unlinks entry by entry in
\* no particular order, is interrupted.
Leftovers(d) == IF TornDeletes /\ Exists(d) THEN {r \in SUBSET d : Exists(r)} ELSE {d}

-----------------------------------------------------------------------------
\* What the uploader reads off the directories

Discovered ==  \* discover_local_segments, prepare_local_capture
    /\ "staged" \in local /\ {"uploaded", "cached"} \cap local = {}
    /\ "index" \in local /\ Media \cap local # {}

Queued == {"captured", "finalized"} \cap capture # {}

\* (Mutant of Published: a directory that has been moved counts.)
Moved == {n \in Names : Exists(dest[n])}

Published == {n \in Names : "ready" \in dest[n]}

\* local_cache_has_durable_nas_copy.
Durable == Published # {} \/ "captured" \in capture

\* local_capture_cache_for
HasCache == {"cached", "rgb"} \subseteq local

\* final_destination_for: the base name, unless it is taken.
\* (Mutant of AlreadyPublished: the published copy is not recognised.)
NeverPublished == FALSE

AlreadyPublished == "ready" \in dest[0] /\ Manifest(dest[0]) = Manifest(capture)

Free == {n \in Names : ~Exists(dest[n])}
FirstFree == {n \in Free : \A k \in Free : n <= k}

-----------------------------------------------------------------------------
\* recover_publish_journal: from a moved directory to a published one

RecoverJournal ==
    /\ At("recover")
    /\ IF Exists(capture) THEN NextPhase
       ELSE IF "ready" \in dest[journal] \/ {"pending", "incomplete"} \subseteq dest[journal]
       THEN Goto("clean")
       ELSE NextPhase  \* an error: nothing to recover from
    /\ UNCHANGED <<local, capture, dest, journal, config, budget>>

Cleanup == <<"captured", "finalized", "incomplete">>

RemoveMarker ==
    /\ At("clean")
    /\ \E i \in DOMAIN Cleanup :
          /\ Cleanup[i] \in dest[journal]
          /\ \A k \in 1 .. i - 1 : Cleanup[k] \notin dest[journal]
          /\ dest' = [dest EXCEPT ![journal] = @ \ {Cleanup[i]}]
    /\ UNCHANGED <<local, capture, journal, proc, config, budget>>

\* (Mutant of Promote: the control markers are removed afterwards.)
PromoteEarly ==
    /\ At("clean")
    /\ dest' = [dest EXCEPT ![journal] = (@ \ {"pending"}) \cup {"ready"}]
    /\ Goto("unjournal")
    /\ UNCHANGED <<local, capture, journal, config, budget>>

Promote ==
    /\ At("clean")
    /\ {"captured", "finalized", "incomplete"} \cap dest[journal] = {}
    /\ dest' = [dest EXCEPT ![journal] = (@ \ {"pending"}) \cup {"ready"}]
    /\ Goto("unjournal")
    /\ UNCHANGED <<local, capture, journal, config, budget>>

RemoveJournal ==
    /\ At("unjournal")
    /\ journal' = NoJournal
    /\ IF In("queue") /\ HasCache THEN Goto("release") ELSE NextPhase
    /\ UNCHANGED <<local, capture, dest, config, budget>>

\* recover_pending_publications
RecoverPending ==
    /\ In("journal") /\ At("enter")
    /\ IF journal # NoJournal THEN Goto("recover") ELSE NextPhase
    /\ UNCHANGED <<local, capture, dest, journal, config, budget>>

-----------------------------------------------------------------------------
\* process_capture_one: finalize a captured segment and publish it

\* (Mutant of EnterQueue: only captures that are not finalized yet are taken up.)
EnterQueueUnfinalized ==
    /\ In("queue") /\ At("enter")
    /\ IF Queued /\ "finalized" \notin capture THEN Goto("finalize") ELSE NextPhase
    /\ UNCHANGED <<local, capture, dest, journal, config, budget>>

EnterQueue ==
    /\ In("queue") /\ At("enter")
    /\ IF ~Queued THEN NextPhase
       ELSE Goto(IF "finalized" \in capture THEN "publish" ELSE "finalize")
    /\ UNCHANGED <<local, capture, dest, journal, config, budget>>

\* finalize_captured_segment refuses a capture without index or without media.
Finalize ==
    /\ At("finalize")
    /\ IF "index" \in capture /\ Media \cap capture # {}
       THEN capture' = capture \cup {"finalized"} /\ Goto("publish")
       ELSE NextPhase /\ UNCHANGED capture
    /\ UNCHANGED <<local, dest, journal, config, budget>>

\* (Mutant of Publish: a journal that is already there is not replaced.)
PublishOldJournal ==
    /\ At("publish")
    /\ IF "finalized" \notin capture \/ (~AlreadyPublished /\ Free = {})
       THEN NextPhase /\ UNCHANGED journal
       ELSE IF AlreadyPublished THEN Goto("drop") /\ UNCHANGED journal
       ELSE /\ journal' \in IF journal = NoJournal THEN FirstFree ELSE {journal}
            /\ Goto("pending")
    /\ UNCHANGED <<local, capture, dest, config, budget>>

\* publish_finalized_capture.  The marker is asked for again because a retry
\* starts here.  (A journal found here names a capture that exists: no recovery.)
Publish ==
    /\ At("publish")
    /\ IF "finalized" \notin capture \/ (~AlreadyPublished /\ Free = {})
       THEN NextPhase /\ UNCHANGED journal
       ELSE IF AlreadyPublished THEN Goto("drop") /\ UNCHANGED journal
       ELSE journal' \in FirstFree /\ Goto("pending")
    /\ UNCHANGED <<local, capture, dest, config, budget>>

DropCapture ==
    /\ At("drop")
    /\ capture' = Absent
    /\ Goto("unjournal")
    /\ UNCHANGED <<local, dest, journal, config, budget>>

WritePending ==
    /\ At("pending")
    /\ capture' = capture \cup {"pending"}
    /\ Goto("incomplete")
    /\ UNCHANGED <<local, dest, journal, config, budget>>

WriteIncomplete ==
    /\ At("incomplete")
    /\ capture' = capture \cup {"incomplete"}
    /\ Goto("move")
    /\ UNCHANGED <<local, dest, journal, config, budget>>

MoveCapture ==
    /\ At("move")
    /\ dest' = [dest EXCEPT ![journal] = capture]
    /\ capture' = Absent
    /\ Goto("recover")
    /\ UNCHANGED <<local, journal, config, budget>>

-----------------------------------------------------------------------------
\* process_local_one: capture a staged segment

EnterStaging ==
    /\ In("staging") /\ At("enter")
    /\ IF Discovered THEN Goto("copy") ELSE NextPhase
    /\ UNCHANGED <<local, capture, dest, journal, config, budget>>

\* publish_capture_segment.  (Mutant: the copy is not verified.)
CopyUnverified ==
    /\ At("copy")
    /\ IF ~Exists(capture)
       THEN \E copied \in SUBSET Manifest(local) : capture' = {"dir", "captured"} \cup copied
       ELSE UNCHANGED capture
    /\ Goto("retain")
    /\ UNCHANGED <<local, dest, journal, config, budget>>

CopySegment ==
    /\ At("copy")
    /\ IF ~Exists(capture)
       THEN capture' = {"dir", "captured"} \cup Manifest(local) /\ Goto("retain")
       ELSE /\ UNCHANGED capture
            /\ IF "captured" \in capture /\ Manifest(capture) = Manifest(local)
               THEN Goto("retain")
               ELSE NextPhase  \* an error: identity collision
    /\ UNCHANGED <<local, dest, journal, config, budget>>

RetainCapture ==
    /\ At("retain")
    /\ IF RetainLocal THEN local' = local \cup {"cached"} /\ Goto("relief")
       ELSE IF DeleteAfterUpload THEN UNCHANGED local /\ Goto("remove")
       ELSE local' = local \cup {"uploaded"} /\ NextPhase
    /\ UNCHANGED <<capture, dest, journal, config, budget>>

-----------------------------------------------------------------------------
\* The local copy of a captured segment

\* enforce_local_cache_watermark, release_local_cache_under_pressure
Relieve ==
    /\ At("relief") \/ (In("watermark") /\ At("enter"))
    /\ \/ /\ DiskPressure /\ DeleteAfterUpload /\ "cached" \in local
          /\ Goto("release")
       \/ NextPhase
    /\ UNCHANGED <<local, capture, dest, journal, config, budget>>

\* reconcile_local_capture_caches
Reconcile ==
    /\ In("caches") /\ At("enter")
    /\ IF "cached" \in local /\ Published # {} THEN Goto("release") /\ UNCHANGED local
       ELSE /\ NextPhase
            /\ local' = IF Durable THEN local ELSE local \ {"cached"}
    /\ UNCHANGED <<capture, dest, journal, config, budget>>

\* A NAS that does not answer looks like a NAS without the copy.
MisjudgeCache ==
    /\ In("caches") /\ At("enter")
    /\ "cached" \in local
    /\ budget.faults > 0
    /\ budget' = [budget EXCEPT !.faults = @ - 1]
    /\ local' = local \ {"cached"}
    /\ NextPhase
    /\ UNCHANGED <<capture, dest, journal, config>>

\* release_local_cache
Release ==
    /\ At("release")
    /\ IF ~Durable THEN NextPhase ELSE Goto(IF DeleteAfterUpload THEN "remove" ELSE "mark")
    /\ UNCHANGED <<local, capture, dest, journal, config, budget>>

RemoveLocal ==
    /\ At("remove")
    /\ local' = Absent
    /\ NextPhase
    /\ UNCHANGED <<capture, dest, journal, config, budget>>

MarkUploaded ==
    /\ At("mark")
    /\ local' = IF "uploaded" \in local THEN local \ {"cached"} ELSE local \cup {"uploaded"}
    /\ IF "uploaded" \in local THEN NextPhase ELSE UNCHANGED proc
    /\ UNCHANGED <<capture, dest, journal, config, budget>>

-----------------------------------------------------------------------------
\* An operation on the NAS fails without effect, except that a deletion may have
\* deleted some entries.  run_with_transient_nas_retries
\* starts the operation anew, for a transient error and up to three times; then,
\* or for another error, the segment is left for a later round.
Retried == [at \in {"recover", "clean", "unjournal", "publish", "drop", "pending",
                    "incomplete", "move", "copy"} |->
              IF at = "copy" THEN "copy" ELSE IF In("journal") THEN "recover" ELSE "publish"]

NasFails ==
    /\ proc.at \in DOMAIN Retried \cup {"finalize", "release"}
    /\ budget.faults > 0
    /\ budget' = [budget EXCEPT !.faults = @ - 1]
    /\ \/ proc.at \in DOMAIN Retried /\ Goto(Retried[proc.at])
       \/ NextPhase
    /\ capture' \in IF At("drop") THEN Leftovers(capture) ELSE {capture}
    /\ UNCHANGED <<local, dest, journal, config>>

Crash ==
    /\ budget.crashes > 0
    /\ budget' = [budget EXCEPT !.crashes = @ - 1]
    /\ proc' = [phase |-> 1, at |-> "enter"]
    /\ capture' \in IF At("drop") THEN Leftovers(capture) ELSE {capture}
    /\ local' \in IF At("remove") THEN Leftovers(local) ELSE {local}
    /\ UNCHANGED <<dest, journal, config>>

-----------------------------------------------------------------------------
RunOnce ==
    \/ RecoverPending \/ RecoverJournal \/ RemoveMarker \/ Promote \/ RemoveJournal
    \/ EnterQueue \/ Finalize \/ Publish \/ DropCapture
    \/ WritePending \/ WriteIncomplete \/ MoveCapture
    \/ EnterStaging \/ CopySegment \/ RetainCapture
    \/ Relieve \/ Reconcile \/ Release \/ RemoveLocal \/ MarkUploaded

Next == RunOnce \/ MisjudgeCache \/ NasFails \/ Crash

Spec == Init /\ [][Next]_vars

\* The service manager starts a uploader that has died; the NAS answers in the end.
FairSpec == Spec /\ WF_vars(RunOnce)

-----------------------------------------------------------------------------
Steps == {"enter", "recover", "clean", "unjournal", "finalize", "publish", "drop",
          "pending", "incomplete", "move", "copy", "retain", "relief", "release",
          "remove", "mark"}

TypeOK ==
    /\ {local, capture} \subseteq SUBSET ({"dir"} \cup Files \cup Markers)
    /\ dest \in [Names -> SUBSET ({"dir"} \cup Files \cup Markers)]
    /\ journal \in Names \cup {NoJournal}
    /\ proc \in [phase : DOMAIN Round, at : Steps]
    /\ budget \in [crashes : Nat, faults : Nat]
    /\ proc.at \in {"recover", "clean", "pending", "incomplete", "move"} => journal # NoJournal
    /\ proc.at = "move" => ~Exists(dest[journal])

\* Whatever is deleted, copied or moved, and wherever it is interrupted: somewhere
\* there is a whole copy of the segment.
NoLoss == Whole(local) \/ Whole(capture) \/ \E n \in Names : Whole(dest[n])

\* There is a whole copy that some later round finds: staged, in the queue, moved
\* with a journal that can be completed, or published.
Findable ==
    \/ Whole(local) /\ "staged" \in local /\ "uploaded" \notin local
    \/ Whole(capture) /\ Queued
    \/ \E n \in Names : Whole(dest[n]) /\ "ready" \in dest[n]
    \/ journal # NoJournal /\ Whole(dest[journal]) /\ {"pending", "incomplete"} \subseteq dest[journal]

\* An uploader that keeps the local copy until the segment is published (it retains
\* local captures and its disk never fills) can find a whole copy at any time.
KeepsLocal == RetainLocal /\ ~DiskPressure

FindableIfKept == KeepsLocal => Findable

\* What is published is the whole segment.
ReadyIsWhole == \A n \in Published : Whole(dest[n])

\* ... unless the deletion of a directory was interrupted half way.
ReadyIsWholeOrTorn == ReadyIsWhole \/ TornDeletes

\* A published directory holds no control marker: no later recovery takes it up,
\* and its readers never see it change.
ReadyIsClean == \A n \in Published : dest[n] \cap (Markers \ {"ready"}) = {}

\* Together: what readers may take as ready is whole and will not change.
ReadyIsSound == ReadyIsClean /\ ReadyIsWholeOrTorn

\* A segment is published twice only if an earlier publication was left unfinished
\* (or the deletion of a directory was).
PublishedOnce ==
    \A m, n \in Published :
        m # n => TornDeletes \/ \E k \in Names : Exists(dest[k]) /\ "ready" \notin dest[k]

\* A staged segment whose local copy is kept is published in the end, however often
\* the uploader is killed on the way.
EventuallyPublished == [](KeepsLocal => <>(Published # {}))

\* No capture stays in the queue: each is published, or dropped as published
\* (what an interrupted deletion has left of one may stay).
CaptureDrains == <>[](Exists(capture) => TornDeletes)

\* Together: the uploader gets through with what it was given.
UploadsEnd == EventuallyPublished /\ CaptureDrains
=============================================================================
