----------------------------- MODULE PhotoCapture -----------------------------
(***************************************************************************)
(* A photo from its request to its answer.  A client puts a request file on the    *)
(* sender; the sender takes the next frame of the camera, sends it again and again   *)
(* until the receiver acknowledges it or the time is over, and writes a result file.  *)
(* The receiver stages the photo, with a marker, in a directory that appears by a     *)
(* rename, acknowledges it by UDP, and answers a repeated photo again; an uploader      *)
(* copies what is staged to the NAS.  (preview_control, camera_capture and             *)
(* ReliableSnapshotQueue of the sender; the photo capture worker of the receiver.)     *)
(***************************************************************************)
EXTENDS Naturals, Sequences, FiniteSets, SequencesExt

CONSTANTS
    Ids, Burst,        \* request ids; those that are one of a burst
    PendingMax,        \* kRgbSnapshotMaxPendingPerCamera
    QueueMax,          \* kRgbSnapshotQueueMaxItems
    PhotoQueueMax,     \* photo_capture.queue_max_items
    MaxSubmits, MaxFaults \* bounds

VARIABLES
    files,      \* the request files there are
    requests,   \* rgb_snapshot_requests: accepted, to be captured
    pending,    \* pending_rgb_snapshots: captured, not answered
    old,        \* pending for kRgbSnapshotRequestTimeout
    shot,       \* publish_rgb_snapshot_frame at work: the id, and whether it is pending yet
    jobs,       \* jobs_ of the queue: [id, old]
    cancelled,  \* cancelled_ of the queue
    hand,       \* the job of rgb_snapshot_sender_loop
    result,     \* what the result file of an id says
    waiting,    \* the ids whose client waits for a result
    wire, acks, \* photos and acknowledgements under way
    photoQueue, photoPending, completed, reserved, \* the receiver's memory
    stage,      \* how far stage_photo_capture is
    staged, nas, \* the photos on the receiver's disk and on the NAS
    submits, faults

sender == <<files, requests, pending, old, shot, jobs, cancelled, hand, result, waiting, submits>>
receiver == <<photoQueue, photoPending, completed, reserved, stage, staged, nas>>
vars == <<sender, wire, acks, receiver, faults>>

NoOne == "none"

Init ==
    /\ files = {} /\ requests = {} /\ pending = {} /\ old = {} /\ shot = <<>> /\ jobs = <<>> /\ cancelled = {}
    /\ hand = <<>> /\ result = [id \in Ids |-> NoOne] /\ waiting = {} /\ wire = {} /\ acks = {}
    /\ photoQueue = <<>> /\ photoPending = {} /\ completed = {} /\ reserved = {} /\ stage = NoOne
    /\ staged = {} /\ nas = {} /\ submits = 0 /\ faults = 0

Fault == faults < MaxFaults /\ faults' = faults + 1

\* A client asks for a photo, and asks again once it has an answer.
Submit(id) ==
    /\ submits < MaxSubmits /\ submits' = submits + 1 /\ id \notin files
    /\ files' = files \cup {id} /\ waiting' = waiting \cup {id}
    /\ UNCHANGED <<requests, pending, old, shot, jobs, cancelled, hand, result, wire, acks, receiver, faults>>

\* write_rgb_snapshot_result
Answer(id, r) == result' = [result EXCEPT ![id] = r] /\ waiting' = waiting \ {id}
NoAnswer == UNCHANGED <<result, waiting>>

\* ReliableSnapshotQueue::cancel: every job of a cancelled id goes, but the id with the first.
Cancel(id) ==
    LET at == {i \in DOMAIN jobs : jobs[i].id = id}
    IN IF at = {} THEN cancelled' = cancelled \cup {id} /\ UNCHANGED jobs
       ELSE jobs' = RemoveAt(jobs, CHOOSE i \in at : \A j \in at : i <= j) /\ cancelled' = cancelled \ {id}

\* process_rgb_snapshot_request_file; unusable: its times or its camera are not accepted.
IsDuplicate(id) == id \in pending \cup requests
Poll(id, unusable) ==
    /\ id \in files /\ files' = files \ {id}
    /\ CASE unusable -> Answer(id, "error") /\ UNCHANGED requests
         [] ~unusable /\ IsDuplicate(id) -> NoAnswer /\ UNCHANGED requests
         [] ~unusable /\ ~IsDuplicate(id) /\ Cardinality(requests) + Cardinality(pending) >= PendingMax ->
                Answer(id, "error") /\ UNCHANGED requests
         [] OTHER -> requests' = requests \cup {id} /\ NoAnswer
    /\ UNCHANGED <<pending, old, shot, jobs, cancelled, hand, submits, wire, acks, receiver, faults>>

\* publish_rgb_snapshot_frame takes a request whose time has come; a frame that is no
\* complete JPEG, or a camera that gives none (reject_next_rgb_snapshot_request), fails it.
FrameTakes(id) ==
    /\ shot = <<>> /\ id \in requests /\ requests' = requests \ {id}
    /\ \/ shot' = <<[id |-> id, pended |-> FALSE]>> /\ NoAnswer /\ UNCHANGED faults
       \/ Fault /\ Answer(id, "error") /\ UNCHANGED shot
    /\ UNCHANGED <<files, pending, old, jobs, cancelled, hand, submits, wire, acks, receiver>>
FramePends ==
    /\ shot # <<>> /\ ~shot[1].pended /\ shot' = [shot EXCEPT ![1].pended = TRUE]
    /\ pending' = pending \cup {shot[1].id}
    /\ UNCHANGED <<files, requests, old, jobs, cancelled, hand, result, waiting, submits, wire, acks, receiver, faults>>
FramePublishes ==
    /\ shot # <<>> /\ shot[1].pended /\ shot' = <<>>
    /\ LET id == shot[1].id
       IN IF Len(jobs) < QueueMax
          THEN /\ jobs' = Append(jobs, [id |-> id, old |-> FALSE]) /\ cancelled' = cancelled \ {id}
               /\ NoAnswer /\ UNCHANGED <<pending, old>>
          ELSE /\ pending' = pending \ {id} /\ old' = old \ {id} /\ Answer(id, "error")
               /\ UNCHANGED <<jobs, cancelled>>
    /\ UNCHANGED <<files, requests, hand, submits, wire, acks, receiver, faults>>

\* fail_pending_rgb_snapshot
FailPending(id) ==
    IF id \in pending THEN pending' = pending \ {id} /\ old' = old \ {id} /\ Answer(id, "error")
    ELSE UNCHANGED <<pending, old, result, waiting>>

\* rgb_snapshot_sender_loop: take a job that is due; one too old, or that cannot be
\* rotated, fails; send it, which may fail; put it back for a second later.
Pop(i) ==
    /\ hand = <<>> /\ i \in DOMAIN jobs /\ jobs' = RemoveAt(jobs, i)
    /\ LET id == jobs[i].id
       IN \/ jobs[i].old /\ FailPending(id) /\ UNCHANGED <<hand, wire, faults>>
          \/ ~jobs[i].old /\ Fault /\ FailPending(id) /\ UNCHANGED <<hand, wire>>
          \/ ~jobs[i].old /\ hand' = <<jobs[i]>> /\ wire' \in {wire, wire \cup {id}}
             /\ UNCHANGED <<pending, old, result, waiting, faults>>
    /\ UNCHANGED <<files, requests, shot, cancelled, submits, acks, receiver>>
Requeue ==
    /\ hand # <<>> /\ hand' = <<>>
    /\ LET id == hand[1].id
       IN IF id \in cancelled THEN cancelled' = cancelled \ {id} /\ FailPending(id) /\ UNCHANGED jobs
          ELSE IF Len(jobs) >= QueueMax THEN FailPending(id) /\ UNCHANGED <<jobs, cancelled>>
          ELSE jobs' = Append(jobs, hand[1]) /\ UNCHANGED <<cancelled, pending, old, result, waiting>>
    /\ UNCHANGED <<files, requests, shot, submits, wire, acks, receiver, faults>>

\* handle_receiver_control_message, rgb_snapshot_result; an acknowledgement is sent
\* three times: it may be lost, and come again.
GetAck(a) ==
    /\ a \in acks /\ acks' \in {acks, acks \ {a}}
    /\ IF a.id \in pending
       THEN /\ pending' = pending \ {a.id} /\ old' = old \ {a.id} /\ Cancel(a.id)
            /\ Answer(a.id, IF a.ok THEN "captured" ELSE "error")
       ELSE acks' # acks /\ UNCHANGED <<pending, old, jobs, cancelled, result, waiting>>
    /\ UNCHANGED <<files, requests, shot, hand, submits, wire, receiver, faults>>

\* kRgbSnapshotRequestTimeout passes: first since the capture, then since the job was queued.
TimePasses(id) ==
    /\ \/ id \in pending \ old /\ old' = old \cup {id} /\ UNCHANGED <<jobs, hand>>
       \/ /\ id \notin pending \ old /\ \E j \in Range(jobs \o hand) : j.id = id /\ ~j.old
          /\ jobs' = [i \in DOMAIN jobs |-> [jobs[i] EXCEPT !.old = @ \/ jobs[i].id = id]]
          /\ hand' = [i \in DOMAIN hand |-> [hand[i] EXCEPT !.old = @ \/ hand[i].id = id]]
          /\ UNCHANGED old
    /\ UNCHANGED <<files, requests, pending, shot, cancelled, result, waiting, submits, wire, acks, receiver, faults>>

\* expire_rgb_snapshot_requests
Expire(id) ==
    /\ id \in old /\ old' = old \ {id} /\ pending' = pending \ {id} /\ Cancel(id) /\ Answer(id, "timeout")
    /\ UNCHANGED <<files, requests, shot, hand, submits, wire, acks, receiver, faults>>

-----------------------------------------------------------------------------
\* send_rgb_snapshot_result
Ack(id, ok) == acks' = acks \cup {[id |-> id, ok |-> ok]}

\* enqueue_photo_capture
Receive(id) ==
    /\ id \in wire /\ wire' = wire \ {id}
    /\ CASE id \in completed -> Ack(id, TRUE) /\ UNCHANGED <<photoQueue, photoPending>>
         [] id \notin completed /\ id \in photoPending -> UNCHANGED <<acks, photoQueue, photoPending>>
         [] id \notin completed \cup photoPending /\ Len(photoQueue) >= PhotoQueueMax ->
                Ack(id, FALSE) /\ UNCHANGED <<photoQueue, photoPending>>
         [] OTHER -> /\ photoQueue' = Append(photoQueue, id) /\ photoPending' = photoPending \cup {id}
                     /\ UNCHANGED acks
    /\ UNCHANGED <<sender, completed, reserved, stage, staged, nas, faults>>

\* stage_photo_capture, at the head of the queue: it is known, it is on the disk from
\* before, it may not have its place in the burst again, or it gets a place and is written.
At == Head(photoQueue)
Begin ==
    /\ photoQueue # <<>> /\ stage = NoOne
    /\ stage' = IF At \in completed \cup staged THEN "done"
                ELSE IF At \in Burst \cap reserved THEN "failed" ELSE "reserved"
    /\ reserved' = IF stage' = "reserved" THEN reserved \cup {At} ELSE reserved
    /\ completed' = IF stage' = "done" THEN completed \cup {At} ELSE completed
    /\ UNCHANGED <<sender, wire, acks, photoQueue, photoPending, staged, nas, faults>>
\* The files are written and renamed together into their final place, then remembered.
\* (Mutant of Place: the photo is remembered before it has its final place.)
PlaceRemembers ==
    /\ stage = "reserved" /\ stage' \in {"placed", "failed"} /\ completed' = completed \cup {At}
    /\ IF stage' = "placed" THEN staged' = staged \cup {At} /\ UNCHANGED faults ELSE Fault /\ UNCHANGED staged
    /\ UNCHANGED <<sender, wire, acks, photoQueue, photoPending, reserved, nas>>
Place ==
    /\ stage = "reserved" /\ stage' \in {"placed", "failed"}
    /\ IF stage' = "placed" THEN staged' = staged \cup {At} /\ UNCHANGED faults ELSE Fault /\ UNCHANGED staged
    /\ UNCHANGED <<sender, wire, acks, photoQueue, photoPending, completed, reserved, nas>>
Remember ==
    /\ stage = "placed" /\ stage' = "done" /\ completed' = completed \cup {At}
    /\ UNCHANGED <<sender, wire, acks, photoQueue, photoPending, reserved, staged, nas, faults>>
\* photo_capture_worker_loop after staging; the head stands for the job in its hands too.
Report ==
    /\ stage \in {"done", "failed"} /\ stage' = NoOne /\ Ack(At, stage = "done")
    /\ photoQueue' = Tail(photoQueue) /\ photoPending' = photoPending \ {At}
    /\ UNCHANGED <<sender, wire, completed, reserved, staged, nas, faults>>

\* publish_job of the photo uploader copies a photo and then removes the task.
Upload(id) ==
    /\ id \in staged
    /\ IF id \in nas THEN staged' = staged \ {id} /\ UNCHANGED nas ELSE nas' = nas \cup {id} /\ UNCHANGED staged
    /\ UNCHANGED <<sender, wire, acks, photoQueue, photoPending, completed, reserved, stage, faults>>

\* The receiver starts again with an empty memory, and with what is on its disk.
ReceiverRestarts ==
    /\ Fault /\ photoQueue' = <<>> /\ photoPending' = {} /\ completed' = {} /\ reserved' = {} /\ stage' = NoOne
    /\ wire' = {} /\ UNCHANGED <<sender, acks, staged, nas>>

Work == FramePends \/ FramePublishes \/ Requeue \/ (\E i \in DOMAIN jobs : Pop(i))
Next ==
    \/ Work \/ Begin \/ Place \/ Remember \/ Report \/ ReceiverRestarts
    \/ \E id \in Ids : \/ Submit(id) \/ FrameTakes(id) \/ TimePasses(id) \/ Expire(id) \/ Receive(id) \/ Upload(id)
                       \/ \E unusable \in BOOLEAN : Poll(id, unusable)
    \/ \E a \in acks : GetAck(a)

\* The camera goes on giving frames, and the sender's loops turn; nothing of the receiver is assumed.
Fairness ==
    /\ WF_vars(Work)
    /\ \A id \in Ids : /\ WF_vars(Poll(id, FALSE)) /\ WF_vars(FrameTakes(id)) /\ WF_vars(TimePasses(id))
                       /\ WF_vars(Expire(id))
Spec == Init /\ [][Next]_vars /\ Fairness

-----------------------------------------------------------------------------
\* A result that says "captured" is about a photo that is safe on the receiver's disk
\* or on the NAS, whatever failed or restarted since; and the request of a client that
\* waits is always in somebody's hands.
PhotosStand ==
    /\ \A id \in Ids : result[id] = "captured" => id \in staged \cup nas
    /\ waiting \subseteq files \cup requests \cup pending \cup {shot[i].id : i \in DOMAIN shot}

Idle == jobs \o hand = <<>>
Waits(id) == id \in waiting

\* Every client gets a result in the end, even when the receiver says nothing, and the
\* sender stops sending.
PhotosAnswered == (\A id \in Ids : Waits(id) ~> ~Waits(id)) /\ <>[]Idle
=============================================================================
