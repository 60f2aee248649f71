# Verification of wireless_video_delivery

TLA+ specifications of the wireless RGB-D recording system in this repository: sender
devices that capture, encode and send camera streams, a receiver that records them in
segments, and the services that move finished segments to a NAS. TLC checks the models on
small instances; TLAPS checks the proofs, for every value of the constants.

## 1. The system

### Components, their state and their operations

| Component | Source | State | Operations |
| --- | --- | --- | --- |
| Sender media path | `01_sender_linux/src/detail/camera_capture.inl`, `runtime.inl`, `src/transport.cpp`, `rgb_transport_recovery.hpp` | a queue slot per stream (`LatestMediaQueue`), the job in hand and its retry, the keyframe guard, the TCP connection with a half-written packet (`pending_media_`) | encode and publish, pop, send, yield, retry, reconnect, drain at shutdown |
| Sender camera runtime | `camera_capture.inl`, `camera_support.inl`, `hotplug_and_run.inl`, `preview_control.inl` | camera handles, back-offs, warm-up, the scan's claims, requested and scheduled keyframes | open, lose, reconnect, retire, scan, report, ask for a keyframe |
| Sender depth compression | `runtime.inl`, `depth_compression.inl` | a slot of frames per camera, a pool of workers | publish, pop, compress, complete, drain; quantise, pack, code |
| Sender adaptive exposure | `adaptive_exposure_controller.cpp`, `camera_support.inl` | controls, metering window, pending direction, recovery, frames to discard | meter, decide, apply, wait until frames show it |
| Sender photos | `preview_control.inl`, `camera_capture.inl`, `runtime.inl` | request files, pending captures, the resend queue | request, cancel, capture, resend, acknowledge, expire |
| Sender target, discovery, clock | `receiver_target.cpp`, `receiver_discovery_client.cpp`, `clock_sync_client.cpp` | current receiver and generation; samples, offset and quality | collect answers, keep, move or switch; probe, filter, restart |
| Receiver recording | `02_receiver_linux/src/detail/receiver_app.inl` | `cameras_` with `recording_*`, `record_*` fields, `recording_all_*`, record queues with their bytes, close tasks | start/stop all, sender, camera; enqueue; write; finalize; drain the tail; shut down |
| Segment writer and finalizers | `recording.inl`, `receiver_app.inl` | open files, held-back packets, slices, `segment_finalize_*` | start, write, rotate, hold back and replay, close, hand to a finalizer |
| Segment recovery and publication | `receiver_app.inl`, `recording.inl` | hidden and published directories, markers | create, seal, mark, rename, recover |
| Media ingress | `receiver_app.inl`, `stream_state.inl` | the session that owns each stream, RGB waiting for an IDR, UDP assemblies | accept, claim, shut, drop, reassemble |
| Photos at the receiver | `receiver_app.inl` | queue, reserved names, completed ids | receive, stage, acknowledge, answer a duplicate |
| Clock manager, discovery server | `clock_sync_manager.cpp`, `receiver_discovery_server.cpp` | one timeline of clock models per sender | answer, update, map |
| Depth decoding | `media_decode.inl` | executor queue, helpers of a call | submit, take, decode, wait |
| Recording uploader | `05_tools/recording_uploader.py` | marker files in staging, capture queue and final directories; publish journals | capture, finalize, publish, recover, release |
| Audio archive, photo uploader, NAS mount, beacon | `05_tools/*.py` | RTP slots, jobs, mounts | gap repair, seal, upload, mount |
| Web monitor, buttons, voice photo | `09_web_monitor`, `12_apps` | none or little: clients of the admin API | proxy, start, stop |
| Installers, provisioning, export, analysis | `05_tools` | none | offline scripts |

### How they interact

A camera thread encodes a frame and publishes it in its slot (depth goes through a compression
slot first); the thread of the slot (`media_sender_loop`) writes it to the receiver's media port.
A receiver thread per connection reads packets, claims the stream for its session, maps time
stamps through the clock timeline, and, when the camera records, puts a job into the camera's
record queue. A worker per camera writes the jobs into the current `SegmentWriter` and cuts
segments at the slices of the recording window. The admin API starts and stops recordings under
`mutex_`; a stop leaves a close task behind that drains the tail, detaches the writer and
starts what is pending. Detached writers go to the finalizers. A closed segment gets a marker:
without staging the receiver renames it into the published root; with staging the uploader takes
over at `recording_staged.json`, copies it to the NAS and publishes it with a
`recording_ready.json`, which is all its readers look at.

Beside the media, a sender finds its receiver by broadcast, measures the offset of its clock by
UDP probes and reports it, takes keyframe requests, and sends photos until they are acknowledged.

### What is hard

Two threads that share a slot, a guard and a connection whose writes stop half way; six
requests that interleave with media threads, workers, a maintenance thread and close tasks
that release their lock between steps; one condition variable for waiters of different kinds;
connections that supersede each other while packets of both are in hand; writes that fail;
datagrams that are lost, late or doubled; devices that are pulled while a scan runs; a service
that may die between any two operations on two file systems, one of them a network mount. The
list of places is `hazards` in `PROJECT.json`, each at its line.

### What makes each component correct

* Media path: a connection carries whole packets; frames go out in order, at most once, and
  every loss is counted; what is sent can be decoded; nothing is stuck; shutdown ends.
* Recording: no packet is recorded without a recording somebody asked for, no segment is
  left open or mixes two recordings, every stop ends, every pending start happens.
* Queues and slots: bytes, slots and helpers are counted exactly, and whoever waits is woken.
* Segments: a packet is in the segment of its slice and profile, once; the index of a published
  segment names the frames of its media; a marker stands only on a whole directory.
* Uploader: no segment is lost, what is published is whole, clean and published once, and
  everything is published in the end.
* Ingress: the newest session owns the stream; RGB starts at an IDR and has no gap; an assembled
  packet is what was sent. Clock: an offset was measured against the receiver it is used with; an
  assigned time never changes and never goes back.
* Control: a device belongs to one camera and comes back when it is plugged in; a keyframe or a
  photo that was asked for comes, and is not made up; a sender finds the receiver that is left and
  leaves none that is alive; exposure is adjusted on frames that show the last adjustment, where they report it.

## 2. Modules

| Module | Models |
| --- | --- |
| `LatestMediaQueue` | `publish` of `LatestMediaQueue`, as operators on a slot |
| `MediaStream` | abstract: a FIFO that may lose packets but never reorders or repeats them |
| `SenderMediaPath` | one slot of a sender, its two threads and its connection; refines `MediaStream` |
| `SenderMediaPathProofs` | types, resumption, framing, order, losses, decodability and the refinement of `MediaStream`, proved |
| `MediaPathMC` | three instances of `SenderMediaPath` for TLC |
| `DepthPool` | the workers that compress depth |
| `DepthCodec` | what the compression modes write and what the receiver makes of it |
| `ParallelDecode` | `bounded_parallel_for` and its executor |
| `DepthParts`, `DepthProofs` | the pool and the decoding side by side; order and completeness of `DepthPool`, frames whole on return of `ParallelDecode`, what comes back from each codec of `DepthCodec`, proved |
| `AdaptiveExposure` | the exposure controllers and the loop around them |
| `CameraRuntime` | cameras that start, get lost, reconnect, retire; the hot plug scan |
| `ScheduledKeyframe` | keyframes on demand at one camera |
| `PhotoCapture` | a photo from the request to the NAS, sender and receiver |
| `ReceiverDiscovery` | which receiver a sender talks to |
| `SenderParts`, `SenderProofs` | the five modules before this one side by side; their safety, proved |
| `ClockSyncClient` | the sender's measurement of its clock |
| `ClockTimeline` | the receiver's map of a sender's clock |
| `ClockParts`, `ClockProofs` | both clocks side by side; the measurement belongs to the receiver last probed, the map is immutable and monotonic, proved |
| `MediaIngress` | connections of one route up to the record queue |
| `UdpReassembly` | packets put together from fragments |
| `RecordingSessions`, `RecordingSessionsProofs` | recording state of the receiver; types, owners of inputs and segments, one session per segment without faults, proved |
| `RecordingMC` | two instances of `RecordingSessions` for TLC |
| `RecordBackpressure` | the bytes of the record queues |
| `IngressParts`, `IngressProofs` | the queues, connections and datagrams side by side; bytes of `RecordBackpressure`, order and continuity of `MediaIngress`, assemblies of `UdpReassembly`, proved |
| `SegmentTimeline` | which segment a packet is written to |
| `SegmentMedia` | what a segment's media and tables hold |
| `SegmentClose` | the directory of a segment, from start to publication and recovery |
| `SegmentFinalizers` | finalizer slots, workers and the shutdown of the receiver |
| `SegmentParts`, `SegmentProofs` | a segment's finalizers, directory and slices side by side; the safety of `SegmentFinalizers`, `SegmentClose` and `SegmentTimeline`, and the index of `SegmentMedia`, proved |
| `RecordingUploader`, `RecordingUploaderProofs` | one segment on its way to the NAS; no loss, clean, whole and single publications, proved |
| `DataPartsMC`, `WorkPartsMC` | suites: one of many components, chosen in the initial state |

`RecordingSessions`, `SegmentTimeline`, `SegmentFinalizers`, `RecordBackpressure` and
`SegmentMedia` look at the same record worker from five sides: which recording a packet belongs
to, which slice, who closes what, whose bytes are counted, and what ends up in the files. They
meet at `write_record_job` and `close_segment_task`, and each leaves the others' data out.

### SenderMediaPath

Variables are the fields named in the module. An action is one critical section.

* Camera thread: `PublishFrame` (`publish_rgb_encoded_units` with `publish_media_job`),
  `RecordOverwrite` (the part of `publish_media_job` after `publish` has returned, a step of
  its own because the other thread may run in between), `DropRegressedFrame` and
  `ResetLaggingEncoder` (the two checks on encoder output), `JoinProducers` and `StopPath`
  (the shutdown of `run_sender`).
* Sender thread, in the order of the loop: `CheckRunning`, `TakeRetryJob` or `PopQueue`,
  `IdleCheck`, `DecideSend`, then one of the outcomes of `Transport::send_media`
  (`SendCompletes`, `SendYields`, `SendBreaks`, `ConnectFails`, `DropBeforeWrite`,
  `SendInterrupted`), then `FinishJob`, `RetainJob` or `FailJob`.
* Environment: `TargetChanges`, `PeerCloses`, `DrainDeadlinePasses`.

A packet is an id, a keyframe flag and a size in chunks; a chunk is what one `sendmsg` takes.
`wire` is what the current connection has taken, `accepted` the packets the kernel took
whole. Left out: the UDP and RTP transports and a disabled transport, the exception path of
`send_media`, the contents of frames. Timers (10 s drain, 60 s stall, 100 ms slice) are
nondeterministic; 30 drops before a reconnect are `DropsBeforeReconnect`. A publish that
evicts several frames by bytes counts one drop, as the code does. A lag reset drops what is
left of the encoder's output before it has ids.

### RecordingSessions

`ctl` is `recording_all_` with its flag and session, `cam[c]` a `CameraState`, `ingress[c]`
the job a media thread has built under `mutex_` and not yet enqueued, `worker[c]` the place
of `record_worker_loop`, `segment[c]` the writer, `tasks[c]` the running
`close_segment_task`s. `StartAll`, `StartSender`, `StartCamera`, `StopAll`, `StopSender`,
`StopCamera` are the six requests; `Activated` is `activate_pending_recordings_locked`.
`ReceivePacket` / `EnqueueJob` are the two halves of `handle_media_packet`. The worker is
`TakeJob` to `StopOnFault`; `FinalizeIdle` and `FinalizeFailed` are the maintenance thread;
`DrainTail`, `AwaitQueue`, `DetachWriter`, `FinishClose` are the steps of a close task.

Capture times are left out: a packet belongs to the session of its window, the end of a tail and a
rotation are nondeterministic. The storage gate is nondeterministic. Every camera has RGB and depth.
A queue holds one job. In other modules: superseded media sessions and RGB waiting for an IDR at
ingress (`MediaIngress`), the finalizer's slots and the shutdown (`SegmentFinalizers`), capture
times and rotation (`SegmentTimeline`), the byte limits of the queues (`RecordBackpressure`). In
none: the purge of cameras, an exception inside a close task (receiver_app.inl:2013). The fallback
of `handle_media_packet` for a recording without a start time (4678) is left out because it is
unreachable: `InputHasOwner` (in `NothingOrphaned`) says that an open input has a window.

### RecordingUploader

A directory is the set of its entries. `local`, `capture`, `dest[n]` are the staging
directory, the capture queue entry and the final names (`<name>`, then
`<name>_recovered_001` and following); `journal` is the destination named by the publish
journal. `proc` walks through `run_once`: journals, caches, queue, caches, staging, watermark,
queue, caches. `config` holds the two options of the configuration, whether the staging disk may
be full, and whether a deletion may be interrupted half way; it never changes. An action is one
operation on a file system. `Crash` may come between any two; `NasFails` makes an operation on
the NAS fail without effect, with the retry of `run_with_transient_nas_retries` or without;
`MisjudgeCache` is the check that takes a NAS error for a missing copy. A marker write (temporary
file and rename) and the copy of a segment (temporary directory and rename) are one operation
each; so is the deletion of a directory, but one that a crash or an error interrupts leaves any
part of the directory (`Leftovers`). Machine crashes that lose unsynced writes, the incremental
mirror, bandwidth limits, the remux to a conventional MP4 (production publishes fragmented MP4 as
it is) and several segments in competition for one name are left out.

### SegmentTimeline

A packet has a stream, a small capture time, a profile and an IDR flag; `segments` are the
segments with what was written to them, `held` the prestart depth buffer, `worker` the packet in
hand. `WriteRgb` and `WriteDepth` are the two branches of `write_record_job`: rotate at once when
the profile changed, rotate at the first IDR past the slice if a finalizer is free, write late
into the old segment otherwise (`Deferrable`), hold depth that precedes the first IDR of its
slice. `ReplayDepth` is the loop behind it. A failed write closes the input and keeps the segment.
Camera clocks that jump and RGB that is switched off in the configuration are inputs. A camera
with depth only never rotates by time (`StartsSlice` asks for RGB), as in the code.

### SegmentMedia

A payload is the sequence of its NAL units. `rgb` holds what waits until the stream can be decoded
and its rate is known, `pipe` and `media` what ffmpeg was given and what reached the container,
`rows` the two tables, `final` what `close()` makes of them (`Merged`). `WriteRgbPacket` splits a
payload into access units, drops what precedes the first decodable one, and flushes; `DepthInto`
opens a further part when its pipe breaks. `Close` writes what is still held back; a write that throws
there (`k` of the packets were written) leaves the depth that waits unwritten. Depth that was held
back is written in one go, which may fail (`DepthFails`, `DepthClosed`): no part opens, and the frames
stay held back beyond the limit; the part breaks and a further one takes the rest (`Continued`); or
that breaks too, and the next flush writes everything again (`Abandoned`). A flush meets one such
failure at most, and only when the room for faults is left. Loops are recursive
functions of the rounds they have done (`Scan`, `Ends`, `FlushFirst`, `Merged`). Left out:
container formats and their repair, PTS arithmetic (a non-increasing PTS is a write that throws), values in the metadata.

### SegmentClose

A directory is which of its files exist and in which state. The steps of `SegmentWriter::start`
(`LookHidden`, `LookPublished`, `Create`, `OpenFiles`) and of `close()` (`MergeFrames`,
`FinalizeMedia`, `PublishFrames`, `AwaitAudio`, `CloseMeta`, `WriteMarker`, `PublishDirect`) are
one operation on the file system each; each may fail, and the receiver may die after any. Some failures
end the start or the close (`Throw`), others only warn and the step after it follows: the task's manifest
(`OpenFiles`), the request to the audio service, the merge, and `AwaitAudio`. When that one
fails, the segment goes on to its marker without an audio marker; `warned` remembers
it, and `SegmentsKeptWhole` asks for the audio marker only of a directory whose wait did not fail.
`Restart` and `Recover` are `recover_direct_nas_segments`. `SealAudio` is the audio service, external.

### SegmentFinalizers

Threads that wait on `segment_finalize_cv_` are members of `asleep`; a notification takes one or
all of them out, and a thread that wakes evaluates its own predicate. Record workers rotate
(`RotateTimed` without waiting for a slot, `RotateProfile` with), close tasks detach and hand over
(`Detach`, `ReserveSlot`, `EnqueueReserved`), finalizers take the first segment whose camera no
other finalizer works for, and the thread of `stop()` goes through its phases. Liveness of the
finalizers (`FinalizersFinish`) is stated for behaviours in which no thread is left waiting for a
slot and no storage failure falls into the shutdown: the first is finding 7, the second leaves a
close task that `stop()` did not collect (`LateFailure`) waiting for a slot that nobody frees.

### RecordBackpressure

`bytes`, `total` and `prestartTotal` are the counters of the code, checked against the queues they
stand for. `Enqueue` is blocked as `enqueue_record_job` is: by its camera's limit unless the queue
is empty, and by the total. A failed write discards the queue and the buffer.

### MediaIngress and UdpReassembly

`MediaIngress` has a session and a thread per connection: `ReadAndClaim` takes a packet and the
route, `ShutVictim` shuts the socket of the session before, by its descriptor number and after the
lock has been released (that number may have been used again, which costs a reconnect and no order),
`Handle` drops what is stale or waits for an IDR, `Enqueue` is `enqueue_record_job` with its own
look at the generation. The sender's side is what `SenderMediaPath` guarantees. `UdpReassembly`
keeps the assemblies by key, each with the `turn` of its last datagram, by which the oldest go, and
its age; `TimePasses` expires those without progress. A packet is what the headers of its fragments
say: two of one endpoint with the same number, length and count of fragments are one packet here, as
the receiver cannot tell them apart. An assembly that is begun again with a larger size does not
reserve its bytes again, so the limit may be exceeded by one packet, which the property allows.

### ClockSyncClient and ClockTimeline

Times are small integers. The client's sockets, time-outs, window of samples, filter, blending and
restart on a new target are as in the code, and samples that sort alike may come in either order;
answers are lost, late, doubled and come from another receiver. `ClockTimeline` has the segments of
a timeline with their linear maps in integer arithmetic, rounded down as the code's conversion
rounds; `Report` is `update_from_sender_report`, `Map` a frame. `drift_ppm` is estimated and only
reported: left out.

### ReceiverDiscovery

Time is counted in cycles. `Collect` is one request with the answers that were not lost, `Decide`
what `receiver_discovery_client` does with them; `ExchangeBegins` and `MarkSuccess` are a clock
exchange, which started for one target and may end under another: the target's generation (`exchange` is
"current" or "old") tells, and one that began under an earlier target does not count.

### CameraRuntime

Devices are numbers, slots the cameras of one run of the process. Workers start, lose and
reconnect; the main loop scans in the order of its turns (`ScanBegins`, `ScanOne`, `ScanEnds`),
reports are built and sent in two steps. `GuardStops` and `Restart` are the guards that give the
process up to its watchdog, and systemd. Timers are nondeterministic, the V4L2 loop is left out.

### ScheduledKeyframe and PhotoCapture

`ScheduledKeyframe` merges requests as `request_rgb_keyframe` does (`Merged`), asks the encoder with
the first frame that is due, and again after a time; an encoder that loses the event or makes an IDR
of its own is external. Of two scheduled requests the earlier wins; an immediate one makes a
scheduled one immediate unless only the preview asks, which leaves it. `PhotoCapture` follows a
request through files, captures, the resend queue, UDP, the receiver's queue and stage to the NAS,
with the process of either side failing in between. A cancel removes the first job of an id, as the
code does.

### DepthPool, DepthCodec, ParallelDecode, AdaptiveExposure

`DepthPool` has the slots with `busy`, workers that take a slot's next frame in the code's rotation, and
the drain with its deadline. `DepthCodec` is the arithmetic of quantisation, packing and delta
coding over small words, with zlib and LZ4 external (they return what they were given); its encoders
and decoders are recursive functions of the round, as the loops in the code.
`ParallelDecode` has the caller's mutex and condition variable as `lock` and `asleep`, and the
counters of the code. `AdaptiveExposure` keeps luma by class and the step sizes as any step
within the limits (eight times the gain step when highlights are protected); decisions, reversal filter,
dark run, limit and recovery, application, failed metering and failed writes are as in the code.
A device may or may not report its controls with the frames (`reported`, of which
`MetadataAppears` is the first time). While it does not, the wait is over with the next frame that is
metered, as in `maybe_update_adaptive_exposure`, and nothing but the frames that are discarded separates an
adjustment from the one before: `AdjustsOnEvidence` then says only what it does of reversals and
dark samples. That its frames show the last adjustment is claimed of devices that report.

## 3. Runs

| Run | Module | Shows |
| --- | --- | --- |
| `media_path` | MediaPathMC | RGB with and without a recording buffer, and depth with an overflowing slot: typed, framed, resumed, in order, counted, decodable, overwrites guarded; refines `MediaStream`; nothing stuck on a link that takes packets; shutdown ends whatever the link does |
| `direct_undecodable` | SenderMediaPath | finding 1 |
| `overflow_unguarded` | SenderMediaPath | finding 2 |
| `recording` | RecordingMC | two cameras without failures, one camera with: ownership, one session per segment, start-all, storage failure ends start-all, stops end, pending starts happen |
| `rec_promoted_mix` | RecordingSessions | finding 3 |
| `rec_start_forgotten` | RecordingSessions | finding 4 |
| `up_all` | RecordingUploader | eight configurations with two crashes and two NAS failures: nothing lost, published whole, clean and once, published in the end |
| `up_stranded` | RecordingUploader | finding 5 |
| `up_torn` | RecordingUploader | finding 6 |
| `data_parts` | DataPartsMC | the safety of seventeen components, see below |
| `work_parts` | WorkPartsMC | the liveness of nine instances of components that owe an answer, see below |
| `finalize_lost_wakeup` | SegmentFinalizers | finding 7 |

### The suites

Many components are small and independent. A suite has a variable `part` that chooses, in the
initial state, whose behaviour this is.

`data_parts` checks what the components promise at every state and step. The modules
`ClockParts`, `IngressParts`, `DepthParts`, `SegmentParts` and `SenderParts` declare the constants
and variables of a few components each, under names no other component has, instantiate the
components with them and name their promises (`BytesAccounted == Queues!BytesAccounted`).
`DataPartsMC` extends all five, adds the media tables and the depth codec, and lets one component
take steps while the others rest in an initial state of theirs. The proofs are about the same
modules, so each theorem is about the very property that the run checks:

* `ClockParts`: `MappingStands`, `OffsetIsMeasured`. `IngressParts`: `BytesAccounted`,
  `IngressInOrder`, `ReassemblyAccounted`. `DepthParts`: `DepthInOrder`, `FramesWhole`.
  `SegmentParts`: `SegmentsAccounted`, `SegmentsKeptWhole`, `SegmentsWellCut`.
* `SenderParts`: `AdjustsOnEvidence` (exposure), `LeavesSilentOnly` (discovery, an action
  property), `PhotosStand`, `KeyframesOnTime`, `OneCameraPerDevice` (no device opened for two
  cameras, and hot-plugged ones never over the limit).
* `DataPartsMC`: `IndexMatchesMedia` (media and tables), `DepthRestored` (codec).

`work_parts` checks what must get done. Its instances share the variables `v1`, `v2`, ...:
`part = "finalizers" /\ Finalizers!Init` and so on, which keeps the formulas of fairness few.

* `WorkGetsDone` is the liveness of six components in one formula: `Due(n) ~> Done(n)` for the
  things numbered 0, 1, 2 in each (a shutdown and two segments; two blocked media threads; two
  directories; a decode call; a photo; two keyframes). `SenderSettles` is the liveness of
  discovery, cameras and photos. One formula costs TLC one liveness graph instead of one each.

The fairness of `work_parts` is, weak for weak, the fairness the components' own `Spec`s state, put
together by position; a behaviour belongs to one component, so each conjunct speaks of that
component's action only. `data_parts` needs no fairness.

Where several properties of a module say one thing together, the run checks their conjunction:
`RetriesResume` (`PendingIsHeld`, `WireWellFramed`), `PathLives` (`NothingStuck` on the reliable
path, `DrainEnds`), `NothingOrphaned` (`InputHasOwner`, `WriterHasOwner`), `RequestsAnswered`
(`RequestedRecords` without failures, `StorageFailureStopsAll`, `StopEnds`), `ReadyIsSound`
(`ReadyIsClean`, `ReadyIsWholeOrTorn`) and `UploadsEnd` (`EventuallyPublished`, `CaptureDrains`).

### Bounds

Media path: 4 frames and 2 chunks (1 and 3 for depth, in a slot of 3) reach a half-written packet
with a full slot behind it, an overwrite during a retry, an IDR on either side of a loss, and a
packet that pushes out two at once, for which the counters count one (`LossesCounted` says between
what limits they are right). Recording: 3 packets are one for an old recording, one for its tail and
one for the new one; 3 or 4 requests are start, stop, start with one more of another kind; two
cameras are one that is detaching and one that is not. Uploader: two crashes and two failures
interrupt a publication, then its recovery, then the publication of the second copy; `MaxRecovered`
= 4 is the number of interruptions, so a free name is never missing. In the suites (the numbers are
in `data_parts.cfg`, and in `WorkPartsMC` beside each instance):

* timeline: two slices and a time past both; 3 packets are two of one stream with one of the other
  between; room for two held-back frames. Media: 4 packets of five kinds of payload (parameter sets
  with or without a picture, twice, or none), two broken pipes or failing writes.
* clock client: two receivers 9 apart, a clock set once by 3, three probes, two targets, a window of
  three samples. Clock map: stamps up to 5, two offsets, two segments kept, so that one is dropped while
  it is in use.
* ingress: three connections on three descriptors, three frames. UDP: four datagrams of four
  packets, two of which share a key, two assemblies, five bytes.
* exposure: two exposures, two gains, windows of two samples, devices that report, do not, or begin
  to. Depth pool: two cameras, the second
  plugged in later, two workers, three frames of three sizes, one of them too large. Depth
  codec: frames of 1 to 3 samples of 8 values, all twelve codecs, chunks of two samples.
* cameras: a configured and a further camera, three slots, two active, one fault; for liveness one
  device with two faults. Discovery: two receivers at two or three addresses, two changes.
* finalizers: two cameras, two workers, two slots, two segments each, one storage failure. Queues:
  two cameras, four packets of three sizes, one above the limit of a camera. Close: two segments
  with the same name, one crash, one failed operation. Decode: two callers, one worker, two
  chunks, room for one task. Photos: one id in a burst, asked for twice, one fault. Keyframes: two
  requests, one lost event, two offsets.

Deadlock is checked for the uploader, which runs for ever; the other runs end when their frames,
packets and requests are used up (CHECK_DEADLOCK FALSE), which is a stop of the bounded system and
not of the program.

### Fairness

`SenderMediaPath`: weak fairness of the sender loop, of the camera thread's second half, of
shutdown's last step and of the deadline, which are threads and a clock that nothing blocks for
ever; `LiveSpec` adds strong fairness of `SendCompletes`, that is, a link that takes a whole packet
again and again whenever it is tried. `RecordingSessions`: weak fairness of the media thread's
second half, the worker, close tasks and `FinalizeFailed` (threads and a periodic maintenance
loop); no request and no packet is ever owed. `RecordingUploader`: weak fairness of the process:
systemd restarts it (`Restart=on-failure`), and the NAS is mounted again in the end. In the other
modules: weak fairness of each thread's next step, of time (a deadline that is reached, a frame
that comes) and of the restart of a process; strong fairness in one place, `Collect(Up)` of
`ReceiverDiscovery`: answers are not lost for ever. No fairness is assumed of requests, devices,
faults, crashes, or of a lock being handed to a particular waiter.

## 4. Findings

1. `direct_undecodable`: after a lost frame, an IDR that was already queued before the loss
   lifts the keyframe guard, and P frames without their reference are sent.
2. `overflow_unguarded`: an IDR that overwrites older frames does not arm the guard, although
   P frames whose reference was evicted are still queued in front of it.
3. `rec_promoted_mix`: a camera whose input a failed write has closed, promoted by start-all,
   gets the new session while its old segment is open; the segment mixes two recordings.
4. `rec_start_forgotten`: a start that waits for the close task of a storage failure is never
   activated.
5. `up_stranded`: dying between the removal of `.gwv3_publish_incomplete.json` and the rename of
   the ready marker leaves a directory that no recovery accepts; without a local copy the
   segment is never published.
6. `up_torn`: dying while the local copy of a published segment is deleted makes the next run
   publish what is left of it as a ready segment.
7. `finalize_lost_wakeup`: `enqueue_reserved_segment_finalize` (receiver_app.inl:1517) wakes one
   waiter of a condition variable that finalizers share with threads waiting for a slot; when one
   of those is woken it sleeps again, and the segment waits in the queue with every finalizer
   asleep (field-delivery-solution.md:193 promises that every camera finishes after a stop).

Behaviour noticed while modelling, which no document or comment contradicts, and which the models
follow:

* A camera with depth only is never rotated by time.
* Depth that is pending is written twice when its flush fails twice.
* An RGB frame whose PTS does not increase makes the write throw, which pauses the camera's input.
* A report built during a change of target and back may carry the offset of the receiver between.
* The socket of a superseded connection is shut after the lock is released; the descriptor may by
  then be another connection's, which reconnects.
* A photo request that no frame ever takes does not expire at the sender's camera.
* A photo of a burst that failed to be staged is answered as a duplicate when it is sent again.
* A photo may reach the NAS twice when the receiver restarts before it has acknowledged it.
* A helper of a parallel decode notifies after it has released the mutex; the caller may by then
  have returned and destroyed the condition variable it notifies.

## 5. Proofs

`SenderMediaPathProofs`, for every stream, capacity and set of packet sizes:

* `Invariance` and `TypeCorrect`: types. The invariant needs, beyond the types, where the loop
  stands: the job it holds is a packet from "decide" to "result".
* `RetriedWhole`: while the transport is in the middle of a packet, the loop holds it, and what is on
  a connection is a sequence of whole packets and one unfinished packet at its end.
  `WireWellFramed` alone is not inductive: that the next write continues the right
  packet needs that the wire ends exactly where `pending` says (`EndsAt`), and that needs
  `PendingIsHeld`. Lemmas: a run of chunks is well framed, a framed wire followed by the chunks
  that continue its end is framed, publishing keeps a slot a sequence of packets.
* `AcceptedOrder`: the packets taken are in order. `OrderInv`: the ids of what was accepted are below the
  job in hand, that one is below what is queued, and those are below the next id. The retry is
  where it could break: a job goes back to the loop and not to the queue.
* `Refinement`: `Spec => ImplementsFifo`. The mapping puts the job in hand in front of the queue; each
  action is a publish, a loss, a delivery or a stutter of `MediaStream`, and `OrderInv` gives the
  fresh id.
* `CountedLosses`: a bound on either side. The counters never count a frame that is not lost; and until
  the drain deadline, which discards without counting, they count no fewer than one for
  each slotful that is. It is no equation: an overwrite that pushes out several small frames counts as
  one. `CountedExactly` is the equation, for one frame per slot. `Counting` adds
  that a slot never holds more than it has room for, which bounds what one overwrite stands for.
* `DecodableUnlessOverwritten`: for RGB, in every behaviour in which no frame is overwritten in its
  slot and no timing regresses, what the kernel takes is decodable. So a frame lost before the
  queue or in it is the only way to what findings 1 and 2 show; retries, yields, lag resets and
  reconnections are not. `StreamInv` follows the
  chain of frames from the last one accepted (`SentIsLast`) through the job in hand (`HeldFollows`)
  and the queue (`HeadFollows`, `QueueChained`) to the newest id (`NewestIsLast`); where it is cut,
  the guard is armed or a key frame comes.
* `SingleSlotIsGuarded`: with one frame per slot an overwrite leaves a key frame or an armed guard
  (`UnarmedIsKey`).

`RecordingUploaderProofs`, for every set of media files, every configuration and any number of
crashes, failures and names:

* `NothingLost`: some directory holds the whole segment. That is not inductive: a deletion of the
  local copy is safe only if what is in the queue, or was moved out of it, is backed by a whole
  copy, and a torn local copy may be captured again. `Copies` says that a capture that exists is
  whole or a final directory is, and that a final directory exists only if one is whole; `Places`
  says what each step of `run_once` relies on (a step that deletes the local copy has seen a
  capture or a final directory; a move has a free name). `Formed` keeps "has entries" and
  "exists" together.
* `PublishedSound`: no control marker in a published directory (`Clean` adds which markers a
  capture may hold), and without interrupted deletions every directory that exists is whole
  (`Uncut`).
* `PublishedUnderOneName`: at most one name is ready. `OneName`: without torn deletions a name after the
  first is taken only while the first directory is there and not ready, and the journal never
  names the first again.
* `AlwaysFindable`: where local copies are kept, the segment is always published whole or
  found by the next run. `Kept`: until the publication the local copy is whole and staged, every
  other copy is whole, and `run_once` stands nowhere that removes one.
* `Invariance`, `TypeCorrect`: the invariant and its types.

`RecordingSessionsProofs`, for every set of cameras and senders and any number of packets,
requests, idle finalizations and failures:

* `CloseTaskUnique`: at most one close task per camera, and `finalizing` for as long as it runs.
* `EachHasOwner`: an open input belongs to a requested recording with a window, or to the task
  that drains its tail, and an open segment to a requested recording or to a close task. None of the
  three is inductive alone: that a camera nobody records has nothing in its queue, its worker or
  its writer (`Idle`) needs that a task at its end has found the queue empty and the worker
  waiting (`Progress`), that nothing can be enqueued after that (`Owned`: a closed tail closes
  the input), and that the task is the only one (`OneTask`). `ActivatedOwned` is the lemma all
  starts share: no activation opens the input of a camera that is still being detached.

The same module, beyond owners:

* `TypeCorrect`: `TypeOK`, which the owners' invariant does not need in full.
* `DrainKept`: while a tail is drained its input stays open, and only a failed write closes it.
* `SessionShared`: whoever records under start-all takes its session.
* `SessionsUnmixed`: without failed writes (`MaxFaults = 0`) a segment holds one session; with them
  it does not (finding 3). `CallsUnmixed` says the same of `RecordingMC`, whose "calls" instance
  begins with no fault left. `NInv` adds to the owners' invariant all
  types, that no session is used before it is issued, and that an input that is open and owed a
  start waits for a close task (`Settled`). `PureInv` bounds by one number per camera what sessions
  its writer, its job in hand, its queue and its depth buffer may still carry (`Bound`, `Carries`). Each
  step keeps, closes, restarts or fails a camera's input (`InputStep`) and passes data on without
  changing its session, so that all actions are treated as one of four kinds.

`SegmentProofs`:

* `Accounted` (`SegmentFinalizers`), for any finite set of cameras and finalizers and any number of
  slots: a segment is in one hand from the writer to the closed directory (`InOneHand`, and `Once`: in
  one place of that hand), and the slots taken are those of starting workers, of reserving threads,
  of the queue and of busy finalizers (`SlotsCounted`). `Rotating` says that a worker that
  starts or reserves has a segment open, and that in the last phases of a shutdown all are joined.
* `KeptWhole` (`SegmentClose`), for any segments and any crashes and failures: a segment has one
  directory and one with a marker, hidden or published, is whole (`Single`, `Kept`), with its audio
  marker unless the wait for it failed. `Placed` and
  `Stages` say which directory `close()` works on and what it has done when it stands at a step;
  `Named`, that the names it passed over are taken and the one it found free still is.
* `WellCut` (`SegmentTimeline`), for any window, slice length and number of packets. A packet is
  recorded, held back or dropped, never two of them (`Numbered`), and a step of the worker moves the
  one packet in its hand (`Goes`), or drops it together with all that is held back.
* `IndexMatches` (`SegmentMedia`), for any payloads that have their pictures last (`MediaConstants`), any
  room for what is held back, any number of packets and of faults: in a published segment a row of
  `frames.csv` names its frame of the container. `MediaInv`: what is held back are slices of packets
  that follow each other, from the start of a decodable unit on once there is one (`PendingRight`);
  what a sink has are whole units that begin with a decodable one (`SinksRight`, `StartedRight`), as
  many as rows and in their order unless the sink is gone (`TakenRight`, `Aligned`); rows are of packets
  that came, in order (`RowsRight`, `FramesRight`). Only without faults does each recorded row have its
  row of `frames.csv`, and is depth in one place (`FaultFree`). The loops (the scan for a start, the
  trimming, the flush, the merge, the parts put together) are proved round by round, by
  induction on the set of rounds after which the claim holds (`SetInduction`, `UpTo`), which the prover
  can do where a predicate as a parameter is out of its reach.

`SenderProofs`:

* `CamerasApart` (`CameraRuntime`), for any devices and slots: a configured camera keeps its device and a
  further one never has a configured device (`Assigned`); two further ones that are online differ
  (`Apart`), also when one was lost and found while the scan ran; and the active cameras, online or
  not, are within the limit unless they are just the configured ones (`Within`).
* `LeavesOnlySilent` (`ReceiverDiscovery`), for any receivers and addresses: `SilenceKnown` says that
  one of the two ages the sender keeps of its target is no older than the silence of that receiver
  at that address, or the answers just collected have one of it.
* `PhotosSafe` (`PhotoCapture`): an answer "captured" has a photo behind it. `Vouched`:
  every acknowledgement under way, every completed id and every photo that is staged or placed is of
  one on disk or on the NAS. `Held`: whom a client waits for is in a file, a request, a capture or
  the resend queue.
* `KeyframesAsked` (`ScheduledKeyframe`): the target of a pending request is one that was asked for with
  priority (`TargetAsked`).
* `ExposureOnEvidence` (`AdaptiveExposure`): with a device that reports its controls every frame of the
  window shows the last adjustment, which the loop waits for until one does (`ShownOrAwaited`); with any, the counters
  of dark samples and of a pending direction count no more than there were (`CountsBacked`).

`ClockProofs`:

* `Standing` (`ClockTimeline`): an assigned time never changes and the map is monotonic, for any
  numbers of reports, stamps and segments, from `TimelineConstants` (bounds are naturals, at least one
  segment is kept, `Slew` is at least 1: with a slew below 1 a correction would turn time back). The
  invariants (`TimelineInv`, `OrderInv`) say that the segments follow each other and that each begins
  where the one before has got to, that each is increasing in small steps, and that what was mapped
  was mapped by a segment that still says so, or lies before everything that can be mapped.
* `MeasuredOffset` (`ClockSyncClient`): the offset reported is that of the receiver last probed, to within
  half of the longest round trip that is accepted, for any clocks, settings of the clock, delays and
  window. A response carries the times of its moments (`Answered`) and its `t1` identifies the
  probe, so a sample is that of the current target or is dropped; a blend of two offsets of one
  receiver lies between them.

`IngressProofs`:

* `QueuesAccounted` (`RecordBackpressure`), for any finite set of cameras and natural sizes and limits:
  the counters are what queues and buffers hold. The bytes of a list are modelled as the size of a
  set of positions and a total as the size of a union whose parts are told apart, so that no sum has
  to be computed by recursion; every step replaces the lists of one camera (`Replaces`), and a lemma
  says what that does to the totals.
* `InOrder` (`MediaIngress`): what is recorded of a route is in order, continuous behind each IDR, and no
  keyframe of the owner is lost, for any number of descriptors, packets and connections.
  The invariant follows the sessions: they claim the route one after the other (`OneByOne`), a
  connection has no gap (`Numbered`), an older connection carries older frames (`Apart`), what may still
  be recorded is newer than what is (`Behind`), and the owner goes on where the queue ends (`Continued`).
* `Reassembled` (`UdpReassembly`), for any packets and limits: what is handed on is all the fragments of
  one packet, and started = completed + expired + evicted + those there. `Sound`: the fragments of
  an assembly are of the packet its key, length and count name. Eviction is not a
  loop in the model: what remains are the assemblies that fit together with all younger ones, and
  the oldest of them (a set of naturals has a least element) shows that the rest fits.

`DepthProofs`:

* `DepthOrder` (`DepthPool`): frames of a camera come out in order, each once, for any number of
  cameras, workers, frames and sizes and a pool that has a worker. `OneWorker`: a slot is busy
  exactly while one worker has a frame of it. `Ordered`: what has come out of a slot precedes what
  is in hand, that precedes what waits, and nothing dropped is among them. `Accounted`: every frame
  is somewhere. `Finished`: the last worker to leave in time has seen every slot empty or busy.
* `DecodedWhole` (`ParallelDecode`): a call of `bounded_parallel_for` that has returned left no task and
  no thread at its chunks, and each chunk was decoded exactly once unless one was bad, for any number
  of calls, workers, chunks and helpers and a queue of any size. `Counted` is the heart of it: `pending`
  is the number of the call's tasks in the queue and of the workers that have taken one and not yet
  counted themselves out, so that a caller that finds 0 under its mutex is alone. `Chunked` and
  `Shared` say that a chunk below `next` is decoded, failed or in the hand of one thread; `Decided`,
  that no thread stops asking while there is a chunk to have.
* `CodecRestores` (`DepthCodec`), for any word sizes, bases, run lengths, chunks, shapes, scales and
  quantisation steps (`CodecConstants`): a packet decodes into the frame it was made of, exactly for the
  lossless codecs, for the quantised ones within half a step of each sample or at the smallest or
  largest index, zero as zero and in the same order. The state is simple (a frame, its packet); the
  proof is about the formats. `LiesAt` says that
  a packet has a piece at a place and the lemma of each format that its reader, put there,
  consumes just that piece: digits of a number (`VarUint`), sign folding (`ZigZag`), packed
  halves, runs of equal indices, of zeros and of differences, and the chunks one after another.

These five modules EXTEND the modules of the parts that `DataPartsMC` extends too: `Spec` of a
component is `Clock!Spec`, `Queues!Spec` and so on, and the property in each theorem is the one
that `data_parts` checks. The assumptions on their constants are named (`...Constants`) and stand in
the theorems (ASSUME ... PROVE): bounds and sizes are naturals, sets of threads or cameras are finite
where they are counted, ids are not the value that stands for none.

Model-checked only:

* what must happen: `PathLives`, `RequestsAnswered`, `UploadsEnd`, `WorkGetsDone`, `SenderSettles`
  (liveness under fairness, with ENABLED, is beyond the prover);
* `ReliableDecodable` and `DirectOverwriteIsGuarded`: they are about the instances of `MediaPathMC` with
  their own constants; `SingleSlotIsGuarded` is the second for all constants of that kind. Of the first,
  whose slot has room for all the frames of the run, `DecodableUnlessOverwritten` is the general form;
* `Decodable`, `OneSessionPerSegment` and the other properties of the findings fail in general.

No RECURSIVE operator is used.

## 6. Plan

Done: the media path, recording, uploader, segments and finalizers, ingress, clocks, discovery,
cameras, keyframes, photos, depth and exposure, with the proofs above. Left, in this order:

1. Proofs: what the uploader's and the segments' theorems say together.
2. The audio archive: slots, gap repair and its uploader.
3. The mount manager with the uploader: a mount that is detached between two checks.
4. The UDP and RTP transports of the sender, and their recovery.
5. The recording buttons: debouncing and the answer they wait for.

### Not modelled

* GStreamer, V4L2 and the camera SDK: their state is theirs; what the program sees of them is
  nondeterministic in the modules.
* Container formats, the repair of damaged containers, and the values in metadata files: the
  properties are about which frame is where, not how it is written.
* Preview and the web monitor (colouring, scaling, WebSocket and WebRTC glue), HTTP and JSON:
  stateless conversions and a proxy; the requests they carry are actions of `RecordingSessions` and
  `PhotoCapture`.
* Configuration, logging, device identity: parsed once; the values are CONSTANTS.
* Bandwidth limits and the incremental mirror of the uploader: they delay a copy, and a
  copy may be delayed at any step of the model.
* Installers, provisioning, offline export and analysis, vendored patches, reports: scripts that
  run once, by hand.
