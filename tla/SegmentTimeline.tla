--------------------------- MODULE SegmentTimeline ---------------------------
(***************************************************************************)
(* How the record worker of a camera cuts a recording into segments           *)
(* (write_record_job, rotate_record_segment_async; recording.inl): the slices *)
(* of the recording window, which all cameras share; rotation at the first    *)
(* IDR past a slice, or at once when a stream changes its profile; and depth  *)
(* that comes before the first IDR and is replayed behind it.                 *)
(*                                                                         *)
(* Capture times are small numbers.  Each stream's are in order; the streams  *)
(* come over connections of their own and overtake each other.                *)
(***************************************************************************)
EXTENDS Naturals, Sequences, SequencesExt

CONSTANTS
    WindowStart,    \* RecordingWindow::start_global_us (0: none)
    SegmentSeconds, \* segment_seconds (0: one segment)
    HeldMax,        \* room of the prestart depth buffer, in packets
    MaxStamp,       \* bound: capture times
    MaxPackets,     \* bound: packets of a run
    MaxFaults       \* bound: profile changes, full finalizers, failed writes

VARIABLES
    expectsRgb, \* camera_announce_expects_rgb
    segments,   \* the segments of the recording, the last one perhaps active
    active,     \* SegmentWriter::active()
    held,       \* prestart_depth_jobs
    dropped,    \* packets not recorded
    worker,     \* "wait", "replay" (the loop behind an RGB packet), "failed"
    last,       \* per stream: capture time and profile of its last packet
    count,      \* packets so far
    faults

vars == <<expectsRgb, segments, active, held, dropped, worker, last, count, faults>>

Streams == {"rgb", "depth"}
NoFrames == [s \in Streams |-> 0]

\* recording_segment_timeline
Slice(reference) ==
    IF WindowStart = 0 \/ SegmentSeconds = 0
    THEN [index |-> 0, start |-> reference, end |-> 0]
    ELSE LET index == IF reference > WindowStart
                      THEN (reference - WindowStart) \div SegmentSeconds ELSE 0
             start == WindowStart + index * SegmentSeconds
         IN  [index |-> index, start |-> start, end |-> start + SegmentSeconds]

\* SegmentWriter::start; `cause` is for the properties.
Segment(reference, cause) ==
    [slice |-> Slice(reference), profile |-> NoFrames, frames |-> <<>>, cause |-> cause]

Init ==
    /\ expectsRgb \in BOOLEAN
    /\ segments = <<>> /\ active = FALSE
    /\ held = <<>> /\ dropped = {}
    /\ worker = "wait"
    /\ last = [s \in Streams |-> [stamp |-> 0, profile |-> 1]]
    /\ count = 0 /\ faults = 0

Current == Last(segments)

-----------------------------------------------------------------------------
\* stream_profile_changed, once the segment has a frame of the stream.
ProfileChanged(p) ==
    active /\ Current.profile[p.stream] \notin {0, p.profile}

\* should_rotate_for_timestamp
PastSlice(p) == active /\ Current.slice.end > 0 /\ p.stamp >= Current.slice.end

\* (Mutant of StartsSlice: the next slice begins with any RGB packet.)
StartsSliceAnyRgb(p) == PastSlice(p) /\ p.stream = "rgb"
StartsSlice(p) == PastSlice(p) /\ p.stream = "rgb" /\ p.idr

\* write_packet behind rotate_record_segment_async: the segment that gets the
\* packet is a new one, or the current one.  A timed rotation is put off when no
\* finalizer slot is free; one for a new profile waits for a slot.
Write(p, deferred) ==
    LET frame == [p EXCEPT !.deferred = deferred]
        cause == IF ProfileChanged(p) THEN "profile" ELSE "slice"
        fresh == ~active \/ ProfileChanged(p) \/ (StartsSlice(p) /\ ~deferred)
        into  == IF fresh THEN Segment(p.stamp, cause) ELSE Current
        after == [into EXCEPT !.frames = Append(@, frame),
                                !.profile = [into.profile EXCEPT ![p.stream] = p.profile]]
    IN  /\ segments' = IF fresh THEN Append(segments, after)
                       ELSE ReplaceAt(segments, Len(segments), after)
        /\ active' = TRUE

Deferrable(p) == StartsSlice(p) /\ ~ProfileChanged(p)

\* The write, or the start of the next segment, throws: nothing is held back any
\* longer, and no more packets are taken.
FailWrite(p) ==
    /\ faults < MaxFaults /\ faults' = faults + 1
    /\ dropped' = dropped \cup {p.n} \cup {held[i].n : i \in DOMAIN held}
    /\ held' = <<>>
    /\ worker' = "failed"
    /\ UNCHANGED <<segments, active>>

WriteOrFail(p, next) ==
    \/ /\ Write(p, FALSE) /\ worker' = next
       /\ UNCHANGED <<dropped, faults>>
    \/ /\ Deferrable(p) /\ faults < MaxFaults
       /\ Write(p, TRUE) /\ worker' = next
       /\ faults' = faults + 1 /\ UNCHANGED dropped

Waits(p) == ~active /\ expectsRgb

Drop(p) ==
    /\ dropped' = dropped \cup {p.n}
    /\ UNCHANGED <<segments, active, held, worker, faults>>

\* Depth ahead of the first RGB is held back if there is room.
WriteDepth(p) ==
    IF Waits(p)
    THEN IF p.stamp >= WindowStart /\ Len(held) < HeldMax
         THEN held' = Append(held, p) /\ UNCHANGED <<segments, active, dropped, worker, faults>>
         ELSE Drop(p)
    ELSE \/ WriteOrFail(p, "wait") /\ UNCHANGED held
         \/ FailWrite(p)

\* RGB that cannot start a segment, or is older than the window, starts none.
WriteRgb(p) ==
    IF Waits(p) /\ (p.stamp < WindowStart \/ ~p.idr)
    THEN Drop(p)
    ELSE \/ WriteOrFail(p, "replay") /\ UNCHANGED held
         \/ FailWrite(p)

WriteRecordJob ==
    /\ worker = "wait" /\ count < MaxPackets
    /\ \E s \in Streams, stamp \in 0..MaxStamp, idr \in BOOLEAN, changes \in BOOLEAN :
          /\ stamp >= last[s].stamp
          /\ s = "depth" => ~idr
          /\ changes => faults < MaxFaults
          /\ LET profile == IF changes THEN 3 - last[s].profile ELSE last[s].profile
                 p == [n |-> count + 1, stream |-> s, stamp |-> stamp, idr |-> idr,
                       profile |-> profile, deferred |-> FALSE, replayed |-> FALSE]
             IN  /\ IF s = "rgb" THEN WriteRgb(p) ELSE WriteDepth(p)
                 /\ last' = [last EXCEPT ![s] = [stamp |-> stamp, profile |-> profile]]
    /\ count' = count + 1
    /\ UNCHANGED expectsRgb

Replayable ==
    /\ active /\ held # <<>>
    /\ Current.slice.end = 0 \/ Head(held).stamp < Current.slice.end

\* One turn of the loop behind an RGB packet: what is older than the slice is
\* dropped, the rest written like any other packet.
ReplayDepth ==
    /\ worker = "replay" /\ Replayable
    /\ held' = Tail(held)
    /\ LET p == [Head(held) EXCEPT !.replayed = TRUE]
       IN  IF p.stamp < Current.slice.start
           THEN dropped' = dropped \cup {p.n} /\ UNCHANGED <<segments, active, worker, faults>>
           ELSE WriteOrFail(p, "replay")
    /\ UNCHANGED <<expectsRgb, last, count>>

ReplayFails ==
    /\ worker = "replay" /\ Replayable /\ Head(held).stamp >= Current.slice.start
    /\ FailWrite(Head(held))
    /\ UNCHANGED <<expectsRgb, last, count>>

ReplayEnds ==
    /\ worker = "replay" /\ ~Replayable
    /\ worker' = "wait"
    /\ UNCHANGED <<expectsRgb, segments, active, held, dropped, last, count, faults>>

Next == WriteRecordJob \/ ReplayDepth \/ ReplayFails \/ ReplayEnds
Spec == Init /\ [][Next]_vars

-----------------------------------------------------------------------------
InSlice(f, slice) == slice.start <= f.stamp /\ (slice.end = 0 \/ f.stamp < slice.end)

\* Where the n-th packet is recorded, and where it is held back.
Places(n) ==
    UNION {{[segment |-> i, frame |-> k] : k \in {j \in DOMAIN segments[i].frames :
                                                    segments[i].frames[j].n = n}}
           : i \in DOMAIN segments}
Rooms(n) == {k \in DOMAIN held : held[k].n = n}

AtOnePlace ==
    \A n \in 1..count :
        IF n \in dropped THEN Places(n) = {} /\ Rooms(n) = {}
        ELSE \/ Rooms(n) = {} /\ \E x \in Places(n) : Places(n) = {x}
             \/ Places(n) = {} /\ \E x \in Rooms(n) : Rooms(n) = {x}

OneProfile ==
    \A i \in DOMAIN segments : \A k \in DOMAIN segments[i].frames :
        LET f == segments[i].frames[k] IN f.profile = segments[i].profile[f.stream]

BeginsSlice ==
    \A i \in DOMAIN segments :
        segments[i].cause = "slice" /\ expectsRgb =>
            /\ Head(segments[i].frames).idr
            /\ InSlice(Head(segments[i].frames), segments[i].slice)

InItsSlice ==
    \A i \in DOMAIN segments : \A k \in DOMAIN segments[i].frames :
        LET f == segments[i].frames[k]
        IN  /\ f.idr /\ segments[i].slice.end # 0 => f.deferred \/ f.stamp < segments[i].slice.end
            /\ f.replayed => InSlice(f, segments[i].slice)

\* Each packet is recorded once, held back or dropped; a segment has one profile
\* per stream; one that begins a slice begins with an IDR of that slice; an IDR
\* past the slice is in it only if no finalizer was free; depth that was held
\* back is in the segment of its own slice.
SegmentsWellCut == AtOnePlace /\ OneProfile /\ BeginsSlice /\ InItsSlice
=============================================================================
