----------------------------- MODULE SegmentMedia -----------------------------
(***************************************************************************)
(* The media of one segment (recording.inl): RGB packets are held back until  *)
(* the stream can be decoded and its rate is known, and then go as access      *)
(* units through a pipe to ffmpeg, and to a recovery file; depth frames go to  *)
(* a pipe of their own, in a further part when it breaks.  Each frame has a    *)
(* row in frames.csv; the RGB frames that reached the container have one in     *)
(* rgb_recorded_frames.csv as well.  close() joins the two and seals the media.*)
(*                                                                         *)
(* A payload is the sequence of its NAL units, each of size one.              *)
(***************************************************************************)
EXTENDS Naturals, Sequences

CONSTANTS
    Payloads,     \* payloads of RGB packets
    PendingMax,   \* kMaxPendingRgbRecordBytes
    DepthPendingMax, \* kMaxPendingDepthRecordBytes, in frames
    MaxPackets,   \* bound: packets of a run
    MaxFaults     \* bound: pipes that break, writes that throw

VARIABLES
    recovery, \* write_debug_h264: rgb_recovery.nut is written
    rgb,    \* pending, infos, hasStart, writer, prefix
    media,  \* access units in rgb.mp4, and in rgb_recovery.nut
    pipe,   \* the RGB pipe: "none", "open", "broken" (unnoticed), "failed"
    depth,  \* pending, parts, pipe ("none", "open", "broken")
    rows,   \* rgb_recorded_frames.csv
    frames, \* frames.csv.inprogress
    phase,  \* "open"; "failed" (a write has thrown, no more packets); "closed"
    final,  \* what close() has published, or NoFinal
    count, faults

vars == <<recovery, rgb, media, pipe, depth, rows, frames, phase, final, count, faults>>

NoFinal == [frames |-> <<>>, rgb |-> <<>>, depth |-> <<>>, published |-> FALSE]

Init ==
    /\ recovery \in BOOLEAN
    /\ rgb = [pending |-> <<>>, infos |-> <<>>, hasStart |-> FALSE, writer |-> FALSE, prefix |-> <<>>]
    /\ media = [mp4 |-> <<>>, nut |-> <<>>] /\ pipe = "none"
    /\ depth = [pending |-> <<>>, parts |-> <<>>, pipe |-> "none"]
    /\ rows = <<>> /\ frames = <<>>
    /\ phase = "open" /\ final = NoFinal
    /\ count = 0 /\ faults = 0

-----------------------------------------------------------------------------
\* H264 (base.inl)

Vcl == {"idr", "p"}
HasVcl(payload) == \E i \in DOMAIN payload : payload[i] \in Vcl

\* h264_decodable_start_offset: one pass over the NAL units; `at` is the
\* position of the candidate, `found` the answer (0: none).
NothingSeen == [at |-> 0, pps |-> FALSE, found |-> 0]
Seen(st, i, nal) ==
    IF st.found > 0 THEN st
    ELSE IF nal = "sps" THEN [at |-> i, pps |-> FALSE, found |-> 0]
    ELSE IF nal = "pps" /\ st.at > 0 THEN [at |-> st.at, pps |-> TRUE, found |-> 0]
    ELSE IF nal = "idr" /\ st.pps THEN [at |-> st.at, pps |-> TRUE, found |-> st.at]
    ELSE IF nal \in Vcl THEN NothingSeen ELSE st
Scan(payload) ==
    LET seen[i \in 0..Len(payload)] == IF i = 0 THEN NothingSeen ELSE Seen(seen[i - 1], i, payload[i])
    IN seen
DecodableStart(payload) == Scan(payload)[Len(payload)].found

\* Where each of the packets held back ends in the bytes held back.
Ends(infos) ==
    LET end[k \in 0..Len(infos)] == IF k = 0 THEN 0 ELSE end[k - 1] + infos[k].size
    IN end

\* trim_pending_rgb_infos_to_offset: packets before the offset go, the one that
\* contains it is shortened.
Gone(infos, offset) ==
    CHOOSE k \in 0..Len(infos) :
        Ends(infos)[k] <= offset /\ (k = Len(infos) \/ Ends(infos)[k + 1] > offset)
Trimmed(infos, offset) ==
    LET gone == Gone(infos, offset)
    IN [i \in 1..(Len(infos) - gone) |->
           [n |-> infos[gone + i].n, vcl |-> infos[gone + i].vcl,
            size |-> IF i = 1 THEN Ends(infos)[gone + 1] - offset ELSE infos[gone + i].size]]

-----------------------------------------------------------------------------
\* RGB

\* Parameter sets without a picture wait for the next picture.  st: what has
\* been written so far (write_timestamped_rgb, write_rgb_recorded_frame).
WriteUnit(st, n, payload, vcl) ==
    IF ~vcl THEN [prefix |-> st.prefix \o payload, rows |-> st.rows, units |-> st.units]
    ELSE [prefix |-> <<>>, rows |-> Append(st.rows, n),
          units |-> Append(st.units, [n |-> n, nals |-> st.prefix \o payload])]

NothingWritten == [prefix |-> rgb.prefix, rows |-> <<>>, units |-> <<>>]

\* flush_rgb_pending: what has been written after each of the packets held back.
FlushFirst(r) ==
    LET written[i \in 0..Len(r.infos)] ==
            IF i = 0 THEN NothingWritten
            ELSE WriteUnit(written[i - 1], r.infos[i].n,
                           SubSeq(r.pending, Ends(r.infos)[i - 1] + 1, Ends(r.infos)[i]), r.infos[i].vcl)
    IN written

\* The pipe a unit meets: opened when first needed, found broken when written to.
PipeAfter(opens) ==
    CASE pipe = "none" -> IF opens THEN "open" ELSE "failed"
      [] pipe = "broken" -> "failed"
      [] OTHER -> pipe

\* The sink takes what the pipe or the recovery file takes.
SinkTakes(p) == p = "open" \/ recovery

Sent(units, p) ==
    media' = [mp4 |-> IF p = "open" THEN media.mp4 \o units ELSE media.mp4,
              nut |-> IF recovery THEN media.nut \o units ELSE media.nut]

\* What write_rgb_packet makes of the packets held back (1852-1899): no writer yet.
Held(n, payload) ==
    LET clear   == Len(rgb.pending) + Len(payload) > PendingMax
        pending == (IF clear THEN <<>> ELSE rgb.pending) \o payload
        infos   == Append(IF clear THEN <<>> ELSE rgb.infos,
                          [n |-> n, size |-> Len(payload), vcl |-> HasVcl(payload)])
        started == rgb.hasStart /\ ~clear
        start   == DecodableStart(pending)
    IN  IF started \/ start = 0
        THEN [pending |-> pending, infos |-> infos, hasStart |-> started,
              writer |-> FALSE, prefix |-> rgb.prefix]
        ELSE [pending |-> SubSeq(pending, start, Len(pending)), infos |-> Trimmed(infos, start - 1),
              hasStart |-> TRUE, writer |-> FALSE, prefix |-> rgb.prefix]

\* The same once the writer is there.
Writing(r, prefix) ==
    [pending |-> r.pending, infos |-> r.infos, hasStart |-> r.hasStart, writer |-> TRUE, prefix |-> prefix]

\* The row of the packet itself follows in write_packet.
FrameRow(n, payload) ==
    frames' = IF HasVcl(payload) THEN Append(frames, [stream |-> "rgb", n |-> n]) ELSE frames

\* Throw: nothing of the packet that failed is in the index; the input stops.
Throw ==
    /\ faults < MaxFaults /\ faults' = faults + 1
    /\ phase' = "failed" /\ UNCHANGED frames

Full(payload) == rgb.hasStart /\ Len(rgb.pending) + Len(payload) > PendingMax

Hold(n, payload) ==
    /\ ~rgb.writer /\ ~Full(payload)
    /\ rgb' = Held(n, payload)
    /\ FrameRow(n, payload)
    /\ UNCHANGED <<media, pipe, rows, phase, faults>>

\* The rate is known, or there is no more room: what has been held back is
\* written, and in the second case the packet behind it.  A write throws when
\* nothing takes it, and may throw after any of the packets.
FlushAll(n, payload, r, p, opens) ==
    LET flushed == FlushFirst(r)[Len(r.infos)]
        after   == IF Full(payload) THEN WriteUnit(flushed, n, payload, HasVcl(payload)) ELSE flushed
    IN  /\ SinkTakes(p)
        /\ rgb' = [pending |-> <<>>, infos |-> <<>>, hasStart |-> TRUE, writer |-> TRUE, prefix |-> after.prefix]
        /\ Sent(after.units, p) /\ rows' = rows \o after.rows
        /\ FrameRow(n, payload)
        /\ faults' = IF opens THEN faults ELSE faults + 1
        /\ UNCHANGED phase

FlushThrows(r, p) ==
    \E k \in 0..Len(r.infos) :
        LET flushed == FlushFirst(r)[k]
        IN  /\ Throw
            /\ rgb' = Writing(r, flushed.prefix)
            /\ IF SinkTakes(p) THEN Sent(flushed.units, p) /\ rows' = rows \o flushed.rows
               ELSE UNCHANGED <<media, rows>>

Flush(n, payload) ==
    /\ ~rgb.writer
    /\ LET r == IF Full(payload) THEN rgb ELSE Held(n, payload)
       IN  /\ r.hasStart
           /\ \E opens \in BOOLEAN :
                 /\ opens \/ faults < MaxFaults
                 /\ pipe' = PipeAfter(opens)
                 /\ \/ FlushAll(n, payload, r, PipeAfter(opens), opens)
                    \/ FlushThrows(r, PipeAfter(opens))

\* The writer is there: the unit reaches the sink and its row, or the write throws
\* before (the pipe is gone, the stamp does not increase) or behind it (the row).
Write(n, payload) ==
    /\ rgb.writer
    /\ LET st == WriteUnit(NothingWritten, n, payload, HasVcl(payload))
           p  == IF HasVcl(payload) THEN PipeAfter(TRUE) ELSE pipe
       IN  /\ pipe' = p
           /\ \/ /\ SinkTakes(p) \/ ~HasVcl(payload)
                 /\ Sent(st.units, p) /\ rows' = rows \o st.rows
                 /\ rgb' = Writing(rgb, st.prefix)
                 /\ FrameRow(n, payload)
                 /\ UNCHANGED <<phase, faults>>
              \/ Throw /\ UNCHANGED <<rgb, media, rows>>
              \/ /\ Throw /\ SinkTakes(p) /\ HasVcl(payload)
                 /\ Sent(st.units, p) /\ UNCHANGED <<rgb, rows>>

WriteRgbPacket ==
    /\ phase = "open" /\ count < MaxPackets /\ count' = count + 1
    /\ \E payload \in Payloads :
          Hold(count', payload) \/ Flush(count', payload) \/ Write(count', payload)
    /\ UNCHANGED <<recovery, depth, final>>

-----------------------------------------------------------------------------
\* Depth

\* ensure_depth_pipe: the next part, with its first frames.
NextPart(d, ns, pending) == [pending |-> pending, parts |-> Append(d.parts, ns), pipe |-> "open"]
LastPart(d, part, state) ==
    [pending |-> d.pending, pipe |-> state,
     parts |-> [i \in DOMAIN d.parts |-> IF i = Len(d.parts) THEN part ELSE d.parts[i]]]

\* One frame into an open pipe; a broken one is followed by the next part.
DepthInto(d, n) ==
    IF d.pipe = "broken" THEN NextPart(d, <<n>>, d.pending)
    ELSE LastPart(d, Append(d.parts[Len(d.parts)], n), "open")

DepthRow(n) == frames' = Append(frames, [stream |-> "depth", n |-> n])

Waiting(ns) == [pending |-> ns, parts |-> depth.parts, pipe |-> "none"]

\* flush_depth_pending. It may come upon a failure (one, in the model): ffmpeg dies
\* with j frames in its part and the write of frame k > j finds out. A further
\* part takes the rest; or that fails too, which throws, and everything stays held
\* back, what was written as well.
FlushDepth(d) == NextPart(d, d.pending, <<>>)
CutShort(d, j) == [d EXCEPT !.parts = Append(@, SubSeq(d.pending, 1, j))]
Cuts(d) == {cut \in (0..Len(d.pending)) \X (1..Len(d.pending)) : cut[1] < cut[2]}
Continued(d) ==
    {NextPart(CutShort(d, cut[1]), SubSeq(d.pending, cut[2], Len(d.pending)), <<>>) : cut \in Cuts(d)}
Abandoned(d) == {CutShort(d, cut[1]) : cut \in Cuts(d)}

\* A part does not open, or breaks and is continued: nothing is thrown. Without
\* a part the frames are held back beyond the limit.
DepthFails(n, held, full) ==
    /\ faults < MaxFaults /\ faults' = faults + 1 /\ UNCHANGED phase
    /\ depth' \in IF full THEN {DepthInto(d, n) : d \in Continued(depth)} \cup {held, FlushDepth(held)}
                 ELSE Continued(held)
    /\ DepthRow(n)

\* write_depth_packet: written, held back until the rate is known, or both; the
\* further part may fail as well.
WriteDepthPacket ==
    /\ phase = "open" /\ count < MaxPackets /\ count' = count + 1
    /\ LET n == count'
           held == Waiting(Append(depth.pending, n))
           full == Len(depth.pending) >= DepthPendingMax
       IN  \/ /\ depth.pipe # "none" /\ depth' = DepthInto(depth, n)
              /\ DepthRow(n) /\ UNCHANGED <<phase, faults>>
           \/ /\ depth.pipe = "broken" /\ depth' = Waiting(depth.pending)
              /\ Throw
           \/ /\ depth.pipe = "none" /\ ~full
              /\ depth' \in {held, FlushDepth(held)}
              /\ DepthRow(n) /\ UNCHANGED <<phase, faults>>
           \/ /\ depth.pipe = "none" /\ full
              /\ depth' = DepthInto(FlushDepth(depth), n)
              /\ DepthRow(n) /\ UNCHANGED <<phase, faults>>
           \/ depth.pipe = "none" /\ DepthFails(n, held, full)
           \/ /\ depth.pipe = "none" /\ Throw
              /\ depth' \in Abandoned(IF full THEN depth ELSE held)
    /\ UNCHANGED <<recovery, rgb, media, pipe, rows, final>>

\* ffmpeg dies: what it had not written yet is lost, and nobody notices before the
\* next write or the close.
PipeBreaks ==
    /\ phase = "open" /\ faults < MaxFaults /\ faults' = faults + 1
    /\ \/ /\ pipe = "open" /\ pipe' = "broken"
          /\ \E k \in 0..Len(media.mp4) : media' = [mp4 |-> SubSeq(media.mp4, 1, k), nut |-> media.nut]
          /\ UNCHANGED depth
       \/ /\ depth.pipe = "open"
          /\ LET part == depth.parts[Len(depth.parts)]
             IN \E k \in 0..Len(part) : depth' = LastPart(depth, SubSeq(part, 1, k), "broken")
          /\ UNCHANGED <<pipe, media>>
    /\ UNCHANGED <<recovery, rgb, rows, frames, phase, final, count>>

-----------------------------------------------------------------------------
\* close()

\* merge_rgb_recorded_frames_into_frames: an RGB row without a recorded row goes.
IndexOf(recorded, n) ==
    CHOOSE i \in DOMAIN recorded : recorded[i] = n /\ \A j \in DOMAIN recorded : recorded[j] = n => i <= j
\* (Mutant of Merged: RGB rows that were not recorded stay.)
MergedAll(recorded) ==
    [i \in DOMAIN frames |-> [stream |-> frames[i].stream, n |-> frames[i].n, index |-> i]]
Merged(recorded) ==
    LET merged[i \in 0..Len(frames)] ==
            IF i = 0 THEN <<>>
            ELSE IF frames[i].stream = "depth"
            THEN Append(merged[i - 1], [stream |-> "depth", n |-> frames[i].n, index |-> 0])
            ELSE IF \E j \in DOMAIN recorded : recorded[j] = frames[i].n
            THEN Append(merged[i - 1], [stream |-> "rgb", n |-> frames[i].n,
                                        index |-> IndexOf(recorded, frames[i].n)])
            ELSE merged[i - 1]
    IN merged[Len(frames)]

\* The frames of all parts, one part after the other.
Joined(parts) ==
    LET joined[i \in 0..Len(parts)] == IF i = 0 THEN <<>> ELSE joined[i - 1] \o parts[i]
    IN joined[Len(parts)]

\* flush_pending_media: what is still held back is written if it can be decoded;
\* when the RGB writes throw, depth is not written, and it may fail to be.
DepthClosed(whole) ==
    IF whole THEN {FlushDepth(depth)} ELSE {depth} \cup Continued(depth) \cup Abandoned(depth)

Close ==
    /\ phase \in {"open", "failed"} /\ phase' = "closed"
    /\ \E opens \in BOOLEAN, k \in 0..Len(rgb.infos), readable, rebuilt, whole \in BOOLEAN :
       LET flush  == ~rgb.writer /\ rgb.hasStart
           p      == IF flush THEN PipeAfter(opens) ELSE pipe
           throws == flush /\ (k < Len(rgb.infos) \/ ~SinkTakes(p))
           st     == IF flush /\ SinkTakes(p) THEN FlushFirst(rgb)[k] ELSE NothingWritten
           mp4    == IF p = "open" THEN media.mp4 \o st.units ELSE media.mp4
           nut    == IF recovery THEN media.nut \o st.units ELSE media.nut
           left   == ~throws /\ depth.pipe = "none" /\ depth.pending # <<>>
           \* the container of a pipe that broke may be readable, the recovery
           \* may succeed; without a readable one nothing is published
           broke  == p \in {"broken", "failed"}
           usable == ~broke \/ readable
           again  == broke /\ rebuilt /\ nut # <<>>
       IN  /\ (flush \/ (opens /\ k = 0)) /\ (left \/ whole)
           /\ IF throws \/ ~opens \/ ~whole THEN faults < MaxFaults /\ faults' = faults + 1 ELSE UNCHANGED faults
           /\ rows' = rows \o st.rows
           /\ media' = [mp4 |-> mp4, nut |-> nut]
           /\ depth' \in IF left THEN DepthClosed(whole) ELSE {depth}
           /\ final' = IF again \/ usable \/ mp4 = <<>>
                       THEN [frames |-> Merged(rows \o st.rows), published |-> TRUE,
                             rgb |-> IF again THEN nut ELSE IF usable THEN mp4 ELSE <<>>,
                             depth |-> Joined(depth'.parts)]
                       ELSE NoFinal
    /\ UNCHANGED <<recovery, rgb, pipe, frames, count>>

Next == WriteRgbPacket \/ WriteDepthPacket \/ PipeBreaks \/ Close
Spec == Init /\ [][Next]_vars

-----------------------------------------------------------------------------
\* The numbers of a stream's rows.
Streamed(table, stream) ==
    LET numbers[i \in 0..Len(table)] ==
            IF i = 0 THEN <<>>
            ELSE IF table[i].stream = stream THEN Append(numbers[i - 1], table[i].n) ELSE numbers[i - 1]
    IN numbers[Len(table)]

\* An access unit: parameter sets, and the pictures of a packet behind them.
IsUnit(nals) ==
    /\ nals # <<>> /\ nals[Len(nals)] \in Vcl
    /\ \A k, l \in DOMAIN nals : k <= l /\ nals[k] \in Vcl => nals[l] \in Vcl

\* In a published segment every RGB row of frames.csv names the frame of rgb.mp4
\* at its index (or one past the end, when ffmpeg died); the first frame can be
\* decoded on its own, and a unit is what one packet brought, with the parameter
\* sets ahead of it.  As long as nothing failed, the rows are the frames, for RGB
\* and for depth.
IndexMatchesMedia ==
    final.published =>
        /\ \A i \in DOMAIN final.frames :
              LET row == final.frames[i]
              IN  row.stream = "rgb" /\ row.index \in DOMAIN final.rgb => final.rgb[row.index].n = row.n
        /\ \A i \in DOMAIN final.rgb : IsUnit(final.rgb[i].nals)
        /\ final.rgb # <<>> => DecodableStart(final.rgb[1].nals) = 1
        /\ faults = 0 =>
              /\ Streamed(final.frames, "rgb") = [i \in DOMAIN final.rgb |-> final.rgb[i].n]
              /\ Streamed(final.frames, "depth") = final.depth
=============================================================================
