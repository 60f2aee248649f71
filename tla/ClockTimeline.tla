---------------------------- MODULE ClockTimeline ----------------------------
(***************************************************************************)
(* The receiver's map from a sender's clock to its own                          *)
(* (ClockSyncManager::update_from_sender_report, ClockSyncTimeline).  The          *)
(* offsets a sender reports arrive late, repeated or out of order, while frames    *)
(* of its streams, which may lag each other by seconds, are being mapped.         *)
(*                                                                         *)
(* A correction is slewed in: Slew stands for the 1000 of 1000 ppm.  Fractions     *)
(* of a microsecond are rounded down.                                           *)
(***************************************************************************)
EXTENDS Integers, Sequences

CONSTANTS
    Offsets,     \* offsets a sender measures
    MaxStamp,    \* bound: sender timestamps 1..MaxStamp
    Slew,        \* a correction of c is spread over Slew * c (1000)
    MinDuration, \* and at least over this (2000000)
    Limit,       \* extrapolation_limit_us
    MaxSegments, \* max_segments
    MaxReports   \* bound

VARIABLES
    model,     \* clock_models_: [offset, lastSync], lastSync 0: none
    segments,  \* segments_: [begin, start, offset, duration, sync]
    earliest,  \* earliest_timestamp_us_
    lastReport, lastMapped, \* last_report_us_, last_mapped_us_
    reports,
    mapped     \* what frames were given: {[at, global, valid]}

vars == <<model, segments, earliest, lastReport, lastMapped, reports, mapped>>

Stamps == 1..MaxStamp
Larger(a, b) == IF a >= b THEN a ELSE b
Smaller(a, b) == IF a <= b THEN a ELSE b
Last(s) == s[Len(s)]

Init ==
    /\ model = [offset |-> 0, lastSync |-> 0]
    /\ segments = <<>> /\ earliest = 0
    /\ lastReport = 0 /\ lastMapped = 0
    /\ reports = 0 /\ mapped = {}

OffsetAt(g, t) ==
    IF t <= g.begin \/ g.duration <= 0 THEN g.start
    ELSE g.start + ((g.offset - g.start) * Smaller(t - g.begin, g.duration)) \div g.duration

-----------------------------------------------------------------------------
\* A report

First(offset, sync) ==
    [begin |-> sync, start |-> offset, offset |-> offset, duration |-> 0, sync |-> sync]

\* (Mutant of BeginsAt: timestamps already mapped are not spared.)
BeginsAtReport(sync) == Larger(sync, Last(segments).begin + 1)
BeginsAt(sync) == Larger(sync, Larger(lastMapped + 1, Last(segments).begin + 1))

SlewTime(correction) == Larger(MinDuration, Slew * correction)

Later(offset, sync) ==
    LET begin == BeginsAt(sync)
        start == OffsetAt(Last(segments), begin)
    IN [begin |-> begin, start |-> start, offset |-> offset, sync |-> sync,
        duration |-> SlewTime(IF offset >= start THEN offset - start ELSE start - offset)]

\* ClockSyncTimeline::add_model
AddModel(offset, sync) ==
    IF sync <= lastReport THEN UNCHANGED <<segments, earliest, lastReport>>
    ELSE LET more == Append(segments, IF segments = <<>> THEN First(offset, sync) ELSE Later(offset, sync))
             kept == IF Len(more) > MaxSegments THEN Tail(more) ELSE more
         IN /\ segments' = kept /\ lastReport' = sync
            /\ earliest' = IF Len(more) > MaxSegments THEN kept[1].begin
                           ELSE IF segments = <<>> THEN Larger(1, sync - Limit) ELSE earliest

Report(offset, sync) ==
    /\ reports < MaxReports /\ reports' = reports + 1
    /\ IF model.lastSync > 0 /\ sync < model.lastSync
       THEN UNCHANGED <<model, segments, earliest, lastReport>>
       ELSE model' = [offset |-> offset, lastSync |-> sync] /\ AddModel(offset, sync)
    /\ UNCHANGED <<lastMapped, mapped>>

-----------------------------------------------------------------------------
\* ClockSyncTimeline::map

\* The last segment that begins at t or before, or the first.
SegmentOf(t) ==
    LET begun == {i \in 1..Len(segments) : segments[i].begin <= t}
    IN IF begun = {} THEN segments[1] ELSE segments[CHOOSE i \in begun : \A j \in begun : j <= i]

Map(t) ==
    /\ IF segments = <<>> \/ t < earliest THEN UNCHANGED <<lastMapped, mapped>>
       ELSE LET g == SegmentOf(t) IN
            IF t + OffsetAt(g, t) <= 0 THEN UNCHANGED <<lastMapped, mapped>>
            ELSE /\ mapped' = mapped \cup
                        {[at |-> t, global |-> t + OffsetAt(g, t), valid |-> t <= g.sync \/ t - g.sync <= Limit]}
                 /\ lastMapped' = Larger(lastMapped, t)
    /\ UNCHANGED <<model, segments, earliest, lastReport, reports>>

Next ==
    \/ \E offset \in Offsets, sync \in Stamps : Report(offset, sync)
    \/ \E t \in Stamps : Map(t)

Spec == Init /\ [][Next]_vars

-----------------------------------------------------------------------------
\* A timestamp is always mapped to the same time, with the same validity, whenever
\* the frame that carries it arrives ("Published ranges are immutable, including when
\* RGB and Depth reach the receiver at very different times", clock_sync_manager.hpp).
MappedOnce == \A a, b \in mapped : a.at = b.at => a = b

\* The order of timestamps is kept.
MappedInOrder == \A a, b \in mapped : a.at < b.at => a.global <= b.global

\* A frame's global time never depends on when the frame arrived: however reports
\* and frames of slow and fast streams cross, one timestamp is always mapped to
\* the same time, and a later one to no earlier time.
MappingStands == MappedOnce /\ MappedInOrder
=============================================================================
