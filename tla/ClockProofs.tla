----------------------------- MODULE ClockProofs -----------------------------
(***************************************************************************)
(* Proofs about the clocks.  The receiver's timeline of a sender              *)
(* (ClockTimeline), for any offsets, slew, limits and number of segments:     *)
(* what a timestamp has been mapped to is never changed.  The sender's        *)
(* measurement (ClockSyncClient), for any clocks, settings, delays and window *)
(* of samples: the offset it reports is that of the receiver it last probed.  *)
(***************************************************************************)
EXTENDS ClockParts, Integers, Sequences, SequenceTheorems, WellFoundedInduction, TLAPS

\* What the proofs ask of the constants of a timeline.
TimelineConstants ==
    /\ MappedOffsets \subseteq Int
    /\ MaxMapStamp \in Nat /\ Slew \in Nat \ {0} /\ MinDuration \in Nat
    /\ Limit \in Nat /\ MaxMapSegments \in Nat \ {0}

Segment == [begin : Nat, start : Int, offset : Int, duration : Nat, sync : Nat]

-----------------------------------------------------------------------------
\* A set of natural numbers has a least element, a bounded one a largest.
LEMMA LeastElement ==
    ASSUME NEW T, T \subseteq Nat, T # {}
    PROVE  \E x \in T : \A y \in T : x <= y
<1>1. PICK x \in T : \A y \in T : ~(<<y, x>> \in OpToRel(<, Nat))
  BY NatLessThanWellFounded, WFMin, Zenon
<1>2. ASSUME NEW y \in T
      PROVE  x <= y
  <2>1. x \in Nat /\ y \in Nat
    OBVIOUS
  <2>2. ~(<<y, x>> \in OpToRel(<, Nat))
    BY <1>1
  <2>3. ~(y < x)
    BY <2>1, <2>2 DEF OpToRel
  <2> QED
    BY <2>1, <2>3
<1> QED
  BY <1>2

LEMMA LargestElement ==
    ASSUME NEW n \in Nat, NEW T, T \subseteq 1..n, T # {}
    PROVE  \E x \in T : \A y \in T : y <= x
<1> DEFINE D == {n - x : x \in T}
<1>1. \A x \in T : x \in Nat /\ n - x \in Nat
  OBVIOUS
<1>2. D \subseteq Nat /\ D # {}
  BY <1>1
<1>3. PICK d \in D : \A e \in D : d <= e
  BY <1>2, LeastElement
<1>4. PICK x \in T : d = n - x
  BY <1>3
<1>5. ASSUME NEW y \in T
      PROVE  y <= x
  <2>1. n - y \in D /\ n - x <= n - y
    BY <1>3, <1>4
  <2> QED
    BY <1>1, <2>1
<1> QED
  BY <1>5

-----------------------------------------------------------------------------
\* SegmentOf over any timeline, and the position it chooses.
Begun(list, t) == {i \in 1..Len(list) : list[i].begin <= t}
Position(list, t) == CHOOSE i \in Begun(list, t) : \A j \in Begun(list, t) : j <= i
At(list, t) == IF Begun(list, t) = {} THEN 1 ELSE Position(list, t)
Chosen(list, t) == list[At(list, t)]

LEMMA SegmentOfIsChosen == \A t : Clock!SegmentOf(t) = Chosen(segments, t)
BY DEF Clock!SegmentOf, Chosen, At, Begun, Position

LEMMA PositionIsLast ==
    ASSUME NEW list \in Seq(Segment), NEW t, Begun(list, t) # {}
    PROVE  /\ Position(list, t) \in Begun(list, t)
           /\ \A j \in Begun(list, t) : j <= Position(list, t)
<1>1. Len(list) \in Nat /\ Begun(list, t) \subseteq 1..Len(list)
  BY LenProperties DEF Begun
<1>2. \E i \in Begun(list, t) : \A j \in Begun(list, t) : j <= i
  BY <1>1, LargestElement
<1> QED
  BY <1>2 DEF Position

\* A segment that begins later does not change which one a timestamp is in.
LEMMA ChosenInLonger ==
    ASSUME NEW list \in Seq(Segment), list # <<>>, NEW last \in Segment,
           NEW t \in Int, t < last.begin
    PROVE  Chosen(Append(list, last), t) = Chosen(list, t)
<1> DEFINE longer == Append(list, last)
<1>1. /\ Len(list) \in Nat \ {0} /\ Len(longer) = Len(list) + 1
      /\ \A i \in 1..Len(list) : longer[i] = list[i]
      /\ longer[Len(list) + 1] = last
  BY AppendProperties, EmptySeq
<1> HIDE DEF longer
<1>2. ~(last.begin <= t)
  BY DEF Segment
<1>3. Begun(longer, t) = Begun(list, t)
  <2>1. ASSUME NEW i \in Begun(longer, t) PROVE i \in Begun(list, t)
    <3>1. i \in 1..(Len(list) + 1) /\ longer[i].begin <= t
      BY <1>1 DEF Begun
    <3>2. i # Len(list) + 1
      BY <1>1, <1>2, <3>1
    <3>3. i \in 1..Len(list)
      BY <1>1, <3>1, <3>2
    <3> QED
      BY <1>1, <3>1, <3>3 DEF Begun
  <2>2. ASSUME NEW i \in Begun(list, t) PROVE i \in Begun(longer, t)
    BY <1>1 DEF Begun
  <2> QED
    BY <2>1, <2>2
<1>4. CASE Begun(list, t) = {}
  <2>1. longer[1] = list[1]
    BY <1>1
  <2> QED
    BY <1>3, <1>4, <2>1 DEF Chosen, At, longer
<1>5. CASE Begun(list, t) # {}
  <2>1. Position(longer, t) = Position(list, t)
    BY <1>3 DEF Position
  <2>2. Position(list, t) \in 1..Len(list)
    BY <1>5, PositionIsLast DEF Begun
  <2>3. longer[Position(list, t)] = list[Position(list, t)]
    BY <1>1, <2>2
  <2> QED
    BY <1>3, <1>5, <2>1, <2>3 DEF Chosen, At, longer
<1> QED
  BY <1>4, <1>5

\* Forgetting the first segment does not either, for what lies behind it.
LEMMA ChosenInTail ==
    ASSUME NEW list \in Seq(Segment), Len(list) >= 2,
           NEW t, Tail(list)[1].begin <= t
    PROVE  Chosen(Tail(list), t) = Chosen(list, t)
<1> DEFINE rest == Tail(list)
<1>1. list # <<>> /\ Len(list) \in Nat
  BY EmptySeq, LenProperties
<1>2. /\ rest \in Seq(Segment) /\ Len(rest) = Len(list) - 1
      /\ \A i \in 1..Len(rest) : rest[i] = list[i + 1]
  BY <1>1, HeadTailProperties
<1>3. Tail(list)[1].begin <= t <=> rest[1].begin <= t
  OBVIOUS
<1> HIDE DEF rest
<1>4. 1 \in Begun(rest, t)
  BY <1>1, <1>2, <1>3 DEF Begun
<1>5. /\ Position(rest, t) \in Begun(rest, t)
      /\ \A j \in Begun(rest, t) : j <= Position(rest, t)
  BY <1>2, <1>4, PositionIsLast
<1> DEFINE p == Position(rest, t)
<1>6. p \in 1..Len(rest) /\ rest[p].begin <= t
  BY <1>5 DEF Begun
<1> HIDE DEF p
<1>7. p + 1 \in Begun(list, t) /\ rest[p] = list[p + 1]
  <2>1. p + 1 \in 1..Len(list) /\ rest[p] = list[p + 1]
    BY <1>1, <1>2, <1>6
  <2> QED
    BY <1>6, <2>1 DEF Begun
<1> DEFINE q == Position(list, t)
<1>8. q \in Begun(list, t) /\ p + 1 <= q
  BY <1>7, PositionIsLast
<1>9. q \in 1..Len(list) /\ list[q].begin <= t
  BY <1>8 DEF Begun
<1> HIDE DEF q
<1>10. q - 1 \in Begun(rest, t)
  <2>1. q - 1 \in 1..Len(rest) /\ (q - 1) + 1 = q
    BY <1>1, <1>2, <1>6, <1>8, <1>9
  <2>2. rest[q - 1] = list[q]
    BY <1>2, <2>1
  <2> QED
    BY <1>9, <2>1, <2>2 DEF Begun
<1>11. q = p + 1
  <2>1. q - 1 <= p
    BY <1>5, <1>10 DEF p
  <2> QED
    BY <1>6, <1>8, <1>9, <2>1
<1>12. Begun(rest, t) # {} /\ Begun(list, t) # {}
  BY <1>4, <1>7
<1>13. Chosen(rest, t) = rest[p] /\ Chosen(list, t) = list[q]
  BY <1>12 DEF Chosen, At, p, q
<1> QED
  BY <1>7, <1>11, <1>13 DEF rest

-----------------------------------------------------------------------------
\* Products and quotients of integers.
LEMMA TimesMonotonic ==
    ASSUME NEW d \in Nat, NEW m \in Int, NEW n \in Int, m <= n
    PROVE  d * m <= d * n
<1>1. n - m \in Nat /\ d * (n - m) >= 0
  OBVIOUS
<1>2. d * (n - m) = d * n - d * m
  OBVIOUS
<1> QED
  BY <1>1, <1>2

LEMMA Division ==
    ASSUME NEW a \in Int, NEW d \in Nat \ {0}
    PROVE  /\ a \div d \in Int
           /\ d * (a \div d) <= a
           /\ a < d * ((a \div d) + 1)
OBVIOUS

\* Taking at most k times d away lowers a quotient by at most k.
LEMMA DivisionShift ==
    ASSUME NEW a \in Int, NEW b \in Int, NEW d \in Nat \ {0}, NEW k \in Int, a - d * k <= b
    PROVE  (a \div d) - k <= b \div d
<1> DEFINE p == a \div d
           q == b \div d
<1>1. p \in Int /\ q \in Int /\ d * p <= a /\ b < d * (q + 1)
  BY Division
<1> HIDE DEF p, q
<1>2. d * (p - k) = d * p - d * k /\ d * p \in Int /\ d * k \in Int
  BY <1>1
<1>3. d * (p - k) < d * (q + 1)
  BY <1>1, <1>2
<1>4. CASE p - k >= q + 1
  <2>1. d * (q + 1) <= d * (p - k)
    BY <1>1, <1>4, TimesMonotonic
  <2> QED
    BY <1>1, <1>3, <2>1
<1> QED
  BY <1>1, <1>4 DEF p, q

\* A correction takes at least as long as it is large, so that time within a
\* segment may slow down but does not run backwards.
Gradual(g) == g.offset - g.start <= g.duration /\ g.start - g.offset <= g.duration

LEMMA SlewBounded ==
    ASSUME NEW c \in Int, NEW d \in Nat \ {0}, -d <= c, NEW x \in Int, NEW y \in Int, x <= y
    PROVE  ((c * x) \div d) - (y - x) <= (c * y) \div d
<1> DEFINE a == c * x
           b == c * y
           k == y - x
<1>1. a \in Int /\ b \in Int /\ k \in Nat
  OBVIOUS
<1>2. c + d \in Nat /\ (c + d) * k >= 0
  <2>1. c + d \in Nat
    OBVIOUS
  <2> HIDE DEF k
  <2>2. (c + d) * 0 <= (c + d) * k
    BY <1>1, <2>1, TimesMonotonic
  <2> QED
    BY <2>1, <2>2
<1>3. (c + d) * k = b - a + d * k
  OBVIOUS
<1> HIDE DEF a, b, k
<1>4. d * k \in Int
  BY <1>1
<1>5. a - d * k <= b
  BY <1>1, <1>2, <1>3, <1>4
<1>6. (a \div d) - k <= b \div d
  BY <1>1, <1>5, DivisionShift
<1> QED
  BY <1>6 DEF a, b, k

LEMMA NoTurningBack ==
    ASSUME NEW g \in Segment, Gradual(g), NEW t \in Int, NEW u \in Int, t <= u
    PROVE  t + Clock!OffsetAt(g, t) <= u + Clock!OffsetAt(g, u)
<1> DEFINE c == g.offset - g.start
           d == g.duration
           x == IF t <= g.begin THEN 0 ELSE Clock!Smaller(t - g.begin, d)
           y == Clock!Smaller(u - g.begin, d)
<1>1. g.begin \in Int /\ g.start \in Int /\ c \in Int /\ d \in Nat /\ -d <= c
  BY DEF Segment, Gradual
<1>2. CASE u <= g.begin \/ d = 0
  BY <1>1, <1>2 DEF Clock!OffsetAt
<1>3. CASE u > g.begin /\ d # 0
  <2>1. x \in Int /\ y \in Int /\ x <= y /\ y - x <= u - t
    BY <1>1, <1>3 DEF Clock!Smaller
  <2>2. Clock!OffsetAt(g, u) = g.start + ((c * y) \div d)
    BY <1>1, <1>3 DEF Clock!OffsetAt
  <2>3. Clock!OffsetAt(g, t) = g.start + ((c * x) \div d)
    <3>1. CASE t <= g.begin
      <4>1. c * 0 = 0 /\ 0 \div d = 0
        BY <1>1, <1>3
      <4> QED
        BY <1>1, <3>1, <4>1 DEF Clock!OffsetAt
    <3>2. CASE ~(t <= g.begin)
      BY <1>1, <1>3, <3>2 DEF Clock!OffsetAt
    <3> QED
      BY <3>1, <3>2
  <2> HIDE DEF x, y, c, d
  <2>4. d \in Nat \ {0}
    BY <1>1, <1>3
  <2>5. ((c * x) \div d) - (y - x) <= (c * y) \div d
    BY <1>1, <2>1, <2>4, SlewBounded
  <2>6. (c * x) \div d \in Int /\ (c * y) \div d \in Int
    <3>1. c * x \in Int /\ c * y \in Int
      BY <1>1, <2>1
    <3> DEFINE a == c * x
               b == c * y
    <3> HIDE DEF a, b
    <3>2. a \div d \in Int /\ b \div d \in Int
      BY <2>4, <3>1, Division DEF a, b
    <3> QED
      BY <3>2 DEF a, b
  <2> DEFINE m == (c * x) \div d
             n == (c * y) \div d
  <2>7. m \in Int /\ n \in Int /\ m - (y - x) <= n
    BY <2>5, <2>6
  <2>8. Clock!OffsetAt(g, t) = g.start + m /\ Clock!OffsetAt(g, u) = g.start + n
    BY <2>2, <2>3
  <2> HIDE DEF m, n
  <2> QED
    BY <1>1, <2>1, <2>7, <2>8
<1> QED
  BY <1>1, <1>2, <1>3

-----------------------------------------------------------------------------
(***************************************************************************)
(* The invariant.  MappedOnce is not inductive: that a timestamp is mapped as  *)
(* before needs that what it was mapped to is still what the segments give,   *)
(* unless map refuses it now because it lies before the earliest segment.     *)
(***************************************************************************)
MappedBy(list, t) ==
    [at |-> t, global |-> t + Clock!OffsetAt(Chosen(list, t), t),
     valid |-> t <= Chosen(list, t).sync \/ t - Chosen(list, t).sync <= Limit]

Typed ==
    /\ segments \in Seq(Segment)
    /\ earliest \in Int /\ lastMapped \in Nat

Begins ==
    /\ \A i, j \in 1..Len(segments) : i < j => segments[i].begin < segments[j].begin
    /\ segments # <<>> => earliest <= segments[1].begin

Kept ==
    \A a \in mapped :
        /\ a.at \in Nat /\ a.at <= lastMapped
        /\ segments # <<>>
        /\ a.at < earliest \/ a = MappedBy(segments, a.at)

TimelineInv == Typed /\ Begins /\ Kept /\ Clock!MappedOnce

LEMMA BeginType ==
    \A list \in Seq(Segment) : \A i \in 1..Len(list) : list[i].begin \in Nat
<1>1. \A list \in Seq(Segment) : \A i \in 1..Len(list) : list[i] \in Segment
  BY ElementOfSeq
<1>2. \A g \in Segment : g.begin \in Nat
  BY DEF Segment
<1> QED
  BY <1>1, <1>2

LEMMA OffsetType ==
    ASSUME NEW g \in Segment, NEW t \in Int
    PROVE  Clock!OffsetAt(g, t) \in Int
<1>1. g.begin \in Int /\ g.start \in Int /\ g.offset \in Int /\ g.duration \in Nat
  BY DEF Segment
<1>2. CASE t <= g.begin \/ g.duration <= 0
  BY <1>1, <1>2 DEF Clock!OffsetAt
<1>3. CASE ~(t <= g.begin \/ g.duration <= 0)
  <2>1. Clock!Smaller(t - g.begin, g.duration) \in Int
    BY <1>1 DEF Clock!Smaller
  <2> DEFINE x == Clock!Smaller(t - g.begin, g.duration)
  <2> HIDE DEF x
  <2>2. (g.offset - g.start) * x \in Int
    BY <1>1, <2>1 DEF x
  <2>3. ((g.offset - g.start) * x) \div g.duration \in Int
    BY <1>1, <1>3, <2>2, Division
  <2> QED
    BY <1>1, <1>3, <2>3 DEF Clock!OffsetAt, x
<1> QED
  BY <1>2, <1>3

LEMMA FirstType ==
    ASSUME TimelineConstants, NEW offset \in MappedOffsets, NEW sync \in Clock!Stamps
    PROVE  Clock!First(offset, sync) \in Segment /\ Clock!First(offset, sync).begin = sync
BY DEF TimelineConstants, Clock!First, Segment, Clock!Stamps

\* A later segment begins behind the last one and behind everything mapped.
LEMMA LaterType ==
    ASSUME TimelineConstants, Typed, segments # <<>>,
           NEW offset \in MappedOffsets, NEW sync \in Clock!Stamps
    PROVE  /\ Clock!Later(offset, sync) \in Segment
           /\ Gradual(Clock!Later(offset, sync))
           /\ Clock!Later(offset, sync).start
                = Clock!OffsetAt(segments[Len(segments)], Clock!Later(offset, sync).begin)
           /\ Clock!Later(offset, sync).begin > lastMapped
           /\ Clock!Later(offset, sync).begin > segments[Len(segments)].begin
<1>1. Len(segments) \in Nat \ {0} /\ segments[Len(segments)] \in Segment
  BY EmptySeq, ElementOfSeq DEF Typed
<1>2. Clock!Last(segments) \in Segment /\ Clock!Last(segments).begin \in Nat
  BY <1>1 DEF Clock!Last, Segment
<1>3. lastMapped \in Nat /\ sync \in Nat /\ offset \in Int
  BY DEF Typed, Clock!Stamps, TimelineConstants
<1> DEFINE begin == Clock!BeginsAt(sync)
           start == Clock!OffsetAt(Clock!Last(segments), begin)
           size  == IF offset >= start THEN offset - start ELSE start - offset
<1>4. begin \in Nat /\ begin > lastMapped /\ begin > Clock!Last(segments).begin
  BY <1>2, <1>3 DEF Clock!BeginsAt, Clock!Larger
<1> HIDE DEF begin
<1>5. start \in Int
  BY <1>2, <1>4, OffsetType
<1> HIDE DEF start
<1>6. size \in Nat
  BY <1>3, <1>5
<1> HIDE DEF size
<1>7. Clock!SlewTime(size) \in Nat
  BY <1>6 DEF Clock!SlewTime, Clock!Larger, TimelineConstants
<1>8. Clock!Later(offset, sync) =
        [begin |-> begin, start |-> start, offset |-> offset, sync |-> sync,
         duration |-> Clock!SlewTime(size)]
  BY DEF Clock!Later, begin, start, size
<1>9. Clock!Later(offset, sync) \in Segment /\ Clock!Later(offset, sync).begin = begin
  BY <1>3, <1>4, <1>5, <1>7, <1>8 DEF Segment
<1>10. Clock!Later(offset, sync).start = Clock!OffsetAt(segments[Len(segments)], begin)
  BY <1>8 DEF Clock!Last, start
<1>11. Gradual(Clock!Later(offset, sync))
  <2>1. Clock!SlewTime(size) >= size
    <3>1. Slew \in Nat \ {0} /\ MinDuration \in Nat
      BY DEF TimelineConstants
    <3>2. size * 1 <= size * Slew
      BY <1>6, <3>1, TimesMonotonic
    <3>3. size * Slew = Slew * size /\ Slew * size \in Nat
      BY <1>6, <3>1
    <3> QED
      BY <1>6, <3>1, <3>2, <3>3 DEF Clock!SlewTime, Clock!Larger
  <2>2. offset - start <= size /\ start - offset <= size
    BY <1>3, <1>5 DEF size
  <2> QED
    BY <1>3, <1>5, <1>6, <1>7, <1>8, <2>1, <2>2 DEF Gradual
<1> QED
  BY <1>4, <1>9, <1>10, <1>11 DEF Clock!Last

\* A report that adds a segment, and forgets one if there are too many.
LEMMA AddModelStep ==
    ASSUME TimelineConstants, TimelineInv, UNCHANGED <<lastMapped, mapped>>,
           NEW offset \in MappedOffsets, NEW sync \in Clock!Stamps, Clock!AddModel(offset, sync)
    PROVE  TimelineInv'
<1> DEFINE new == IF segments = <<>> THEN Clock!First(offset, sync) ELSE Clock!Later(offset, sync)
           more == Append(segments, new)
<1>1. segments \in Seq(Segment) /\ earliest \in Int /\ lastMapped \in Nat /\ Len(segments) \in Nat
  BY LenProperties DEF TimelineInv, Typed
<1>2. new \in Segment
  BY FirstType, LaterType DEF TimelineInv
<1>3. segments # <<>> => new.begin > lastMapped /\ new.begin > segments[Len(segments)].begin
  BY LaterType DEF TimelineInv
<1>4. segments = <<>> => new.begin = sync
  BY FirstType
<1> HIDE DEF new
<1>5. /\ more \in Seq(Segment) /\ Len(more) = Len(segments) + 1
      /\ \A i \in 1..Len(segments) : more[i] = segments[i]
      /\ more[Len(segments) + 1] = new
  BY <1>1, <1>2, AppendProperties
<1> HIDE DEF more
<1>6. \A i \in 1..Len(more) : more[i].begin \in Nat
  BY <1>5, BeginType
<1>7. \A i, j \in 1..Len(more) : i < j => more[i].begin < more[j].begin
  <2> SUFFICES ASSUME NEW i \in 1..Len(more), NEW j \in 1..Len(more), i < j
               PROVE  more[i].begin < more[j].begin
    OBVIOUS
  <2>1. i \in 1..Len(segments) /\ more[i] = segments[i]
    BY <1>1, <1>5
  <2>2. CASE j \in 1..Len(segments)
    BY <1>5, <2>1, <2>2 DEF TimelineInv, Begins
  <2>3. CASE j = Len(segments) + 1
    <3>1. segments # <<>> /\ Len(segments) \in 1..Len(segments)
      BY <1>1, <2>1, EmptySeq
    <3>2. i = Len(segments) \/ segments[i].begin < segments[Len(segments)].begin
      BY <1>1, <2>1, <3>1 DEF TimelineInv, Begins
    <3>3. segments[i].begin \in Nat /\ segments[Len(segments)].begin \in Nat /\ new.begin \in Nat
      <4>1. segments[i].begin \in Nat /\ segments[Len(segments)].begin \in Nat
        BY <1>1, <2>1, <3>1, BeginType
      <4> QED
        BY <1>2, <4>1 DEF Segment
    <3> QED
      BY <1>3, <1>5, <2>1, <2>3, <3>1, <3>2, <3>3
  <2> QED
    BY <1>1, <1>5, <2>2, <2>3
<1>8. CASE sync <= lastReport
  BY <1>8 DEF Clock!AddModel, TimelineInv, Typed, Begins, Kept, Clock!MappedOnce, MappedBy
<1>9. CASE ~(sync <= lastReport) /\ segments = <<>>
  <2>1. mapped = {}
    BY <1>9 DEF TimelineInv, Kept
  <2>2. Len(segments) = 0 /\ Len(more) = 1 /\ ~(Len(more) > MaxMapSegments) /\ more # <<>>
    <3>1. Len(<<>>) = 0
      BY EmptySeq
    <3>2. Len(segments) = 0 /\ Len(more) = 1
      BY <1>5, <1>9, <3>1
    <3>3. MaxMapSegments \in Nat \ {0}
      BY DEF TimelineConstants
    <3> QED
      BY <3>1, <3>2, <3>3
  <2>3. segments' = more /\ earliest' = Clock!Larger(1, sync - Limit)
    BY <1>9, <2>2 DEF Clock!AddModel, more, new
  <2>4. more[1].begin = sync
    BY <1>4, <1>5, <1>9, <2>2
  <2>5. earliest' \in Int /\ earliest' <= sync
    BY <2>3 DEF Clock!Larger, TimelineConstants, Clock!Stamps
  <2>6. Typed' /\ Begins'
    BY <1>1, <1>5, <1>7, <2>3, <2>4, <2>5 DEF Typed, Begins
  <2> QED
    BY <2>1, <2>6 DEF TimelineInv, Kept, Clock!MappedOnce
<1>10. CASE ~(sync <= lastReport) /\ segments # <<>>
  <2>1. Len(segments) \in Nat \ {0} /\ Len(more) >= 2 /\ more # <<>> /\ more[1] = segments[1]
    BY <1>1, <1>5, <1>10, EmptySeq
  <2>2. ASSUME NEW a \in mapped
        PROVE  a.at < earliest \/ a = MappedBy(more, a.at)
    <3>1. /\ a.at \in Nat /\ a.at <= lastMapped
          /\ a.at < earliest \/ a = MappedBy(segments, a.at)
      BY DEF TimelineInv, Kept
    <3>2. a.at < new.begin
      BY SMTT(30), <1>1, <1>2, <1>3, <1>10, <3>1 DEF Segment
    <3>3. Chosen(more, a.at) = Chosen(segments, a.at)
      BY <1>1, <1>2, <1>10, <3>1, <3>2, ChosenInLonger DEF more
    <3> QED
      BY <3>1, <3>3 DEF MappedBy
  <2>3. CASE ~(Len(more) > MaxMapSegments)
    <3>1. segments' = more /\ earliest' = earliest
      BY <1>10, <2>3 DEF Clock!AddModel, more, new
    <3>2. Typed' /\ Begins'
      BY <1>1, <1>5, <1>7, <1>10, <2>1, <3>1 DEF Typed, Begins, TimelineInv
    <3> QED
      BY <2>1, <2>2, <3>1, <3>2 DEF TimelineInv, Kept, Clock!MappedOnce
  <2>4. CASE Len(more) > MaxMapSegments
    <3>1. segments' = Tail(more) /\ earliest' = Tail(more)[1].begin
      BY <1>10, <2>4 DEF Clock!AddModel, more, new
    <3>2. /\ Tail(more) \in Seq(Segment) /\ Len(Tail(more)) = Len(more) - 1
          /\ \A i \in 1..Len(Tail(more)) : Tail(more)[i] = more[i + 1]
      BY <1>5, <2>1, HeadTailProperties
    <3>3. \A i \in 1..Len(Tail(more)) : i + 1 \in 1..Len(more)
      BY <1>1, <1>5, <3>2
    <3>4. 1 \in 1..Len(Tail(more)) /\ Tail(more)[1] = more[2] /\ Tail(more) # <<>>
      <4>1. Len(<<>>) = 0
        BY EmptySeq
      <4>2. Len(Tail(more)) \in Nat /\ Len(Tail(more)) >= 1
        BY <1>1, <1>5, <2>1, <3>2
      <4>3. 1 \in 1..Len(Tail(more))
        BY <4>2
      <4>4. Tail(more)[1] = more[1 + 1]
        BY <3>2, <4>3
      <4>5. Tail(more) # <<>>
        BY <4>1, <4>2
      <4> QED
        BY <4>3, <4>4, <4>5
    <3>5. 2 \in 1..Len(more) /\ 1 \in 1..Len(more) /\ more[1].begin < more[2].begin
          /\ more[2].begin \in Nat /\ more[1].begin \in Nat
      BY <1>1, <1>5, <1>6, <1>7, <2>1
    <3>6. earliest <= earliest' /\ earliest' \in Int
      <4>1. earliest <= segments[1].begin
        BY <1>10 DEF TimelineInv, Begins
      <4> QED
        BY <1>1, <2>1, <3>1, <3>4, <3>5, <4>1
    <3>7. \A i, j \in 1..Len(Tail(more)) : i < j => Tail(more)[i].begin < Tail(more)[j].begin
      <4> SUFFICES ASSUME NEW i \in 1..Len(Tail(more)), NEW j \in 1..Len(Tail(more)), i < j
                   PROVE  Tail(more)[i].begin < Tail(more)[j].begin
        OBVIOUS
      <4>1. i + 1 \in 1..Len(more) /\ j + 1 \in 1..Len(more) /\ i + 1 < j + 1
        BY <3>3
      <4> QED
        BY <1>7, <3>2, <4>1
    <3>8. Typed' /\ Begins'
      <4>1. segments' \in Seq(Segment) /\ earliest' \in Int /\ lastMapped' \in Nat
        BY <1>1, <3>1, <3>2, <3>6
      <4>2. earliest' <= segments'[1].begin
        <5>1. earliest' = segments'[1].begin
          BY <3>1
        <5> QED
          BY <3>6, <5>1
      <4> QED
        BY <3>1, <3>7, <4>1, <4>2 DEF Typed, Begins
    <3>9. ASSUME NEW a \in mapped
          PROVE  a.at < earliest' \/ a = MappedBy(Tail(more), a.at)
      <4>1. a.at \in Nat
        BY DEF TimelineInv, Kept
      <4>2. CASE a.at < earliest'
        BY <4>2
      <4>3. CASE ~(a.at < earliest')
        <5>1. Tail(more)[1].begin <= a.at /\ ~(a.at < earliest)
          <6>1. earliest \in Int /\ earliest' \in Int /\ earliest <= earliest' /\ earliest' <= a.at
            BY <1>1, <3>6, <4>1, <4>3
          <6>2. ~(a.at < earliest)
            BY <4>1, <6>1
          <6>3. Tail(more)[1].begin <= a.at
            BY <3>1, <6>1
          <6> QED
            BY <6>2, <6>3
        <5>2. Chosen(Tail(more), a.at) = Chosen(more, a.at)
          BY <1>5, <2>1, <5>1, ChosenInTail
        <5>3. a = MappedBy(more, a.at)
          BY <2>2, <5>1
        <5> QED
          BY <5>2, <5>3 DEF MappedBy
      <4> QED
        BY <4>2, <4>3
    <3>10. Kept'
      <4> SUFFICES ASSUME NEW a \in mapped'
                   PROVE  (/\ a.at \in Nat /\ a.at <= lastMapped
                           /\ segments # <<>>
                           /\ a.at < earliest \/ a = MappedBy(segments, a.at))'
        BY DEF Kept
      <4>1. a \in mapped /\ a.at \in Nat /\ a.at <= lastMapped'
        BY DEF TimelineInv, Kept
      <4>2. a.at < earliest' \/ a = MappedBy(segments', a.at)
        BY <3>1, <3>9, <4>1
      <4>3. segments' # <<>>
        BY <3>1, <3>4
      <4> QED
        BY <4>1, <4>2, <4>3 DEF MappedBy, Chosen, At, Begun, Position, Clock!OffsetAt
    <3> QED
      BY <3>8, <3>10 DEF TimelineInv, Clock!MappedOnce
  <2> QED
    BY <2>3, <2>4
<1> QED
  BY <1>8, <1>9, <1>10

LEMMA ReportStep ==
    ASSUME TimelineConstants, TimelineInv, NEW offset \in MappedOffsets, NEW sync \in Clock!Stamps,
           Clock!Report(offset, sync)
    PROVE  TimelineInv'
<1>1. UNCHANGED <<lastMapped, mapped>>
  BY DEF Clock!Report
<1>2. CASE UNCHANGED <<segments, earliest>>
  BY <1>1, <1>2 DEF TimelineInv, Typed, Begins, Kept, Clock!MappedOnce, MappedBy
<1>3. CASE Clock!AddModel(offset, sync)
  BY <1>1, <1>3, AddModelStep
<1> QED
  BY <1>2, <1>3 DEF Clock!Report

LEMMA MapStep ==
    ASSUME TimelineInv, NEW t \in Clock!Stamps, Clock!Map(t)
    PROVE  TimelineInv'
<1>1. UNCHANGED <<segments, earliest>> /\ t \in Nat
  BY DEF Clock!Map, Clock!Stamps
<1>2. CASE UNCHANGED <<lastMapped, mapped>>
  BY <1>1, <1>2 DEF TimelineInv, Typed, Begins, Kept, Clock!MappedOnce, MappedBy
<1>3. CASE ~UNCHANGED <<lastMapped, mapped>>
  <2>1. /\ segments # <<>> /\ ~(t < earliest)
        /\ mapped' = mapped \cup {MappedBy(segments, t)}
        /\ lastMapped' = Clock!Larger(lastMapped, t)
    BY <1>3, SegmentOfIsChosen DEF Clock!Map, MappedBy
  <2>2. /\ lastMapped \in Nat /\ lastMapped' \in Nat
        /\ lastMapped <= lastMapped' /\ t <= lastMapped'
    BY <1>1, <2>1 DEF TimelineInv, Typed, Clock!Larger
  <2>3. MappedBy(segments, t).at = t
    BY DEF MappedBy
  <2>4. \A a \in mapped : a.at = t => a = MappedBy(segments, t)
    BY <2>1 DEF TimelineInv, Kept
  <2>5. Typed' /\ Begins'
    BY <1>1, <2>2 DEF TimelineInv, Typed, Begins
  <2>6. Clock!MappedOnce'
    BY <2>1, <2>3, <2>4 DEF TimelineInv, Clock!MappedOnce
  <2>7. Kept'
    <3>1. ASSUME NEW a \in mapped'
          PROVE  /\ a.at \in Nat /\ a.at <= lastMapped'
                 /\ a.at < earliest \/ a = MappedBy(segments, a.at)
      <4>1. CASE a \in mapped
        BY <2>2, <4>1 DEF TimelineInv, Kept
      <4>2. CASE a = MappedBy(segments, t)
        BY <1>1, <2>2, <2>3, <4>2
      <4> QED
        BY <2>1, <3>1, <4>1, <4>2
    <3>2. \A a : MappedBy(segments, a.at)' = MappedBy(segments, a.at)
      BY <1>1 DEF MappedBy
    <3> QED
      BY <1>1, <2>1, <3>1, <3>2 DEF Kept
  <2> QED
    BY <2>5, <2>6, <2>7 DEF TimelineInv
<1> QED
  BY <1>2, <1>3

LEMMA InitInv == Clock!Init => TimelineInv
<1> SUFFICES ASSUME Clock!Init PROVE TimelineInv
  OBVIOUS
<1>1. segments = <<>> /\ earliest = 0 /\ lastMapped = 0 /\ mapped = {}
  BY DEF Clock!Init
<1>2. <<>> \in Seq(Segment) /\ Len(<<>>) = 0
  BY EmptySeq
<1> QED
  BY <1>1, <1>2 DEF TimelineInv, Typed, Begins, Kept, Clock!MappedOnce

LEMMA TimelineStep == ASSUME TimelineConstants, TimelineInv, [Clock!Next]_(Clock!vars) PROVE TimelineInv'
<1>1. CASE UNCHANGED Clock!vars
  BY <1>1 DEF Clock!vars, TimelineInv, Typed, Begins, Kept, Clock!MappedOnce, MappedBy
<1>2. CASE \E offset \in MappedOffsets, sync \in Clock!Stamps : Clock!Report(offset, sync)
  BY <1>2, ReportStep
<1>3. CASE \E t \in Clock!Stamps : Clock!Map(t)
  BY <1>3, MapStep
<1> QED
  BY <1>1, <1>2, <1>3 DEF Clock!Next

-----------------------------------------------------------------------------
(***************************************************************************)
(* Order.  Every segment starts where the one before it has got to, so the    *)
(* times at which segments begin are in order as well; what was mapped before *)
(* the earliest segment that is left is not after the time it begins at.     *)
(***************************************************************************)
Anchor(g) == g.begin + g.start

Ordered(list) ==
    \A i, j \in 1..Len(list) : i < j => list[i].begin < list[j].begin

Linked(list) ==
    /\ \A i \in 1..Len(list) : Gradual(list[i])
    /\ \A i \in 1..Len(list) :
          i + 1 \in 1..Len(list) => list[i + 1].start = Clock!OffsetAt(list[i], list[i + 1].begin)
    /\ \A i, j \in 1..Len(list) : i < j => Anchor(list[i]) <= Anchor(list[j])

Passed ==
    \A a \in mapped :
        /\ a.global \in Int
        /\ a.at < earliest =>
              earliest = segments[1].begin /\ a.global <= Anchor(segments[1])

OrderInv == Linked(segments) /\ Passed /\ Clock!MappedInOrder

LEMMA AtBegin == ASSUME NEW g \in Segment PROVE g.begin + Clock!OffsetAt(g, g.begin) = Anchor(g)
BY DEF Segment, Clock!OffsetAt, Anchor

LEMMA AtType ==
    ASSUME NEW list \in Seq(Segment), list # <<>>, NEW t
    PROVE  /\ At(list, t) \in 1..Len(list) /\ Chosen(list, t) \in Segment
           /\ At(list, t) = 1 \/ At(list, t) \in Begun(list, t)
           /\ \A j \in Begun(list, t) : j <= At(list, t)
<1>1. Len(list) \in Nat \ {0}
  BY EmptySeq
<1>2. At(list, t) \in 1..Len(list)
  BY <1>1, PositionIsLast DEF At, Begun
<1>3. Chosen(list, t) \in Segment
  BY <1>2, ElementOfSeq DEF Chosen
<1> QED
  BY <1>2, <1>3, PositionIsLast DEF At

\* Before the second segment the first one holds.
LEMMA FirstHolds ==
    ASSUME NEW list \in Seq(Segment), list # <<>>, Ordered(list), NEW t \in Int,
           2 \in 1..Len(list) => t < list[2].begin
    PROVE  Chosen(list, t) = list[1]
<1>1. At(list, t) \in 1..Len(list) /\ (At(list, t) = 1 \/ At(list, t) \in Begun(list, t))
  BY AtType
<1> DEFINE p == At(list, t)
<1>2. CASE p # 1
  <2>1. p \in 1..Len(list) /\ list[p].begin <= t
    BY <1>1, <1>2 DEF Begun
  <2> HIDE DEF p
  <2>2. 2 \in 1..Len(list) /\ (p = 2 \/ 2 < p) /\ Len(list) \in Nat
    BY <1>2, <2>1, LenProperties
  <2>3. list[2].begin \in Nat /\ list[p].begin \in Nat
    BY <2>1, <2>2, BeginType
  <2>4. p = 2 \/ list[2].begin < list[p].begin
    BY <2>1, <2>2 DEF Ordered
  <2> QED
    BY <2>1, <2>2, <2>3, <2>4
<1> QED
  BY <1>2 DEF Chosen

\* A whole timeline keeps the order of timestamps.
LEMMA TimelineMonotonic ==
    ASSUME NEW list \in Seq(Segment), list # <<>>, Ordered(list), Linked(list),
           NEW t \in Int, NEW u \in Int, t <= u
    PROVE  t + Clock!OffsetAt(Chosen(list, t), t) <= u + Clock!OffsetAt(Chosen(list, u), u)
<1> DEFINE p == At(list, t)
           q == At(list, u)
           time(i, x) == x + Clock!OffsetAt(list[i], x)
<1>1. /\ p \in 1..Len(list) /\ (p = 1 \/ p \in Begun(list, t))
      /\ \A j \in Begun(list, t) : j <= p
  BY AtType
<1>2. /\ q \in 1..Len(list) /\ (q = 1 \/ q \in Begun(list, u))
      /\ \A j \in Begun(list, u) : j <= q
  BY AtType
<1>3. Len(list) \in Nat
  BY LenProperties
<1>4. \A i \in 1..Len(list) : list[i] \in Segment /\ Gradual(list[i]) /\ list[i].begin \in Nat
  BY ElementOfSeq, BeginType DEF Linked
<1>5. \A i \in 1..Len(list) : \A x \in Int : time(i, x) \in Int
  <2> SUFFICES ASSUME NEW i \in 1..Len(list), NEW x \in Int PROVE time(i, x) \in Int
    OBVIOUS
  <2>1. Clock!OffsetAt(list[i], x) \in Int
    BY <1>4, OffsetType
  <2> QED
    BY <2>1
<1>6. \A i \in 1..Len(list) : \A x, y \in Int : x <= y => time(i, x) <= time(i, y)
  BY <1>4, NoTurningBack
<1>7. Chosen(list, t) = list[p] /\ Chosen(list, u) = list[q]
  BY DEF Chosen
<1> HIDE DEF p, q
<1>8. p <= q
  <2>1. CASE p = 1
    BY <1>2, <2>1
  <2>2. CASE p \in Begun(list, t)
    <3>1. list[p].begin <= t /\ list[p].begin \in Nat
      BY <1>4, <1>1, <2>2 DEF Begun
    <3>2. p \in Begun(list, u)
      BY <1>1, <3>1 DEF Begun
    <3> QED
      BY <1>2, <3>2
  <2> QED
    BY <1>1, <2>1, <2>2
<1>9. CASE p = q
  <2>1. time(p, t) <= time(p, u)
    BY <1>1, <1>6
  <2> QED
    BY <1>7, <1>9, <2>1
<1>10. CASE p # q
  <2>1. p + 1 \in 1..Len(list) /\ (p + 1 = q \/ p + 1 < q)
    BY <1>1, <1>2, <1>3, <1>8, <1>10
  <2> DEFINE next == list[p + 1]
             b == next.begin
  <2>2. next \in Segment /\ b \in Nat
    BY <1>4, <2>1
  <2>3. t < b
    <3>1. p + 1 \notin Begun(list, t)
      BY <1>1
    <3>2. ~(b <= t)
      BY <2>1, <3>1 DEF Begun
    <3> QED
      BY <2>2, <3>2
  <2>4. time(p, t) <= time(p, b)
    BY <1>1, <1>6, <2>2, <2>3
  <2>5. time(p, b) = Anchor(next)
    <3>1. next.start = Clock!OffsetAt(list[p], b)
      BY <1>1, <2>1 DEF Linked
    <3> QED
      BY <3>1 DEF Anchor
  <2>6. Anchor(next) <= Anchor(list[q])
    <3>1. CASE p + 1 = q
      <4>1. Anchor(next) \in Int
        BY SMTT(30), <2>2 DEF Anchor, Segment
      <4> QED
        BY <3>1, <4>1
    <3>2. CASE p + 1 < q
      BY <1>2, <2>1, <3>2 DEF Linked
    <3> QED
      BY <2>1, <3>1, <3>2
  <2>7. Anchor(list[q]) = time(q, list[q].begin)
    BY <1>2, <1>4, AtBegin
  <2>8. list[q].begin <= u
    <3>1. q # 1
      BY <1>1, <1>2, <1>8, <1>10
    <3> QED
      BY <1>2, <3>1 DEF Begun
  <2>9. time(q, list[q].begin) <= time(q, u)
    BY <1>2, <1>4, <1>6, <2>8
  <2>10. /\ time(p, t) \in Int /\ time(p, b) \in Int
         /\ time(q, list[q].begin) \in Int /\ time(q, u) \in Int
    <3>1. p \in 1..Len(list) /\ q \in 1..Len(list) /\ b \in Int /\ list[q].begin \in Int
      BY <1>1, <1>2, <1>4, <2>2
    <3> HIDE DEF time, b
    <3> QED
      BY <1>5, <3>1
  <2>11. time(p, t) <= time(q, u)
    <3> HIDE DEF time, next, b
    <3> QED
      BY <2>4, <2>5, <2>6, <2>7, <2>9, <2>10
  <2> QED
    BY <1>7, <2>11
<1> QED
  BY <1>9, <1>10

\* A segment that starts where the last one has got to keeps a timeline linked.
LEMMA LinkedLonger ==
    ASSUME NEW list \in Seq(Segment), list # <<>>, Linked(list),
           NEW last \in Segment, Gradual(last), last.begin > list[Len(list)].begin,
           last.start = Clock!OffsetAt(list[Len(list)], last.begin)
    PROVE  Linked(Append(list, last))
<1> DEFINE longer == Append(list, last)
           n == Len(list)
<1>1. /\ n \in Nat \ {0} /\ Len(longer) = n + 1
      /\ \A i \in 1..n : longer[i] = list[i]
      /\ longer[n + 1] = last
  BY AppendProperties, EmptySeq
<1> HIDE DEF longer
<1>2. /\ \A i \in 1..n : list[i] \in Segment /\ Anchor(list[i]) \in Int
      /\ Anchor(last) \in Int
  <2>1. \A i \in 1..n : list[i] \in Segment
    BY ElementOfSeq
  <2>2. \A g \in Segment : Anchor(g) \in Int
    BY DEF Segment, Anchor
  <2> QED
    BY <2>1, <2>2
<1>3. Anchor(list[n]) <= Anchor(last)
  <2>1. n \in 1..n
    BY <1>1
  <2>2. list[n] \in Segment /\ Gradual(list[n])
    BY <1>2, <2>1 DEF Linked
  <2>3. list[n].begin \in Int /\ last.begin \in Int /\ list[n].begin <= last.begin
    BY <2>2 DEF Segment
  <2>4. list[n].begin + Clock!OffsetAt(list[n], list[n].begin)
          <= last.begin + Clock!OffsetAt(list[n], last.begin)
    BY <2>2, <2>3, NoTurningBack
  <2> QED
    BY <2>2, <2>4, AtBegin DEF Anchor
<1>4. ASSUME NEW i \in 1..(n + 1)
      PROVE  Gradual(longer[i])
  <2>1. CASE i \in 1..n
    BY <1>1, <2>1 DEF Linked
  <2>2. CASE i = n + 1
    BY <1>1, <2>2
  <2> QED
    BY <1>1, <1>4, <2>1, <2>2
<1>5. ASSUME NEW i \in 1..(n + 1), i + 1 \in 1..(n + 1)
      PROVE  longer[i + 1].start = Clock!OffsetAt(longer[i], longer[i + 1].begin)
  <2>1. i \in 1..n /\ longer[i] = list[i]
    BY <1>1, <1>5
  <2>2. CASE i + 1 \in 1..n
    BY <1>1, <2>1, <2>2 DEF Linked
  <2>3. CASE i + 1 = n + 1
    <3>1. i = n
      BY <1>1, <2>1, <2>3
    <3> QED
      BY <1>1, <2>1, <3>1
  <2> QED
    BY <1>1, <1>5, <2>2, <2>3
<1>6. ASSUME NEW i \in 1..(n + 1), NEW j \in 1..(n + 1), i < j
      PROVE  Anchor(longer[i]) <= Anchor(longer[j])
  <2>1. i \in 1..n /\ longer[i] = list[i]
    BY <1>1, <1>6
  <2>2. CASE j \in 1..n
    BY <1>1, <1>6, <2>1, <2>2 DEF Linked
  <2>3. CASE j = n + 1
    <3>1. n \in 1..n /\ (i = n \/ i < n)
      BY <1>1, <2>1
    <3>2. Anchor(list[i]) <= Anchor(list[n])
      <4>1. CASE i = n
        BY <1>2, <2>1, <4>1
      <4>2. CASE i < n
        BY <2>1, <3>1, <4>2 DEF Linked
      <4> QED
        BY <3>1, <4>1, <4>2
    <3>3. Anchor(list[i]) <= Anchor(last)
      BY <1>2, <1>3, <2>1, <3>1, <3>2
    <3> QED
      BY <1>1, <2>1, <2>3, <3>3
  <2> QED
    BY <1>1, <1>6, <2>2, <2>3
<1>7. Linked(longer)
  BY <1>1, <1>4, <1>5, <1>6 DEF Linked
<1> QED
  BY <1>7 DEF longer

LEMMA LinkedTail ==
    ASSUME NEW list \in Seq(Segment), list # <<>>, Linked(list)
    PROVE  Linked(Tail(list))
<1> DEFINE rest == Tail(list)
<1>1. /\ Len(list) \in Nat \ {0} /\ Len(rest) = Len(list) - 1
      /\ \A i \in 1..Len(rest) : rest[i] = list[i + 1]
  BY HeadTailProperties, EmptySeq
<1> HIDE DEF rest
<1>2. \A i \in 1..Len(rest) : i + 1 \in 1..Len(list)
  BY <1>1
<1>3. \A i \in 1..Len(rest) : Gradual(rest[i])
  BY <1>1, <1>2 DEF Linked
<1>4. ASSUME NEW i \in 1..Len(rest), i + 1 \in 1..Len(rest)
      PROVE  rest[i + 1].start = Clock!OffsetAt(rest[i], rest[i + 1].begin)
  <2>1. /\ i + 1 \in 1..Len(list) /\ (i + 1) + 1 \in 1..Len(list)
        /\ rest[i] = list[i + 1] /\ rest[i + 1] = list[(i + 1) + 1]
    BY <1>1, <1>2, <1>4
  <2> QED
    BY <2>1 DEF Linked
<1>5. ASSUME NEW i \in 1..Len(rest), NEW j \in 1..Len(rest), i < j
      PROVE  Anchor(rest[i]) <= Anchor(rest[j])
  <2>1. i + 1 \in 1..Len(list) /\ j + 1 \in 1..Len(list) /\ i + 1 < j + 1
    BY <1>2, <1>5
  <2> QED
    BY <1>1, <1>5, <2>1 DEF Linked
<1>6. Linked(rest)
  BY <1>3, <1>4, <1>5 DEF Linked
<1> QED
  BY <1>6 DEF rest

LEMMA AddModelOrder ==
    ASSUME TimelineConstants, TimelineInv, OrderInv, UNCHANGED <<lastMapped, mapped>>,
           NEW offset \in MappedOffsets, NEW sync \in Clock!Stamps, Clock!AddModel(offset, sync)
    PROVE  OrderInv'
<1>1. segments \in Seq(Segment) /\ earliest \in Int
  BY DEF TimelineInv, Typed
<1>2. Clock!MappedInOrder'
  BY DEF OrderInv, Clock!MappedInOrder
<1>3. CASE UNCHANGED <<segments, earliest>>
  BY <1>2, <1>3 DEF OrderInv, Passed
<1>4. CASE ~(sync <= lastReport) /\ segments = <<>>
  <2> DEFINE new == Clock!First(offset, sync)
             more == Append(segments, new)
  <2>1. mapped = {}
    BY <1>4 DEF TimelineInv, Kept
  <2>2. new \in Segment /\ Gradual(new)
    BY FirstType DEF Clock!First, Gradual, TimelineConstants
  <2>3. Len(more) = 1 /\ more[1] = new
    <3>1. Len(<<>>) = 0
      BY EmptySeq
    <3> HIDE DEF new
    <3>2. Len(more) = Len(segments) + 1 /\ more[Len(segments) + 1] = new
      BY <1>1, <2>2, AppendProperties
    <3> QED
      BY <1>4, <3>1, <3>2
  <2>4. segments' = more
    <3>1. ~(Len(more) > MaxMapSegments)
      BY <2>3 DEF TimelineConstants
    <3> QED
      BY <1>4, <3>1 DEF Clock!AddModel
  <2>5. Linked(more)
    <3> HIDE DEF more, new
    <3> QED
      BY <2>2, <2>3 DEF Linked
  <2> QED
    BY <1>2, <2>1, <2>4, <2>5 DEF OrderInv, Passed
<1>5. CASE ~(sync <= lastReport) /\ segments # <<>>
  <2> DEFINE new == Clock!Later(offset, sync)
             more == Append(segments, new)
  <2>1. /\ new \in Segment /\ Gradual(new)
        /\ new.start = Clock!OffsetAt(segments[Len(segments)], new.begin)
        /\ new.begin > segments[Len(segments)].begin
        /\ new.begin > lastMapped
    BY <1>5, LaterType DEF TimelineInv
  <2> HIDE DEF new
  <2>2. Linked(more)
    BY <1>1, <1>5, <2>1, LinkedLonger DEF OrderInv
  <2>3. /\ Len(segments) \in Nat \ {0} /\ Len(more) = Len(segments) + 1
        /\ more \in Seq(Segment) /\ more # <<>>
        /\ \A i \in 1..Len(segments) : more[i] = segments[i]
    BY <1>1, <1>5, <2>1, AppendProperties, EmptySeq
  <2>4. segments' = IF Len(more) > MaxMapSegments THEN Tail(more) ELSE more
    BY <1>5 DEF Clock!AddModel, new
  <2>5. earliest' = IF Len(more) > MaxMapSegments THEN Tail(more)[1].begin ELSE earliest
    BY <1>5 DEF Clock!AddModel, new
  <2> HIDE DEF more
  <2>6. more[1] = segments[1]
    BY <2>3
  <2>7. CASE ~(Len(more) > MaxMapSegments)
    <3>1. segments' = more /\ earliest' = earliest
      BY <2>4, <2>5, <2>7
    <3>2. Passed'
      BY <2>6, <3>1 DEF OrderInv, Passed
    <3> QED
      BY <1>2, <2>2, <3>1, <3>2 DEF OrderInv
  <2>8. CASE Len(more) > MaxMapSegments
    <3>1. segments' = Tail(more) /\ earliest' = Tail(more)[1].begin
      BY <2>4, <2>5, <2>8
    <3>2. Linked(segments')
      BY <2>2, <2>3, <3>1, LinkedTail
    <3>3. Tail(more)[1] = more[2] /\ 1 \in 1..Len(more) /\ 2 \in 1..Len(more)
      <4>1. /\ Len(Tail(more)) = Len(more) - 1
            /\ \A i \in 1..Len(Tail(more)) : Tail(more)[i] = more[i + 1]
        BY <2>3, HeadTailProperties
      <4>2. 1 \in 1..Len(Tail(more)) /\ 1 + 1 = 2
        BY <2>3, <4>1
      <4> QED
        BY <2>3, <4>1, <4>2
    <3>4. /\ more[1] \in Segment /\ more[2] \in Segment
          /\ Anchor(more[1]) \in Int /\ Anchor(more[2]) \in Int
          /\ Anchor(more[1]) <= Anchor(more[2])
      <4>1. more[1] \in Segment /\ more[2] \in Segment
        BY <2>3, <3>3, ElementOfSeq
      <4> QED
        BY <2>2, <3>3, <4>1 DEF Segment, Anchor, Linked
    <3>5. ASSUME NEW a \in mapped, a.at < more[2].begin
          PROVE  a.global <= Anchor(more[2])
      <4>1. a.at \in Nat /\ a.at <= lastMapped /\ a.global \in Int
        BY DEF TimelineInv, Kept, OrderInv, Passed
      <4>2. CASE a.at < earliest
        <5>1. a.global <= Anchor(more[1])
          BY <2>6, <4>2 DEF OrderInv, Passed
        <5> QED
          BY <3>4, <4>1, <5>1
      <4>3. CASE ~(a.at < earliest)
        <5>1. a = MappedBy(segments, a.at)
          BY <4>3 DEF TimelineInv, Kept
        <5>2. Chosen(segments, a.at) = more[1]
          <6>1. ASSUME 2 \in 1..Len(segments) PROVE a.at < segments[2].begin
            BY <2>3, <3>5, <6>1
          <6>2. Ordered(segments)
            BY DEF TimelineInv, Begins, Ordered
          <6> QED
            BY <1>1, <1>5, <2>6, <4>1, <6>1, <6>2, FirstHolds
        <5>3. a.global = a.at + Clock!OffsetAt(more[1], a.at)
          BY <5>1, <5>2 DEF MappedBy
        <5>4. Gradual(more[1]) /\ more[2].begin \in Int /\ a.at \in Int /\ a.at <= more[2].begin
          BY <2>2, <3>3, <3>4, <3>5, <4>1 DEF Linked, Segment
        <5>5. a.at + Clock!OffsetAt(more[1], a.at) <= more[2].begin + Clock!OffsetAt(more[1], more[2].begin)
          BY <3>4, <5>4, NoTurningBack
        <5>6. more[2].begin + Clock!OffsetAt(more[1], more[2].begin) = Anchor(more[2])
          <6>1. 1 + 1 = 2 /\ more[2].start = Clock!OffsetAt(more[1], more[2].begin)
            BY <2>2, <3>3 DEF Linked
          <6> QED
            BY <6>1 DEF Anchor
        <5> QED
          BY <5>3, <5>5, <5>6
      <4> QED
        BY <1>1, <4>1, <4>2, <4>3
    <3>6. Passed'
      <4> SUFFICES ASSUME NEW a \in mapped'
                   PROVE  /\ a.global \in Int
                          /\ a.at < earliest' =>
                                /\ earliest' = segments'[1].begin
                                /\ a.global <= Anchor(segments'[1])
        BY DEF Passed, Anchor
      <4>1. a \in mapped /\ a.global \in Int
        BY DEF OrderInv, Passed
      <4>2. segments'[1] = more[2] /\ earliest' = more[2].begin
        BY <3>1, <3>3
      <4> QED
        BY <3>5, <4>1, <4>2
    <3> QED
      BY <1>2, <3>2, <3>6 DEF OrderInv, Linked, Gradual, Anchor, Clock!OffsetAt
  <2> QED
    BY <2>7, <2>8
<1> QED
  BY <1>3, <1>4, <1>5 DEF Clock!AddModel

LEMMA MapOrder ==
    ASSUME TimelineInv, OrderInv, NEW t \in Clock!Stamps, Clock!Map(t)
    PROVE  OrderInv'
<1>1. /\ UNCHANGED <<segments, earliest>> /\ t \in Nat
      /\ segments \in Seq(Segment) /\ earliest \in Int
      /\ Ordered(segments) /\ Linked(segments)
  BY DEF Clock!Map, Clock!Stamps, TimelineInv, Typed, Begins, Ordered, OrderInv
<1>2. CASE UNCHANGED <<lastMapped, mapped>>
  BY <1>1, <1>2 DEF OrderInv, Passed, Clock!MappedInOrder
<1>3. CASE ~UNCHANGED <<lastMapped, mapped>>
  <2> DEFINE n == MappedBy(segments, t)
  <2>1. /\ segments # <<>> /\ ~(t < earliest)
        /\ mapped' = mapped \cup {n}
    BY <1>3, SegmentOfIsChosen DEF Clock!Map, MappedBy
  <2>2. n.at = t /\ n.global = t + Clock!OffsetAt(Chosen(segments, t), t)
    BY DEF MappedBy
  <2> HIDE DEF n
  <2>3. n.global \in Int
    <3>1. Clock!OffsetAt(Chosen(segments, t), t) \in Int
      BY <1>1, <2>1, AtType, OffsetType
    <3> QED
      BY <1>1, <2>2, <3>1
  <2>4. ASSUME NEW a \in mapped, a.at < t
        PROVE  a.global <= n.global
    <3>1. a.at \in Nat /\ a.global \in Int
      BY DEF TimelineInv, Kept, OrderInv, Passed
    <3>2. CASE a.at < earliest
      <4> DEFINE b == segments[1].begin
      <4>1. earliest = b /\ a.global <= Anchor(segments[1])
        BY <3>2 DEF OrderInv, Passed
      <4>2. b \in Nat /\ segments[1] \in Segment /\ 1 \in 1..Len(segments)
        <5>1. 1 \in 1..Len(segments)
          BY <1>1, <2>1, EmptySeq
        <5> QED
          BY <1>1, <5>1, ElementOfSeq, BeginType
      <4>3. Chosen(segments, b) = segments[1]
        <5>1. 2 \in 1..Len(segments) => b < segments[2].begin
          BY <1>1, <4>2 DEF Ordered
        <5> QED
          BY <1>1, <2>1, <4>2, <5>1, FirstHolds
      <4>4. b <= t
        BY <1>1, <2>1, <4>1
      <4>5. b + Clock!OffsetAt(segments[1], b) <= n.global
        BY <1>1, <2>1, <2>2, <4>2, <4>3, <4>4, TimelineMonotonic
      <4>6. b + Clock!OffsetAt(segments[1], b) = Anchor(segments[1])
        BY <4>2, AtBegin
      <4>7. Anchor(segments[1]) \in Int
        BY <4>2 DEF Anchor, Segment
      <4> QED
        BY <2>3, <3>1, <4>1, <4>5, <4>6, <4>7
    <3>3. CASE ~(a.at < earliest)
      <4>1. a.global = a.at + Clock!OffsetAt(Chosen(segments, a.at), a.at)
        BY <3>3 DEF TimelineInv, Kept, MappedBy
      <4> QED
        BY <1>1, <2>1, <2>2, <2>4, <3>1, <4>1, TimelineMonotonic
    <3> QED
      BY <3>2, <3>3
  <2>5. ASSUME NEW a \in mapped, t < a.at
        PROVE  n.global <= a.global
    <3>1. a.at \in Nat
      BY DEF TimelineInv, Kept
    <3>2. ~(a.at < earliest)
      BY <1>1, <2>1, <2>5, <3>1
    <3>3. a.global = a.at + Clock!OffsetAt(Chosen(segments, a.at), a.at)
      BY <3>2 DEF TimelineInv, Kept, MappedBy
    <3> QED
      BY <1>1, <2>1, <2>2, <2>5, <3>1, <3>3, TimelineMonotonic
  <2>6. Clock!MappedInOrder'
    BY <1>1, <2>1, <2>2, <2>4, <2>5 DEF OrderInv, Clock!MappedInOrder
  <2>7. Passed'
    BY <1>1, <2>1, <2>2, <2>3 DEF OrderInv, Passed
  <2> QED
    BY <1>1, <2>6, <2>7 DEF OrderInv
<1> QED
  BY <1>2, <1>3

LEMMA OrderStep ==
    ASSUME TimelineConstants, TimelineInv, OrderInv, [Clock!Next]_(Clock!vars)
    PROVE  OrderInv'
<1>1. ASSUME UNCHANGED <<segments, earliest, mapped>> PROVE OrderInv'
  BY <1>1 DEF OrderInv, Passed, Clock!MappedInOrder
<1>2. ASSUME NEW offset \in MappedOffsets, NEW sync \in Clock!Stamps, Clock!Report(offset, sync)
      PROVE  OrderInv'
  BY <1>1, <1>2, AddModelOrder DEF Clock!Report
<1> QED
  BY <1>1, <1>2, MapOrder DEF Clock!Next, Clock!vars

-----------------------------------------------------------------------------
\* However the reports of a sender and the frames of its streams cross, and
\* however many segments are forgotten, a timestamp is never mapped to two times,
\* and a later one never to an earlier time.
THEOREM Standing ==
    ASSUME TimelineConstants
    PROVE  Clock!Spec => []MappingStands
<1>1. Clock!Init => OrderInv
  <2> SUFFICES ASSUME Clock!Init PROVE OrderInv
    OBVIOUS
  <2>1. segments = <<>> /\ mapped = {} /\ Len(<<>>) = 0
    BY EmptySeq DEF Clock!Init
  <2> QED
    BY <2>1 DEF OrderInv, Linked, Passed, Clock!MappedInOrder
<1>2. TimelineInv /\ OrderInv /\ [Clock!Next]_(Clock!vars) => TimelineInv' /\ OrderInv'
  BY TimelineStep, OrderStep
<1>3. TimelineInv /\ OrderInv => Clock!MappingStands
  BY DEF TimelineInv, OrderInv, Clock!MappingStands
<1> QED
  BY <1>1, <1>2, <1>3, InitInv, PTL DEF Clock!Spec, MappingStands

-----------------------------------------------------------------------------
(***************************************************************************)
(* The sender's measurement of its clock (ClockSyncClient).                   *)
(***************************************************************************)

MeasureConstants ==
    /\ 1 \in DOMAIN Base /\ \A r \in DOMAIN Base : Base[r] \in Int
    /\ Skews \in Seq(Int) /\ Len(Skews) > 0
    /\ MaxDelay \in Nat /\ Window \in Nat \ {0}

\* An offset that receiver r and some setting of the sender's clock account for.
Fits(r, offset) ==
    /\ \E i \in 1..(sets + 1) : offset >= Base[r] - Skews[i] - Measure!HalfDelay
    /\ \E i \in 1..(sets + 1) : offset <= Base[r] - Skews[i] + Measure!HalfDelay

MeasureTyped ==
    /\ clockNow \in Nat /\ sets \in Nat /\ sets + 1 <= Len(Skews)
    /\ probeTarget \in [host : Measure!Receivers, generation : Nat]
    /\ client \in [pc : {"idle", "wait"}, host : Measure!Receivers \cup {0}, gen : Nat, seq : Nat,
           t1 : Int]
    /\ state \in [valid : BOOLEAN, offset : Int, lastSync : Int]
    /\ samples \in Seq([offset : Int, delay : Int])

\* A probe was sent, and answered, by the clocks of their time.
Sent(m) ==
    m.host \in Measure!Receivers /\ \E i \in 1..(sets + 1), n \in 0..clockNow : m.t1 = n + Skews[i]
Answered(m) ==
    /\ m.host \in Measure!Receivers /\ m.t3 = m.t2
    /\ \E i \in 1..(sets + 1), n \in 0..clockNow, a \in 0..clockNow :
          n <= a /\ m.t1 = n + Skews[i] /\ m.t2 = a + Base[m.host]
Timed == (\A m \in probes : Sent(m)) /\ (\A m \in responses : Answered(m))

\* The samples and the state are those of the receiver that was last probed.
OfReceiver ==
    /\ client.gen = targetGen /\ targetGen <= probeTarget.generation
    /\ targetGen = probeTarget.generation => client.host = probeTarget.host
    /\ targetGen = 0 => client.pc = "idle" /\ ~state.valid /\ samples = <<>>
    /\ targetGen # 0 => client.host \in Measure!Receivers
Measured ==
    /\ \A k \in 1..Len(samples) : Fits(client.host, samples[k].offset)
    /\ state.valid => Fits(client.host, state.offset)

MeasureInv == MeasureTyped /\ Timed /\ OfReceiver /\ Measured /\ probeTarget.generation # 0

-----------------------------------------------------------------------------
\* Arithmetic

LEMMA HalfIs ==
    ASSUME MeasureConstants
    PROVE  Measure!HalfDelay \in Nat /\ MaxDelay <= 2 * Measure!HalfDelay
BY DEF MeasureConstants, Measure!HalfDelay

\* Half of a sum of two differences, rounded toward zero.
LEMMA Halved ==
    ASSUME NEW sum \in Int, NEW low \in Int, NEW high \in Int, NEW half \in Nat,
           sum >= 2 * low - 2 * half, sum <= 2 * high + 2 * half
    PROVE  LET q == IF sum >= 0 THEN sum \div 2 ELSE -((-sum) \div 2)
           IN  q \in Int /\ q >= low - half /\ q <= high + half
<1>1. CASE sum >= 0
  <2>1. PICK q \in Int : q = sum \div 2
    BY <1>1
  <2>2. 2 * q <= sum /\ sum <= 2 * q + 1
    BY <1>1, <2>1
  <2>3. q >= low - half /\ q <= high + half
    BY <2>1, <2>2
  <2> QED BY <1>1, <2>1, <2>3
<1>2. CASE ~(sum >= 0)
  <2>1. PICK q \in Int : q = (-sum) \div 2
    BY <1>2
  <2>2. 2 * q <= -sum /\ -sum <= 2 * q + 1
    BY <1>2, <2>1
  <2>3. -q >= low - half /\ -q <= high + half
    BY <2>1, <2>2
  <2> QED BY <1>2, <2>1, <2>3
<1> QED BY <1>1, <1>2

\* A blend is between the old and the new.
LEMMA BlendBetween ==
    ASSUME NEW old \in Int, NEW new \in Int
    PROVE  /\ Measure!Blend(old, new) \in Int
           /\ Measure!Blend(old, new) >= old \/ Measure!Blend(old, new) >= new
           /\ Measure!Blend(old, new) <= old \/ Measure!Blend(old, new) <= new
<1>1. PICK f \in Int : f = 4 * old + new
  OBVIOUS
<1>2. CASE f >= 0
  <2>1. PICK q \in Int : q = (2 * f + 5) \div 10
    BY <1>2
  <2>2. 10 * q <= 2 * f + 5 /\ 2 * f + 5 < 10 * q + 10
    BY <1>2, <2>1
  <2>3. Measure!Blend(old, new) = q
    BY <1>1, <1>2, <2>1 DEF Measure!Blend
  <2>4. (q >= old \/ q >= new) /\ (q <= old \/ q <= new)
    BY <1>1, <2>2
  <2> QED BY <2>3, <2>4
<1>3. CASE ~(f >= 0)
  <2>1. PICK q \in Int : q = (-2 * f + 5) \div 10
    BY <1>3
  <2>2. 10 * q <= -2 * f + 5 /\ -2 * f + 5 < 10 * q + 10
    BY <1>3, <2>1
  <2>3. Measure!Blend(old, new) = -q
    BY <1>1, <1>3, <2>1 DEF Measure!Blend
  <2>4. (-q >= old \/ -q >= new) /\ (-q <= old \/ -q <= new)
    BY <1>1, <2>2
  <2> QED BY <2>3, <2>4
<1> QED BY <1>2, <1>3

-----------------------------------------------------------------------------
LEMMA Settings ==
    ASSUME MeasureConstants, MeasureTyped
    PROVE  /\ \A r \in Measure!Receivers : Base[r] \in Int
           /\ \A i \in 1..(sets + 1) : Skews[i] \in Int
           /\ sets + 1 \in 1..(sets + 1) /\ Measure!Skew \in Int /\ Measure!SenderClock \in Int
<1>1. \A i \in 1..(sets + 1) : Skews[i] \in Int
  <2> SUFFICES ASSUME NEW i \in 1..(sets + 1) PROVE Skews[i] \in Int
    OBVIOUS
  <2>1. i \in 1..Len(Skews)
    BY LenProperties DEF MeasureConstants, MeasureTyped
  <2> QED BY <2>1, ElementOfSeq DEF MeasureConstants
<1>2. sets + 1 \in 1..(sets + 1)
  BY DEF MeasureTyped
<1> QED
  BY SMTT(30), <1>1, <1>2
     DEF Measure!Skew, Measure!SenderClock, MeasureConstants, MeasureTyped, Measure!Receivers

\* What was accounted for still is: time passes and settings are added.
LEMMA StillFits ==
    ASSUME MeasureConstants, MeasureTyped, sets' = sets \/ sets' = sets + 1, NEW r, NEW offset,
           Fits(r, offset)
    PROVE  Fits(r, offset)'
<1>1. \A i \in 1..(sets + 1) : i \in 1..(sets' + 1)
  BY DEF MeasureTyped
<1> QED BY <1>1 DEF Fits, Measure!HalfDelay

LEMMA StillTimed ==
    ASSUME MeasureConstants, MeasureTyped, sets' = sets \/ sets' = sets + 1,
           clockNow' = clockNow \/ clockNow' = clockNow + 1, NEW m
    PROVE  (Sent(m) => Sent(m)') /\ (Answered(m) => Answered(m)')
<1>1. \A i \in 1..(sets + 1) : i \in 1..(sets' + 1)
  BY DEF MeasureTyped
<1>2. \A n \in 0..clockNow : n \in 0..clockNow'
  BY DEF MeasureTyped
<1>3. Sent(m) => Sent(m)'
  BY <1>1, <1>2 DEF Sent, Measure!Receivers
<1>4. Answered(m) => Answered(m)'
  BY <1>1, <1>2 DEF Answered, Measure!Receivers
<1> QED BY <1>3, <1>4

LEMMA StillMeasured ==
    ASSUME MeasureConstants, MeasureTyped, Measured, sets' = sets \/ sets' = sets + 1,
           client'.host = client.host, UNCHANGED <<state, samples>>
    PROVE  Measured'
<1>1. PICK h, o : h = client.host /\ o = state.offset
  OBVIOUS
<1>2. ASSUME NEW k \in 1..Len(samples) PROVE Fits(h, samples[k].offset)'
  <2>1. PICK p : p = samples[k].offset
    OBVIOUS
  <2>2. Fits(h, p)'
    BY <1>1, <2>1, StillFits DEF Measured
  <2> QED BY <2>1, <2>2
<1>3. state.valid => Fits(h, o)'
  BY <1>1, StillFits DEF Measured
<1> QED BY <1>1, <1>2, <1>3 DEF Measured

\* What the new sample of an answer is.
LEMMA SampleFits ==
    ASSUME MeasureConstants, MeasureTyped, client.host \in Measure!Receivers, NEW m, Answered(m),
           Measure!Answers(m), Measure!Acceptable(m, Measure!SenderClock)
    PROVE  /\ Measure!Offset(m, Measure!SenderClock) \in Int
           /\ Measure!Delay(m, Measure!SenderClock) \in Int
           /\ Fits(client.host, Measure!Offset(m, Measure!SenderClock))
<1>1. PICK i \in 1..(sets + 1), n \in 0..clockNow, a \in 0..clockNow :
          n <= a /\ m.t1 = n + Skews[i] /\ m.t2 = a + Base[m.host]
  BY DEF Answered
<1>2. PICK b \in Int, s1 \in Int, s2 \in Int : b = Base[client.host] /\ s1 = Skews[i]
          /\ s2 = Measure!Skew
  BY Settings
<1>3. clockNow \in Nat /\ n \in Nat /\ a \in Nat /\ n <= a /\ a <= clockNow
  BY <1>1 DEF MeasureTyped
<1>4. m.t2 = a + b /\ m.t3 = a + b /\ client.t1 = n + s1 /\ Measure!SenderClock = clockNow + s2
  BY <1>1, <1>2 DEF Answered, Measure!Answers, Measure!SenderClock
<1>5. Measure!HalfDelay \in Nat /\ MaxDelay <= 2 * Measure!HalfDelay /\ MaxDelay \in Nat
  BY HalfIs DEF MeasureConstants
<1>6. PICK half \in Nat : half = Measure!HalfDelay
  BY <1>5
<1>7. PICK delay \in Int : delay = Measure!Delay(m, Measure!SenderClock) /\ delay = clockNow + s2 - (n + s1)
  BY <1>2, <1>3, <1>4 DEF Measure!Delay
<1>8. 0 <= delay /\ delay <= 2 * half
  BY <1>5, <1>6, <1>7 DEF Measure!Acceptable
<1>9. PICK sum \in Int : sum = (m.t2 - client.t1) + (m.t3 - Measure!SenderClock)
  BY <1>2, <1>3, <1>4
<1>10. sum = 2 * a + 2 * b - n - s1 - clockNow - s2
  BY <1>2, <1>3, <1>4, <1>9
<1>11. b - s1 \in Int /\ b - s2 \in Int /\ sum >= 2 * (b - s1) - 2 * half
           /\ sum <= 2 * (b - s2) + 2 * half
  BY <1>2, <1>3, <1>7, <1>8, <1>10
<1>12. PICK low \in Int, high \in Int : low = b - s1 /\ high = b - s2
  BY <1>11
<1>13. PICK q \in Int : q = IF sum >= 0 THEN sum \div 2 ELSE -((-sum) \div 2)
  BY <1>9
<1>14. q >= low - half /\ q <= high + half
  <2>1. sum >= 2 * low - 2 * half /\ sum <= 2 * high + 2 * half
    BY <1>11, <1>12
  <2> QED BY <1>13, <2>1, Halved
<1>15. Measure!Offset(m, Measure!SenderClock) = q
  BY <1>9, <1>13 DEF Measure!Offset
<1>16. sets + 1 \in 1..(sets + 1) /\ s2 = Skews[sets + 1]
  BY <1>2, Settings DEF Measure!Skew
<1>17. Fits(client.host, q)
  BY <1>2, <1>6, <1>12, <1>14, <1>16 DEF Fits
<1> QED BY <1>7, <1>15, <1>17

-----------------------------------------------------------------------------
\* The samples that stay and the new one; the offset is made of one of them.
LEMMA ApplyMeasures ==
    ASSUME MeasureConstants, MeasureTyped, Measured, client.host \in Measure!Receivers,
           NEW t4 \in Int, NEW offset \in Int,
           NEW delay \in Int, Fits(client.host, offset), Measure!Apply(t4, offset, delay),
           client'.host = client.host, sets' = sets
    PROVE  /\ state' \in [valid : BOOLEAN, offset : Int, lastSync : Int]
           /\ samples' \in Seq([offset : Int, delay : Int])
           /\ Measured'
<1> DEFINE Sample == [offset : Int, delay : Int]
           sample == [offset |-> offset, delay |-> delay]
           large == state.valid /\ Measure!Apart(offset, state.offset) > LargeStep
           kept == IF large THEN <<>> ELSE samples
           more == Append(kept, sample)
           new == IF Len(more) > Window THEN Tail(more) ELSE more
<1>1. CASE UNCHANGED <<state, samples>>
  BY <1>1, StillMeasured DEF MeasureTyped
<1>2. CASE /\ samples' = new
           /\ \E half \in Measure!Selected(new) : \E i \in half :
                  /\ Measure!Median(new, half, i)
                  /\ state' = [valid |-> TRUE, lastSync |-> t4,
                               offset |-> IF state.valid /\ ~large
                                          THEN Measure!Blend(state.offset, new[i].offset)
                                          ELSE new[i].offset]
  <2>1. sample \in Sample /\ sample.offset = offset
    OBVIOUS
  <2> HIDE DEF sample
  <2>2. /\ kept \in Seq(Sample) /\ Len(kept) \in Nat
        /\ \A k \in 1..Len(kept) : Fits(client.host, kept[k].offset)
    <3>1. CASE large
      BY <3>1, EmptySeq
    <3>2. CASE ~large
      BY <3>2, LenProperties DEF MeasureTyped, Measured
    <3> HIDE DEF large
    <3> QED BY <3>1, <3>2
  <2> HIDE DEF kept
  <2>3. /\ more \in Seq(Sample) /\ Len(more) = Len(kept) + 1
        /\ more[Len(kept) + 1] = sample /\ \A k \in 1..Len(kept) : more[k] = kept[k]
    BY <2>1, <2>2, AppendProperties
  <2>4. \A k \in 1..Len(more) : Fits(client.host, more[k].offset)
    <3> SUFFICES ASSUME NEW k \in 1..Len(more) PROVE Fits(client.host, more[k].offset)
      OBVIOUS
    <3>1. CASE k = Len(kept) + 1
      BY <2>1, <2>3, <3>1
    <3>2. CASE k # Len(kept) + 1
      <4>1. k \in 1..Len(kept)
        BY <2>2, <2>3, <3>2
      <4> QED BY <2>2, <2>3, <4>1
    <3> QED BY <3>1, <3>2
  <2> HIDE DEF more
  <2>5. new \in Seq(Sample) /\ Len(new) \in Nat
            /\ \A k \in 1..Len(new) : Fits(client.host, new[k].offset)
    <3>1. CASE Len(more) > Window
      <4>1. more # <<>> /\ Len(more) \in Nat
        BY <2>2, <2>3, EmptySeq
      <4>2. /\ Tail(more) \in Seq(Sample) /\ Len(Tail(more)) = Len(more) - 1
            /\ \A k \in 1..Len(Tail(more)) : Tail(more)[k] = more[k + 1]
        BY <2>3, <4>1, HeadTailProperties
      <4>3. ASSUME NEW k \in 1..Len(Tail(more)) PROVE Fits(client.host, Tail(more)[k].offset)
        <5>1. k + 1 \in 1..Len(more)
          BY <4>1, <4>2
        <5> QED BY <2>4, <4>2, <5>1
      <4> QED BY <3>1, <4>2, <4>3, LenProperties
    <3>2. CASE ~(Len(more) > Window)
      BY <2>3, <2>4, <3>2, LenProperties
    <3> QED BY <3>1, <3>2
  <2> HIDE DEF new, large
  <2>6. PICK half \in Measure!Selected(new) : \E i \in half :
                  state' = [valid |-> TRUE, lastSync |-> t4,
                               offset |-> IF state.valid /\ ~large
                                          THEN Measure!Blend(state.offset, new[i].offset)
                                          ELSE new[i].offset]
    BY <1>2
  <2>7. PICK i \in half :
                  state' = [valid |-> TRUE, lastSync |-> t4,
                               offset |-> IF state.valid /\ ~large
                                          THEN Measure!Blend(state.offset, new[i].offset)
                                          ELSE new[i].offset]
    BY <2>6
  <2>8. i \in 1..Len(new)
    BY <2>7 DEF Measure!Selected
  <2>9. PICK one \in Int : one = new[i].offset /\ Fits(client.host, one)
    <3>1. new[i] \in Sample
      BY <2>5, <2>8, ElementOfSeq
    <3> QED BY <2>5, <2>8, <3>1
  <2>10. PICK o \in Int : o = state'.offset /\ Fits(client.host, o)
    <3>1. CASE state.valid /\ ~large
      <4>1. PICK old \in Int : old = state.offset /\ Fits(client.host, old)
        BY <3>1 DEF MeasureTyped, Measured
      <4>2. PICK blend \in Int : /\ blend = Measure!Blend(old, one)
                                 /\ blend >= old \/ blend >= one
                                 /\ blend <= old \/ blend <= one
        BY BlendBetween
      <4>3. state'.offset = blend
        BY <2>7, <2>9, <3>1, <4>1, <4>2
      <4>4. \A j \in 1..(sets + 1) : /\ Base[client.host] - Skews[j] - Measure!HalfDelay \in Int
                                     /\ Base[client.host] - Skews[j] + Measure!HalfDelay \in Int
        BY HalfIs, Settings
      <4>5. Fits(client.host, blend)
        BY <2>9, <4>1, <4>2, <4>4 DEF Fits
      <4> QED BY <4>3, <4>5
    <3>2. CASE ~(state.valid /\ ~large)
      BY <2>7, <2>9, <3>2
    <3> QED BY <3>1, <3>2
  <2>11. state' \in [valid : BOOLEAN, offset : Int, lastSync : Int]
    BY <2>7, <2>10
  <2>12. Measured'
    <3>1. PICK h : h = client.host
      OBVIOUS
    <3>2. \A k \in 1..Len(samples') : Fits(h, samples'[k].offset)
      BY <1>2, <2>5, <3>1
    <3>3. \A x : Fits(h, x)' <=> Fits(h, x)
      BY DEF Fits, Measure!HalfDelay
    <3> QED BY <2>10, <3>1, <3>2, <3>3 DEF Measured
  <2> QED BY <1>2, <2>5, <2>11, <2>12
<1> QED BY <1>1, <1>2 DEF Measure!Apply

-----------------------------------------------------------------------------
\* The steps

LEMMA TimeStep ==
    ASSUME MeasureConstants, MeasureInv, Measure!Tick \/ Measure!SetClock
    PROVE  MeasureInv'
<1>1. /\ sets' = sets \/ sets' = sets + 1
      /\ clockNow' = clockNow \/ clockNow' = clockNow + 1
      /\ UNCHANGED <<probeTarget, client, probes, responses, state, samples, targetGen>>
  BY DEF Measure!Tick, Measure!SetClock
<1>2. MeasureTyped'
  <2>1. clockNow' \in Nat /\ sets' \in Nat /\ sets' + 1 <= Len(Skews)
    <3>1. Len(Skews) \in Nat
      BY LenProperties DEF MeasureConstants
    <3> QED BY <3>1 DEF Measure!Tick, Measure!SetClock, MeasureInv, MeasureTyped
  <2> QED BY <1>1, <2>1 DEF MeasureInv, MeasureTyped, Measure!Receivers
<1>3. Timed'
  BY <1>1, StillTimed DEF MeasureInv, Timed
<1>4. OfReceiver'
  BY <1>1 DEF MeasureInv, OfReceiver, Measure!Receivers
<1>5. Measured'
  BY <1>1, StillMeasured DEF MeasureInv
<1> QED BY <1>1, <1>2, <1>3, <1>4, <1>5 DEF MeasureInv

\* Probes and answers, once what else a step does not touch is set aside.
LEMMA TargetStep ==
    ASSUME MeasureConstants, MeasureInv, NEW r \in Measure!Receivers, Measure!TargetChanges(r)
    PROVE  MeasureInv'
<1>1. /\ probeTarget' = [host |-> r, generation |-> probeTarget.generation + 1]
      /\ UNCHANGED <<clockNow, sets, client, probes, responses, state, samples, targetGen>>
  BY DEF Measure!TargetChanges
<1>2. probeTarget' \in [host : Measure!Receivers, generation : Nat]
      /\ probeTarget'.generation = probeTarget.generation + 1 /\ probeTarget.generation \in Nat
      /\ client.gen \in Nat
  BY <1>1 DEF MeasureInv, MeasureTyped
<1>3. MeasureTyped'
  BY <1>1, <1>2 DEF MeasureInv, MeasureTyped, Measure!Receivers
<1>4. Timed'
  BY <1>1, StillTimed DEF MeasureInv, Timed
<1>5. OfReceiver'
  <2>1. targetGen' # probeTarget'.generation /\ targetGen' <= probeTarget'.generation
    BY <1>1, <1>2 DEF MeasureInv, OfReceiver
  <2> QED BY <1>1, <2>1 DEF MeasureInv, OfReceiver, Measure!Receivers
<1>6. Measured'
  BY <1>1, StillMeasured DEF MeasureInv
<1> QED BY <1>2, <1>3, <1>4, <1>5, <1>6 DEF MeasureInv

LEMMA SendStep ==
    ASSUME MeasureConstants, MeasureInv, Measure!SendProbe
    PROVE  MeasureInv'
<1>0. PICK probe : probe = [host |-> probeTarget.host, seq |-> client.seq + 1, t1 |-> Measure!SenderClock]
  OBVIOUS
<1>1. /\ client' = [pc |-> "wait", host |-> probeTarget.host, gen |-> probeTarget.generation,
                    seq |-> client.seq + 1, t1 |-> Measure!SenderClock]
      /\ probes' = probes \/ probes' = probes \cup {probe}
      /\ IF Measure!Restarts(probeTarget.generation) THEN state' = Measure!NoState /\ samples' = <<>>
         ELSE UNCHANGED <<state, samples>>
      /\ targetGen' = probeTarget.generation
      /\ UNCHANGED <<clockNow, sets, probeTarget, responses>>
  BY <1>0 DEF Measure!SendProbe
<1>2. /\ Measure!SenderClock \in Int /\ probeTarget.host \in Measure!Receivers
      /\ probeTarget.generation \in Nat
      /\ client.seq \in Nat /\ clockNow \in 0..clockNow /\ sets + 1 \in 1..(sets + 1)
      /\ probeTarget.generation # 0
  BY Settings DEF MeasureInv, MeasureTyped
<1>3. probe.host = probeTarget.host /\ probe.t1 = clockNow + Skews[sets + 1]
  BY <1>0 DEF Measure!SenderClock, Measure!Skew
<1>4. client' \in [pc : {"idle", "wait"}, host : Measure!Receivers \cup {0}, gen : Nat, seq : Nat,
          t1 : Int]
      /\ client'.host = probeTarget.host /\ client'.gen = probeTarget.generation
  BY <1>1, <1>2
<1>5. Sent(probe)'
  BY <1>1, <1>2, <1>3 DEF Sent, Measure!Receivers
<1>6. Timed'
  <2>1. \A m \in probes : Sent(m)'
    BY <1>1, StillTimed DEF MeasureInv, Timed
  <2>2. \A m \in responses' : Answered(m)'
    BY <1>1, StillTimed DEF MeasureInv, Timed
  <2> QED BY <1>1, <1>5, <2>1, <2>2 DEF Timed
<1>7. OfReceiver'
  BY <1>1, <1>2, <1>4 DEF OfReceiver, Measure!Receivers
<1>8. CASE Measure!Restarts(probeTarget.generation)
  <2>1. state' = Measure!NoState /\ samples' = <<>> /\ Len(samples') = 0
    BY <1>1, <1>8, EmptySeq
  <2>2. MeasureTyped'
    BY <1>1, <1>2, <1>4, <2>1 DEF MeasureInv, MeasureTyped, Measure!NoState, Measure!Receivers
  <2>3. Measured'
    BY <2>1 DEF Measured, Measure!NoState
  <2> QED BY <1>1, <1>2, <1>6, <1>7, <2>2, <2>3 DEF MeasureInv
<1>9. CASE ~Measure!Restarts(probeTarget.generation)
  <2>1. UNCHANGED <<state, samples>> /\ client'.host = client.host
    BY <1>1, <1>4, <1>9 DEF MeasureInv, OfReceiver, Measure!Restarts
  <2>2. MeasureTyped'
    BY <1>1, <1>4, <2>1 DEF MeasureInv, MeasureTyped, Measure!Receivers
  <2>3. Measured'
    BY <1>1, <2>1, StillMeasured DEF MeasureInv
  <2> QED BY <1>1, <1>2, <1>6, <1>7, <2>2, <2>3 DEF MeasureInv
<1> QED BY <1>8, <1>9

\* A probe is given up, a datagram is lost, a receiver answers.
LEMMA DatagramStep ==
    ASSUME MeasureConstants, MeasureInv,
           Measure!Timeout \/ Measure!Lose \/ \E m \in probes : Measure!Answer(m)
    PROVE  MeasureInv'
<1>1. UNCHANGED <<clockNow, sets, probeTarget, state, samples, targetGen>>
  BY DEF Measure!Timeout, Measure!Lose, Measure!Answer
<1>2. /\ client' \in [pc : {"idle", "wait"}, host : Measure!Receivers \cup {0}, gen : Nat,
             seq : Nat, t1 : Int]
      /\ client'.host = client.host /\ client'.gen = client.gen
      /\ client'.pc = "idle" \/ client'.pc = client.pc
  BY DEF Measure!Timeout, Measure!Lose, Measure!Answer, MeasureInv, MeasureTyped
<1>3. MeasureTyped'
  BY <1>1, <1>2 DEF MeasureInv, MeasureTyped, Measure!Receivers
<1>4. Timed'
  <2>1. (\A m \in probes : Sent(m)') /\ (\A m \in responses : Answered(m)')
    BY <1>1, StillTimed DEF MeasureInv, Timed
  <2>2. CASE Measure!Timeout \/ Measure!Lose
    <3>1. probes' \subseteq probes /\ responses' \subseteq responses
      BY <2>2 DEF Measure!Timeout, Measure!Lose
    <3> QED BY <2>1, <3>1 DEF Timed
  <2>3. CASE \E m \in probes : Measure!Answer(m)
    <3>1. PICK m \in probes : Measure!Answer(m)
      BY <2>3
    <3>0. PICK answer : answer = [host |-> m.host, seq |-> m.seq, t1 |-> m.t1,
                                  t2 |-> clockNow + Base[m.host], t3 |-> clockNow + Base[m.host]]
      OBVIOUS
    <3>2. probes' \subseteq probes /\ responses' = responses \cup {answer}
      BY <3>0, <3>1 DEF Measure!Answer
    <3>3. Answered(answer)'
      <4>1. /\ answer.host = m.host /\ answer.t1 = m.t1
            /\ answer.t2 = clockNow + Base[m.host] /\ answer.t3 = clockNow + Base[m.host]
        BY <3>0
      <4>2. Sent(m)
        BY <3>1 DEF MeasureInv, Timed
      <4>3. PICK i \in 1..(sets + 1), n \in 0..clockNow : m.t1 = n + Skews[i]
        BY <4>2 DEF Sent
      <4>4. clockNow \in 0..clockNow /\ n <= clockNow /\ m.host \in Measure!Receivers
        BY <4>2, <4>3 DEF MeasureInv, MeasureTyped, Sent
      <4> QED BY <1>1, <4>1, <4>3, <4>4 DEF Answered, Measure!Receivers
    <3> QED BY <2>1, <3>2, <3>3 DEF Timed
  <2> QED BY <2>2, <2>3
<1>5. OfReceiver'
  BY <1>1, <1>2 DEF MeasureInv, OfReceiver, Measure!Receivers
<1>6. Measured'
  BY <1>1, <1>2, StillMeasured DEF MeasureInv
<1> QED BY <1>1, <1>3, <1>4, <1>5, <1>6 DEF MeasureInv

LEMMA TakeStep ==
    ASSUME MeasureConstants, MeasureInv, NEW m \in responses, Measure!TakeResponse(m)
    PROVE  MeasureInv'
<1>1. /\ client.pc = "wait" /\ responses' \subseteq responses
      /\ UNCHANGED <<clockNow, sets, probeTarget, probes, targetGen>>
      /\ IF ~Measure!Answers(m) \/ Measure!SenderClock < client.t1 \/ m.t3 < m.t2
         THEN UNCHANGED <<client, state, samples>>
         ELSE /\ client' = [client EXCEPT !.pc = "idle"]
              /\ IF probeTarget.generation = client.gen /\ Measure!Acceptable(m, Measure!SenderClock)
                 THEN Measure!Apply(Measure!SenderClock, Measure!Offset(m, Measure!SenderClock),
                     Measure!Delay(m, Measure!SenderClock))
                 ELSE UNCHANGED <<state, samples>>
  BY DEF Measure!TakeResponse
<1>2. /\ client' \in [pc : {"idle", "wait"}, host : Measure!Receivers \cup {0}, gen : Nat,
             seq : Nat, t1 : Int]
      /\ client'.host = client.host /\ client'.gen = client.gen
      /\ client'.pc \in {"idle", "wait"}
  BY <1>1 DEF MeasureInv, MeasureTyped
<1>3. client.host \in Measure!Receivers /\ targetGen # 0 /\ client.gen = targetGen
  BY <1>1 DEF MeasureInv, OfReceiver
<1>4. /\ state' \in [valid : BOOLEAN, offset : Int, lastSync : Int]
      /\ samples' \in Seq([offset : Int, delay : Int])
      /\ Measured'
  <2>1. CASE UNCHANGED <<state, samples>>
    BY <1>1, <1>2, <2>1, StillMeasured DEF MeasureInv, MeasureTyped
  <2>2. CASE /\ Measure!Answers(m) /\ Measure!Acceptable(m, Measure!SenderClock)
             /\ Measure!Apply(Measure!SenderClock, Measure!Offset(m, Measure!SenderClock),
                    Measure!Delay(m, Measure!SenderClock))
    <3>1. MeasureTyped /\ Measured /\ Answered(m)
      BY DEF MeasureInv, Timed
    <3>2. PICK offset, delay : offset = Measure!Offset(m, Measure!SenderClock)
              /\ delay = Measure!Delay(m, Measure!SenderClock)
      OBVIOUS
    <3>3. offset \in Int /\ delay \in Int /\ Fits(client.host, offset)
      BY <1>3, <2>2, <3>1, <3>2, SampleFits
    <3>4. PICK t4 \in Int : t4 = Measure!SenderClock
      BY <3>1, Settings
    <3>5. Measure!Apply(t4, offset, delay)
      BY <2>2, <3>2, <3>4
    <3> QED BY <1>1, <1>2, <1>3, <3>1, <3>3, <3>5, ApplyMeasures
  <2> QED BY <1>1, <2>1, <2>2
<1>5. MeasureTyped'
  BY <1>1, <1>2, <1>4 DEF MeasureInv, MeasureTyped, Measure!Receivers
<1>6. Timed'
  BY <1>1, StillTimed DEF MeasureInv, Timed
<1>7. OfReceiver'
  BY <1>1, <1>2, <1>3 DEF MeasureInv, OfReceiver, Measure!Receivers
<1> QED BY <1>1, <1>4, <1>5, <1>6, <1>7 DEF MeasureInv

\* For any receivers' clocks, settings of the sender's clock, delays and window of
\* samples: what the client reports is the offset of the receiver it last probed, to
\* within half of the longest round trip it accepts.
THEOREM MeasuredOffset == ASSUME MeasureConstants PROVE Measure!Spec => []OffsetIsMeasured
<1>1. Measure!Init => MeasureInv
  <2> SUFFICES ASSUME Measure!Init PROVE MeasureInv
    OBVIOUS
  <2>1. MeasureTyped
    BY EmptySeq
       DEF Measure!Init, MeasureTyped, MeasureConstants, Measure!Idle, Measure!NoState,
           Measure!Receivers
  <2>2. Timed /\ OfReceiver /\ Measured /\ probeTarget.generation # 0
    BY EmptySeq DEF Measure!Init, Timed, OfReceiver, Measured, Measure!Idle, Measure!NoState
  <2> QED BY <2>1, <2>2 DEF MeasureInv
<1>2. MeasureInv /\ [Measure!Next]_Measure!vars => MeasureInv'
  <2> SUFFICES ASSUME MeasureInv, [Measure!Next]_Measure!vars PROVE MeasureInv'
    OBVIOUS
  <2>1. CASE UNCHANGED Measure!vars
    <3>1. UNCHANGED <<clockNow, sets, probeTarget, client, probes, responses, state, samples, targetGen>>
      BY <2>1 DEF Measure!vars
    <3>2. Timed' /\ Measured'
      BY <3>1, StillTimed, StillMeasured DEF MeasureInv, Timed
    <3> QED BY <3>1, <3>2 DEF MeasureInv, MeasureTyped, OfReceiver, Measure!Receivers
  <2> QED BY <2>1, TimeStep, TargetStep, SendStep, DatagramStep, TakeStep DEF Measure!Next
<1>3. MeasureInv => Measure!OffsetIsMeasured
  BY DEF MeasureInv, Measure!OffsetIsMeasured, OfReceiver, Measured, Fits
<1> QED
  BY <1>1, <1>2, <1>3, PTL DEF Measure!Spec, OffsetIsMeasured
=============================================================================
