--------------------------- MODULE SegmentProofs ---------------------------
(***************************************************************************)
(* Proofs about the segments of a recording, for any number of cameras,       *)
(* finalizers, slots, segments, packets, crashes and failures.  Once the      *)
(* record worker has left it a segment is in one hand until it is closed, and *)
(* the slots are those in use (SegmentFinalizers); it keeps one directory,    *)
(* and what has a marker is whole (SegmentClose).  While the record worker    *)
(* writes it, each packet has one place, and slices begin where they should   *)
(* (SegmentTimeline); what close() publishes of it has the frames its index   *)
(* names (SegmentMedia).                                                      *)
(***************************************************************************)
EXTENDS SegmentParts, Naturals, Sequences, FiniteSets, SequencesExt, FiniteSetTheorems,
        SequenceTheorems, WellFoundedInduction, NaturalsInduction, TLAPS

FinalizerConstants ==
    /\ Cameras \subseteq Nat \ {0} /\ IsFiniteSet(Cameras) /\ IsFiniteSet(Workers)
    /\ MaxPending \in Nat

Item == [cam : Cameras, n : Nat \ {0}]
Handed == [segment : Item, owner : Finalizers!Owners, at : {"slot", "enqueue"}]
WriterStages == {"idle", "reserving", "starting", "paused", "joined"}

-----------------------------------------------------------------------------
\* The inductive invariant

Typed ==
    /\ open \in [Cameras -> Nat] /\ started \in [Cameras -> Nat]
    /\ writer \in [Cameras -> WriterStages]
    /\ closeTask \in [Cameras -> {"none", "asked", "late"}]
    /\ handing \subseteq Handed /\ IsFiniteSet(handing)
    /\ outstanding \in Nat /\ closeQueue \in Seq(Item)
    /\ atWork \in [Workers -> Item \cup {Finalizers!None}] /\ closed \subseteq Item

\* A rotation replaces an open segment; once stop() closes the cameras nobody rotates.
Rotating ==
    /\ \A c \in Cameras : writer[c] \in {"reserving", "starting"} => open[c] # 0
    /\ phase \in {"close", "flag", "exit", "done"} => \A c \in Cameras : writer[c] = "joined"

\* In whose hands a segment is.
Hands == {"writer", "closer", "queue", "finalizer", "closed"}
Holds(p, s) ==
    \/ p = "writer" /\ open[s.cam] = s.n
    \/ p = "closer" /\ \E h \in handing : h.segment = s
    \/ p = "queue" /\ \E i \in 1..Len(closeQueue) : closeQueue[i] = s
    \/ p = "finalizer" /\ \E w \in Workers : atWork[w] = s
    \/ p = "closed" /\ s \in closed

InOneHand ==
    /\ \A s \in Item, p, q \in Hands : Holds(p, s) /\ Holds(q, s) => p = q
    /\ \A s \in Item : s.n <= started[s.cam] <=> (\E p \in Hands : Holds(p, s))

\* ... and there it is once; finalizers work for different cameras.
Once ==
    /\ \A g, h \in handing : g.segment = h.segment => g = h
    /\ \A i, j \in 1..Len(closeQueue) : closeQueue[i] = closeQueue[j] => i = j
    /\ \A v, w \in Workers : atWork[v].cam = atWork[w].cam /\ atWork[v] # Finalizers!None => v = w

Starters == {c \in Cameras : writer[c] = "starting"}
Reserved == {h \in handing : h.at = "enqueue"}
Busy == {w \in Workers : atWork[w] # Finalizers!None}
SlotsCounted ==
    /\ outstanding = Cardinality(Starters) + Cardinality(Reserved) + Len(closeQueue) + Cardinality(Busy)
    /\ outstanding <= MaxPending

FinalizersInv == Typed /\ Rotating /\ InOneHand /\ Once /\ SlotsCounted

-----------------------------------------------------------------------------
\* Lists, and the least of a set of numbers

LEMMA LeastNumber ==
    ASSUME NEW S \in SUBSET Nat, S # {}
    PROVE  \E i \in S : \A j \in S : i <= j
<1>1. PICK i \in S : \A j \in S : ~(<<j, i>> \in OpToRel(<, Nat))
  BY NatLessThanWellFounded, WFMin, Zenon
<1>2. \A j \in S : ~(j < i)
  BY <1>1 DEF OpToRel
<1> QED
  BY <1>2

LEMMA SameFunction ==
    ASSUME NEW S, NEW T, NEW f \in [S -> T], NEW g \in [S -> T], \A x \in S : f[x] = g[x]
    PROVE  f = g
OBVIOUS

\* A list without its element i.
LEMMA RemoveAtProperties ==
    ASSUME NEW S, NEW s \in Seq(S), NEW i \in 1..Len(s)
    PROVE  /\ RemoveAt(s, i) \in Seq(S) /\ Len(RemoveAt(s, i)) = Len(s) - 1
           /\ \A k \in 1..(Len(s) - 1) :
                 RemoveAt(s, i)[k] = IF k < i THEN s[k] ELSE s[k + 1]
<1> DEFINE front == SubSeq(s, 1, i - 1)
           back == SubSeq(s, i + 1, Len(s))
<1>1. Len(s) \in Nat
  BY LenProperties
<1>2. /\ front \in Seq(S) /\ Len(front) = i - 1
      /\ \A k \in 1..(i - 1) : front[k] = s[k]
  BY <1>1, SubSeqProperties
<1>3. /\ back \in Seq(S) /\ Len(back) = Len(s) - i
      /\ \A k \in 1..(Len(s) - i) : back[k] = s[i + k]
  BY <1>1, SubSeqProperties
<1>4. RemoveAt(s, i) = front \o back
  BY DEF RemoveAt
<1> HIDE DEF front, back
<1>5. /\ RemoveAt(s, i) \in Seq(S) /\ Len(RemoveAt(s, i)) = Len(s) - 1
      /\ \A k \in 1..(Len(s) - 1) :
            RemoveAt(s, i)[k] = IF k <= i - 1 THEN front[k] ELSE back[k - (i - 1)]
  <2>1. /\ front \o back \in Seq(S) /\ Len(front \o back) = Len(front) + Len(back)
        /\ \A k \in 1..(Len(front) + Len(back)) :
              (front \o back)[k] = IF k <= Len(front) THEN front[k] ELSE back[k - Len(front)]
    BY <1>2, <1>3, ConcatProperties
  <2>2. Len(front) + Len(back) = Len(s) - 1
    BY <1>1, <1>2, <1>3
  <2> QED BY <1>2, <1>4, <2>1, <2>2
<1>6. ASSUME NEW k \in 1..(Len(s) - 1)
      PROVE  RemoveAt(s, i)[k] = IF k < i THEN s[k] ELSE s[k + 1]
  <2>1. CASE k < i
    <3>1. k <= i - 1 /\ k \in 1..(i - 1)
      BY <1>1, <2>1
    <3> QED BY <1>2, <1>5, <2>1, <3>1
  <2>2. CASE k >= i
    <3>1. k - (i - 1) \in 1..(Len(s) - i) /\ i + (k - (i - 1)) = k + 1
      BY <1>1, <2>2
    <3>2. RemoveAt(s, i)[k] = back[k - (i - 1)]
      BY <1>1, <1>5, <2>2
    <3>3. RemoveAt(s, i)[k] = s[i + (k - (i - 1))]
      BY <1>3, <3>1, <3>2
    <3> QED BY <2>2, <3>1, <3>3
  <2> QED BY <1>1, <2>1, <2>2
<1> QED
  BY <1>5, <1>6

\* What the finalizers count and remove from their queue.
LEMMA FinalizersCardinality == \A S : Finalizers!Cardinality(S) = Cardinality(S)
BY DEF Finalizers!Cardinality, Cardinality

LEMMA FinalizersRemoveAt == \A s, i : Finalizers!RemoveAt(s, i) = RemoveAt(s, i)
BY DEF Finalizers!RemoveAt, RemoveAt

\* What is in a list of different elements when one is appended, or one removed.
Distinct(s) == \A i, j \in 1..Len(s) : s[i] = s[j] => i = j
Gains(t, s, x, S) ==
    /\ t \in Seq(S) /\ Len(t) = Len(s) + 1 /\ Distinct(t)
    /\ \A y \in S : (\E i \in 1..Len(t) : t[i] = y) <=> y = x \/ \E i \in 1..Len(s) : s[i] = y
Loses(t, s, x, S) ==
    /\ t \in Seq(S) /\ Len(t) = Len(s) - 1 /\ Distinct(t)
    /\ \A y \in S : (\E i \in 1..Len(t) : t[i] = y) <=> y # x /\ \E i \in 1..Len(s) : s[i] = y

LEMMA AppendedOnce ==
    ASSUME NEW S, NEW s \in Seq(S), NEW x \in S, Distinct(s), \A i \in 1..Len(s) : s[i] # x
    PROVE  Gains(Append(s, x), s, x, S)
<1> DEFINE t == Append(s, x)
<1>1. /\ Len(s) \in Nat /\ t \in Seq(S) /\ Len(t) = Len(s) + 1
      /\ \A i \in 1..Len(s) : t[i] = s[i]
      /\ t[Len(s) + 1] = x
  BY AppendProperties, LenProperties
<1> HIDE DEF t
<1>2. \A i \in 1..Len(t) : i \in 1..Len(s) \/ i = Len(s) + 1
  BY <1>1
<1>3. Distinct(t)
  BY <1>1, <1>2 DEF Distinct
<1>4. ASSUME NEW y \in S
      PROVE  (\E i \in 1..Len(t) : t[i] = y) <=> y = x \/ \E i \in 1..Len(s) : s[i] = y
  <2>1. Len(s) + 1 \in 1..Len(t) /\ \A i \in 1..Len(s) : i \in 1..Len(t)
    BY <1>1
  <2> QED BY <1>1, <1>2, <2>1
<1>5. Gains(t, s, x, S)
  BY <1>1, <1>3, <1>4 DEF Gains
<1> QED
  BY <1>5 DEF t

LEMMA RemovedOnce ==
    ASSUME NEW S, NEW s \in Seq(S), NEW i \in 1..Len(s), Distinct(s)
    PROVE  Loses(RemoveAt(s, i), s, s[i], S)
<1> DEFINE t == RemoveAt(s, i)
           was(k) == IF k < i THEN k ELSE k + 1
<1>1. /\ Len(s) \in Nat /\ t \in Seq(S) /\ Len(t) = Len(s) - 1
      /\ \A k \in 1..(Len(s) - 1) : t[k] = IF k < i THEN s[k] ELSE s[k + 1]
  BY RemoveAtProperties, LenProperties
<1> HIDE DEF t
<1>2. \A k \in 1..Len(t) : was(k) \in 1..Len(s) /\ was(k) # i /\ t[k] = s[was(k)]
  BY <1>1
<1>3. \A j, k \in 1..Len(t) : was(j) = was(k) => j = k
  BY <1>1
<1>4. Distinct(t)
  BY <1>2, <1>3 DEF Distinct
<1>5. ASSUME NEW y \in S
      PROVE  (\E j \in 1..Len(t) : t[j] = y) <=> y # s[i] /\ \E j \in 1..Len(s) : s[j] = y
  <2>1. ASSUME NEW j \in 1..Len(t), t[j] = y
        PROVE  y # s[i] /\ \E k \in 1..Len(s) : s[k] = y
    BY <1>2, <2>1 DEF Distinct
  <2>2. ASSUME NEW j \in 1..Len(s), s[j] = y, y # s[i]
        PROVE  \E k \in 1..Len(t) : t[k] = y
    <3>1. CASE j < i
      BY <1>1, <2>2, <3>1
    <3>2. CASE j > i
      <4>1. j - 1 \in 1..Len(t) /\ ~(j - 1 < i) /\ (j - 1) + 1 = j
        BY <1>1, <3>2
      <4> QED BY <1>1, <2>2, <4>1
    <3>3. j # i
      BY <2>2
    <3> QED BY <3>1, <3>2, <3>3
  <2> QED BY <2>1, <2>2
<1>6. Loses(t, s, s[i], S)
  BY <1>1, <1>4, <1>5 DEF Loses
<1> QED
  BY <1>6 DEF t

-----------------------------------------------------------------------------
\* Which segments are in which hands after a step

\* One segment passes from p to q, and no other segment moves.
Passes(s, p, q) ==
    \A t \in Item, r \in Hands : Holds(r, t)' <=> IF t = s THEN r = q ELSE Holds(r, t)

LEMMA StillHeld ==
    ASSUME NEW t \in Item
    PROVE  /\ open' = open => (Holds("writer", t)' <=> Holds("writer", t))
           /\ handing' = handing => (Holds("closer", t)' <=> Holds("closer", t))
           /\ closeQueue' = closeQueue => (Holds("queue", t)' <=> Holds("queue", t))
           /\ atWork' = atWork => (Holds("finalizer", t)' <=> Holds("finalizer", t))
           /\ closed' = closed => (Holds("closed", t)' <=> Holds("closed", t))
BY DEF Holds

LEMMA Holder ==
    ASSUME NEW t \in Item
    PROVE  /\ Holds("writer", t) <=> open[t.cam] = t.n
           /\ Holds("closer", t) <=> \E h \in handing : h.segment = t
           /\ Holds("queue", t) <=> \E i \in 1..Len(closeQueue) : closeQueue[i] = t
           /\ Holds("finalizer", t) <=> \E w \in Workers : atWork[w] = t
           /\ Holds("closed", t) <=> t \in closed
BY DEF Holds

LEMMA HolderNext ==
    ASSUME NEW t \in Item
    PROVE  /\ Holds("writer", t)' <=> open'[t.cam] = t.n
           /\ Holds("closer", t)' <=> \E h \in handing' : h.segment = t
           /\ Holds("queue", t)' <=> \E i \in 1..Len(closeQueue') : closeQueue'[i] = t
           /\ Holds("finalizer", t)' <=> \E w \in Workers : atWork'[w] = t
           /\ Holds("closed", t)' <=> t \in closed'
BY DEF Holds

LEMMA ItemIs ==
    ASSUME NEW c \in Cameras, NEW n \in Nat, n # 0
    PROVE  /\ Finalizers!Segment(c, n) \in Item /\ Finalizers!Segment(c, n).cam = c
           /\ Finalizers!Segment(c, n).n = n
           /\ \A t \in Item : t.cam = c /\ t.n = n => t = Finalizers!Segment(c, n)
BY DEF Finalizers!Segment, Item

\* Nothing moves.
LEMMA NothingPasses ==
    ASSUME InOneHand, Once, UNCHANGED <<open, started, closeQueue, atWork, closed>>,
           UNCHANGED handing
    PROVE  InOneHand' /\ Once'
<1>1. \A t \in Item, r \in Hands : Holds(r, t)' <=> Holds(r, t)
  BY StillHeld DEF Hands
<1>2. InOneHand'
  BY <1>1 DEF InOneHand
<1> QED
  BY <1>2 DEF Once

\* A segment that is passed on stays in one hand.
LEMMA PassedOn ==
    ASSUME InOneHand, UNCHANGED started, NEW s \in Item, NEW p \in Hands, NEW q \in Hands,
           Holds(p, s), Passes(s, p, q)
    PROVE  InOneHand'
<1>1. ASSUME NEW t \in Item, NEW r \in Hands, NEW u \in Hands, Holds(r, t)', Holds(u, t)'
      PROVE  r = u
  BY <1>1 DEF InOneHand, Passes
<1>2. ASSUME NEW t \in Item
      PROVE  t.n <= started'[t.cam] <=> (\E r \in Hands : Holds(r, t)')
  BY DEF InOneHand, Passes
<1> QED
  BY <1>1, <1>2 DEF InOneHand

\* A new segment is its record worker's.
LEMMA NewSegment ==
    ASSUME Typed, InOneHand, NEW c \in Cameras,
           started' = [started EXCEPT ![c] = @ + 1],
           \A t \in Item, r \in Hands :
              Holds(r, t)' <=> IF t = Finalizers!Segment(c, started[c] + 1) THEN r = "writer"
                               ELSE Holds(r, t)
    PROVE  InOneHand'
<1> DEFINE new == Finalizers!Segment(c, started[c] + 1)
<1>1. started[c] \in Nat /\ started'[c] = started[c] + 1
      /\ \A d \in Cameras : d # c => started'[d] = started[d]
  BY DEF Typed
<1>2. /\ new \in Item /\ new.cam = c /\ new.n = started[c] + 1
      /\ \A t \in Item : t.cam = c /\ t.n = started[c] + 1 => t = new
  BY <1>1, ItemIs
<1> HIDE DEF new
<1>3. \A t \in Item, r \in Hands : Holds(r, t)' <=> IF t = new THEN r = "writer" ELSE Holds(r, t)
  BY DEF new
<1>4. ASSUME NEW t \in Item, NEW r \in Hands, NEW u \in Hands, Holds(r, t)', Holds(u, t)'
      PROVE  r = u
  BY <1>3, <1>4 DEF InOneHand
<1>5. ASSUME NEW t \in Item
      PROVE  t.n <= started'[t.cam] <=> (\E r \in Hands : Holds(r, t)')
  <2>1. CASE t = new
    BY <1>1, <1>2, <1>3, <2>1 DEF Hands
  <2>2. CASE t # new
    <3>1. t.n <= started'[t.cam] <=> t.n <= started[t.cam]
      <4>1. t.cam \in Cameras /\ t.n \in Nat /\ started[t.cam] \in Nat
        BY DEF Item, Typed
      <4> QED BY <1>1, <1>2, <2>2, <4>1
    <3> QED BY <1>3, <2>2, <3>1 DEF InOneHand
  <2> QED BY <2>1, <2>2
<1> QED
  BY <1>4, <1>5 DEF InOneHand

-----------------------------------------------------------------------------
\* Counting slots

LEMMA FiniteCounts ==
    ASSUME FinalizerConstants, Typed
    PROVE  /\ IsFiniteSet(Starters) /\ IsFiniteSet(Reserved) /\ IsFiniteSet(Busy)
           /\ Cardinality(Starters) \in Nat /\ Cardinality(Reserved) \in Nat
           /\ Cardinality(Busy) \in Nat /\ Len(closeQueue) \in Nat
<1>1. Starters \subseteq Cameras /\ Reserved \subseteq handing /\ Busy \subseteq Workers
  BY DEF Starters, Reserved, Busy
<1>2. IsFiniteSet(Starters) /\ IsFiniteSet(Reserved) /\ IsFiniteSet(Busy)
  BY <1>1, FS_Subset DEF FinalizerConstants, Typed
<1> QED
  BY <1>2, FS_CardinalityType, LenProperties DEF Typed

\* A record worker that goes to another stage.
LEMMA StartersStep ==
    ASSUME FinalizerConstants, Typed, NEW c \in Cameras, NEW stage \in WriterStages,
           writer' = [writer EXCEPT ![c] = stage]
    PROVE  Cardinality(Starters') = Cardinality(Starters)
              - (IF writer[c] = "starting" THEN 1 ELSE 0) + (IF stage = "starting" THEN 1 ELSE 0)
<1>1. writer'[c] = stage /\ \A d \in Cameras : d # c => writer'[d] = writer[d]
  BY DEF Typed
<1>2. IsFiniteSet(Starters) /\ Cardinality(Starters) \in Nat
  BY FiniteCounts
<1>3. CASE writer[c] = "starting" /\ stage = "starting"
  <2>1. Starters' = Starters
    BY <1>1, <1>3 DEF Starters
  <2> QED BY <1>2, <1>3, <2>1
<1>4. CASE writer[c] = "starting" /\ stage # "starting"
  <2>1. Starters' = Starters \ {c} /\ c \in Starters
    BY <1>1, <1>4 DEF Starters
  <2> QED BY <1>2, <1>4, <2>1, FS_RemoveElement
<1>5. CASE writer[c] # "starting" /\ stage = "starting"
  <2>1. Starters' = Starters \cup {c} /\ c \notin Starters
    BY <1>1, <1>5 DEF Starters
  <2> QED BY <1>2, <1>5, <2>1, FS_AddElement
<1>6. CASE writer[c] # "starting" /\ stage # "starting"
  <2>1. Starters' = Starters
    BY <1>1, <1>6 DEF Starters
  <2> QED BY <1>2, <1>6, <2>1
<1> QED
  BY <1>3, <1>4, <1>5, <1>6

LEMMA CountsSame ==
    /\ UNCHANGED writer => UNCHANGED Starters
    /\ UNCHANGED handing => UNCHANGED Reserved
    /\ UNCHANGED atWork => UNCHANGED Busy
BY DEF Starters, Reserved, Busy

-----------------------------------------------------------------------------
\* The steps of a record worker

LEMMA InitInv == ASSUME FinalizerConstants, Finalizers!Init PROVE FinalizersInv
<1>1. Typed
  BY FS_EmptySet DEF Finalizers!Init, Typed, WriterStages, Finalizers!None
<1>2. Rotating
  BY DEF Finalizers!Init, Rotating
<1>3. ASSUME NEW s \in Item, NEW p \in Hands PROVE ~Holds(p, s) /\ ~(s.n <= started[s.cam])
  <2>1. s.cam \in Cameras /\ s.n \in Nat /\ s.n # 0
    BY DEF Item
  <2>2. open[s.cam] = 0 /\ started[s.cam] = 0 /\ Len(closeQueue) = 0
    BY <2>1 DEF Finalizers!Init
  <2>3. \A w \in Workers : atWork[w] # s
    <3>1. Finalizers!None.cam = 0 /\ s.cam # 0
      BY <2>1 DEF Finalizers!None, FinalizerConstants
    <3> QED BY <3>1 DEF Finalizers!Init
  <2> QED BY <2>1, <2>2, <2>3 DEF Finalizers!Init, Holds
<1>4. InOneHand
  BY <1>3 DEF InOneHand, Hands
<1>5. Once
  BY DEF Finalizers!Init, Once
<1>6. SlotsCounted
  <2>1. Starters = {} /\ Reserved = {} /\ Busy = {} /\ Len(closeQueue) = 0
    BY DEF Finalizers!Init, Starters, Reserved, Busy
  <2> QED BY <2>1, FS_EmptySet DEF Finalizers!Init, SlotsCounted, FinalizerConstants
<1> QED
  BY <1>1, <1>2, <1>4, <1>5, <1>6 DEF FinalizersInv

\* A record worker that only changes its stage, and the slots with it.
LEMMA StageStep ==
    ASSUME FinalizerConstants, FinalizersInv, NEW c \in Cameras, NEW stage \in WriterStages,
           writer[c] # "joined", stage # "joined",
           writer' = [writer EXCEPT ![c] = stage],
           stage \in {"reserving", "starting"} => open[c] # 0,
           closeTask' \in [Cameras -> {"none", "asked", "late"}],
           outstanding' = outstanding
              - (IF writer[c] = "starting" THEN 1 ELSE 0) + (IF stage = "starting" THEN 1 ELSE 0),
           stage = "starting" => writer[c] = "starting" \/ Finalizers!SlotFree,
           UNCHANGED <<open, started, handing, closeQueue, atWork, closed, phase>>
    PROVE  FinalizersInv'
<1>1. Typed /\ Rotating /\ InOneHand /\ Once /\ SlotsCounted
  BY DEF FinalizersInv
<1>2. Cardinality(Starters') = Cardinality(Starters)
              - (IF writer[c] = "starting" THEN 1 ELSE 0) + (IF stage = "starting" THEN 1 ELSE 0)
  BY <1>1, StartersStep
<1>3. UNCHANGED <<Reserved, Busy>>
  BY CountsSame
<1>4. /\ outstanding \in Nat /\ MaxPending \in Nat
      /\ Cardinality(Starters) \in Nat /\ Cardinality(Reserved) \in Nat
      /\ Cardinality(Busy) \in Nat /\ Len(closeQueue) \in Nat
  BY <1>1, FiniteCounts DEF Typed, FinalizerConstants
<1>5. writer[c] = "starting" => Cardinality(Starters) >= 1
  <2>1. CASE writer[c] = "starting"
    <3>1. c \in Starters /\ IsFiniteSet(Starters)
      BY <1>1, <2>1, FiniteCounts DEF Starters
    <3> QED BY <1>4, <3>1, FS_EmptySet
  <2> QED BY <2>1
<1>6. SlotsCounted' /\ outstanding' \in Nat
  BY <1>1, <1>2, <1>3, <1>4, <1>5 DEF SlotsCounted, Finalizers!SlotFree
<1>7. Typed'
  BY <1>1, <1>6 DEF Typed
<1>8. Rotating'
  <2>1. writer'[c] = stage /\ \A d \in Cameras : d # c => writer'[d] = writer[d]
    BY <1>1 DEF Typed
  <2>2. phase' \notin {"close", "flag", "exit", "done"}
    BY <1>1 DEF Rotating
  <2> QED BY <1>1, <2>1, <2>2 DEF Rotating
<1>9. InOneHand' /\ Once'
  BY <1>1, NothingPasses
<1> QED
  BY <1>6, <1>7, <1>8, <1>9 DEF FinalizersInv

\* A step of which a segment's whereabouts and the slots know nothing.
LEMMA AsideStep ==
    ASSUME FinalizersInv, closeTask' \in [Cameras -> {"none", "asked", "late"}],
           Rotating', writer' \in [Cameras -> WriterStages], UNCHANGED Starters,
           UNCHANGED <<open, started, handing, outstanding, closeQueue, atWork, closed>>
    PROVE  FinalizersInv'
<1>1. Typed /\ InOneHand /\ Once /\ SlotsCounted
  BY DEF FinalizersInv
<1>2. Typed'
  BY <1>1 DEF Typed
<1>3. UNCHANGED <<Reserved, Busy>>
  BY CountsSame
<1>4. SlotsCounted'
  BY <1>1, <1>3 DEF SlotsCounted
<1>5. InOneHand' /\ Once'
  BY <1>1, NothingPasses
<1> QED
  BY <1>2, <1>4, <1>5 DEF FinalizersInv

LEMMA OpenStep ==
    ASSUME FinalizerConstants, FinalizersInv, NEW c \in Cameras, Finalizers!OpenSegment(c)
    PROVE  FinalizersInv'
<1> DEFINE new == Finalizers!Segment(c, started[c] + 1)
<1>1. Typed /\ Rotating /\ InOneHand /\ Once /\ SlotsCounted
  BY DEF FinalizersInv
<1>2. /\ open[c] = 0 /\ started[c] \in Nat
      /\ open' = [open EXCEPT ![c] = started[c] + 1]
      /\ started' = [started EXCEPT ![c] = @ + 1]
      /\ UNCHANGED <<writer, closeTask, handing, outstanding, closeQueue, atWork, closed, phase>>
  BY <1>1 DEF Finalizers!OpenSegment, Typed, Finalizers!slotVars, Finalizers!stopVars
<1>3. /\ new \in Item /\ new.cam = c /\ new.n = started[c] + 1
      /\ \A t \in Item : t.cam = c /\ t.n = started[c] + 1 => t = new
  BY <1>2, ItemIs
<1>4. ~(new.n <= started[new.cam])
  BY <1>2, <1>3
<1> HIDE DEF new
<1>5. \A r \in Hands : ~Holds(r, new)
  BY <1>1, <1>3, <1>4 DEF InOneHand
<1>6. open'[c] = started[c] + 1 /\ \A d \in Cameras : d # c => open'[d] = open[d]
  BY <1>1, <1>2 DEF Typed
<1>7. ASSUME NEW t \in Item, NEW r \in Hands
      PROVE  Holds(r, t)' <=> IF t = new THEN r = "writer" ELSE Holds(r, t)
  <2>1. t.cam \in Cameras /\ t.n # 0
    BY DEF Item
  <2>2. CASE r # "writer"
    BY <1>2, <1>5, <2>2, StillHeld DEF Hands
  <2>3. CASE r = "writer"
    BY <1>2, <1>3, <1>6, <2>1, <2>3, Holder, HolderNext
  <2> QED BY <2>2, <2>3
<1>8. InOneHand'
  BY <1>1, <1>2, <1>7, NewSegment DEF new
<1>9. Once'
  BY <1>1, <1>2 DEF Once
<1>10. Typed'
  <2>1. open' \in [Cameras -> Nat] /\ started' \in [Cameras -> Nat]
    BY <1>1, <1>2 DEF Typed
  <2> QED BY <1>1, <1>2, <2>1 DEF Typed
<1>11. Rotating'
  BY <1>1, <1>2, <1>6 DEF Rotating
<1>12. SlotsCounted'
  BY <1>1, <1>2, CountsSame DEF SlotsCounted
<1> QED
  BY <1>8, <1>9, <1>10, <1>11, <1>12 DEF FinalizersInv

LEMMA HandOverStep ==
    ASSUME FinalizerConstants, FinalizersInv, NEW c \in Cameras, Finalizers!HandOver(c)
    PROVE  FinalizersInv'
<1> DEFINE new == Finalizers!Segment(c, started[c] + 1)
           old == Finalizers!Segment(c, open[c])
<1>1. Typed /\ Rotating /\ InOneHand /\ Once /\ SlotsCounted
  BY DEF FinalizersInv
<1>2. /\ writer[c] = "starting" /\ started[c] \in Nat /\ open[c] \in Nat /\ open[c] # 0
      /\ closeQueue' = Append(closeQueue, Finalizers!Segment(c, open[c]))
      /\ open' = [open EXCEPT ![c] = started[c] + 1]
      /\ started' = [started EXCEPT ![c] = @ + 1]
      /\ writer' = [writer EXCEPT ![c] = "idle"]
      /\ UNCHANGED <<closeTask, handing, outstanding, atWork, closed, phase>>
  BY <1>1 DEF Finalizers!HandOver, Typed, Rotating, Finalizers!stopVars
<1>3. /\ new \in Item /\ new.cam = c /\ new.n = started[c] + 1
      /\ \A t \in Item : t.cam = c /\ t.n = started[c] + 1 => t = new
      /\ old \in Item /\ old.cam = c /\ old.n = open[c]
      /\ \A t \in Item : t.cam = c /\ t.n = open[c] => t = old
  BY <1>2, ItemIs
<1>4. ~(new.n <= started[new.cam])
  BY <1>2, <1>3
<1>5. closeQueue' = Append(closeQueue, old)
  BY <1>2
<1> HIDE DEF new, old
<1>6. \A r \in Hands : ~Holds(r, new)
  BY <1>1, <1>3, <1>4 DEF InOneHand
<1>7. Holds("writer", old)
  BY <1>3, Holder
<1>8. \A r \in Hands : Holds(r, old) => r = "writer"
  BY <1>1, <1>3, <1>7 DEF InOneHand, Hands
<1>9. old # new
  BY <1>6, <1>7 DEF Hands
<1>10. open'[c] = started[c] + 1 /\ \A d \in Cameras : d # c => open'[d] = open[d]
  BY <1>1, <1>2 DEF Typed
<1>11. \A i \in 1..Len(closeQueue) : closeQueue[i] # old
  BY <1>3, <1>8, Holder DEF Hands
<1>12. /\ closeQueue' \in Seq(Item) /\ Len(closeQueue') = Len(closeQueue) + 1
       /\ \A i, j \in 1..Len(closeQueue') : closeQueue'[i] = closeQueue'[j] => i = j
       /\ \A y \in Item : (\E i \in 1..Len(closeQueue') : closeQueue'[i] = y)
                            <=> y = old \/ \E i \in 1..Len(closeQueue) : closeQueue[i] = y
  <2>1. closeQueue \in Seq(Item) /\ old \in Item /\ Distinct(closeQueue)
    BY <1>1, <1>3 DEF Typed, Once, Distinct
  <2>2. Gains(Append(closeQueue, old), closeQueue, old, Item)
    BY <1>11, <2>1, AppendedOnce
  <2>3. Gains(closeQueue', closeQueue, old, Item)
    BY <1>5, <2>2
  <2> QED BY <2>3 DEF Gains, Distinct
<1> DEFINE Held(r, t) == IF t = old THEN r = "queue" ELSE Holds(r, t)
<1>13. ASSUME NEW t \in Item, NEW r \in Hands
       PROVE  Holds(r, t)' <=> IF t = new THEN r = "writer" ELSE Held(r, t)
  <2>1. t.cam \in Cameras /\ t.n # 0
    BY DEF Item
  <2>2. CASE r = "writer"
    BY <1>2, <1>3, <1>9, <1>10, <2>1, <2>2, Holder, HolderNext
  <2>3. CASE r = "queue"
    BY <1>3, <1>6, <1>9, <1>12, <2>3, Holder, HolderNext DEF Hands
  <2>4. CASE r \notin {"writer", "queue"}
    BY <1>2, <1>6, <1>8, <2>4, StillHeld DEF Hands
  <2> QED BY <2>2, <2>3, <2>4
<1>14. InOneHand'
  <2>1. started'[c] = started[c] + 1 /\ \A d \in Cameras : d # c => started'[d] = started[d]
    BY <1>1, <1>2 DEF Typed
  <2>2. ASSUME NEW t \in Item, NEW r \in Hands, NEW u \in Hands, Holds(r, t)', Holds(u, t)'
        PROVE  r = u
    BY <1>1, <1>13, <2>2 DEF InOneHand
  <2>3. ASSUME NEW t \in Item
        PROVE  t.n <= started'[t.cam] <=> (\E r \in Hands : Holds(r, t)')
    <3>1. CASE t = new
      BY <1>2, <1>3, <1>13, <2>1, <3>1 DEF Hands
    <3>2. CASE t = old
      <4>1. old.n <= started[old.cam]
        BY <1>1, <1>3, <1>7 DEF InOneHand, Hands
      <4>2. old.n <= started'[old.cam]
        BY <1>2, <1>3, <2>1, <4>1
      <4> QED BY <1>9, <1>13, <3>2, <4>2 DEF Hands
    <3>3. CASE t # new /\ t # old
      <4>1. t.n <= started'[t.cam] <=> t.n <= started[t.cam]
        <5>1. t.cam \in Cameras /\ t.n \in Nat /\ started[t.cam] \in Nat
          BY <1>1 DEF Item, Typed
        <5> QED BY <1>2, <1>3, <2>1, <3>3, <5>1
      <4> QED BY <1>1, <1>13, <3>3, <4>1 DEF InOneHand
    <3> QED BY <3>1, <3>2, <3>3
  <2> QED BY <2>2, <2>3 DEF InOneHand
<1>15. Once'
  BY <1>1, <1>2, <1>12 DEF Once
<1>16. Typed'
  <2>1. open' \in [Cameras -> Nat] /\ started' \in [Cameras -> Nat]
    BY <1>1, <1>2 DEF Typed
  <2>2. writer' \in [Cameras -> WriterStages]
    BY <1>1, <1>2 DEF Typed, WriterStages
  <2> QED BY <1>1, <1>2, <1>12, <2>1, <2>2 DEF Typed
<1>17. Rotating'
  <2>1. writer'[c] = "idle" /\ \A d \in Cameras : d # c => writer'[d] = writer[d]
    BY <1>1, <1>2 DEF Typed
  <2>2. phase' \notin {"close", "flag", "exit", "done"}
    BY <1>1, <1>2 DEF Rotating
  <2> QED BY <1>1, <1>10, <2>1, <2>2 DEF Rotating
<1>18. SlotsCounted'
  <2>1. Cardinality(Starters') = Cardinality(Starters) - 1
    <3>1. "idle" \in WriterStages
      BY DEF WriterStages
    <3>2. Cardinality(Starters) \in Nat
      BY <1>1, FiniteCounts
    <3>3. Cardinality(Starters') = Cardinality(Starters)
              - (IF writer[c] = "starting" THEN 1 ELSE 0)
              + (IF "idle" = "starting" THEN 1 ELSE 0)
      BY <1>1, <1>2, <3>1, StartersStep
    <3> QED BY <1>2, <3>2, <3>3
  <2>2. /\ Cardinality(Starters) \in Nat /\ Cardinality(Reserved) \in Nat
        /\ Cardinality(Busy) \in Nat /\ Len(closeQueue) \in Nat
    BY <1>1, FiniteCounts
  <2>3. UNCHANGED <<Reserved, Busy>>
    BY <1>2, CountsSame
  <2> QED BY <1>1, <1>2, <1>12, <2>1, <2>2, <2>3 DEF SlotsCounted
<1> QED
  BY <1>14, <1>15, <1>16, <1>17, <1>18 DEF FinalizersInv

LEMMA RecordWorkerStep ==
    ASSUME FinalizerConstants, FinalizersInv, NEW c \in Cameras, Finalizers!RecordWorker(c)
    PROVE  FinalizersInv'
<1>1. Typed /\ Rotating
  BY DEF FinalizersInv
<1>2. {"idle", "reserving", "starting", "paused"} \subseteq WriterStages
  BY DEF WriterStages
<1>3. outstanding \in Nat
  BY <1>1 DEF Typed
<1>4. CASE Finalizers!OpenSegment(c)
  BY <1>4, OpenStep
<1>5. CASE Finalizers!RotateTimed(c)
  <2>1. /\ writer[c] = "idle" /\ open[c] # 0 /\ Finalizers!SlotFree /\ outstanding' = outstanding + 1
        /\ writer' = [writer EXCEPT ![c] = "starting"]
        /\ UNCHANGED <<open, started, closeTask, handing, closeQueue, atWork, closed, phase>>
    BY <1>5 DEF Finalizers!RotateTimed, Finalizers!stopVars
  <2>2. outstanding' = outstanding - (IF writer[c] = "starting" THEN 1 ELSE 0)
                         + (IF "starting" = "starting" THEN 1 ELSE 0)
    BY <1>3, <2>1
  <2> QED BY <1>1, <1>2, <2>1, <2>2, StageStep DEF Typed
<1>6. CASE Finalizers!RotateProfile(c)
  <2>1. /\ writer[c] = "idle" /\ open[c] # 0
        /\ writer' = [writer EXCEPT ![c] = "reserving"]
        /\ UNCHANGED <<open, started, closeTask, handing, outstanding, closeQueue, atWork, closed, phase>>
    BY <1>6 DEF Finalizers!RotateProfile, Finalizers!slotVars, Finalizers!stopVars
  <2>2. outstanding' = outstanding - (IF writer[c] = "starting" THEN 1 ELSE 0)
                         + (IF "reserving" = "starting" THEN 1 ELSE 0)
    BY <1>3, <2>1
  <2> QED BY <1>1, <1>2, <2>1, <2>2, StageStep DEF Typed
<1>7. CASE Finalizers!WaitForSlot(c)
  <2>1. /\ writer[c] = "reserving"
        /\ UNCHANGED <<open, started, closeTask, handing, closeQueue, atWork, closed, phase>>
    BY <1>7 DEF Finalizers!WaitForSlot, Finalizers!stopVars
  <2>2. CASE /\ Finalizers!SlotFree /\ outstanding' = outstanding + 1
             /\ writer' = [writer EXCEPT ![c] = "starting"]
    <3>1. outstanding' = outstanding - (IF writer[c] = "starting" THEN 1 ELSE 0)
                           + (IF "starting" = "starting" THEN 1 ELSE 0)
      BY <1>3, <2>1, <2>2
    <3>2. open[c] # 0
      BY <1>1, <2>1 DEF Rotating
    <3> QED BY <1>1, <1>2, <2>1, <2>2, <3>1, <3>2, StageStep DEF Typed
  <2>3. CASE UNCHANGED <<outstanding, writer>>
    <3>1. Rotating' /\ UNCHANGED Starters
      BY <1>1, <2>1, <2>3, CountsSame DEF Rotating
    <3> QED BY <1>1, <2>1, <2>3, <3>1, AsideStep DEF Typed
  <2> QED BY <1>7, <2>2, <2>3 DEF Finalizers!WaitForSlot
<1>8. CASE Finalizers!StartFails(c)
  <2>1. /\ writer[c] = "starting" /\ outstanding' = outstanding - 1
        /\ writer' = [writer EXCEPT ![c] = "paused"]
        /\ UNCHANGED <<open, started, closeTask, handing, closeQueue, atWork, closed, phase>>
    BY <1>8 DEF Finalizers!StartFails, Finalizers!stopVars
  <2>2. outstanding' = outstanding - (IF writer[c] = "starting" THEN 1 ELSE 0)
                         + (IF "paused" = "starting" THEN 1 ELSE 0)
    BY <1>3, <2>1
  <2> QED BY <1>1, <1>2, <2>1, <2>2, StageStep DEF Typed
<1>9. CASE Finalizers!HandOver(c)
  BY <1>9, HandOverStep
<1>10. CASE Finalizers!StorageFails(c)
  <2>1. /\ writer[c] = "idle" /\ writer' = [writer EXCEPT ![c] = "paused"]
        /\ UNCHANGED <<open, started, handing, outstanding, closeQueue, atWork, closed, phase>>
    BY <1>10 DEF Finalizers!StorageFails, Finalizers!slotVars
  <2>2. closeTask' \in [Cameras -> {"none", "asked", "late"}]
    BY <1>1, <1>10 DEF Finalizers!StorageFails, Typed
  <2>3. outstanding' = outstanding - (IF writer[c] = "starting" THEN 1 ELSE 0)
                         + (IF "paused" = "starting" THEN 1 ELSE 0)
    BY <1>3, <2>1
  <2> QED BY <1>2, <2>1, <2>2, <2>3, StageStep
<1> QED
  BY <1>4, <1>5, <1>6, <1>7, <1>8, <1>9, <1>10 DEF Finalizers!RecordWorker

-----------------------------------------------------------------------------
\* Close tasks

\* The active segment of a camera, if it has one, gets into the hands of a closer.
LEMMA TakenStep ==
    ASSUME FinalizerConstants, FinalizersInv, NEW c \in Cameras, NEW owner \in Finalizers!Owners,
           handing' = Finalizers!HandingAfter(c, owner), Finalizers!Taken(c),
           closeTask' \in [Cameras -> {"none", "asked", "late"}],
           writer' \in [Cameras -> WriterStages], UNCHANGED Starters, Rotating',
           UNCHANGED <<started, outstanding, closeQueue, atWork, closed>>
    PROVE  FinalizersInv'
<1>1. Typed /\ Rotating /\ InOneHand /\ Once /\ SlotsCounted
  BY DEF FinalizersInv
<1>2. /\ open[c] \in Nat /\ open' = [open EXCEPT ![c] = 0]
      /\ open'[c] = 0 /\ \A d \in Cameras : d # c => open'[d] = open[d]
  BY <1>1 DEF Typed, Finalizers!Taken
<1>3. CASE open[c] = 0
  <2>1. open' = open
    <3>1. open' \in [Cameras -> Nat] /\ open \in [Cameras -> Nat]
      BY <1>1, <1>2 DEF Typed
    <3>2. \A d \in Cameras : open'[d] = open[d]
      BY <1>2, <1>3
    <3> QED BY <3>1, <3>2, SameFunction
  <2>2. handing' = handing
    BY <1>3 DEF Finalizers!HandingAfter
  <2> QED BY <2>1, <2>2, AsideStep
<1>4. CASE open[c] # 0
  <2> DEFINE s == Finalizers!Segment(c, open[c])
             g == [segment |-> s, owner |-> owner, at |-> "slot"]
  <2>1. handing' = handing \cup {g}
    BY <1>4 DEF Finalizers!HandingAfter
  <2>2. /\ s \in Item /\ s.cam = c /\ s.n = open[c]
        /\ \A t \in Item : t.cam = c /\ t.n = open[c] => t = s
    BY <1>2, <1>4, ItemIs
  <2> HIDE DEF s
  <2>3. g \in Handed /\ g.segment = s /\ g.at = "slot"
    BY <2>2 DEF Handed
  <2> HIDE DEF g
  <2>4. Holds("writer", s)
    BY <2>2, Holder
  <2>5. \A r \in Hands : Holds(r, s) => r = "writer"
    BY <1>1, <2>2, <2>4 DEF InOneHand, Hands
  <2>6. \A h \in handing : h.segment # s
    BY <2>2, <2>5, Holder DEF Hands
  <2>7. ASSUME NEW t \in Item, NEW r \in Hands
        PROVE  Holds(r, t)' <=> IF t = s THEN r = "closer" ELSE Holds(r, t)
    <3>1. t.cam \in Cameras /\ t.n # 0
      BY DEF Item
    <3>2. CASE r = "writer"
      BY <1>2, <2>2, <3>1, <3>2, Holder, HolderNext
    <3>3. CASE r = "closer"
      BY <2>1, <2>3, <3>3, Holder, HolderNext
    <3>4. CASE r \notin {"writer", "closer"}
      BY <2>5, <3>4, StillHeld DEF Hands
    <3> QED BY <3>2, <3>3, <3>4
  <2>8. InOneHand'
    <3>1. Passes(s, "writer", "closer")
      BY <2>7 DEF Passes
    <3> QED BY <1>1, <2>2, <2>4, <3>1, PassedOn DEF Hands
  <2>9. Once'
    BY <1>1, <2>1, <2>3, <2>6 DEF Once
  <2>10. IsFiniteSet(handing') /\ handing' \subseteq Handed
    <3>1. IsFiniteSet(handing \cup {g})
      BY <1>1, FS_AddElement DEF Typed
    <3> QED BY <1>1, <2>1, <2>3, <3>1 DEF Typed
  <2>11. Typed'
    <3>1. open' \in [Cameras -> Nat]
      BY <1>1, <1>2 DEF Typed
    <3> QED BY <1>1, <2>10, <3>1 DEF Typed
  <2>12. SlotsCounted'
    <3>1. Reserved' = Reserved
      BY <2>1, <2>3 DEF Reserved
    <3> QED BY <1>1, <3>1, CountsSame DEF SlotsCounted
  <2> QED BY <2>8, <2>9, <2>11, <2>12 DEF FinalizersInv
<1> QED
  BY <1>3, <1>4

LEMMA DetachStep ==
    ASSUME FinalizerConstants, FinalizersInv, NEW c \in Cameras, Finalizers!Detach(c)
    PROVE  FinalizersInv'
<1>1. Typed /\ Rotating
  BY DEF FinalizersInv
<1> DEFINE stage == IF writer[c] = "paused" THEN "idle" ELSE writer[c]
<1>2. /\ closeTask[c] # "none" /\ writer[c] \in {"idle", "paused", "joined"}
      /\ handing' = Finalizers!HandingAfter(c, closeTask[c]) /\ Finalizers!Taken(c)
      /\ closeTask' = [closeTask EXCEPT ![c] = "none"]
      /\ writer' = [writer EXCEPT ![c] = stage]
      /\ UNCHANGED <<started, outstanding, closeQueue, atWork, closed, phase>>
  BY DEF Finalizers!Detach, Finalizers!stopVars
<1>3. /\ stage \in WriterStages /\ stage \in {"idle", "joined"}
      /\ writer[c] = "joined" => stage = "joined"
  BY <1>2 DEF WriterStages
<1> HIDE DEF stage
<1>4. writer'[c] = stage /\ \A d \in Cameras : d # c => writer'[d] = writer[d]
  BY <1>1, <1>2 DEF Typed
<1>5. closeTask[c] \in Finalizers!Owners /\ closeTask' \in [Cameras -> {"none", "asked", "late"}]
  BY <1>1, <1>2 DEF Typed, Finalizers!Owners
<1>6. writer' \in [Cameras -> WriterStages]
  BY <1>1, <1>2, <1>3 DEF Typed
<1>7. UNCHANGED Starters
  BY <1>2, <1>3, <1>4 DEF Starters
<1>8. Rotating'
  <2>1. \A d \in Cameras : d # c => open'[d] = open[d]
    BY <1>1, <1>2 DEF Typed, Finalizers!Taken
  <2> QED BY <1>1, <1>2, <1>3, <1>4, <2>1 DEF Rotating
<1> QED
  BY <1>2, <1>5, <1>6, <1>7, <1>8, TakenStep

LEMMA CloseCameraStep ==
    ASSUME FinalizerConstants, FinalizersInv, NEW c \in Cameras, Finalizers!CloseCamera(c)
    PROVE  FinalizersInv'
<1>1. Typed /\ Rotating
  BY DEF FinalizersInv
<1>2. /\ phase = "close" /\ handing' = Finalizers!HandingAfter(c, "stop") /\ Finalizers!Taken(c)
      /\ UNCHANGED <<started, writer, closeTask, outstanding, closeQueue, atWork, closed, phase>>
  BY DEF Finalizers!CloseCamera
<1>3. \A d \in Cameras : writer'[d] = "joined"
  BY <1>1, <1>2 DEF Rotating
<1>4. Rotating'
  BY <1>2, <1>3 DEF Rotating
<1> QED
  BY <1>1, <1>2, <1>4, CountsSame, TakenStep DEF Typed, Finalizers!Owners

-----------------------------------------------------------------------------
\* A closer reserves a slot, or closes the segment itself after the finalizers' end.
LEMMA ReserveStep ==
    ASSUME FinalizerConstants, FinalizersInv, NEW h \in handing, Finalizers!ReserveSlot(h)
    PROVE  FinalizersInv'
<1>1. Typed /\ Rotating /\ InOneHand /\ Once /\ SlotsCounted
  BY DEF FinalizersInv
<1>2. /\ h.at = "slot" /\ h \in Handed /\ h.segment \in Item
      /\ UNCHANGED <<open, started, writer, closeTask, closeQueue, atWork, phase>>
  BY <1>1 DEF Finalizers!ReserveSlot, Finalizers!recordVars, Finalizers!stopVars, Typed, Handed
<1>3. Rotating'
  BY <1>1, <1>2 DEF Rotating
<1>4. CASE handing' = handing \ {h} /\ closed' = closed \cup {h.segment} /\ UNCHANGED outstanding
  <2> DEFINE s == h.segment
  <2>1. ASSUME NEW t \in Item, NEW r \in Hands
        PROVE  Holds(r, t)' <=> IF t = s THEN r = "closed" ELSE Holds(r, t)
    <3>1. Holds("closer", s)
      BY <1>2, Holder
    <3>2. \A u \in Hands : Holds(u, s) => u = "closer"
      BY <1>1, <1>2, <3>1 DEF InOneHand, Hands
    <3>3. CASE r = "closer"
      BY <1>1, <1>4, <3>3, Holder, HolderNext DEF Once
    <3>4. CASE r = "closed"
      BY <1>4, <3>4, Holder, HolderNext
    <3>5. CASE r \notin {"closer", "closed"}
      BY <1>2, <3>2, <3>5, StillHeld DEF Hands
    <3> QED BY <3>3, <3>4, <3>5
  <2>2. InOneHand'
    <3>1. Passes(s, "closer", "closed")
      BY <2>1 DEF Passes
    <3>2. Holds("closer", s)
      BY <1>2, Holder
    <3> QED BY <1>1, <1>2, <3>1, <3>2, PassedOn DEF Hands
  <2>3. Once'
    BY <1>1, <1>2, <1>4 DEF Once
  <2>4. Typed'
    <3>1. IsFiniteSet(handing')
      BY <1>1, <1>4, FS_Subset DEF Typed
    <3> QED BY <1>1, <1>2, <1>4, <3>1 DEF Typed
  <2>5. SlotsCounted'
    <3>1. Reserved' = Reserved
      BY <1>2, <1>4 DEF Reserved
    <3> QED BY <1>1, <1>2, <1>4, <3>1, CountsSame DEF SlotsCounted
  <2> QED BY <1>3, <2>2, <2>3, <2>4, <2>5 DEF FinalizersInv
<1>5. CASE /\ Finalizers!SlotFree /\ outstanding' = outstanding + 1 /\ UNCHANGED closed
           /\ handing' = (handing \ {h}) \cup {[h EXCEPT !.at = "enqueue"]}
  <2> DEFINE g == [h EXCEPT !.at = "enqueue"]
  <2>1. g \in Handed /\ g.segment = h.segment /\ g.at = "enqueue"
    BY <1>2 DEF Handed
  <2>2. handing' = (handing \ {h}) \cup {g}
    BY <1>5
  <2> HIDE DEF g
  <2>3. \A t \in Item : (\E k \in handing' : k.segment = t) <=> (\E k \in handing : k.segment = t)
    BY <2>1, <2>2
  <2>4. \A t \in Item, r \in Hands : Holds(r, t)' <=> Holds(r, t)
    BY <1>2, <1>5, <2>3, StillHeld, Holder, HolderNext DEF Hands
  <2>5. InOneHand'
    BY <1>1, <1>2, <2>4 DEF InOneHand
  <2>6. Once'
    BY <1>1, <1>2, <2>1, <2>2 DEF Once
  <2>7. IsFiniteSet(handing') /\ handing' \subseteq Handed
    <3>1. IsFiniteSet(handing \ {h})
      BY <1>1, FS_Subset DEF Typed
    <3> QED BY <1>1, <2>1, <2>2, <3>1, FS_AddElement DEF Typed
  <2>8. SlotsCounted' /\ outstanding' \in Nat
    <3>1. g \notin handing
      BY <1>1, <1>2, <2>1 DEF Once
    <3>2. Reserved' = Reserved \cup {g} /\ g \notin Reserved
      BY <1>2, <2>1, <2>2, <3>1 DEF Reserved
    <3>3. /\ outstanding \in Nat /\ MaxPending \in Nat
          /\ Cardinality(Starters) \in Nat /\ Cardinality(Reserved) \in Nat
          /\ Cardinality(Busy) \in Nat /\ Len(closeQueue) \in Nat /\ IsFiniteSet(Reserved)
      BY <1>1, FiniteCounts DEF Typed, FinalizerConstants
    <3>4. Cardinality(Reserved') = Cardinality(Reserved) + 1
      BY <3>2, <3>3, FS_AddElement
    <3>5. UNCHANGED <<Starters, Busy>>
      BY <1>2, CountsSame
    <3> QED BY <1>1, <1>2, <1>5, <3>3, <3>4, <3>5 DEF SlotsCounted, Finalizers!SlotFree
  <2>9. Typed'
    BY <1>1, <1>2, <1>5, <2>7, <2>8 DEF Typed
  <2> QED BY <1>3, <2>5, <2>6, <2>8, <2>9 DEF FinalizersInv
<1>6. CASE UNCHANGED <<handing, outstanding, closed>>
  BY <1>1, <1>2, <1>3, <1>6, CountsSame, AsideStep DEF Typed
<1> QED
  BY <1>4, <1>5, <1>6 DEF Finalizers!ReserveSlot

\* A closer queues the segment it has a slot for.
LEMMA EnqueueStep ==
    ASSUME FinalizerConstants, FinalizersInv, NEW h \in handing, Finalizers!EnqueueReserved(h)
    PROVE  FinalizersInv'
<1> DEFINE s == h.segment
<1>1. Typed /\ Rotating /\ InOneHand /\ Once /\ SlotsCounted
  BY DEF FinalizersInv
<1>2. /\ h.at = "enqueue" /\ h \in Handed /\ s \in Item
      /\ closeQueue' = Append(closeQueue, s) /\ handing' = handing \ {h}
      /\ UNCHANGED <<open, started, writer, closeTask, outstanding, atWork, closed, phase>>
  BY <1>1 DEF Finalizers!EnqueueReserved, Finalizers!recordVars, Finalizers!stopVars, Typed, Handed
<1>3. Holds("closer", s)
  BY <1>2, Holder
<1>4. \A r \in Hands : Holds(r, s) => r = "closer"
  BY <1>1, <1>2, <1>3 DEF InOneHand, Hands
<1>5. \A i \in 1..Len(closeQueue) : closeQueue[i] # s
  BY <1>2, <1>4, Holder DEF Hands
<1>6. /\ closeQueue' \in Seq(Item) /\ Len(closeQueue') = Len(closeQueue) + 1
      /\ \A i, j \in 1..Len(closeQueue') : closeQueue'[i] = closeQueue'[j] => i = j
      /\ \A y \in Item : (\E i \in 1..Len(closeQueue') : closeQueue'[i] = y)
                           <=> y = s \/ \E i \in 1..Len(closeQueue) : closeQueue[i] = y
  <2>1. closeQueue \in Seq(Item) /\ Distinct(closeQueue)
    BY <1>1 DEF Typed, Once, Distinct
  <2>2. Gains(Append(closeQueue, s), closeQueue, s, Item)
    BY <1>2, <1>5, <2>1, AppendedOnce
  <2>3. Gains(closeQueue', closeQueue, s, Item)
    BY <1>2, <2>2
  <2> QED BY <2>3 DEF Gains, Distinct
<1>7. \A t \in Item : (\E k \in handing' : k.segment = t)
                         <=> t # s /\ \E k \in handing : k.segment = t
  BY <1>1, <1>2 DEF Once
<1> HIDE DEF s
<1>8. ASSUME NEW t \in Item, NEW r \in Hands
      PROVE  Holds(r, t)' <=> IF t = s THEN r = "queue" ELSE Holds(r, t)
  <2>1. CASE r = "closer"
    BY <1>7, <2>1, Holder, HolderNext
  <2>2. CASE r = "queue"
    BY <1>6, <2>2, Holder, HolderNext
  <2>3. CASE r \notin {"closer", "queue"}
    BY <1>2, <1>4, <2>3, StillHeld DEF Hands
  <2> QED BY <2>1, <2>2, <2>3
<1>9. InOneHand'
  <2>1. Passes(s, "closer", "queue")
    BY <1>8 DEF Passes
  <2> QED BY <1>1, <1>2, <1>3, <2>1, PassedOn DEF Hands
<1>10. Once'
  BY <1>1, <1>2, <1>6 DEF Once
<1>11. Typed'
  <2>1. IsFiniteSet(handing \ {h})
    BY <1>1, FS_Subset DEF Typed
  <2> QED BY <1>1, <1>2, <1>6, <2>1 DEF Typed
<1>12. Rotating'
  BY <1>1, <1>2 DEF Rotating
<1>13. SlotsCounted'
  <2>1. Reserved' = Reserved \ {h} /\ h \in Reserved
    BY <1>2 DEF Reserved
  <2>2. /\ Cardinality(Starters) \in Nat /\ Cardinality(Reserved) \in Nat
        /\ Cardinality(Busy) \in Nat /\ Len(closeQueue) \in Nat /\ IsFiniteSet(Reserved)
    BY <1>1, FiniteCounts
  <2>3. Cardinality(Reserved') = Cardinality(Reserved) - 1
    BY <2>1, <2>2, FS_RemoveElement
  <2>4. UNCHANGED <<Starters, Busy>>
    BY <1>2, CountsSame
  <2> QED BY <1>1, <1>2, <1>6, <2>2, <2>3, <2>4 DEF SlotsCounted
<1> QED
  BY <1>9, <1>10, <1>11, <1>12, <1>13 DEF FinalizersInv

-----------------------------------------------------------------------------
\* The finalizers

\* One takes the first segment of a camera nobody works for.
LEMMA TakeTaskStep ==
    ASSUME FinalizerConstants, FinalizersInv, NEW w \in Workers, Finalizers!TakeTask(w)
    PROVE  FinalizersInv'
<1>1. Typed /\ Rotating /\ InOneHand /\ Once /\ SlotsCounted
  BY DEF FinalizersInv
<1>2. Len(closeQueue) \in Nat /\ \A i \in 1..Len(closeQueue) : closeQueue[i] \in Item
  BY <1>1, LenProperties, ElementOfSeq DEF Typed
<1>3. Finalizers!Available \subseteq 1..Len(closeQueue) /\ Finalizers!Available \in SUBSET Nat
  BY <1>2 DEF Finalizers!Available
<1>4. PICK i : i = CHOOSE k \in Finalizers!Available : \A j \in Finalizers!Available : k <= j
  OBVIOUS
<1>5. i \in Finalizers!Available
  <2>1. \E k \in Finalizers!Available : \A j \in Finalizers!Available : k <= j
    BY <1>3, LeastNumber DEF Finalizers!TakeTask
  <2> QED BY <1>4, <2>1
<1>6. /\ atWork[w] = Finalizers!None /\ atWork' = [atWork EXCEPT ![w] = closeQueue[i]]
      /\ closeQueue' = RemoveAt(closeQueue, i)
      /\ UNCHANGED <<open, started, writer, closeTask, handing, outstanding, closed, phase>>
  BY <1>4, FinalizersRemoveAt DEF Finalizers!TakeTask, Finalizers!recordVars, Finalizers!stopVars
<1>7. PICK s : s = closeQueue[i]
  OBVIOUS
<1>8. i \in 1..Len(closeQueue) /\ s \in Item /\ s.cam \in Cameras /\ s.cam # 0
  BY <1>2, <1>3, <1>5, <1>7 DEF Item, FinalizerConstants
<1>9. /\ closeQueue' \in Seq(Item) /\ Len(closeQueue') = Len(closeQueue) - 1
      /\ \A j, k \in 1..Len(closeQueue') : closeQueue'[j] = closeQueue'[k] => j = k
      /\ \A y \in Item : (\E j \in 1..Len(closeQueue') : closeQueue'[j] = y)
                           <=> y # s /\ \E j \in 1..Len(closeQueue) : closeQueue[j] = y
  <2>1. closeQueue \in Seq(Item) /\ i \in 1..Len(closeQueue) /\ Distinct(closeQueue)
    BY <1>1, <1>8 DEF Typed, Once, Distinct
  <2>2. Loses(RemoveAt(closeQueue, i), closeQueue, closeQueue[i], Item)
    BY <2>1, RemovedOnce
  <2>3. Loses(closeQueue', closeQueue, s, Item)
    BY <1>6, <1>7, <2>2
  <2> QED BY <2>3 DEF Loses, Distinct
<1>10. atWork'[w] = s /\ \A v \in Workers : v # w => atWork'[v] = atWork[v]
  BY <1>1, <1>6, <1>7 DEF Typed
<1>11. Holds("queue", s)
  BY <1>7, <1>8, Holder
<1>12. \A r \in Hands : Holds(r, s) => r = "queue"
  BY <1>1, <1>8, <1>11 DEF InOneHand, Hands
<1>13. Finalizers!None \notin Item
  BY DEF Finalizers!None, Item, FinalizerConstants
<1>14. ASSUME NEW t \in Item, NEW r \in Hands
       PROVE  Holds(r, t)' <=> IF t = s THEN r = "finalizer" ELSE Holds(r, t)
  <2>1. CASE r = "queue"
    BY <1>9, <2>1, Holder, HolderNext
  <2>2. CASE r = "finalizer"
    BY <1>6, <1>10, <1>13, <2>2, Holder, HolderNext
  <2>3. CASE r \notin {"queue", "finalizer"}
    BY <1>6, <1>12, <2>3, StillHeld DEF Hands
  <2> QED BY <2>1, <2>2, <2>3
<1>15. InOneHand'
  <2>1. Passes(s, "queue", "finalizer")
    BY <1>14 DEF Passes
  <2> QED BY <1>1, <1>6, <1>8, <1>11, <2>1, PassedOn DEF Hands
<1>16. \A v \in Workers : atWork[v].cam # s.cam
  <2>1. s.cam \notin Finalizers!Routes
    BY <1>5, <1>7 DEF Finalizers!Available
  <2> QED BY <1>8, <2>1 DEF Finalizers!Routes
<1>17. Once'
  <2>1. ASSUME NEW u \in Workers, NEW v \in Workers,
               atWork'[u].cam = atWork'[v].cam, atWork'[u] # Finalizers!None
        PROVE  u = v
    BY <1>1, <1>10, <1>16, <2>1 DEF Once
  <2>2. \A g, k \in handing' : g.segment = k.segment => g = k
    BY <1>1, <1>6 DEF Once
  <2> QED BY <1>9, <2>1, <2>2 DEF Once
<1>18. Typed'
  <2>1. atWork' \in [Workers -> Item \cup {Finalizers!None}]
    BY <1>1, <1>6, <1>7, <1>8 DEF Typed
  <2> QED BY <1>1, <1>6, <1>9, <2>1 DEF Typed
<1>19. Rotating'
  BY <1>1, <1>6 DEF Rotating
<1>20. SlotsCounted'
  <2>1. Busy' = Busy \cup {w} /\ w \notin Busy
    BY <1>6, <1>8, <1>10, <1>13 DEF Busy
  <2>2. /\ Cardinality(Starters) \in Nat /\ Cardinality(Reserved) \in Nat
        /\ Cardinality(Busy) \in Nat /\ IsFiniteSet(Busy)
    BY <1>1, FiniteCounts
  <2>3. Cardinality(Busy') = Cardinality(Busy) + 1
    BY <2>1, <2>2, FS_AddElement
  <2>4. UNCHANGED <<Starters, Reserved>>
    BY <1>6, CountsSame
  <2> QED BY <1>1, <1>2, <1>6, <1>9, <2>2, <2>3, <2>4 DEF SlotsCounted
<1> QED
  BY <1>15, <1>17, <1>18, <1>19, <1>20 DEF FinalizersInv

\* One has closed its segment, and its slot is free.
LEMMA FinalizeStep ==
    ASSUME FinalizerConstants, FinalizersInv, NEW w \in Workers, Finalizers!FinalizeSegment(w)
    PROVE  FinalizersInv'
<1>1. Typed /\ Rotating /\ InOneHand /\ Once /\ SlotsCounted
  BY DEF FinalizersInv
<1>2. PICK s : s = atWork[w]
  OBVIOUS
<1>3. /\ s \in Item /\ s # Finalizers!None
      /\ atWork' = [atWork EXCEPT ![w] = Finalizers!None] /\ closed' = closed \cup {s}
      /\ outstanding' = outstanding - 1
      /\ UNCHANGED <<open, started, writer, closeTask, handing, closeQueue, phase>>
  BY <1>1, <1>2 DEF Finalizers!FinalizeSegment, Finalizers!Complete, Finalizers!recordVars,
       Finalizers!stopVars, Typed
<1>4. atWork'[w] = Finalizers!None /\ \A v \in Workers : v # w => atWork'[v] = atWork[v]
  BY <1>1, <1>3 DEF Typed
<1>5. Finalizers!None \notin Item
  BY DEF Finalizers!None, Item, FinalizerConstants
<1>6. Holds("finalizer", s)
  BY <1>2, <1>3, Holder
<1>7. \A r \in Hands : Holds(r, s) => r = "finalizer"
  BY <1>1, <1>3, <1>6 DEF InOneHand, Hands
<1>8. \A v \in Workers : atWork[v] = s => v = w
  BY <1>1, <1>2, <1>3 DEF Once
<1>9. ASSUME NEW t \in Item, NEW r \in Hands
      PROVE  Holds(r, t)' <=> IF t = s THEN r = "closed" ELSE Holds(r, t)
  <2>1. CASE r = "finalizer"
    BY <1>2, <1>4, <1>5, <1>8, <2>1, Holder, HolderNext
  <2>2. CASE r = "closed"
    BY <1>3, <2>2, Holder, HolderNext
  <2>3. CASE r \notin {"finalizer", "closed"}
    BY <1>3, <1>7, <2>3, StillHeld DEF Hands
  <2> QED BY <2>1, <2>2, <2>3
<1>10. InOneHand'
  <2>1. Passes(s, "finalizer", "closed")
    BY <1>9 DEF Passes
  <2> QED BY <1>1, <1>3, <1>6, <2>1, PassedOn DEF Hands
<1>11. Once'
  <2>1. ASSUME NEW u \in Workers, NEW v \in Workers,
               atWork'[u].cam = atWork'[v].cam, atWork'[u] # Finalizers!None
        PROVE  u = v
    <3>1. \A x \in Workers : atWork[x] \in Item \cup {Finalizers!None}
      BY <1>1 DEF Typed
    <3>2. Finalizers!None.cam = 0 /\ \A t \in Item : t.cam # 0
      BY DEF Finalizers!None, Item, FinalizerConstants
    <3>3. u # w /\ atWork'[u] \in Item
      BY <1>4, <2>1, <3>1
    <3>4. v # w
      BY <1>4, <2>1, <3>2, <3>3
    <3> QED BY <1>1, <1>4, <2>1, <3>3, <3>4 DEF Once
  <2>2. \A g, k \in handing' : g.segment = k.segment => g = k
    BY <1>1, <1>3 DEF Once
  <2>3. \A i, j \in 1..Len(closeQueue') : closeQueue'[i] = closeQueue'[j] => i = j
    BY <1>1, <1>3 DEF Once
  <2> QED BY <2>1, <2>2, <2>3 DEF Once
<1>12. SlotsCounted' /\ outstanding' \in Nat
  <2>1. Busy' = Busy \ {w} /\ w \in Busy
    BY <1>2, <1>3, <1>4 DEF Busy
  <2>2. /\ Cardinality(Starters) \in Nat /\ Cardinality(Reserved) \in Nat /\ Len(closeQueue) \in Nat
        /\ Cardinality(Busy) \in Nat /\ IsFiniteSet(Busy) /\ MaxPending \in Nat
        /\ outstanding \in Nat
    BY <1>1, FiniteCounts DEF FinalizerConstants, Typed
  <2>3. Cardinality(Busy') = Cardinality(Busy) - 1 /\ Cardinality(Busy') \in Nat
    <3>1. IsFiniteSet(Busy')
      BY <2>1, <2>2, FS_Subset
    <3> QED BY <2>1, <2>2, <3>1, FS_RemoveElement, FS_CardinalityType
  <2>4. UNCHANGED <<Starters, Reserved>>
    BY <1>3, CountsSame
  <2> QED BY <1>1, <1>3, <2>2, <2>3, <2>4 DEF SlotsCounted
<1>13. Typed'
  <2>1. atWork' \in [Workers -> Item \cup {Finalizers!None}]
    BY <1>1, <1>3 DEF Typed
  <2> QED BY <1>1, <1>3, <1>12, <2>1 DEF Typed
<1>14. Rotating'
  BY <1>1, <1>3 DEF Rotating
<1> QED
  BY <1>10, <1>11, <1>12, <1>13, <1>14 DEF FinalizersInv

-----------------------------------------------------------------------------
\* Every step, and what it means

LEMMA RequestStep ==
    ASSUME FinalizersInv, NEW c \in Cameras, Finalizers!RequestClose(c)
    PROVE  FinalizersInv'
<1>1. Typed /\ Rotating
  BY DEF FinalizersInv
<1>2. UNCHANGED <<open, started, writer, handing, outstanding, closeQueue, atWork, closed, phase>>
  BY DEF Finalizers!RequestClose, Finalizers!slotVars, Finalizers!stopVars
<1>3. closeTask' \in [Cameras -> {"none", "asked", "late"}]
  BY <1>1 DEF Finalizers!RequestClose, Typed
<1>4. Rotating' /\ writer' \in [Cameras -> WriterStages]
  BY <1>1, <1>2 DEF Rotating, Typed
<1> QED
  BY <1>2, <1>3, <1>4, CountsSame, AsideStep

LEMMA FinalizerStep ==
    ASSUME FinalizerConstants, FinalizersInv, NEW w \in Workers, Finalizers!Finalizer(w)
    PROVE  FinalizersInv'
<1>1. Typed /\ Rotating
  BY DEF FinalizersInv
<1>2. CASE Finalizers!TakeTask(w)
  BY <1>2, TakeTaskStep
<1>3. CASE Finalizers!FinalizeSegment(w)
  BY <1>3, FinalizeStep
<1>4. CASE Finalizers!WaitForTask(w) \/ Finalizers!WorkerExits(w)
  <2>1. UNCHANGED <<open, started, writer, closeTask, handing, outstanding, closeQueue, atWork,
                    closed, phase>>
    BY <1>4 DEF Finalizers!WaitForTask, Finalizers!WorkerExits, Finalizers!recordVars,
         Finalizers!stopVars
  <2>2. /\ Rotating' /\ writer' \in [Cameras -> WriterStages]
        /\ closeTask' \in [Cameras -> {"none", "asked", "late"}]
    BY <1>1, <2>1 DEF Rotating, Typed
  <2> QED BY <2>1, <2>2, CountsSame, AsideStep
<1> QED
  BY <1>2, <1>3, <1>4 DEF Finalizers!Finalizer

LEMMA StopStep ==
    ASSUME FinalizerConstants, FinalizersInv, Finalizers!StopReceiver \/ Finalizers!StopThread
    PROVE  FinalizersInv'
<1>1. Typed /\ Rotating
  BY DEF FinalizersInv
<1>2. ASSUME NEW c \in Cameras, Finalizers!CloseCamera(c) PROVE FinalizersInv'
  BY <1>2, CloseCameraStep
<1>3. CASE Finalizers!JoinWriters
  <2>1. /\ \A c \in Cameras : writer[c] \in {"idle", "paused"}
        /\ writer' = [c \in Cameras |-> "joined"]
        /\ UNCHANGED <<open, started, closeTask, handing, outstanding, closeQueue, atWork, closed>>
    BY <1>3 DEF Finalizers!JoinWriters, Finalizers!slotVars
  <2>2. Rotating' /\ writer' \in [Cameras -> WriterStages]
    BY <2>1 DEF Rotating, WriterStages
  <2>3. Starters = {} /\ Starters' = {}
    BY <2>1 DEF Starters
  <2> QED BY <1>1, <2>1, <2>2, <2>3, AsideStep DEF Typed
<1>4. CASE Finalizers!StopReceiver \/ Finalizers!AwaitFutures \/ Finalizers!AwaitIdle
               \/ Finalizers!StopWorkers \/ Finalizers!JoinWorkers
  <2>1. UNCHANGED <<open, started, writer, closeTask, handing, outstanding, closeQueue, atWork, closed>>
    BY <1>4 DEF Finalizers!StopReceiver, Finalizers!AwaitFutures, Finalizers!AwaitIdle,
         Finalizers!StopWorkers, Finalizers!JoinWorkers,
                Finalizers!recordVars, Finalizers!slotVars
  <2>2. phase' \in {"close", "flag", "exit", "done"} => phase \in {"close", "flag", "exit", "done"}
    BY <1>4 DEF Finalizers!StopReceiver, Finalizers!AwaitFutures, Finalizers!AwaitIdle,
         Finalizers!StopWorkers, Finalizers!JoinWorkers
  <2>3. /\ Rotating' /\ writer' \in [Cameras -> WriterStages]
        /\ closeTask' \in [Cameras -> {"none", "asked", "late"}]
    BY <1>1, <2>1, <2>2 DEF Rotating, Typed
  <2> QED BY <2>1, <2>3, CountsSame, AsideStep
<1> QED
  BY <1>2, <1>3, <1>4 DEF Finalizers!StopThread

LEMMA StepInv ==
    ASSUME FinalizerConstants, FinalizersInv, [Finalizers!Next]_(Finalizers!vars)
    PROVE  FinalizersInv'
<1>1. Typed /\ Rotating
  BY DEF FinalizersInv
<1>2. ASSUME NEW c \in Cameras, Finalizers!RecordWorker(c) \/ Finalizers!RequestClose(c) PROVE FinalizersInv'
  BY <1>2, RecordWorkerStep, RequestStep
<1>3. CASE Finalizers!CloseTask
  <2>1. ASSUME NEW c \in Cameras, Finalizers!Detach(c) PROVE FinalizersInv'
    BY <2>1, DetachStep
  <2>2. ASSUME NEW s \in Finalizers!Segments, NEW owner \in Finalizers!Owners,
               Finalizers!Closer(s, owner) PROVE FinalizersInv'
    BY <2>2, ReserveStep, EnqueueStep DEF Finalizers!Closer
  <2> QED BY <1>3, <2>1, <2>2 DEF Finalizers!CloseTask
<1>4. ASSUME NEW w \in Workers, Finalizers!Finalizer(w) PROVE FinalizersInv'
  BY <1>4, FinalizerStep
<1>5. CASE Finalizers!StopReceiver \/ Finalizers!StopThread
  BY <1>5, StopStep
<1>6. CASE UNCHANGED Finalizers!vars
  <2>1. UNCHANGED <<open, started, writer, closeTask, handing, outstanding, closeQueue, atWork,
                    closed, phase>>
    BY <1>6 DEF Finalizers!vars, Finalizers!recordVars, Finalizers!slotVars, Finalizers!stopVars
  <2>2. /\ Rotating' /\ writer' \in [Cameras -> WriterStages]
        /\ closeTask' \in [Cameras -> {"none", "asked", "late"}]
    BY <1>1, <2>1 DEF Rotating, Typed
  <2> QED BY <2>1, <2>2, CountsSame, AsideStep
<1> QED
  BY <1>2, <1>3, <1>4, <1>5, <1>6 DEF Finalizers!Next

\* A set none of whose elements differ has one element, or none.
LEMMA AtMostOne ==
    ASSUME NEW S, \A x, y \in S : x = y
    PROVE  Cardinality(S) = IF S = {} THEN 0 ELSE 1
<1>1. CASE S = {}
  BY <1>1, FS_EmptySet
<1>2. CASE S # {}
  <2>1. PICK x \in S : TRUE
    BY <1>2
  <2>2. S = {x}
    BY <2>1
  <2> QED BY <1>2, <2>2, FS_Singleton
<1> QED
  BY <1>1, <1>2

LEMMA InvAccounted == FinalizersInv => Finalizers!SegmentsAccounted
<1> SUFFICES ASSUME FinalizersInv PROVE Finalizers!SegmentsAccounted
  OBVIOUS
<1>1. Typed /\ InOneHand /\ Once /\ SlotsCounted
  BY DEF FinalizersInv
<1>2. ASSUME NEW s \in Finalizers!Segments
      PROVE  Finalizers!Holders(s) = IF s.n <= started[s.cam] THEN 1 ELSE 0
  <2> DEFINE closers == {h \in handing : h.segment = s}
             places == {i \in 1..Len(closeQueue) : closeQueue[i] = s}
             finalizers == {w \in Workers : atWork[w] = s}
             held(p) == IF Holds(p, s) THEN 1 ELSE 0
  <2>1. s \in Item
    BY DEF Finalizers!Segments, Finalizers!Segment, Item
  <2>2. Cardinality(closers) = held("closer")
    <3>1. Cardinality(closers) = IF closers = {} THEN 0 ELSE 1
      BY <1>1, AtMostOne DEF Once
    <3> QED BY <2>1, <3>1, Holder
  <2>3. Cardinality(places) = held("queue")
    <3>1. Cardinality(places) = IF places = {} THEN 0 ELSE 1
      BY <1>1, AtMostOne DEF Once
    <3> QED BY <2>1, <3>1, Holder
  <2>4. Cardinality(finalizers) = held("finalizer")
    <3>1. s # Finalizers!None
      BY <2>1 DEF Finalizers!None, Item, FinalizerConstants, Finalizers!Segments, Finalizers!Segment
    <3>2. \A v, w \in finalizers : v = w
      BY <1>1, <3>1 DEF Once
    <3>3. Cardinality(finalizers) = IF finalizers = {} THEN 0 ELSE 1
      BY <3>2, AtMostOne
    <3> QED BY <2>1, <3>3, Holder
  <2>5. Finalizers!Holders(s) = held("writer") + held("closer") + held("queue") + held("finalizer")
                     + held("closed")
    <3>1. /\ (IF open[s.cam] = s.n THEN 1 ELSE 0) = held("writer")
          /\ (IF s \in closed THEN 1 ELSE 0) = held("closed")
      BY <2>1, Holder
    <3> QED BY <2>2, <2>3, <2>4, <3>1, FinalizersCardinality DEF Finalizers!Holders
  <2>6. CASE s.n <= started[s.cam]
    <3>1. PICK p \in Hands : Holds(p, s)
      BY <1>1, <2>1, <2>6 DEF InOneHand
    <3>2. \A q \in Hands : Holds(q, s) <=> q = p
      BY <1>1, <2>1, <3>1 DEF InOneHand
    <3>3. Finalizers!Holders(s) = 1
      BY <2>5, <3>2 DEF Hands
    <3> QED BY <2>6, <3>3
  <2>7. CASE ~(s.n <= started[s.cam])
    <3>1. \A q \in Hands : ~Holds(q, s)
      BY <1>1, <2>1, <2>7 DEF InOneHand
    <3>2. Finalizers!Holders(s) = 0
      BY <2>5, <3>1 DEF Hands
    <3> QED BY <2>7, <3>2
  <2> QED BY <2>6, <2>7
<1> QED
  BY <1>1, <1>2, FinalizersCardinality
  DEF Finalizers!SegmentsAccounted, SlotsCounted, Once, Starters, Reserved, Busy

\* A segment that was started is its record worker's, a closer's, queued, a
\* finalizer's or closed, and only one of them; segment_finalize_outstanding_
\* counts the slots in use and keeps to the limit; and two finalizers never work
\* for one camera.
THEOREM Accounted == ASSUME FinalizerConstants PROVE Finalizers!Spec => []SegmentsAccounted
<1>1. Finalizers!Init => FinalizersInv
  BY InitInv
<1>2. FinalizersInv /\ [Finalizers!Next]_(Finalizers!vars) => FinalizersInv'
  BY StepInv
<1>3. FinalizersInv => Finalizers!SegmentsAccounted
  BY InvAccounted
<1> QED
  BY <1>1, <1>2, <1>3, PTL DEF Finalizers!Spec, SegmentsAccounted

-----------------------------------------------------------------------------
(***************************************************************************)
(* The directory of a segment (SegmentClose), for any number of segments that  *)
(* fall on one name, crashes and failing operations.  That a directory with a   *)
(* marker is whole is not inductive: what the receiver has done to it depends   *)
(* on the step it is at (Stage), that nobody else did something to it on there  *)
(* being one directory for a segment (Single), and that on two segments never   *)
(* making one directory: only one is looking for a name at a time (InOrder), so *)
(* a name it found free stays free (Named).                                    *)
(***************************************************************************)

CloseConstants == Series \subseteq Nat \ {0} /\ IsFiniteSet(Series)

\* A segment without a directory, and one whose directory the receiver works on.
NoPlace == End!Looking \cup {"none", "unmade"}
Working == {"open", "active", "merge", "media", "frames", "audio", "meta", "marker", "publish",
    "rename"}
Dirs == [seg : Series, frames : {"none", "inprogress", "finalizing", "published"},
         media : {"open", "final"}, meta : {"none", "open", "closed"},
         audio : {"none", "task", "asked", "ready", "noInput"}, warned : BOOLEAN,
         marker : {"none", "staged", "ready"}]

Tasks == [Series -> [pc : NoPlace \cup Working \cup {"done", "gone"}, name : End!Names]]
DirsTyped ==
    /\ endMode \in {"direct", "staged", "local"}
    /\ dir \in [End!Names -> Dirs \cup {End!Absent}]
    /\ published \in [End!Names -> Dirs \cup {End!Absent}]
    /\ seg \in Tasks
    /\ toRecover \subseteq End!Names /\ (toRecover # {} => up = "recover")
    /\ up # "run" => \A s \in Series : seg[s].pc \notin Working \cup End!Looking
    /\ \A s \in Series : seg[s].pc = "none" => seg[s].name = 0
\* The segments of a camera begin one after the other.
InOrder ==
    \A r, s \in Series :
       r < s /\ seg[s].pc # "none" => seg[r].pc \notin {"none"} \cup End!Starting
\* A segment has one directory, under one root.
Single ==
    /\ \A n, m \in End!Names : End!Exists(dir[n]) /\ dir[n].seg = dir[m].seg => n = m
    /\ \A n, m \in End!Names : End!Exists(published[n]) /\ published[n].seg = published[m].seg => n = m
    /\ \A n, m \in End!Names : End!Exists(dir[n]) => dir[n].seg # published[m].seg
\* Where it is at each step of the receiver.
Placed ==
    \A s \in Series :
       /\ seg[s].pc \in NoPlace => \A n \in End!Names : dir[n].seg # s /\ published[n].seg # s
       /\ seg[s].pc \in Working => dir[seg[s].name].seg = s
       /\ seg[s].pc \in {"done", "gone"} => \E n \in End!Names : dir[n].seg = s \/ published[n].seg = s
\* The names it did not take are taken, and one it found free is.
Named ==
    \A s \in Series :
       /\ seg[s].pc \in End!Looking =>
            \A n \in End!Names : n < seg[s].name => End!Exists(dir[n]) \/ End!Exists(published[n])
       /\ seg[s].pc \in {"lookPublished", "create"} => ~End!Exists(dir[seg[s].name])
\* What the receiver has done to its directory.
AudioSettled(d) == TaskAudio => d.audio \in {"ready", "noInput"} \/ d.warned
Stage(pc, d) ==
    /\ pc \in {"frames", "audio", "meta", "marker", "publish", "rename"} => d.media = "final"
    /\ pc \in {"audio", "meta", "marker", "publish", "rename"} => d.frames = "published"
    /\ pc \in {"meta", "marker", "publish", "rename"} => AudioSettled(d)
    /\ pc \in {"marker", "publish", "rename"} => d.meta = "closed"
    /\ pc \in {"publish", "rename"} => d.marker = "ready"
    /\ pc \notin {"publish", "rename"} => d.marker = "none"
Stages == \A s \in Series : seg[s].pc \in Working => Stage(seg[s].pc, dir[seg[s].name])
\* A directory with a marker is whole, and what a recovery found is ready.
Kept ==
    /\ \A n \in End!Names : End!Exists(dir[n]) /\ dir[n].marker # "none" => End!Whole(dir[n])
    /\ \A n \in End!Names :
          End!Exists(published[n]) => published[n].marker = "ready" /\ End!Whole(published[n])
    /\ \A n \in toRecover : End!Exists(dir[n]) /\ dir[n].marker = "ready"

CloseInv == DirsTyped /\ InOrder /\ Single /\ Placed /\ Named /\ Stages /\ Kept

-----------------------------------------------------------------------------
\* (SegmentClose has its own instance of FiniteSets.)
LEMMA SameCardinality == \A S : End!Cardinality(S) = Cardinality(S)
BY DEF End!Cardinality, Cardinality

\* There is a name for each segment, and one more.
LEMMA NamesAre ==
    ASSUME CloseConstants
    PROVE  /\ Cardinality(Series) \in Nat /\ End!Names \subseteq Nat /\ 0 \in End!Names
           /\ \A n \in Nat : n < Cardinality(Series) => n + 1 \in End!Names
<1>1. Cardinality(Series) \in Nat
  BY FS_CardinalityType DEF CloseConstants
<1> QED
  BY <1>1, SameCardinality DEF End!Names

\* A directory is somebody's.
LEMMA ExistsIs ==
    ASSUME CloseConstants, NEW d \in Dirs \cup {End!Absent}
    PROVE  /\ End!Exists(d) <=> d.seg # 0
           /\ End!Exists(d) <=> d.seg \in Series
           /\ End!Exists(d) => d \in Dirs
<1>1. End!Absent.seg = 0
  BY DEF End!Absent
<1>2. CASE d = End!Absent
  BY <1>1, <1>2 DEF End!Exists, CloseConstants
<1>3. CASE d \in Dirs
  BY <1>1, <1>3 DEF End!Exists, Dirs, CloseConstants
<1> QED
  BY <1>2, <1>3

LEMMA Everywhere ==
    ASSUME CloseConstants, DirsTyped, NEW n \in End!Names
    PROVE  /\ End!Exists(dir[n]) <=> dir[n].seg # 0
           /\ End!Exists(dir[n]) <=> dir[n].seg \in Series
           /\ End!Exists(dir[n]) => dir[n] \in Dirs
           /\ End!Exists(published[n]) <=> published[n].seg # 0
           /\ End!Exists(published[n]) <=> published[n].seg \in Series
           /\ End!Exists(published[n]) => published[n] \in Dirs
<1>1. dir[n] \in Dirs \cup {End!Absent} /\ published[n] \in Dirs \cup {End!Absent}
  BY DEF DirsTyped
<1> QED
  BY <1>1, ExistsIs

\* What a segment does next, and under which name.
LEMMA SegEffect ==
    ASSUME DirsTyped, NEW s \in Series, NEW pc \in NoPlace \cup Working \cup {"done", "gone"},
           End!Goto(s, pc)
    PROVE  /\ seg' \in Tasks
           /\ seg'[s].pc = pc /\ seg'[s].name = seg[s].name
           /\ \A r \in Series : r # s => seg'[r] = seg[r]
<1>1. seg[s] \in [pc : NoPlace \cup Working \cup {"done", "gone"}, name : End!Names]
  BY DEF DirsTyped, Tasks
<1>2. [seg[s] EXCEPT !.pc = pc] \in [pc : NoPlace \cup Working \cup {"done", "gone"}, name : End!Names]
  BY <1>1
<1>3. seg' = [seg EXCEPT ![s] = [seg[s] EXCEPT !.pc = pc]]
  BY DEF End!Goto
<1> QED
  BY <1>1, <1>2, <1>3 DEF DirsTyped, Tasks

\* A segment that looks for a name finds one: the names it found taken are those of
\* other segments.
LEMMA NamesSuffice ==
    ASSUME CloseConstants, CloseInv, NEW s \in Series, seg[s].pc \in End!Looking,
           End!Exists(dir[seg[s].name]) \/ End!Exists(published[seg[s].name])
    PROVE  seg[s].name + 1 \in End!Names
<1> DEFINE k == seg[s].name
           of(n) == IF End!Exists(dir[n]) THEN dir[n].seg ELSE published[n].seg
           f == [n \in 0..k |-> of(n)]
<1>1. DirsTyped /\ Single /\ Placed /\ Named
  BY DEF CloseInv
<1>2. k \in End!Names /\ k \in Nat /\ 0..k \subseteq End!Names
  BY <1>1, NamesAre, SameCardinality DEF DirsTyped, Tasks, End!Names
<1>3. \A n \in 0..k : End!Exists(dir[n]) \/ End!Exists(published[n])
  BY <1>1, <1>2 DEF Named
<1> HIDE DEF k
<1>4. ASSUME NEW n \in 0..k PROVE of(n) \in Series \ {s}
  <2>1. n \in End!Names /\ seg[s].pc \in NoPlace
    BY <1>2 DEF NoPlace
  <2>2. dir[n].seg # s /\ published[n].seg # s
    BY <1>1, <2>1 DEF Placed
  <2> QED BY <1>1, <1>3, <2>1, <2>2, Everywhere
<1>5. ASSUME NEW n \in 0..k, NEW m \in 0..k, of(n) = of(m) PROVE n = m
  <2>1. n \in End!Names /\ m \in End!Names
    BY <1>2
  <2> QED BY <1>1, <1>3, <1>5, <2>1 DEF Single
<1>6. f \in Injection(0..k, Series \ {s})
  BY <1>4, <1>5 DEF Injection, IsInjective
<1>7. IsFiniteSet(Series \ {s}) /\ Cardinality(Series \ {s}) = Cardinality(Series) - 1
  BY FS_RemoveElement DEF CloseConstants
<1>8. Cardinality(0..k) <= Cardinality(Series \ {s})
  BY <1>6, <1>7, FS_Injection
<1>9. Cardinality(0..k) = k + 1
  <2>1. k \in Nat
    BY <1>2
  <2>2. 0 \in Int /\ k \in Int /\ ~(0 > k)
    BY <2>1
  <2>3. Cardinality(0..k) = k - 0 + 1
    BY <2>2, FS_Interval, Zenon
  <2> QED BY <2>2, <2>3
<1>10. k < Cardinality(Series)
  BY <1>2, <1>7, <1>8, <1>9, NamesAre
<1> QED
  BY <1>2, <1>10, NamesAre DEF k

-----------------------------------------------------------------------------
\* A step in which a segment looks for a name.
LEMMA LookStep ==
    ASSUME CloseConstants, CloseInv, NEW s \in Series, NEW p \in End!Looking, NEW n \in End!Names,
           up = "run", seg[s].pc \in {"none"} \cup End!Looking,
           \A r \in Series : r < s => seg[r].pc \notin {"none"} \cup End!Starting,
           seg' \in Tasks, seg'[s].pc = p, seg'[s].name = n,
           \A r \in Series : r # s => seg'[r] = seg[r],
           \A m \in End!Names : m < n => End!Exists(dir[m]) \/ End!Exists(published[m]),
           p \in {"lookPublished", "create"} => ~End!Exists(dir[n]),
           UNCHANGED <<endMode, dir, published, up, toRecover>>
    PROVE  CloseInv'
<1>1. DirsTyped /\ InOrder /\ Single /\ Placed /\ Named /\ Stages /\ Kept
  BY DEF CloseInv
<1>2. End!Looking \subseteq End!Starting /\ End!Looking \subseteq NoPlace /\ {"none"} \subseteq NoPlace
      /\ p \notin Working /\ p \notin {"done", "gone"} /\ p # "none"
  BY DEF End!Looking, End!Starting, NoPlace, Working
<1>3. DirsTyped'
  <2>1. \A r \in Series : seg'[r].pc = "none" => seg[r] = seg'[r]
    BY <1>2
  <2> QED BY <1>1, <2>1 DEF DirsTyped
<1>4. InOrder'
  <2> SUFFICES ASSUME NEW r \in Series, NEW t \in Series, r < t, seg'[t].pc # "none"
               PROVE  seg'[r].pc \notin {"none"} \cup End!Starting
    BY DEF InOrder
  <2>1. CASE t = s
    <3>1. r # s
      BY <2>1 DEF CloseConstants
    <3> QED BY <2>1, <3>1
  <2>2. CASE t # s
    BY <1>1, <1>2, <2>2 DEF InOrder
  <2> QED BY <2>1, <2>2
<1>5. Single' /\ Kept'
  BY <1>1 DEF Single, Kept, End!Whole
<1>6. Placed'
  BY <1>1, <1>2 DEF Placed
<1>7. Named'
  BY <1>1 DEF Named
<1>8. Stages'
  BY <1>1, <1>2 DEF Stages
<1> QED
  BY <1>3, <1>4, <1>5, <1>6, <1>7, <1>8 DEF CloseInv

\* A step in which a segment that has its directory d goes on, or is left.
LEMMA WorkStep ==
    ASSUME CloseConstants, CloseInv, NEW s \in Series, seg[s].pc \in Working, up = "run",
           NEW d \in Dirs, d.seg = s, dir' = [dir EXCEPT ![seg[s].name] = d],
           NEW pc \in (Working \ {"open"}) \cup {"done", "gone"}, End!Goto(s, pc),
           pc \in Working => Stage(pc, d), d.marker # "none" => End!Whole(d),
           UNCHANGED <<endMode, published, up, toRecover>>
    PROVE  CloseInv'
<1> DEFINE k == seg[s].name
<1>1. DirsTyped /\ InOrder /\ Single /\ Placed /\ Named /\ Stages /\ Kept
  BY DEF CloseInv
<1>2. pc \notin End!Starting /\ pc \notin End!Looking /\ pc \notin NoPlace /\ seg[s].pc # "none"
      /\ seg[s].pc \notin NoPlace /\ pc # "none"
  BY DEF End!Looking, End!Starting, NoPlace, Working
<1>3. /\ seg' \in Tasks /\ seg'[s].pc = pc /\ seg'[s].name = k
      /\ \A r \in Series : r # s => seg'[r] = seg[r]
  BY <1>1, SegEffect
<1>4. k \in End!Names /\ dir[k].seg = s /\ dir[k] \in Dirs /\ End!Exists(dir[k]) /\ End!Exists(d)
  <2>1. k \in End!Names /\ dir[k].seg = s
    BY <1>1 DEF DirsTyped, Tasks, Placed
  <2> QED BY <1>1, <2>1, Everywhere, ExistsIs
<1>5. /\ dir'[k] = d /\ \A n \in End!Names : n # k => dir'[n] = dir[n]
      /\ dir' \in [End!Names -> Dirs \cup {End!Absent}]
  BY <1>1, <1>4 DEF DirsTyped
<1>6. \A n \in End!Names : dir'[n].seg = dir[n].seg /\ (End!Exists(dir'[n]) <=> End!Exists(dir[n]))
  BY <1>4, <1>5
<1> HIDE DEF k
<1>7. DirsTyped'
  <2>1. toRecover = {}
    BY <1>1 DEF DirsTyped
  <2>2. \A r \in Series : seg'[r].pc = "none" => seg[r] = seg'[r]
    BY <1>2, <1>3
  <2> QED BY <1>1, <1>3, <1>5, <2>1, <2>2 DEF DirsTyped
<1>8. InOrder'
  BY <1>1, <1>2, <1>3 DEF InOrder
<1>9. Single'
  BY <1>1, <1>6 DEF Single
<1>10. Placed'
  <2> SUFFICES ASSUME NEW r \in Series
               PROVE  /\ seg'[r].pc \in NoPlace =>
                            \A n \in End!Names : dir'[n].seg # r /\ published'[n].seg # r
                      /\ seg'[r].pc \in Working => dir'[seg'[r].name].seg = r
                      /\ seg'[r].pc \in {"done", "gone"} =>
                            \E n \in End!Names : dir'[n].seg = r \/ published'[n].seg = r
    BY DEF Placed
  <2>1. CASE r = s
    BY <1>2, <1>3, <1>4, <1>6, <2>1
  <2>2. CASE r # s
    <3>1. seg'[r] = seg[r] /\ seg[r].name \in End!Names
      BY <1>1, <1>3, <2>2 DEF DirsTyped, Tasks
    <3> QED BY <1>1, <1>6, <3>1 DEF Placed
  <2> QED BY <2>1, <2>2
<1>11. Named'
  <2> SUFFICES ASSUME NEW r \in Series
               PROVE  /\ seg'[r].pc \in End!Looking => \A n \in End!Names :
                            n < seg'[r].name => End!Exists(dir'[n]) \/ End!Exists(published'[n])
                      /\ seg'[r].pc \in {"lookPublished", "create"} => ~End!Exists(dir'[seg'[r].name])
    BY DEF Named
  <2>1. CASE r = s
    BY <1>2, <1>3, <2>1 DEF End!Looking
  <2>2. CASE r # s
    <3>1. seg'[r] = seg[r] /\ seg[r].name \in End!Names
      BY <1>1, <1>3, <2>2 DEF DirsTyped, Tasks
    <3> QED BY <1>1, <1>6, <3>1 DEF Named
  <2> QED BY <2>1, <2>2
<1>12. Stages'
  <2> SUFFICES ASSUME NEW r \in Series, seg'[r].pc \in Working
               PROVE  Stage(seg'[r].pc, dir'[seg'[r].name])
    BY DEF Stages, Stage
  <2>1. CASE r = s
    BY <1>3, <1>5, <2>1
  <2>2. CASE r # s
    <3>1. seg'[r] = seg[r] /\ seg[r].name \in End!Names /\ dir[seg[r].name].seg = r
      BY <1>1, <1>3, <2>2 DEF DirsTyped, Tasks, Placed
    <3>2. seg[r].name # k
      BY <1>4, <2>2, <3>1
    <3> QED BY <1>1, <1>5, <3>1, <3>2 DEF Stages
  <2> QED BY <2>1, <2>2
<1>13. Kept'
  <2>1. toRecover = {}
    BY <1>1 DEF DirsTyped
  <2>2. \A n \in End!Names : End!Exists(dir'[n]) /\ dir'[n].marker # "none" => End!Whole(dir'[n])
    BY <1>1, <1>5 DEF Kept
  <2> QED BY <1>1, <2>1, <2>2 DEF Kept, End!Whole
<1> QED
  BY <1>7, <1>8, <1>9, <1>10, <1>11, <1>12, <1>13 DEF CloseInv

\* A segment makes its directory: nobody else made one of that name since it looked.
LEMMA CreateStep ==
    ASSUME CloseConstants, CloseInv, NEW s \in Series, End!Create(s)
    PROVE  CloseInv'
<1> DEFINE k == seg[s].name
           d == End!NewDir(s)
<1>1. DirsTyped /\ InOrder /\ Single /\ Placed /\ Named /\ Stages /\ Kept
  BY DEF CloseInv
<1>2. /\ seg[s].pc = "create" /\ up = "run" /\ End!Goto(s, "open") /\ dir' = [dir EXCEPT ![k] = d]
      /\ UNCHANGED <<endMode, published, service, up, toRecover>>
  BY DEF End!Create, End!Done, End!At
<1>3. "open" \in Working /\ "open" \notin NoPlace /\ "open" \notin {"done", "gone", "none"}
      /\ seg[s].pc \in NoPlace /\ seg[s].pc \in End!Starting /\ seg[s].pc # "none"
      /\ seg[s].pc \in End!Looking
  BY <1>2 DEF Working, NoPlace, End!Looking, End!Starting
<1>4. /\ seg' \in Tasks /\ seg'[s].pc = "open" /\ seg'[s].name = k
      /\ \A r \in Series : r # s => seg'[r] = seg[r]
  BY <1>1, <1>2, <1>3, SegEffect
<1>5. /\ d \in Dirs /\ d.seg = s /\ d.marker = "none" /\ d.media = "open"
  BY DEF End!NewDir, Dirs
<1>6. k \in End!Names /\ ~End!Exists(dir[k]) /\ End!Exists(d)
  BY <1>1, <1>2, <1>5, ExistsIs DEF DirsTyped, Tasks, Named
<1> HIDE DEF d
<1>7. /\ dir'[k] = d /\ \A n \in End!Names : n # k => dir'[n] = dir[n]
      /\ dir' \in [End!Names -> Dirs \cup {End!Absent}]
  BY <1>1, <1>2, <1>5, <1>6 DEF DirsTyped
<1>8. \A n \in End!Names : dir[n].seg # s /\ published[n].seg # s
  BY <1>1, <1>3 DEF Placed
<1>9. toRecover = {}
  BY <1>1, <1>2 DEF DirsTyped
<1> HIDE DEF k
<1>10. DirsTyped'
  BY <1>1, <1>2, <1>4, <1>7, <1>9 DEF DirsTyped
<1>11. InOrder'
  <2> SUFFICES ASSUME NEW r \in Series, NEW t \in Series, r < t, seg'[t].pc # "none"
               PROVE  seg'[r].pc \notin {"none"} \cup End!Starting
    BY DEF InOrder
  <2>1. seg[t].pc # "none"
    BY <1>3, <1>4
  <2>2. seg[r].pc \notin {"none"} \cup End!Starting
    BY <1>1, <2>1 DEF InOrder
  <2>3. r # s
    BY <1>3, <2>2
  <2> QED BY <1>4, <2>2, <2>3
<1>12. Single'
  BY <1>1, <1>2, <1>5, <1>6, <1>7, <1>8 DEF Single
<1>13. Placed'
  <2> SUFFICES ASSUME NEW r \in Series
               PROVE  /\ seg'[r].pc \in NoPlace =>
                            \A n \in End!Names : dir'[n].seg # r /\ published'[n].seg # r
                      /\ seg'[r].pc \in Working => dir'[seg'[r].name].seg = r
                      /\ seg'[r].pc \in {"done", "gone"} =>
                            \E n \in End!Names : dir'[n].seg = r \/ published'[n].seg = r
    BY DEF Placed
  <2>1. CASE r = s
    BY <1>3, <1>4, <1>5, <1>7, <2>1
  <2>2. CASE r # s
    <3>1. seg'[r] = seg[r] /\ seg[r].name \in End!Names
      BY <1>1, <1>4, <2>2 DEF DirsTyped, Tasks
    <3>2. \A n \in End!Names : dir[n].seg = r => n # k
      BY <1>1, <1>6, Everywhere
    <3>3. \A n \in End!Names : dir'[n].seg = r <=> dir[n].seg = r
      BY <1>5, <1>7, <2>2, <3>2
    <3> QED BY <1>1, <1>2, <3>1, <3>3 DEF Placed
  <2> QED BY <2>1, <2>2
<1>14. Named'
  <2> SUFFICES ASSUME NEW r \in Series
               PROVE  /\ seg'[r].pc \in End!Looking => \A n \in End!Names :
                            n < seg'[r].name => End!Exists(dir'[n]) \/ End!Exists(published'[n])
                      /\ seg'[r].pc \in {"lookPublished", "create"} => ~End!Exists(dir'[seg'[r].name])
    BY DEF Named
  <2>1. CASE r = s
    BY <1>4, <2>1 DEF End!Looking
  <2>2. CASE r # s
    <3>1. seg'[r] = seg[r] /\ seg[r].name \in End!Names
      BY <1>1, <1>4, <2>2 DEF DirsTyped, Tasks
    <3>2. seg[r].pc \notin End!Looking
      <4>1. r < s \/ s < r
        BY <2>2 DEF CloseConstants
      <4> QED BY <1>1, <1>3, <4>1 DEF InOrder, End!Starting, End!Looking
    <3> QED BY <3>1, <3>2 DEF End!Looking
  <2> QED BY <2>1, <2>2
<1>15. Stages'
  <2> SUFFICES ASSUME NEW r \in Series, seg'[r].pc \in Working
               PROVE  Stage(seg'[r].pc, dir'[seg'[r].name])
    BY DEF Stages, Stage
  <2>1. CASE r = s
    BY <1>4, <1>5, <1>7, <2>1 DEF Stage
  <2>2. CASE r # s
    <3>1. seg'[r] = seg[r] /\ seg[r].name \in End!Names /\ dir[seg[r].name].seg = r
      BY <1>1, <1>4, <2>2 DEF DirsTyped, Tasks, Placed
    <3>2. seg[r].name # k
      BY <1>1, <1>6, <3>1, Everywhere
    <3> QED BY <1>1, <1>7, <3>1, <3>2 DEF Stages
  <2> QED BY <2>1, <2>2
<1>16. Kept'
  <2>1. \A n \in End!Names : End!Exists(dir'[n]) /\ dir'[n].marker # "none" => End!Whole(dir'[n])
    BY <1>1, <1>5, <1>7 DEF Kept
  <2> QED BY <1>1, <1>2, <1>9, <2>1 DEF Kept, End!Whole
<1> QED
  BY <1>10, <1>11, <1>12, <1>13, <1>14, <1>15, <1>16 DEF CloseInv

\* A directory is renamed to the published root, by its segment or by a recovery.
LEMMA MoveStep ==
    ASSUME CloseConstants, CloseInv, NEW n \in End!Names, End!Moved(n), End!Exists(dir[n]),
           dir[n].marker = "ready", toRecover' = toRecover \ {n}, seg' \in Tasks,
           \A r \in Series :
              /\ seg'[r].name = seg[r].name
              /\ \/ seg'[r].pc = seg[r].pc
                 \/ seg[r].pc \in Working /\ seg'[r].pc \in {"done", "gone"}
              /\ seg'[r].pc \in Working => dir[n].seg # r,
           UNCHANGED <<endMode, up>>
    PROVE  CloseInv'
<1>1. DirsTyped /\ InOrder /\ Single /\ Placed /\ Named /\ Stages /\ Kept
  BY DEF CloseInv
<1>2. /\ ~End!Exists(published[n]) /\ dir[n] \in Dirs /\ dir[n].seg \in Series
      /\ dir'[n] = End!Absent /\ \A m \in End!Names : m # n => dir'[m] = dir[m]
      /\ published'[n] = dir[n] /\ \A m \in End!Names : m # n => published'[m] = published[m]
      /\ dir' \in [End!Names -> Dirs \cup {End!Absent}]
      /\ published' \in [End!Names -> Dirs \cup {End!Absent}]
  BY <1>1, Everywhere DEF DirsTyped, End!Moved
<1>3. ~End!Exists(End!Absent) /\ End!Absent.seg = 0 /\ 0 \notin Series
  BY DEF End!Exists, End!Absent, CloseConstants
<1>4. \A r \in Series :
         /\ seg'[r].pc \in NoPlace => seg[r].pc = seg'[r].pc
         /\ seg'[r].pc \in Working => seg[r].pc = seg'[r].pc
         /\ seg'[r].pc \in {"none"} \cup End!Starting => seg[r].pc = seg'[r].pc
  <2>1. {"done", "gone"} \cap (NoPlace \cup Working \cup {"none"} \cup End!Starting) = {}
    BY DEF NoPlace, Working, End!Looking, End!Starting
  <2> QED BY <2>1
<1>5. \A r \in Series :
         (\E m \in End!Names : dir'[m].seg = r \/ published'[m].seg = r)
            <=> (\E m \in End!Names : dir[m].seg = r \/ published[m].seg = r)
  <2> SUFFICES ASSUME NEW r \in Series
               PROVE  (\E m \in End!Names : dir'[m].seg = r \/ published'[m].seg = r)
                         <=> (\E m \in End!Names : dir[m].seg = r \/ published[m].seg = r)
    OBVIOUS
  <2>1. published[n].seg # r
    BY <1>1, <1>2, Everywhere
  <2> QED BY <1>2, <1>3, <2>1
<1>6. DirsTyped'
  <2>1. \A r \in Series :
           seg'[r].pc \in Working \cup End!Looking => seg[r].pc \in Working \cup End!Looking
    BY <1>4 DEF NoPlace
  <2> QED BY <1>1, <1>2, <2>1 DEF DirsTyped
<1>7. InOrder'
  <2> SUFFICES ASSUME NEW r \in Series, NEW t \in Series, r < t, seg'[t].pc # "none"
               PROVE  seg'[r].pc \notin {"none"} \cup End!Starting
    BY DEF InOrder
  <2>1. seg[t].pc # "none"
    BY DEF Working
  <2> QED BY <1>1, <1>4, <2>1 DEF InOrder
<1>8. Single'
  <2>1. \A m \in End!Names : End!Exists(published[m]) => m # n /\ dir[n].seg # published[m].seg
    BY <1>1, <1>2 DEF Single
  <2>2. \A m \in End!Names : End!Exists(dir'[m]) => m # n /\ End!Exists(dir[m]) /\ dir'[m] = dir[m]
    BY <1>2, <1>3
  <2>3. \A m, l \in End!Names : End!Exists(dir'[m]) /\ dir'[m].seg = dir'[l].seg => m = l
    <3> SUFFICES ASSUME NEW m \in End!Names, NEW l \in End!Names, End!Exists(dir'[m]),
                        dir'[m].seg = dir'[l].seg
                 PROVE  m = l
      OBVIOUS
    <3>1. dir'[l].seg \in Series
      BY <1>1, <2>2, Everywhere
    <3>2. l # n
      BY <1>2, <1>3, <3>1
    <3> QED BY <1>1, <1>2, <2>2, <3>2 DEF Single
  <2>4. \A m, l \in End!Names :
           End!Exists(published'[m]) /\ published'[m].seg = published'[l].seg => m = l
    <3> SUFFICES ASSUME NEW m \in End!Names, NEW l \in End!Names, End!Exists(published'[m]),
                        published'[m].seg = published'[l].seg
                 PROVE  m = l
      OBVIOUS
    <3>1. CASE m = n
      <4>1. CASE l # n
        <5>1. published'[l] = published[l] /\ published[l].seg = dir[n].seg
          BY <1>2, <3>1, <4>1
        <5> QED BY <1>1, <5>1 DEF Single
      <4> QED BY <3>1, <4>1
    <3>2. CASE m # n
      <4>1. End!Exists(published[m]) /\ published'[m] = published[m]
        BY <1>2, <3>2
      <4>2. l # n
        BY <1>2, <2>1, <4>1
      <4> QED BY <1>1, <1>2, <4>1, <4>2 DEF Single
    <3> QED BY <3>1, <3>2
  <2>5. \A m, l \in End!Names : End!Exists(dir'[m]) => dir'[m].seg # published'[l].seg
    <3> SUFFICES ASSUME NEW m \in End!Names, NEW l \in End!Names, End!Exists(dir'[m])
                 PROVE  dir'[m].seg # published'[l].seg
      OBVIOUS
    <3>1. CASE l = n
      BY <1>1, <1>2, <2>2, <3>1 DEF Single
    <3>2. CASE l # n
      BY <1>1, <1>2, <2>2, <3>2 DEF Single
    <3> QED BY <3>1, <3>2
  <2> QED BY <2>3, <2>4, <2>5 DEF Single
<1>9. Placed'
  <2> SUFFICES ASSUME NEW r \in Series
               PROVE  /\ seg'[r].pc \in NoPlace =>
                            \A m \in End!Names : dir'[m].seg # r /\ published'[m].seg # r
                      /\ seg'[r].pc \in Working => dir'[seg'[r].name].seg = r
                      /\ seg'[r].pc \in {"done", "gone"} =>
                            \E m \in End!Names : dir'[m].seg = r \/ published'[m].seg = r
    BY DEF Placed
  <2>1. seg[r].name \in End!Names
    BY <1>1 DEF DirsTyped, Tasks
  <2>2. seg'[r].pc \in Working => dir'[seg'[r].name].seg = r
    BY <1>1, <1>2, <1>4, <2>1 DEF Placed
  <2>3. seg'[r].pc \in NoPlace => \A m \in End!Names : dir'[m].seg # r /\ published'[m].seg # r
    BY <1>1, <1>4, <1>5 DEF Placed
  <2>4. seg'[r].pc \in {"done", "gone"} => \E m \in End!Names : dir'[m].seg = r \/ published'[m].seg = r
    <3>1. seg[r].pc \in Working => \E m \in End!Names : dir[m].seg = r
      BY <1>1, <2>1 DEF Placed
    <3> QED BY <1>1, <1>5, <3>1 DEF Placed
  <2> QED BY <2>2, <2>3, <2>4
<1>10. Named'
  <2>1. \A m \in End!Names : End!Exists(dir[m]) \/ End!Exists(published[m])
                                => End!Exists(dir'[m]) \/ End!Exists(published'[m])
    BY <1>2
  <2>2. \A m \in End!Names : ~End!Exists(dir[m]) => ~End!Exists(dir'[m])
    BY <1>2, <1>3
  <2>3. End!Looking \subseteq NoPlace /\ {"lookPublished", "create"} \subseteq NoPlace
    BY DEF NoPlace, End!Looking
  <2>4. \A r \in Series : seg[r].name \in End!Names
    BY <1>1 DEF DirsTyped, Tasks
  <2> QED BY <1>1, <1>4, <2>1, <2>2, <2>3, <2>4 DEF Named
<1>11. Stages'
  <2> SUFFICES ASSUME NEW r \in Series, seg'[r].pc \in Working
               PROVE  Stage(seg'[r].pc, dir'[seg'[r].name])
    BY DEF Stages, Stage
  <2>1. seg[r].pc = seg'[r].pc /\ seg[r].name \in End!Names /\ dir[seg[r].name].seg = r
    BY <1>1, <1>4 DEF DirsTyped, Tasks, Placed
  <2>2. seg[r].name # n
    BY <2>1
  <2> QED BY <1>1, <1>2, <2>1, <2>2 DEF Stages
<1>12. Kept'
  <2>1. \A m \in End!Names : End!Exists(dir'[m]) /\ dir'[m].marker # "none" => End!Whole(dir'[m])
    BY <1>1, <1>2, <1>3 DEF Kept
  <2>2. \A m \in End!Names : End!Exists(published'[m])
                                => published'[m].marker = "ready" /\ End!Whole(published'[m])
    BY <1>1, <1>2 DEF Kept
  <2>3. \A m \in toRecover' : End!Exists(dir'[m]) /\ dir'[m].marker = "ready"
    BY <1>1, <1>2 DEF Kept, DirsTyped
  <2> QED BY <2>1, <2>2, <2>3 DEF Kept, End!Whole
<1> QED
  BY <1>6, <1>7, <1>8, <1>9, <1>10, <1>11, <1>12 DEF CloseInv

\* A step that no directory, segment or recovery knows of.
LEMMA DirsAside ==
    ASSUME CloseInv, up' # "run" => up # "run", toRecover' \subseteq toRecover,
           toRecover' # {} => up' = "recover", UNCHANGED <<endMode, dir, published, seg>>
    PROVE  CloseInv'
<1>1. DirsTyped /\ InOrder /\ Single /\ Placed /\ Named /\ Stages /\ Kept
  BY DEF CloseInv
<1>2. DirsTyped'
  BY <1>1 DEF DirsTyped
<1>3. InOrder' /\ Single' /\ Placed' /\ Named' /\ Stages'
  BY <1>1 DEF InOrder, Single, Placed, Named, Stages, Stage
<1>4. Kept'
  BY <1>1 DEF Kept, End!Whole
<1> QED
  BY <1>2, <1>3, <1>4 DEF CloseInv

\* The restart, after which nobody is at work until the recovery ends.
LEMMA RestartStep ==
    ASSUME CloseConstants, CloseInv, End!Restart
    PROVE  CloseInv'
<1>1. DirsTyped /\ InOrder /\ Single /\ Placed /\ Named /\ Stages /\ Kept
  BY DEF CloseInv
<1>2. /\ up = "down" /\ up' = "recover" /\ toRecover' = End!Recoverable
      /\ UNCHANGED <<endMode, dir, published, seg, service>>
  BY DEF End!Restart
<1>3. /\ End!Recoverable \subseteq End!Names
      /\ \A n \in End!Recoverable : End!Exists(dir[n]) /\ dir[n].marker = "ready"
  BY DEF End!Recoverable
<1>4. DirsTyped'
  BY <1>1, <1>2, <1>3 DEF DirsTyped
<1>5. InOrder' /\ Single' /\ Placed' /\ Named' /\ Stages'
  BY <1>1, <1>2 DEF InOrder, Single, Placed, Named, Stages, Stage
<1>6. Kept'
  BY <1>1, <1>2, <1>3 DEF Kept, End!Whole
<1> QED
  BY <1>4, <1>5, <1>6 DEF CloseInv

\* The receiver dies: what was at work keeps what it has.
LEMMA CrashStep ==
    ASSUME CloseConstants, CloseInv, End!Crash
    PROVE  CloseInv'
<1> DEFINE left(pc) == CASE pc = "none" -> "none"
                         [] pc \in End!Looking \cup {"unmade"} -> "unmade"
                         [] OTHER -> "gone"
<1>1. DirsTyped /\ InOrder /\ Single /\ Placed /\ Named /\ Stages /\ Kept
  BY DEF CloseInv
<1>2. /\ up' = "down" /\ toRecover' = {} /\ UNCHANGED <<endMode, dir, published, service>>
      /\ seg' = [s \in Series |-> [seg[s] EXCEPT !.pc = left(seg[s].pc)]]
  BY DEF End!Crash
<1>3. ASSUME NEW s \in Series
      PROVE  /\ seg[s].pc \in NoPlace \cup Working \cup {"done", "gone"} /\ seg[s].name \in End!Names
             /\ seg'[s].pc = left(seg[s].pc) /\ seg'[s].name = seg[s].name
             /\ seg'[s] \in [pc : NoPlace \cup Working \cup {"done", "gone"}, name : End!Names]
  <2>1. seg[s] \in [pc : NoPlace \cup Working \cup {"done", "gone"}, name : End!Names]
    BY <1>1 DEF DirsTyped, Tasks
  <2>2. left(seg[s].pc) \in NoPlace \cup {"gone"}
    BY <2>1 DEF NoPlace
  <2>3. [seg[s] EXCEPT !.pc = left(seg[s].pc)]
           \in [pc : NoPlace \cup Working \cup {"done", "gone"}, name : End!Names]
    BY <2>1, <2>2
  <2> HIDE DEF left
  <2>4. seg'[s] = [seg[s] EXCEPT !.pc = left(seg[s].pc)]
    BY <1>2
  <2> QED BY <2>1, <2>3, <2>4
<1>4. \A s \in Series :
         /\ seg'[s].pc \in {"none", "unmade", "gone"}
         /\ seg'[s].pc = "none" <=> seg[s].pc = "none"
         /\ seg'[s].pc \in {"none", "unmade"} => seg[s].pc \in NoPlace
         /\ seg'[s].pc = "gone" => seg[s].pc \in Working \cup {"done", "gone"}
  BY <1>3 DEF NoPlace, End!Looking, Working
<1> HIDE DEF left
<1>5. {"none", "unmade", "gone"} \cap (Working \cup End!Looking \cup End!Starting) = {}
      /\ "gone" \notin NoPlace /\ "done" \notin NoPlace
  BY DEF NoPlace, End!Looking, Working, End!Starting
<1>6. seg' \in Tasks
  <2> DEFINE T == [pc : NoPlace \cup Working \cup {"done", "gone"}, name : End!Names]
  <2>1. \A s \in Series : seg'[s] \in T
    BY <1>3
  <2>2. seg' = [s \in Series |-> seg'[s]]
    BY <1>2
  <2> HIDE DEF T
  <2>3. seg' \in [Series -> T]
    BY <2>1, <2>2
  <2> QED BY <2>3 DEF T, Tasks
<1>7. DirsTyped'
  <2>1. \A r \in Series : seg'[r].pc \notin Working \cup End!Looking
    BY <1>4, <1>5
  <2>2. \A r \in Series : seg'[r].pc = "none" => seg'[r].name = 0
    BY <1>1, <1>3, <1>4 DEF DirsTyped
  <2> QED BY <1>1, <1>2, <1>6, <2>1, <2>2 DEF DirsTyped
<1>8. InOrder'
  BY <1>1, <1>4, <1>5 DEF InOrder
<1>9. Single' /\ Kept'
  BY <1>1, <1>2 DEF Single, Kept, End!Whole
<1>10. Placed'
  <2> SUFFICES ASSUME NEW r \in Series
               PROVE  /\ seg'[r].pc \in NoPlace =>
                            \A n \in End!Names : dir[n].seg # r /\ published[n].seg # r
                      /\ seg'[r].pc \in Working => dir[seg'[r].name].seg = r
                      /\ seg'[r].pc \in {"done", "gone"} =>
                            \E n \in End!Names : dir[n].seg = r \/ published[n].seg = r
    BY <1>2 DEF Placed
  <2>1. seg'[r].pc = "gone" => \E n \in End!Names : dir[n].seg = r \/ published[n].seg = r
    BY <1>1, <1>3, <1>4 DEF Placed
  <2>2. seg'[r].pc \in NoPlace => seg'[r].pc \in {"none", "unmade"}
    BY <1>4, <1>5
  <2>3. seg'[r].pc \notin Working /\ (seg'[r].pc \in {"done", "gone"} => seg'[r].pc = "gone")
    BY <1>4, <1>5
  <2> QED BY <1>1, <1>4, <2>1, <2>2, <2>3 DEF Placed
<1>11. Named'
  <2>1. \A r \in Series : seg'[r].pc \notin End!Looking
    BY <1>4, <1>5
  <2> QED BY <2>1 DEF Named, End!Looking
<1>12. Stages'
  <2>1. \A r \in Series : seg'[r].pc \notin Working
    BY <1>4, <1>5
  <2> QED BY <2>1 DEF Stages
<1> QED
  BY <1>7, <1>8, <1>9, <1>10, <1>11, <1>12 DEF CloseInv

\* The audio service writes its marker beside whatever else is there.
LEMMA AudioStep ==
    ASSUME CloseConstants, CloseInv, NEW n \in End!Names, End!AudioReady(n)
    PROVE  CloseInv'
<1> DEFINE d == [dir[n] EXCEPT !.audio = "ready"]
<1>1. DirsTyped /\ InOrder /\ Single /\ Placed /\ Named /\ Stages /\ Kept
  BY DEF CloseInv
<1>2. UNCHANGED <<endMode, published, seg, up, toRecover>>
  BY DEF End!AudioReady
<1>3. CASE dir' = dir
  BY <1>1, <1>2, <1>3, DirsAside DEF DirsTyped
<1>4. CASE /\ End!Exists(dir[n]) /\ dir[n].audio \in {"asked", "noInput"}
           /\ dir' = [dir EXCEPT ![n].audio = "ready"]
  <2>1. dir[n] \in Dirs
    BY <1>1, <1>4, Everywhere
  <2>2. /\ d \in Dirs /\ d.seg = dir[n].seg /\ d.audio = "ready" /\ d.frames = dir[n].frames
        /\ d.media = dir[n].media /\ d.meta = dir[n].meta /\ d.marker = dir[n].marker
        /\ AudioSettled(d)
    BY <2>1 DEF Dirs, AudioSettled
  <2>3. dir' = [dir EXCEPT ![n] = d]
    BY <1>4
  <2> HIDE DEF d
  <2>4. End!Exists(d)
    <3>1. d \in Dirs \cup {End!Absent} /\ d.seg \in Series
      BY <2>2 DEF Dirs
    <3> QED BY <3>1, ExistsIs
  <2>5. /\ dir'[n] = d /\ \A m \in End!Names : m # n => dir'[m] = dir[m]
        /\ dir' \in [End!Names -> Dirs \cup {End!Absent}]
    BY <1>1, <2>2, <2>3 DEF DirsTyped
  <2>6. \A m \in End!Names :
           /\ dir'[m].seg = dir[m].seg /\ (End!Exists(dir'[m]) <=> End!Exists(dir[m]))
           /\ dir'[m].marker = dir[m].marker
    BY <1>4, <2>2, <2>4, <2>5
  <2>7. DirsTyped'
    BY <1>1, <1>2, <2>5 DEF DirsTyped
  <2>8. InOrder' /\ Single'
    BY <1>1, <1>2, <2>6 DEF InOrder, Single
  <2>9. \A r \in Series : seg[r].name \in End!Names
    BY <1>1 DEF DirsTyped, Tasks
  <2>10. Placed' /\ Named'
    BY <1>1, <1>2, <2>6, <2>9 DEF Placed, Named
  <2>11. Stages'
    <3> SUFFICES ASSUME NEW r \in Series, seg[r].pc \in Working
                 PROVE  Stage(seg[r].pc, dir'[seg[r].name])
      BY <1>2 DEF Stages, Stage
    <3>1. Stage(seg[r].pc, dir[seg[r].name])
      BY <1>1 DEF Stages
    <3>2. CASE seg[r].name = n
      BY <2>2, <2>5, <3>1, <3>2 DEF Stage
    <3>3. CASE seg[r].name # n
      BY <2>5, <2>9, <3>1, <3>3
    <3> QED BY <3>2, <3>3
  <2>12. Kept'
    <3>1. \A m \in End!Names : End!Exists(dir'[m]) /\ dir'[m].marker # "none" => End!Whole(dir'[m])
      <4>1. End!Whole(dir[n]) => End!Whole(d)
        BY <2>2 DEF End!Whole, AudioSettled
      <4> QED BY <1>1, <2>5, <2>6, <4>1 DEF Kept
    <3>2. \A m \in toRecover' : End!Exists(dir'[m]) /\ dir'[m].marker = "ready"
      BY <1>1, <1>2, <2>6 DEF Kept, DirsTyped
    <3> QED BY <1>1, <1>2, <3>1, <3>2 DEF Kept, End!Whole
  <2> QED BY <2>7, <2>8, <2>10, <2>11, <2>12 DEF CloseInv
<1> QED
  BY <1>3, <1>4 DEF End!AudioReady

-----------------------------------------------------------------------------
\* The operations of a segment

\* What is known of a segment at work.
LEMMA AtWork ==
    ASSUME CloseConstants, CloseInv, NEW s \in Series, seg[s].pc \in Working
    PROVE  /\ seg[s].name \in End!Names /\ End!Dir(s) \in Dirs /\ End!Dir(s).seg = s
           /\ Stage(seg[s].pc, End!Dir(s)) /\ (End!Dir(s).marker # "none" => End!Whole(End!Dir(s)))
           /\ dir = [dir EXCEPT ![seg[s].name] = End!Dir(s)]
<1>1. DirsTyped /\ Placed /\ Stages /\ Kept
  BY DEF CloseInv
<1>2. seg[s].name \in End!Names /\ dir[seg[s].name].seg = s
  BY <1>1 DEF DirsTyped, Tasks, Placed
<1>3. End!Exists(dir[seg[s].name]) /\ dir[seg[s].name] \in Dirs
  BY <1>1, <1>2, Everywhere
<1>4. Stage(seg[s].pc, End!Dir(s)) /\ (End!Dir(s).marker # "none" => End!Whole(End!Dir(s)))
  BY <1>1, <1>2, <1>3 DEF Stages, Kept, End!Dir
<1>5. dir = [dir EXCEPT ![seg[s].name] = dir[seg[s].name]]
  BY <1>1 DEF DirsTyped
<1> QED
  BY <1>2, <1>3, <1>4, <1>5 DEF End!Dir

\* It leaves its directory as it is.
LEMMA SameDir ==
    ASSUME CloseConstants, CloseInv, NEW s \in Series, seg[s].pc \in Working, up = "run",
           NEW pc \in (Working \ {"open"}) \cup {"done", "gone"}, End!Goto(s, pc),
           pc \in Working => Stage(pc, End!Dir(s)), UNCHANGED <<endMode, dir, published, up, toRecover>>
    PROVE  CloseInv'
BY AtWork, WorkStep

LEMMA ThrowStep ==
    ASSUME CloseConstants, CloseInv, NEW s \in Series, seg[s].pc \in Working, up = "run",
           End!Throw(s)
    PROVE  CloseInv'
<1>1. End!Goto(s, "gone") /\ UNCHANGED <<endMode, dir, published, up, toRecover>>
  BY DEF End!Throw
<1>2. "gone" \notin Working
  BY DEF Working
<1> QED
  BY <1>1, <1>2, SameDir

\* It looks for a name, and makes its directory.
LEMMA StartStep ==
    ASSUME CloseConstants, CloseInv, NEW s \in Series, End!Start(s)
    PROVE  CloseInv'
<1> DEFINE k == seg[s].name
<1>1. DirsTyped /\ InOrder /\ Named
  BY DEF CloseInv
<1>2. k \in End!Names /\ {"lookHidden", "lookPublished", "create"} = End!Looking
      /\ End!Looking \subseteq NoPlace \cup Working \cup {"done", "gone"}
      /\ End!Looking \subseteq End!Starting
  BY <1>1 DEF DirsTyped, Tasks, NoPlace, End!Looking, End!Starting
<1>3. CASE End!StartSegment(s)
  <2>1. /\ up = "run" /\ seg[s].pc = "none" /\ End!Goto(s, "lookHidden")
        /\ \A r \in Series : r < s => seg[r].pc \notin {"none"} \cup End!Starting
        /\ UNCHANGED <<endMode, dir, published, up, toRecover>>
    BY <1>3 DEF End!StartSegment, End!At, End!Done
  <2>2. /\ seg' \in Tasks /\ seg'[s].pc = "lookHidden" /\ seg'[s].name = k
        /\ \A r \in Series : r # s => seg'[r] = seg[r]
    BY <1>1, <1>2, <2>1, SegEffect
  <2>3. k = 0
    BY <1>1, <2>1 DEF DirsTyped
  <2>4. \A m \in End!Names : m < k => End!Exists(dir[m]) \/ End!Exists(published[m])
    BY <2>3, NamesAre
  <2> QED BY <1>2, <2>1, <2>2, <2>4, LookStep
<1>4. ASSUME seg[s].pc \in End!Looking, up = "run", NEW p \in End!Looking, End!Goto(s, p),
             p \in {"lookPublished", "create"} => ~End!Exists(dir[k]),
             UNCHANGED <<endMode, dir, published, up, toRecover>>
      PROVE  CloseInv'
  <2>1. /\ seg' \in Tasks /\ seg'[s].pc = p /\ seg'[s].name = k
        /\ \A r \in Series : r # s => seg'[r] = seg[r]
    BY <1>1, <1>2, <1>4, SegEffect
  <2>2. \A r \in Series : r < s => seg[r].pc \notin {"none"} \cup End!Starting
    BY <1>1, <1>4 DEF InOrder, End!Looking
  <2>3. \A m \in End!Names : m < k => End!Exists(dir[m]) \/ End!Exists(published[m])
    BY <1>1, <1>4 DEF Named
  <2> QED BY <1>2, <1>4, <2>1, <2>2, <2>3, LookStep
<1>5. ASSUME seg[s].pc \in End!Looking, up = "run",
             End!Exists(dir[k]) \/ End!Exists(published[k]), End!NextName(s),
             UNCHANGED <<endMode, dir, published, up, toRecover>>
      PROVE  CloseInv'
  <2>1. k + 1 \in End!Names
    BY <1>5, NamesSuffice
  <2>2. [pc |-> "lookHidden", name |-> k + 1]
           \in [pc : NoPlace \cup Working \cup {"done", "gone"}, name : End!Names]
    BY <1>2, <2>1
  <2>3. seg' = [seg EXCEPT ![s] = [pc |-> "lookHidden", name |-> k + 1]]
    BY <1>5 DEF End!NextName
  <2>4. /\ seg' \in Tasks /\ seg'[s].pc = "lookHidden" /\ seg'[s].name = k + 1
        /\ \A r \in Series : r # s => seg'[r] = seg[r]
    BY <1>1, <2>2, <2>3 DEF DirsTyped, Tasks
  <2>5. \A r \in Series : r < s => seg[r].pc \notin {"none"} \cup End!Starting
    BY <1>1, <1>5 DEF InOrder, End!Looking
  <2>6. \A m \in End!Names : m < k + 1 => End!Exists(dir[m]) \/ End!Exists(published[m])
    <3> SUFFICES ASSUME NEW m \in End!Names, m < k + 1
                 PROVE  End!Exists(dir[m]) \/ End!Exists(published[m])
      OBVIOUS
    <3>1. m < k \/ m = k
      BY <1>2, NamesAre
    <3> QED BY <1>1, <1>5, <3>1 DEF Named
  <2> QED BY <1>2, <1>5, <2>1, <2>4, <2>5, <2>6, LookStep
<1>6. CASE End!LookHidden(s)
  BY <1>2, <1>4, <1>5, <1>6 DEF End!LookHidden, End!At, End!Dir
<1>7. CASE End!LookPublished(s)
  <2>1. ~End!Exists(dir[k])
    BY <1>1, <1>7 DEF Named, End!LookPublished, End!At
  <2> QED BY <1>2, <1>4, <1>5, <1>7, <2>1 DEF End!LookPublished, End!At
<1>8. CASE End!Create(s)
  BY <1>8, CreateStep
<1>9. CASE End!OpenFiles(s)
  <2>1. seg[s].pc = "open" /\ up = "run" /\ seg[s].pc \in Working /\ "active" \in Working \ {"open"}
    BY <1>9 DEF End!OpenFiles, End!At, Working
  <2>2. CASE End!Throw(s)
    BY <2>1, <2>2, ThrowStep
  <2>3. ASSUME NEW task \in {"task", "none"},
               dir' = [dir EXCEPT ![k] =
                 [@ EXCEPT !.frames = "inprogress", !.meta = "open", !.audio = task]],
               End!Done(s, "active")
        PROVE  CloseInv'
    <3> DEFINE d == [dir[k] EXCEPT !.frames = "inprogress", !.meta = "open", !.audio = task]
    <3>1. dir[k] \in Dirs /\ dir[k].seg = s /\ Stage("open", dir[k])
      BY <2>1, AtWork DEF End!Dir
    <3>2. d \in Dirs /\ d.seg = s /\ d.marker = "none" /\ dir' = [dir EXCEPT ![k] = d]
      BY <2>3, <3>1 DEF Dirs, Stage
    <3> HIDE DEF d
    <3>3. Stage("active", d)
      BY <3>2 DEF Stage
    <3> QED BY <2>1, <2>3, <3>2, <3>3, WorkStep DEF End!Done
  <2> QED BY <1>9, <2>2, <2>3 DEF End!OpenFiles
<1> QED
  BY <1>3, <1>6, <1>7, <1>8, <1>9 DEF End!Start

\* It is closed, step by step.
LEMMA CloseStep ==
    ASSUME CloseConstants, CloseInv, NEW s \in Series, End!Close(s)
    PROVE  CloseInv'
<1> DEFINE k == seg[s].name
           Going == (Working \ {"open"}) \cup {"done", "gone"}
<1>1. up = "run" /\ seg[s].pc \in Working
  BY DEF End!Close, End!RequestAudio, End!MergeFrames, End!FinalizeMedia, End!PublishFrames,
       End!AwaitAudio, End!CloseMeta,
         End!WriteMarker, End!PublishDirect, End!RenameSegment, End!At, Working
<1>2. /\ k \in End!Names /\ dir[k] = End!Dir(s) /\ End!Dir(s) \in Dirs /\ End!Dir(s).seg = s
      /\ Stage(seg[s].pc, End!Dir(s)) /\ (End!Dir(s).marker # "none" => End!Whole(End!Dir(s)))
  BY <1>1, AtWork DEF End!Dir
<1>3. CASE End!Throw(s)
  BY <1>1, <1>3, ThrowStep
<1>4. ASSUME NEW pc \in Going, End!Goto(s, pc), UNCHANGED <<endMode, dir, published, up, toRecover>>,
             pc \in Working => Stage(pc, End!Dir(s))
      PROVE  CloseInv'
  BY <1>1, <1>4, SameDir
<1>5. ASSUME NEW d \in Dirs, d.seg = s, dir' = [dir EXCEPT ![k] = d],
             NEW pc \in Going, End!Goto(s, pc), UNCHANGED <<endMode, published, up, toRecover>>,
             pc \in Working => Stage(pc, d), d.marker # "none" => End!Whole(d)
      PROVE  CloseInv'
  BY <1>1, <1>5, WorkStep
<1> HIDE DEF k
<1>6. {"merge", "media", "frames", "audio", "meta", "marker", "publish", "rename", "done", "gone"}
         \subseteq Going
  BY DEF Working
<1>7. "gone" \notin Working /\ "done" \notin Working
  BY DEF Working
<1> HIDE DEF Going
<1>8. CASE End!RequestAudio(s)
  <2>1. /\ seg[s].pc = "active" /\ End!Goto(s, "merge") /\ UNCHANGED <<endMode, published, up, toRecover>>
        /\ dir' = dir \/ dir' = [dir EXCEPT ![k].audio = "asked"]
    BY <1>8 DEF End!RequestAudio, End!At, End!Done, End!Put, k
  <2>2. CASE dir' = dir
    BY <1>2, <1>4, <1>6, <2>1, <2>2 DEF Stage
  <2>3. CASE dir' = [dir EXCEPT ![k].audio = "asked"]
    <3> DEFINE d == [End!Dir(s) EXCEPT !.audio = "asked"]
    <3>1. d \in Dirs /\ d.seg = s /\ d.marker = "none" /\ dir' = [dir EXCEPT ![k] = d]
      BY <1>2, <2>1, <2>3 DEF Dirs, Stage
    <3> HIDE DEF d
    <3>2. Stage("merge", d)
      BY <3>1 DEF Stage
    <3> QED BY <1>5, <1>6, <2>1, <3>1, <3>2
  <2> QED BY <2>1, <2>2, <2>3
<1>9. CASE End!MergeFrames(s)
  <2>1. seg[s].pc = "merge"
    BY <1>9 DEF End!MergeFrames, End!At
  <2>2. CASE End!Put(s, "frames", "finalizing") /\ End!Done(s, "media")
    <3> DEFINE d == [End!Dir(s) EXCEPT !.frames = "finalizing"]
    <3>1. d \in Dirs /\ d.seg = s /\ d.marker = "none" /\ dir' = [dir EXCEPT ![k] = d]
      BY <1>2, <2>1, <2>2 DEF Dirs, Stage, End!Put, k
    <3> HIDE DEF d
    <3>2. Stage("media", d)
      BY <3>1 DEF Stage
    <3> QED BY <1>5, <1>6, <2>2, <3>1, <3>2 DEF End!Done
  <2>3. CASE End!Goto(s, "media") /\ UNCHANGED <<endMode, dir, published, up, toRecover>>
    BY <1>2, <1>4, <1>6, <2>1, <2>3 DEF Stage
  <2> QED BY <1>9, <2>2, <2>3 DEF End!MergeFrames
<1>10. CASE End!FinalizeMedia(s)
  <2>1. seg[s].pc = "media"
    BY <1>10 DEF End!FinalizeMedia, End!At
  <2>2. CASE End!Put(s, "media", "final") /\ End!Done(s, "frames")
    <3> DEFINE d == [End!Dir(s) EXCEPT !.media = "final"]
    <3>1. /\ d \in Dirs /\ d.seg = s /\ d.marker = "none" /\ d.media = "final"
          /\ dir' = [dir EXCEPT ![k] = d]
      BY <1>2, <2>1, <2>2 DEF Dirs, Stage, End!Put, k
    <3> HIDE DEF d
    <3>2. Stage("frames", d)
      BY <3>1 DEF Stage
    <3> QED BY <1>5, <1>6, <2>2, <3>1, <3>2 DEF End!Done
  <2> QED BY <1>3, <1>10, <2>2 DEF End!FinalizeMedia
<1>11. CASE End!PublishFrames(s)
  <2>1. seg[s].pc = "frames"
    BY <1>11 DEF End!PublishFrames, End!At
  <2>2. CASE End!Put(s, "frames", "published") /\ End!Done(s, "audio")
    <3> DEFINE d == [End!Dir(s) EXCEPT !.frames = "published"]
    <3>1. /\ d \in Dirs /\ d.seg = s /\ d.marker = "none" /\ d.media = "final"
          /\ d.frames = "published" /\ dir' = [dir EXCEPT ![k] = d]
      BY <1>2, <2>1, <2>2 DEF Dirs, Stage, End!Put, k
    <3> HIDE DEF d
    <3>2. Stage("audio", d)
      BY <3>1 DEF Stage
    <3> QED BY <1>5, <1>6, <2>2, <3>1, <3>2 DEF End!Done
  <2>3. CASE End!Goto(s, "gone") /\ UNCHANGED <<endMode, dir, published, up, toRecover>>
    BY <1>4, <1>6, <1>7, <2>3
  <2> QED BY <1>3, <1>11, <2>2, <2>3 DEF End!PublishFrames
<1>12. CASE End!AwaitAudio(s)
  <2>1. /\ seg[s].pc = "audio" /\ End!Goto(s, "meta")
        /\ UNCHANGED <<endMode, published, up, toRecover>>
    BY <1>12 DEF End!AwaitAudio, End!At, End!Done
  <2>2. CASE (TaskAudio => End!Dir(s).audio \in {"ready", "noInput"}) /\ UNCHANGED dir
    <3>1. Stage("meta", End!Dir(s))
      BY <1>2, <2>1, <2>2 DEF Stage, AudioSettled
    <3> QED BY <1>4, <1>6, <2>1, <2>2, <3>1
  <2>3. CASE End!Put(s, "audio", "noInput") \/ End!Put(s, "warned", TRUE)
    <3>1. PICK d \in {[End!Dir(s) EXCEPT !.audio = "noInput"], [End!Dir(s) EXCEPT !.warned = TRUE]} :
             dir' = [dir EXCEPT ![k] = d]
      BY <1>2, <2>3 DEF End!Put, k
    <3>2. /\ d \in Dirs /\ d.seg = s /\ d.marker = "none" /\ d.media = "final"
          /\ d.frames = "published" /\ AudioSettled(d)
      BY <1>2, <2>1 DEF Dirs, Stage, AudioSettled
    <3>3. Stage("meta", d)
      BY <3>2 DEF Stage
    <3> QED BY <1>5, <1>6, <2>1, <3>1, <3>2, <3>3
  <2> QED BY <1>12, <2>2, <2>3 DEF End!AwaitAudio, End!Done
<1>13. CASE End!CloseMeta(s)
  <2>1. seg[s].pc = "meta"
    BY <1>13 DEF End!CloseMeta, End!At
  <2>2. CASE End!Put(s, "meta", "closed") /\ End!Done(s, "marker")
    <3> DEFINE d == [End!Dir(s) EXCEPT !.meta = "closed"]
    <3>1. /\ d \in Dirs /\ d.seg = s /\ d.marker = "none" /\ d.media = "final"
          /\ d.frames = "published" /\ AudioSettled(d) /\ d.meta = "closed"
          /\ dir' = [dir EXCEPT ![k] = d]
      BY <1>2, <2>1, <2>2 DEF Dirs, Stage, AudioSettled, End!Put, k
    <3> HIDE DEF d
    <3>2. Stage("marker", d)
      BY <3>1 DEF Stage
    <3> QED BY <1>5, <1>6, <2>2, <3>1, <3>2 DEF End!Done
  <2> QED BY <1>3, <1>13, <2>2 DEF End!CloseMeta
<1>14. CASE End!WriteMarker(s)
  <2>1. seg[s].pc = "marker"
    BY <1>14 DEF End!WriteMarker, End!At
  <2>2. ASSUME NEW mark \in {"staged", "ready"}, End!Put(s, "marker", mark),
               NEW pc \in {"publish", "done"}, End!Done(s, pc), pc = "publish" => mark = "ready"
        PROVE  CloseInv'
    <3> DEFINE d == [End!Dir(s) EXCEPT !.marker = mark]
    <3>1. /\ d \in Dirs /\ d.seg = s /\ d.marker = mark /\ d.media = "final"
          /\ d.frames = "published" /\ AudioSettled(d) /\ d.meta = "closed"
          /\ dir' = [dir EXCEPT ![k] = d]
      BY <1>2, <2>1, <2>2 DEF Dirs, Stage, AudioSettled, End!Put, k
    <3> HIDE DEF d
    <3>2. End!Whole(d)
      BY <3>1 DEF AudioSettled, End!Whole
    <3>3. pc = "publish" => Stage("publish", d)
      BY <1>2, <2>1, <2>2, <3>1 DEF Stage
    <3> QED BY <1>5, <1>6, <1>7, <2>2, <3>1, <3>2, <3>3 DEF End!Done
  <2>3. CASE /\ End!Put(s, "marker", IF endMode = "staged" THEN "staged" ELSE "ready")
             /\ End!Done(s, IF endMode = "direct" THEN "publish" ELSE "done")
    <3>1. PICK mark : mark = IF endMode = "staged" THEN "staged" ELSE "ready"
      OBVIOUS
    <3>2. PICK pc : pc = IF endMode = "direct" THEN "publish" ELSE "done"
      OBVIOUS
    <3>3. /\ mark \in {"staged", "ready"} /\ pc \in {"publish", "done"}
          /\ pc = "publish" => mark = "ready"
      BY <3>1, <3>2
    <3>4. End!Put(s, "marker", mark) /\ End!Done(s, pc)
      BY <2>3, <3>1, <3>2
    <3> QED BY <2>2, <3>3, <3>4
  <2> QED BY <1>3, <1>14, <2>3 DEF End!WriteMarker
<1>15. CASE End!PublishDirect(s)
  <2>1. seg[s].pc = "publish"
    BY <1>15 DEF End!PublishDirect, End!At
  <2>2. CASE End!Done(s, "gone") /\ UNCHANGED dir
    BY <1>4, <1>6, <1>7, <2>2 DEF End!Done
  <2>3. CASE End!Done(s, "rename") /\ UNCHANGED dir
    <3>1. Stage("rename", End!Dir(s))
      BY <1>2, <2>1 DEF Stage
    <3> QED BY <1>4, <1>6, <2>3, <3>1 DEF End!Done
  <2> QED BY <1>3, <1>15, <2>2, <2>3 DEF End!PublishDirect
<1>16. CASE End!RenameSegment(s)
  <2>1. seg[s].pc = "rename"
    BY <1>16 DEF End!RenameSegment, End!At
  <2>2. CASE /\ End!Moved(k) /\ End!Goto(s, "done")
             /\ UNCHANGED <<endMode, service, up, toRecover, crashes, endFaults>>
    <3>1. DirsTyped
      BY DEF CloseInv
    <3>2. End!Exists(dir[k]) /\ dir[k].marker = "ready"
      BY <1>2, <2>1, <3>1, Everywhere DEF Stage
    <3>3. toRecover = {}
      BY <1>1, <3>1 DEF DirsTyped
    <3>4. /\ seg' \in Tasks /\ seg'[s].pc = "done" /\ seg'[s].name = seg[s].name
          /\ \A r \in Series : r # s => seg'[r] = seg[r]
      BY <2>2, <3>1, SegEffect
    <3>5. ASSUME NEW r \in Series
          PROVE  /\ seg'[r].name = seg[r].name
                 /\ \/ seg'[r].pc = seg[r].pc
                    \/ seg[r].pc \in Working /\ seg'[r].pc \in {"done", "gone"}
                 /\ seg'[r].pc \in Working => dir[k].seg # r
      BY <1>1, <1>2, <1>7, <3>4
    <3> QED BY <1>2, <2>2, <3>2, <3>3, <3>4, <3>5, MoveStep
  <2> QED BY <1>3, <1>16, <2>2 DEF End!RenameSegment, k
<1> QED
  BY <1>8, <1>9, <1>10, <1>11, <1>12, <1>13, <1>14, <1>15, <1>16 DEF End!Close

\* A recovery publishes a segment that is ready, or leaves it.
LEMMA RecoverStep ==
    ASSUME CloseConstants, CloseInv, NEW n \in End!Names, End!Recover(n)
    PROVE  CloseInv'
<1>1. DirsTyped /\ Kept
  BY DEF CloseInv
<1>2. /\ up = "recover" /\ n \in toRecover /\ toRecover' = toRecover \ {n}
      /\ UNCHANGED <<endMode, seg, up>>
  BY DEF End!Recover
<1>3. CASE End!Moved(n)
  <2>1. End!Exists(dir[n]) /\ dir[n].marker = "ready"
    BY <1>1, <1>2 DEF Kept
  <2>2. \A r \in Series : seg[r].pc \notin Working
    BY <1>1, <1>2 DEF DirsTyped
  <2> QED BY <1>1, <1>2, <1>3, <2>1, <2>2, MoveStep DEF DirsTyped
<1>4. CASE UNCHANGED <<dir, published>>
  BY <1>1, <1>2, <1>4, DirsAside DEF DirsTyped
<1> QED
  BY <1>3, <1>4 DEF End!Recover

-----------------------------------------------------------------------------
\* The invariant holds at first, and every step keeps it.
LEMMA InitClose == ASSUME CloseConstants, End!Init PROVE CloseInv
<1>1. ~End!Exists(End!Absent) /\ End!Absent.seg = 0 /\ 0 \notin Series
  BY DEF End!Exists, End!Absent, CloseConstants
<1>2. /\ dir = [n \in End!Names |-> End!Absent] /\ published = [n \in End!Names |-> End!Absent]
      /\ seg = [s \in Series |-> [pc |-> "none", name |-> 0]]
      /\ up = "run" /\ toRecover = {} /\ endMode \in {"direct", "staged", "local"}
  BY DEF End!Init
<1>3. "none" \in NoPlace /\ "none" \notin Working \cup End!Looking \cup {"done", "gone"}
  BY DEF NoPlace, Working, End!Looking
<1>4. seg \in Tasks
  BY <1>2, <1>3, NamesAre DEF Tasks
<1>5. DirsTyped
  BY <1>2, <1>4 DEF DirsTyped
<1>6. InOrder /\ Single /\ Kept
  BY <1>1, <1>2 DEF InOrder, Single, Kept
<1>7. Placed /\ Stages
  BY <1>1, <1>2, <1>3 DEF Placed, Stages
<1>8. Named
  BY <1>2, <1>3 DEF Named
<1> QED
  BY <1>5, <1>6, <1>7, <1>8 DEF CloseInv

LEMMA StepClose == ASSUME CloseConstants, CloseInv, [End!Next]_End!vars PROVE CloseInv'
<1>1. ASSUME NEW s \in Series, End!Start(s) \/ End!Close(s) PROVE CloseInv'
  BY <1>1, StartStep, CloseStep
<1>2. ASSUME NEW n \in End!Names, End!SealAudio(n) \/ End!AudioReady(n)
                 \/ End!Recover(n) PROVE CloseInv'
  <2>1. CASE End!SealAudio(n)
    <3>1. DirsTyped /\ UNCHANGED <<endMode, dir, published, seg, up, toRecover>>
      BY <2>1 DEF End!SealAudio, CloseInv
    <3> QED BY <3>1, DirsAside DEF DirsTyped
  <2> QED BY <1>2, <2>1, AudioStep, RecoverStep
<1>3. CASE End!Crash \/ End!Restart
  BY <1>3, CrashStep, RestartStep
<1>4. CASE End!RecoveryEnds
  <2>1. DirsTyped /\ toRecover = {} /\ UNCHANGED <<endMode, dir, published, seg, toRecover>> /\ up' = "run"
    BY <1>4 DEF End!RecoveryEnds, CloseInv
  <2> QED BY <2>1, DirsAside DEF DirsTyped
<1>5. CASE UNCHANGED End!vars
  <2>1. DirsTyped /\ UNCHANGED <<endMode, dir, published, seg, up, toRecover>>
    BY <1>5 DEF End!vars, CloseInv
  <2> QED BY <2>1, DirsAside DEF DirsTyped
<1> QED
  BY <1>1, <1>2, <1>3, <1>4, <1>5 DEF End!Next

LEMMA InvKept == ASSUME CloseConstants, CloseInv PROVE End!SegmentsKeptWhole
<1>1. DirsTyped /\ Single /\ Placed /\ Kept
  BY DEF CloseInv
<1>2. ASSUME NEW s \in Series
      PROVE  Cardinality(End!Places(s)) = IF seg[s].pc \in NoPlace THEN 0 ELSE 1
  <2>1. \A p \in End!Places(s) :
           /\ p \in {"hidden", "published"} \X End!Names
           /\ p[1] = "hidden" => dir[p[2]].seg = s
           /\ p[1] = "published" => published[p[2]].seg = s
    BY DEF End!Places
  <2>2. \A n \in End!Names : dir[n].seg = s => <<"hidden", n>> \in End!Places(s)
    BY DEF End!Places
  <2>3. \A n \in End!Names : published[n].seg = s => <<"published", n>> \in End!Places(s)
    BY DEF End!Places
  <2>4. \A p, q \in End!Places(s) : p = q
    <3> SUFFICES ASSUME NEW p \in End!Places(s), NEW q \in End!Places(s) PROVE p = q
      OBVIOUS
    <3>1. /\ p = <<p[1], p[2]>> /\ p[1] \in {"hidden", "published"} /\ p[2] \in End!Names
          /\ q = <<q[1], q[2]>> /\ q[1] \in {"hidden", "published"} /\ q[2] \in End!Names
      BY <2>1
    <3>2. p[1] = q[1] /\ p[2] = q[2]
      BY <1>1, <2>1, <3>1, Everywhere DEF Single
    <3> QED BY <3>1, <3>2
  <2>5. Cardinality(End!Places(s)) = IF End!Places(s) = {} THEN 0 ELSE 1
    BY <2>4, AtMostOne
  <2>6. CASE seg[s].pc \in NoPlace
    <3>1. End!Places(s) = {}
      BY <1>1, <2>1, <2>6 DEF Placed
    <3> QED BY <2>5, <2>6, <3>1
  <2>7. CASE seg[s].pc \notin NoPlace
    <3>1. seg[s].name \in End!Names /\ seg[s].pc \in Working \cup {"done", "gone"}
      BY <1>1, <2>7 DEF DirsTyped, Tasks
    <3>2. \E n \in End!Names : dir[n].seg = s \/ published[n].seg = s
      BY <1>1, <3>1 DEF Placed
    <3> QED BY <2>2, <2>3, <2>5, <2>7, <3>2
  <2> QED BY <2>6, <2>7
<1> QED
  BY <1>1, <1>2, SameCardinality DEF End!SegmentsKeptWhole, Kept, NoPlace

\* Whatever crashes, fails or gets the same name, a segment that got a directory
\* has exactly one, hidden or published; and a directory with a marker, so every
\* published one, has its frame index, sealed media and closed meta data, and an
\* audio marker unless the wait for its audio threw.
THEOREM KeptWhole == ASSUME CloseConstants PROVE End!Spec => []SegmentsKeptWhole
<1>1. End!Init => CloseInv
  BY InitClose
<1>2. CloseInv /\ [End!Next]_End!vars => CloseInv'
  BY StepClose
<1>3. CloseInv => End!SegmentsKeptWhole
  BY InvKept
<1> QED
  BY <1>1, <1>2, <1>3, PTL DEF End!Spec, SegmentsKeptWhole

-----------------------------------------------------------------------------
(***************************************************************************)
(* How a recording is cut into segments (SegmentTimeline).                    *)
(***************************************************************************)

TimelineConstants == WindowStart \in Nat /\ SegmentSeconds \in Nat

FrameSet == [n : Nat, stream : Timeline!Streams, stamp : Nat, idr : BOOLEAN, profile : {1, 2},
             deferred : BOOLEAN, replayed : BOOLEAN]
SliceSet == [index : Nat, start : Nat, end : Nat]
SegmentSet == [slice : SliceSet, profile : [Timeline!Streams -> Nat], frames : Seq(FrameSet),
               cause : {"slice", "profile"}]

-----------------------------------------------------------------------------
\* The inductive invariant

\* A slice of a recording with a window is no earlier than the window.
SliceRight(slice) ==
    IF WindowStart = 0 \/ SegmentSeconds = 0 THEN slice.end = 0
    ELSE slice.start >= WindowStart /\ slice.end = slice.start + SegmentSeconds

Recorded(n) ==
    \E i \in 1..Len(cut) : \E k \in 1..Len(cut[i].frames) : cut[i].frames[k].n = n
HeldBack(n) == \E k \in 1..Len(heldBack) : heldBack[k].n = n

RecordedOnce ==
    \A i, j \in 1..Len(cut) :
        \A k \in 1..Len(cut[i].frames), l \in 1..Len(cut[j].frames) :
            cut[i].frames[k].n = cut[j].frames[l].n => i = j /\ k = l

\* What the segments are.
SegmentsRight ==
    /\ cut \in Seq(SegmentSet)
    /\ \A i \in 1..Len(cut) :
          cut[i].frames # <<>> /\ SliceRight(cut[i].slice)
    /\ recording \in BOOLEAN /\ (recording => cut # <<>>)
    /\ expectsRgb \in BOOLEAN
    /\ RecordedOnce /\ Timeline!OneProfile /\ Timeline!BeginsSlice /\ Timeline!InItsSlice

\* What is held back is depth, each packet once.
HeldRight ==
    /\ heldBack \in Seq(FrameSet)
    /\ \A k \in 1..Len(heldBack) : heldBack[k].stream = "depth" /\ ~heldBack[k].idr
           /\ ~heldBack[k].replayed
    /\ \A k, l \in 1..Len(heldBack) : heldBack[k].n = heldBack[l].n => k = l

\* Each packet so far is at one place.
Numbered ==
    /\ numbered \in Nat
    /\ dropped \subseteq 1..numbered
    /\ \A n \in 1..numbered : n \in dropped \/ Recorded(n) \/ HeldBack(n)
    /\ \A n : Recorded(n) => n \in 1..numbered /\ n \notin dropped /\ ~HeldBack(n)
    /\ \A n : HeldBack(n) => n \in 1..numbered /\ n \notin dropped

TimelineInv ==
    /\ SegmentsRight /\ HeldRight /\ Numbered
    /\ latest \in [Timeline!Streams -> [stamp : Nat, profile : {1, 2}]]

-----------------------------------------------------------------------------
LEMMA SliceOf ==
    ASSUME TimelineConstants, NEW stamp \in Nat
    PROVE  /\ Timeline!Slice(stamp) \in SliceSet /\ SliceRight(Timeline!Slice(stamp))
           /\ Timeline!Slice(stamp).end # 0 => stamp < Timeline!Slice(stamp).end
           /\ stamp >= WindowStart \/ SegmentSeconds = 0 => Timeline!Slice(stamp).start <= stamp
<1>1. WindowStart \in Nat /\ SegmentSeconds \in Nat
  BY DEF TimelineConstants
<1>2. CASE WindowStart = 0 \/ SegmentSeconds = 0
  <2>1. Timeline!Slice(stamp) = [index |-> 0, start |-> stamp, end |-> 0]
    BY <1>2 DEF Timeline!Slice
  <2> QED BY <1>2, <2>1 DEF SliceSet, SliceRight
<1>3. CASE ~(WindowStart = 0 \/ SegmentSeconds = 0)
  <2> DEFINE index == IF stamp > WindowStart
                      THEN (stamp - WindowStart) \div SegmentSeconds ELSE 0
             start == WindowStart + index * SegmentSeconds
  <2>1. Timeline!Slice(stamp) = [index |-> index, start |-> start, end |-> start + SegmentSeconds]
    BY <1>3 DEF Timeline!Slice
  <2>2. /\ index \in Nat /\ start \in Nat /\ start >= WindowStart
        /\ stamp < start + SegmentSeconds
        /\ stamp >= WindowStart => start <= stamp
    <3>1. CASE stamp > WindowStart
      <4>1. PICK a \in Nat : a = stamp - WindowStart
        BY <1>1, <3>1
      <4>2. PICK q \in Nat : q = a \div SegmentSeconds
        BY <1>1, <1>3, <4>1
      <4>3. q * SegmentSeconds <= a /\ a < q * SegmentSeconds + SegmentSeconds
        BY <1>1, <1>3, <4>1, <4>2
      <4>4. PICK m \in Nat : m = q * SegmentSeconds
        BY <1>1, <4>2
      <4>5. index = q /\ start = WindowStart + m
        BY <3>1, <4>1, <4>2, <4>4
      <4> HIDE DEF index, start
      <4> QED BY <1>1, <4>1, <4>2, <4>3, <4>4, <4>5
    <3>2. CASE ~(stamp > WindowStart)
      <4>1. index = 0 /\ start = WindowStart
        BY <1>1, <3>2
      <4> HIDE DEF index, start
      <4> QED BY <1>1, <1>3, <3>2, <4>1
    <3> QED BY <3>1, <3>2
  <2> HIDE DEF index, start
  <2>3. Timeline!Slice(stamp) \in SliceSet
    BY <1>1, <2>1, <2>2 DEF SliceSet
  <2> QED BY <1>1, <1>3, <2>1, <2>2, <2>3 DEF SliceRight
<1> QED BY <1>2, <1>3

\* A packet that may be written: a new number; an IDR is RGB; what starts a recording
\* is an IDR of its window; what is replayed is depth of the current slice.
Recordable(p) ==
    /\ p \in FrameSet
    /\ ~Recorded(p.n)
    /\ p.idr => p.stream = "rgb"
    /\ ~recording /\ expectsRgb => p.idr /\ p.stamp >= WindowStart
    /\ p.replayed =>
          /\ recording /\ p.stream = "depth"
          /\ Timeline!InSlice(p, Timeline!Current.slice)

LEMMA CurrentSegment ==
    ASSUME SegmentsRight, recording
    PROVE  /\ Len(cut) \in Nat /\ Len(cut) > 0 /\ Len(cut) \in 1..Len(cut)
           /\ Timeline!Current = cut[Len(cut)] /\ Timeline!Current \in SegmentSet
           /\ SliceRight(Timeline!Current.slice)
<1>1. cut \in Seq(SegmentSet) /\ cut # <<>> /\ Len(cut) \in Nat
  BY LenProperties DEF SegmentsRight
<1>2. Len(cut) > 0 /\ Len(cut) \in 1..Len(cut)
  BY <1>1, EmptySeq
<1>3. Timeline!Current = cut[Len(cut)] /\ Timeline!Current \in SegmentSet
  BY <1>1, <1>2, ElementOfSeq DEF Timeline!Current, Timeline!Last
<1> QED BY <1>1, <1>2, <1>3 DEF SegmentsRight

\* A new segment with the packet.
LEMMA BeginSegment ==
    ASSUME TimelineConstants, SegmentsRight, NEW p, Recordable(p), NEW frame \in FrameSet,
           frame = [p EXCEPT !.deferred = FALSE] \/ frame = p,
           NEW new, NEW cause \in {"slice", "profile"},
           new \in SegmentSet, new.slice = Timeline!Slice(p.stamp), new.cause = cause,
           new.frames = <<frame>>, new.profile[p.stream] = p.profile,
           cut' = Append(cut, new), recording' = TRUE, expectsRgb' = expectsRgb,
           cause = "slice" /\ expectsRgb => p.idr /\ p.stamp >= WindowStart
    PROVE  SegmentsRight' /\ (\A n : Recorded(n)' <=> Recorded(n) \/ n = p.n)
<1>1. /\ p \in FrameSet /\ p.stamp \in Nat /\ p.stream \in Timeline!Streams /\ p.profile \in {1, 2}
      /\ frame.n = p.n /\ frame.stream = p.stream /\ frame.stamp = p.stamp /\ frame.idr = p.idr
      /\ frame.profile = p.profile /\ frame.replayed = p.replayed
  BY DEF Recordable, FrameSet
<1>2. /\ Timeline!Slice(p.stamp) \in SliceSet /\ SliceRight(Timeline!Slice(p.stamp))
      /\ Timeline!Slice(p.stamp).end # 0 => p.stamp < Timeline!Slice(p.stamp).end
      /\ p.stamp >= WindowStart \/ SegmentSeconds = 0 => Timeline!Slice(p.stamp).start <= p.stamp
  BY <1>1, SliceOf
<1>6. Len(new.frames) = 1 /\ new.frames[1] = frame /\ new.frames # <<>> /\ Head(new.frames) = frame
  OBVIOUS
<1>8. cut \in Seq(SegmentSet) /\ Len(cut) \in Nat
  BY LenProperties DEF SegmentsRight
<1>9. /\ cut' \in Seq(SegmentSet) /\ Len(cut') = Len(cut) + 1
      /\ cut'[Len(cut) + 1] = new
      /\ \A i \in 1..Len(cut) : cut'[i] = cut[i]
  BY <1>8, AppendProperties
<1>10. DOMAIN cut = 1..Len(cut) /\ DOMAIN cut' = 1..Len(cut')
       /\ DOMAIN new.frames = {1}
  BY <1>6, <1>8, <1>9, LenProperties
<1>11. \A i \in 1..Len(cut') : (i \in 1..Len(cut) /\ cut'[i] = cut[i])
                                    \/ (i = Len(cut) + 1 /\ cut'[i] = new)
  BY <1>8, <1>9
<1>12. \A i \in 1..Len(cut) : i \in 1..Len(cut')
  BY <1>8, <1>9
<1>13. cut' # <<>> /\ Len(cut) + 1 \in 1..Len(cut')
  BY <1>8, <1>9, EmptySeq
\* The new segment has one frame.
<1>7. ASSUME NEW i \in 1..Len(cut'), cut'[i] = new, NEW k \in 1..Len(cut'[i].frames)
      PROVE  k = 1 /\ cut'[i].frames[k] = frame
  <2>1. k \in 1..1
    BY <1>6, <1>7
  <2>2. k = 1
    BY <2>1
  <2> QED BY <1>6, <1>7, <2>2
<1>14. \A n : Recorded(n)' <=> Recorded(n) \/ n = p.n
  <2> TAKE n
  <2>1. ASSUME Recorded(n) PROVE Recorded(n)'
    <3>1. PICK i \in 1..Len(cut) : \E k \in 1..Len(cut[i].frames) : cut[i].frames[k].n = n
      BY <2>1 DEF Recorded
    <3>2. i \in 1..Len(cut') /\ cut'[i] = cut[i]
      BY <1>9, <1>12
    <3> QED BY <3>1, <3>2 DEF Recorded
  <2>2. ASSUME n = p.n PROVE Recorded(n)'
    BY SMTT(30), <1>1, <1>6, <1>9, <1>13, <2>2 DEF Recorded
  <2>3. ASSUME Recorded(n)' PROVE Recorded(n) \/ n = p.n
    <3>1. PICK i \in 1..Len(cut') :
            \E k \in 1..Len(cut'[i].frames) : cut'[i].frames[k].n = n
      BY <2>3 DEF Recorded
    <3>2. CASE i \in 1..Len(cut) /\ cut'[i] = cut[i]
      BY <3>1, <3>2 DEF Recorded
    <3>3. CASE cut'[i] = new
      BY <1>1, <1>7, <3>1, <3>3
    <3> QED BY <1>11, <3>2, <3>3
  <2> QED BY <2>1, <2>2, <2>3
<1>15. RecordedOnce'
  <2> SUFFICES ASSUME NEW i \in 1..Len(cut'), NEW j \in 1..Len(cut'),
                      NEW k \in 1..Len(cut'[i].frames), NEW l \in 1..Len(cut'[j].frames),
                      cut'[i].frames[k].n = cut'[j].frames[l].n
               PROVE  i = j /\ k = l
    BY DEF RecordedOnce
  <2>1. CASE cut'[i] = new /\ cut'[j] = new /\ i = j
    BY <1>7, <2>1
  <2>2. CASE i \in 1..Len(cut) /\ cut'[i] = cut[i] /\ cut'[j] = new
    <3>1. Recorded(p.n)
      BY <1>1, <1>7, <2>2 DEF Recorded
    <3> QED BY <3>1 DEF Recordable
  <2>3. CASE j \in 1..Len(cut) /\ cut'[j] = cut[j] /\ cut'[i] = new
    <3>1. Recorded(p.n)
      BY <1>1, <1>7, <2>3 DEF Recorded
    <3> QED BY <3>1 DEF Recordable
  <2>4. CASE /\ i \in 1..Len(cut) /\ cut'[i] = cut[i]
             /\ j \in 1..Len(cut) /\ cut'[j] = cut[j]
    BY <2>4 DEF SegmentsRight, RecordedOnce
  <2> QED BY <1>11, <2>1, <2>2, <2>3, <2>4
<1>16. Timeline!OneProfile' /\ Timeline!BeginsSlice' /\ Timeline!InItsSlice'
  <2>1. ASSUME NEW i \in DOMAIN cut'
        PROVE  /\ \A k \in DOMAIN cut'[i].frames :
                     cut'[i].frames[k].profile = cut'[i].profile[cut'[i].frames[k].stream]
               /\ cut'[i].cause = "slice" /\ expectsRgb =>
                     /\ Head(cut'[i].frames).idr
                     /\ Timeline!InSlice(Head(cut'[i].frames), cut'[i].slice)
               /\ \A k \in DOMAIN cut'[i].frames :
                     LET f == cut'[i].frames[k]
                     IN  /\ f.idr /\ cut'[i].slice.end # 0
                              => f.deferred \/ f.stamp < cut'[i].slice.end
                         /\ f.replayed => Timeline!InSlice(f, cut'[i].slice)
    <3>1. CASE i \in 1..Len(cut) /\ cut'[i] = cut[i]
      BY <1>10, <3>1 DEF SegmentsRight, Timeline!OneProfile, Timeline!BeginsSlice,
           Timeline!InItsSlice
    <3>2. CASE cut'[i] = new
      <4>1. new.cause = "slice" /\ expectsRgb => frame.idr /\ Timeline!InSlice(frame, new.slice)
        BY <1>1, <1>2 DEF Timeline!InSlice
      <4>2. new.slice.end # 0 => frame.stamp < new.slice.end
        BY <1>1, <1>2
      <4>3. frame.replayed => Timeline!InSlice(frame, new.slice)
        <5> SUFFICES ASSUME p.replayed PROVE Timeline!InSlice(frame, new.slice)
          BY <1>1
        <5>1. recording /\ Timeline!Current.slice.start <= p.stamp /\ SliceRight(Timeline!Current.slice)
              /\ Timeline!Current \in SegmentSet
          BY CurrentSegment DEF Recordable, Timeline!InSlice
        <5>2. Timeline!Current.slice.start \in Nat /\ WindowStart \in Nat
          BY <5>1 DEF SegmentSet, SliceSet, TimelineConstants
        <5>3. p.stamp >= WindowStart \/ SegmentSeconds = 0
          BY <1>1, <5>1, <5>2 DEF SliceRight
        <5> QED BY <1>1, <1>2, <5>3 DEF Timeline!InSlice
      <4>4. i \in 1..Len(cut') /\ DOMAIN cut'[i].frames = 1..Len(cut'[i].frames)
        BY <1>6, <1>10, <3>2
      <4>5. \A k \in DOMAIN cut'[i].frames : cut'[i].frames[k] = frame
        BY <1>7, <3>2, <4>4
      <4>6. frame.profile = new.profile[frame.stream]
        BY <1>1
      <4>7. Head(cut'[i].frames) = frame
        BY <1>6, <3>2
      <4> QED BY <3>2, <4>1, <4>2, <4>3, <4>5, <4>6, <4>7
    <3> QED BY <1>10, <1>11, <3>1, <3>2
  <2> QED BY <2>1 DEF Timeline!OneProfile, Timeline!BeginsSlice, Timeline!InItsSlice
<1>17. \A i \in 1..Len(cut') : cut'[i].frames # <<>> /\ SliceRight(cut'[i].slice)
  BY <1>2, <1>6, <1>11 DEF SegmentsRight
<1>18. SegmentsRight'
  BY <1>9, <1>13, <1>15, <1>16, <1>17 DEF SegmentsRight, SliceRight
<1> QED BY <1>14, <1>18

\* The packet at the end of the current segment.
LEMMA ContinueSegment ==
    ASSUME TimelineConstants, SegmentsRight, NEW p, Recordable(p), NEW frame \in FrameSet,
           NEW deferred \in BOOLEAN, frame = [p EXCEPT !.deferred = deferred],
           recording, ~Timeline!ProfileChanged(p), Timeline!StartsSlice(p) => deferred,
           NEW new \in SegmentSet, new.slice = Timeline!Current.slice,
           new.cause = Timeline!Current.cause,
           new.frames = Append(Timeline!Current.frames, frame),
           new.profile[p.stream] = p.profile,
           \A t \in Timeline!Streams : t # p.stream => new.profile[t] = Timeline!Current.profile[t],
           cut' = [cut EXCEPT ![Len(cut)] = new], recording' = TRUE, expectsRgb' = expectsRgb
    PROVE  SegmentsRight' /\ (\A n : Recorded(n)' <=> Recorded(n) \/ n = p.n)
<1> DEFINE L == Len(cut)
           old == cut[L]
<1>1. /\ p \in FrameSet /\ p.stamp \in Nat /\ p.stream \in Timeline!Streams /\ p.profile \in {1, 2}
      /\ frame.n = p.n /\ frame.stream = p.stream /\ frame.stamp = p.stamp /\ frame.idr = p.idr
      /\ frame.profile = p.profile /\ frame.replayed = p.replayed /\ frame.deferred = deferred
  BY DEF Recordable, FrameSet
<1>2. /\ L \in Nat /\ L > 0 /\ L \in 1..L /\ Timeline!Current = old /\ old \in SegmentSet
      /\ SliceRight(old.slice) /\ old.slice \in SliceSet
      /\ cut \in Seq(SegmentSet) /\ old.frames # <<>>
  BY CurrentSegment DEF SegmentsRight, SegmentSet
<1>3. old.frames \in Seq(FrameSet) /\ Len(old.frames) \in Nat /\ Len(old.frames) > 0
  BY <1>2, LenProperties, EmptySeq DEF SegmentSet
<1>4. /\ new.frames \in Seq(FrameSet) /\ Len(new.frames) = Len(old.frames) + 1
      /\ new.frames[Len(old.frames) + 1] = frame
      /\ \A k \in 1..Len(old.frames) : new.frames[k] = old.frames[k]
  BY <1>2, <1>3, AppendProperties
<1>5. /\ cut' \in Seq(SegmentSet) /\ Len(cut') = L /\ cut'[L] = new
      /\ \A i \in 1..L : i # L => cut'[i] = cut[i]
  BY <1>2, ExceptSeq
<1>6. /\ \A k \in 1..Len(new.frames) : \/ k \in 1..Len(old.frames) /\ new.frames[k] = old.frames[k]
                                       \/ k = Len(old.frames) + 1 /\ new.frames[k] = frame
      /\ \A k \in 1..Len(old.frames) : k \in 1..Len(new.frames)
      /\ Len(old.frames) + 1 \in 1..Len(new.frames)
  BY <1>3, <1>4
<1>7. DOMAIN cut = 1..L /\ DOMAIN cut' = 1..L /\ DOMAIN new.frames = 1..Len(new.frames)
      /\ DOMAIN old.frames = 1..Len(old.frames)
  BY <1>2, <1>3, <1>4, <1>5, LenProperties
<1>8. cut' # <<>> /\ new.frames # <<>> /\ Head(new.frames) = Head(old.frames)
  <2>1. Len(new.frames) > 0 /\ Len(cut') > 0
    BY <1>2, <1>3, <1>4, <1>5
  <2>2. new.frames # <<>> /\ cut' # <<>>
    <3>1. new.frames # <<>>
      BY <1>4, <2>1, EmptySeq
    <3>2. cut' # <<>>
      BY <1>5, <2>1, EmptySeq
    <3> QED BY <3>1, <3>2
  <2>3. Head(new.frames) = new.frames[1] /\ Head(old.frames) = old.frames[1] /\ 1 \in 1..Len(old.frames)
    BY <1>2, <1>3, <1>4, <2>2, HeadTailProperties
  <2> QED BY <1>4, <2>2, <2>3
<1> HIDE DEF L, old
\* A frame of the segments is one there was, or the new one.
<1>9. ASSUME NEW i \in 1..L, NEW k \in 1..Len(cut'[i].frames)
      PROVE  \/ /\ k \in 1..Len(cut[i].frames)
                /\ cut'[i].frames[k] = cut[i].frames[k]
             \/ i = L /\ k = Len(old.frames) + 1 /\ cut'[i].frames[k] = frame
  <2>1. CASE i = L
    <3>1. cut'[i].frames = new.frames /\ cut[i] = old
      BY <1>5, <2>1 DEF old
    <3>2. k \in 1..Len(new.frames)
      BY <3>1
    <3> QED BY <1>6, <2>1, <3>1, <3>2
  <2>2. CASE i # L
    <3>1. cut'[i] = cut[i]
      BY <1>5, <2>2
    <3> QED BY <3>1
  <2> QED BY <2>1, <2>2
<1>10. ASSUME NEW i \in 1..L, NEW k \in 1..Len(cut[i].frames)
       PROVE  k \in 1..Len(cut'[i].frames) /\ cut'[i].frames[k] = cut[i].frames[k]
  <2>1. CASE i = L
    <3>1. cut'[i].frames = new.frames /\ cut[i] = old
      BY <1>5, <2>1 DEF old
    <3>2. k \in 1..Len(old.frames)
      BY <3>1
    <3> QED BY <1>4, <1>6, <3>1, <3>2
  <2>2. CASE i # L
    <3>1. cut'[i] = cut[i]
      BY <1>5, <2>2
    <3> QED BY <3>1
  <2> QED BY <2>1, <2>2
<1>11. L = Len(cut) /\ Len(cut') = L /\ L \in 1..L
  BY <1>2, <1>5 DEF L
<1>12. \A n : Recorded(n)' <=> Recorded(n) \/ n = p.n
  <2> TAKE n
  <2>1. ASSUME Recorded(n) PROVE Recorded(n)'
    <3>1. PICK i \in 1..L : \E k \in 1..Len(cut[i].frames) : cut[i].frames[k].n = n
      BY <1>11, <2>1 DEF Recorded
    <3>2. PICK k \in 1..Len(cut[i].frames) : cut[i].frames[k].n = n
      BY <3>1
    <3>3. k \in 1..Len(cut'[i].frames) /\ cut'[i].frames[k] = cut[i].frames[k]
      BY <1>10
    <3> QED BY <1>11, <3>2, <3>3 DEF Recorded
  <2>2. ASSUME n = p.n PROVE Recorded(n)'
    <3>1. cut'[L].frames = new.frames
      BY <1>5
    <3>2. Len(old.frames) + 1 \in 1..Len(cut'[L].frames)
          /\ cut'[L].frames[Len(old.frames) + 1].n = n
      BY <1>1, <1>4, <1>6, <2>2, <3>1
    <3> QED BY <1>11, <3>2 DEF Recorded
  <2>3. ASSUME Recorded(n)' PROVE Recorded(n) \/ n = p.n
    <3>1. PICK i \in 1..L : \E k \in 1..Len(cut'[i].frames) : cut'[i].frames[k].n = n
      BY <1>11, <2>3 DEF Recorded
    <3>2. PICK k \in 1..Len(cut'[i].frames) : cut'[i].frames[k].n = n
      BY <3>1
    <3>3. \/ k \in 1..Len(cut[i].frames) /\ cut'[i].frames[k] = cut[i].frames[k]
          \/ cut'[i].frames[k] = frame
      BY <1>9
    <3>4. i \in 1..Len(cut)
      BY <1>11
    <3> QED BY <1>1, <3>2, <3>3, <3>4 DEF Recorded
  <2> QED BY <2>1, <2>2, <2>3
<1>13. RecordedOnce'
  <2> SUFFICES ASSUME NEW i \in 1..L, NEW j \in 1..L,
                      NEW k \in 1..Len(cut'[i].frames), NEW l \in 1..Len(cut'[j].frames),
                      cut'[i].frames[k].n = cut'[j].frames[l].n
               PROVE  i = j /\ k = l
    BY <1>11 DEF RecordedOnce
  <2>1. \/ k \in 1..Len(cut[i].frames) /\ cut'[i].frames[k] = cut[i].frames[k]
        \/ i = L /\ k = Len(old.frames) + 1 /\ cut'[i].frames[k] = frame
    BY <1>9
  <2>2. \/ l \in 1..Len(cut[j].frames) /\ cut'[j].frames[l] = cut[j].frames[l]
        \/ j = L /\ l = Len(old.frames) + 1 /\ cut'[j].frames[l] = frame
    BY <1>9
  <2>3. ASSUME NEW a \in 1..L, NEW b \in 1..Len(cut[a].frames), cut[a].frames[b].n = frame.n
        PROVE  FALSE
    <3>1. Recorded(p.n)
      BY <1>1, <1>11, <2>3 DEF Recorded
    <3> QED BY <3>1 DEF Recordable
  <2>4. CASE /\ k \in 1..Len(cut[i].frames) /\ cut'[i].frames[k] = cut[i].frames[k]
             /\ l \in 1..Len(cut[j].frames) /\ cut'[j].frames[l] = cut[j].frames[l]
    <3>1. /\ i \in 1..Len(cut) /\ j \in 1..Len(cut)
          /\ cut[i].frames[k].n = cut[j].frames[l].n
      BY <1>11, <2>4
    <3>2. RecordedOnce
      BY DEF SegmentsRight
    <3> QED BY SMTT(30), <2>4, <3>1, <3>2 DEF RecordedOnce
  <2>5. CASE cut'[i].frames[k] = frame /\ l \in 1..Len(cut[j].frames)
             /\ cut'[j].frames[l] = cut[j].frames[l]
    BY <2>3, <2>5
  <2>6. CASE cut'[j].frames[l] = frame /\ k \in 1..Len(cut[i].frames)
             /\ cut'[i].frames[k] = cut[i].frames[k]
    BY <2>3, <2>6
  <2> QED BY <2>1, <2>2, <2>4, <2>5, <2>6
\* What is said of each frame and of each segment.
<1>14. ASSUME NEW i \in 1..L, i # L
       PROVE  cut'[i] = cut[i]
  BY <1>5, <1>14
<1>15. old.profile[p.stream] \in {0, p.profile} /\ old.profile \in [Timeline!Streams -> Nat]
  BY <1>2 DEF Timeline!ProfileChanged, SegmentSet
<1>16. \A k \in 1..Len(old.frames) : old.frames[k].profile = old.profile[old.frames[k].stream]
                                     /\ old.frames[k].profile \in {1, 2}
                                            /\ old.frames[k].stream \in Timeline!Streams
  <2>1. \A k \in 1..Len(old.frames) : old.frames[k] \in FrameSet
    BY <1>3, ElementOfSeq
  <2>2. \A k \in 1..Len(old.frames) : old.frames[k].profile = old.profile[old.frames[k].stream]
    BY <1>7, <1>11 DEF SegmentsRight, Timeline!OneProfile, old
  <2> QED BY <2>1, <2>2 DEF FrameSet
<1>17. \A k \in 1..Len(new.frames) : new.frames[k].profile = new.profile[new.frames[k].stream]
  <2> SUFFICES ASSUME NEW k \in 1..Len(new.frames)
               PROVE  new.frames[k].profile = new.profile[new.frames[k].stream]
    OBVIOUS
  <2>1. CASE k \in 1..Len(old.frames) /\ new.frames[k] = old.frames[k]
    <3>1. PICK s \in Timeline!Streams : s = old.frames[k].stream
      BY <1>16, <2>1
    <3>2. old.frames[k].profile = old.profile[s] /\ old.frames[k].profile # 0
      BY <1>16, <2>1, <3>1
    <3>3. /\ new.profile[p.stream] = p.profile
          /\ \A t \in Timeline!Streams : t # p.stream => new.profile[t] = old.profile[t]
      BY <1>2
    <3>4. CASE s = p.stream
      <4>1. new.profile[s] = p.profile
        BY <1>15, <3>3, <3>4
      <4> QED BY <1>15, <2>1, <3>1, <3>2, <3>4, <4>1
    <3>5. CASE s # p.stream
      <4>1. new.profile[s] = old.profile[s]
        BY <1>15, <3>3, <3>5
      <4> QED BY <2>1, <3>1, <3>2, <4>1
    <3> QED BY <3>4, <3>5
  <2>2. CASE new.frames[k] = frame
    BY <1>1, <1>2, <1>15, <2>2
  <2> QED BY <1>6, <2>1, <2>2
<1>18. Timeline!OneProfile'
  <2> SUFFICES ASSUME NEW i \in 1..L, NEW k \in DOMAIN cut'[i].frames
               PROVE  cut'[i].frames[k].profile = cut'[i].profile[cut'[i].frames[k].stream]
    BY <1>7 DEF Timeline!OneProfile
  <2>1. CASE i = L
    BY <1>5, <1>7, <1>17, <2>1
  <2>2. CASE i # L
    BY <1>7, <1>14, <2>2 DEF SegmentsRight, Timeline!OneProfile
  <2> QED BY <2>1, <2>2
<1>19. Timeline!BeginsSlice'
  <2> SUFFICES ASSUME NEW i \in 1..L, cut'[i].cause = "slice", expectsRgb
               PROVE  /\ Head(cut'[i].frames).idr
                      /\ Timeline!InSlice(Head(cut'[i].frames), cut'[i].slice)
    BY <1>7 DEF Timeline!BeginsSlice
  <2>1. CASE i = L
    <3>1. /\ cut'[i].cause = cut[i].cause /\ cut'[i].slice = cut[i].slice
          /\ Head(cut'[i].frames) = Head(cut[i].frames)
      BY <1>2, <1>5, <1>8, <2>1 DEF old
    <3> QED BY <1>7, <3>1 DEF SegmentsRight, Timeline!BeginsSlice
  <2>2. CASE i # L
    BY <1>7, <1>14, <2>2 DEF SegmentsRight, Timeline!BeginsSlice
  <2> QED BY <2>1, <2>2
\* The new frame is in the slice, unless it is put off or no IDR.
<1>20. /\ frame.idr /\ new.slice.end # 0 => frame.deferred \/ frame.stamp < new.slice.end
       /\ frame.replayed => Timeline!InSlice(frame, new.slice)
  <2>1. frame.replayed => Timeline!InSlice(frame, new.slice)
    BY <1>1 DEF Recordable, Timeline!InSlice
  <2>2. ASSUME frame.idr, new.slice.end # 0, ~frame.deferred PROVE frame.stamp < new.slice.end
    <3>1. ~(p.stamp >= Timeline!Current.slice.end)
      <4>1. ~Timeline!PastSlice(p)
        BY <1>1, <2>2 DEF Recordable, Timeline!StartsSlice
      <4>2. Timeline!Current.slice.end > 0
        BY <1>2, <2>2 DEF SliceSet
      <4> QED BY <4>1, <4>2 DEF Timeline!PastSlice
    <3>2. Timeline!Current.slice.end \in Nat
      BY <1>2 DEF SliceSet
    <3> QED BY <1>1, <3>1, <3>2
  <2> QED BY <2>1, <2>2
<1>21. Timeline!InItsSlice'
  <2> SUFFICES ASSUME NEW i \in 1..L, NEW k \in 1..Len(cut'[i].frames)
               PROVE  LET f == cut'[i].frames[k]
                      IN  /\ f.idr /\ cut'[i].slice.end # 0
                               => f.deferred \/ f.stamp < cut'[i].slice.end
                          /\ f.replayed => Timeline!InSlice(f, cut'[i].slice)
    <3>1. \A i \in 1..L : DOMAIN cut'[i].frames = 1..Len(cut'[i].frames)
      <4>1. \A i \in 1..L : cut'[i] \in SegmentSet
        BY <1>5, <1>11, ElementOfSeq
      <4> QED BY <4>1, LenProperties DEF SegmentSet
    <3> QED BY <1>7, <3>1 DEF Timeline!InItsSlice
  <2>1. cut'[i].slice = cut[i].slice
    BY <1>2, <1>5, <1>14 DEF old
  <2>2. CASE k \in 1..Len(cut[i].frames) /\ cut'[i].frames[k] = cut[i].frames[k]
    <3>1. k \in DOMAIN cut[i].frames
      <4>1. cut[i] \in SegmentSet
        BY <1>2, <1>11, ElementOfSeq
      <4> QED BY <2>2, <4>1, LenProperties DEF SegmentSet
    <3> QED BY <1>7, <2>1, <2>2, <3>1 DEF SegmentsRight, Timeline!InItsSlice
  <2>3. CASE i = L /\ cut'[i].frames[k] = frame
    BY <1>5, <1>20, <2>3
  <2> QED BY <1>9, <2>2, <2>3
<1>22. \A i \in 1..L : cut'[i].frames # <<>> /\ SliceRight(cut'[i].slice)
  <2> TAKE i \in 1..L
  <2>1. CASE i = L
    BY <1>2, <1>5, <1>8, <2>1
  <2>2. CASE i # L
    BY <1>11, <1>14, <2>2 DEF SegmentsRight
  <2> QED BY <2>1, <2>2
<1>23. SegmentsRight'
  BY <1>5, <1>8, <1>13, <1>18, <1>19, <1>21, <1>22 DEF SegmentsRight, SliceRight
<1> QED BY <1>12, <1>23

\* A segment with one frame more.
Extended(s, frame, stream, profile) ==
    [s EXCEPT !.frames = Append(@, frame), !.profile = [s.profile EXCEPT ![stream] = profile]]

LEMMA WithFrame ==
    ASSUME NEW s \in SegmentSet, NEW frame \in FrameSet, NEW stream \in Timeline!Streams,
           NEW profile \in {1, 2}
    PROVE  LET new == Extended(s, frame, stream, profile)
           IN  /\ new \in SegmentSet /\ new.slice = s.slice /\ new.cause = s.cause
               /\ new.frames = Append(s.frames, frame)
               /\ new.profile[stream] = profile
               /\ \A t \in Timeline!Streams : t # stream => new.profile[t] = s.profile[t]
<1>1. s.frames \in Seq(FrameSet) /\ s.profile \in [Timeline!Streams -> Nat]
  BY DEF SegmentSet
<1> DEFINE frames == Append(s.frames, frame)
           profiles == [s.profile EXCEPT ![stream] = profile]
           new == [s EXCEPT !.frames = frames, !.profile = profiles]
<1>2. frames \in Seq(FrameSet) /\ profiles \in [Timeline!Streams -> Nat] /\ profiles[stream] = profile
      /\ \A t \in Timeline!Streams : t # stream => profiles[t] = s.profile[t]
  BY <1>1, AppendProperties
<1>3. Extended(s, frame, stream, profile) = new
  BY DEF Extended
<1>4. new.frames = frames /\ new.profile = profiles /\ new.slice = s.slice /\ new.cause = s.cause
  <2> HIDE DEF frames, profiles
  <2> QED BY DEF SegmentSet
<1>5. new \in SegmentSet
  <2> HIDE DEF frames, profiles
  <2> QED BY <1>2 DEF SegmentSet
<1> HIDE DEF new
<1> QED BY <1>2, <1>3, <1>4, <1>5

\* Either way: the packet is recorded, and the segments stay as they should be.
LEMMA WriteRight ==
    ASSUME TimelineConstants, SegmentsRight, NEW p, Recordable(p), NEW deferred \in BOOLEAN,
           deferred => Timeline!Deferrable(p), Timeline!Write(p, deferred), expectsRgb' = expectsRgb
    PROVE  SegmentsRight' /\ (\A n : Recorded(n)' <=> Recorded(n) \/ n = p.n)
<1> DEFINE frame == [p EXCEPT !.deferred = deferred]
           cause == IF Timeline!ProfileChanged(p) THEN "profile" ELSE "slice"
           fresh == ~recording \/ Timeline!ProfileChanged(p) \/ (Timeline!StartsSlice(p) /\ ~deferred)
           into == IF fresh THEN Timeline!Segment(p.stamp, cause) ELSE Timeline!Current
           new == Extended(into, frame, p.stream, p.profile)
<1>1. /\ p \in FrameSet /\ p.stamp \in Nat /\ p.stream \in Timeline!Streams /\ p.profile \in {1, 2}
      /\ frame \in FrameSet
  BY DEF Recordable, FrameSet
<1>2. /\ cut' = IF fresh THEN Append(cut, new) ELSE Timeline!ReplaceAt(cut, Len(cut), new)
      /\ recording' = TRUE
  BY DEF Timeline!Write, Extended
<1>3. new = Extended(into, frame, p.stream, p.profile)
  OBVIOUS
<1>4. cause \in {"slice", "profile"}
  OBVIOUS
<1>5. frame = [p EXCEPT !.deferred = deferred]
  OBVIOUS
<1> HIDE DEF frame, new
<1>6. CASE fresh
  <2>1. ~deferred
    BY <1>6 DEF Timeline!Deferrable, Timeline!StartsSlice, Timeline!PastSlice
  <2>2. into = Timeline!Segment(p.stamp, cause)
    BY <1>6
  <2>3. cut' = Append(cut, new)
    BY <1>2, <1>6
  <2>4. Timeline!Slice(p.stamp) \in SliceSet
    BY <1>1, SliceOf
  <2> HIDE DEF into
  <2>5. into \in SegmentSet /\ into.slice = Timeline!Slice(p.stamp) /\ into.cause = cause
            /\ into.frames = <<>>
    <3> HIDE DEF cause
    <3> QED BY <1>4, <2>2, <2>4 DEF Timeline!Segment, SegmentSet, Timeline!NoFrames
  <2>6. /\ new \in SegmentSet /\ new.slice = into.slice /\ new.cause = into.cause
        /\ new.frames = Append(into.frames, frame) /\ new.profile[p.stream] = p.profile
    <3> HIDE DEF cause, fresh
    <3>1. LET ext == Extended(into, frame, p.stream, p.profile)
          IN  /\ ext \in SegmentSet /\ ext.slice = into.slice /\ ext.cause = into.cause
              /\ ext.frames = Append(into.frames, frame)
              /\ ext.profile[p.stream] = p.profile
              /\ \A t \in Timeline!Streams : t # p.stream => ext.profile[t] = into.profile[t]
      BY <1>1, <2>5, WithFrame
    <3> QED BY <1>3, <3>1
  <2>7. new.frames = <<frame>>
    BY <1>1, <2>5, <2>6
  <2>8. cause = "slice" /\ expectsRgb => p.idr /\ p.stamp >= WindowStart
    <3> SUFFICES ASSUME ~Timeline!ProfileChanged(p), expectsRgb PROVE p.idr /\ p.stamp >= WindowStart
      OBVIOUS
    <3>1. CASE ~recording
      BY <3>1 DEF Recordable
    <3>2. CASE recording
      <4>1. Timeline!StartsSlice(p)
        BY <1>6, <3>2
      <4>2. p.idr /\ Timeline!Current.slice.end > 0 /\ p.stamp >= Timeline!Current.slice.end
        BY <4>1 DEF Timeline!StartsSlice, Timeline!PastSlice
      <4>3. SliceRight(Timeline!Current.slice) /\ Timeline!Current.slice \in SliceSet
        BY <3>2, CurrentSegment DEF SegmentSet
      <4>4. Timeline!Current.slice.start \in Nat /\ Timeline!Current.slice.end \in Nat
        BY <4>3 DEF SliceSet
      <4> QED BY <1>1, <4>2, <4>3, <4>4 DEF SliceRight, TimelineConstants
    <3> QED BY <3>1, <3>2
  <2>9. frame = [p EXCEPT !.deferred = FALSE]
    BY <1>5, <2>1
  <2> HIDE DEF cause, fresh
  <2> QED BY <1>1, <1>2, <1>4, <2>3, <2>5, <2>6, <2>7, <2>8, <2>9, BeginSegment
<1>7. CASE ~fresh
  <2>1. recording /\ ~Timeline!ProfileChanged(p) /\ (Timeline!StartsSlice(p) => deferred)
            /\ into = Timeline!Current
    BY <1>7
  <2>2. cut' = Timeline!ReplaceAt(cut, Len(cut), new)
    BY <1>2, <1>7
  <2>3. cut' = [cut EXCEPT ![Len(cut)] = new]
    BY <2>2 DEF Timeline!ReplaceAt
  <2>4. Timeline!Current \in SegmentSet
    BY <2>1, CurrentSegment
  <2> HIDE DEF into, cause, fresh
  <2>5. /\ new \in SegmentSet /\ new.slice = into.slice /\ new.cause = into.cause
        /\ new.frames = Append(into.frames, frame)
        /\ new.profile[p.stream] = p.profile
        /\ \A t \in Timeline!Streams : t # p.stream => new.profile[t] = into.profile[t]
    <3>1. into \in SegmentSet
      BY <2>1, <2>4
    <3>2. LET ext == Extended(into, frame, p.stream, p.profile)
          IN  /\ ext \in SegmentSet /\ ext.slice = into.slice /\ ext.cause = into.cause
              /\ ext.frames = Append(into.frames, frame)
              /\ ext.profile[p.stream] = p.profile
              /\ \A t \in Timeline!Streams : t # p.stream => ext.profile[t] = into.profile[t]
      BY <1>1, <3>1, WithFrame
    <3> QED BY <1>3, <3>2
  <2>6. /\ new \in SegmentSet /\ new.slice = Timeline!Current.slice
               /\ new.cause = Timeline!Current.cause
        /\ new.frames = Append(Timeline!Current.frames, frame)
        /\ new.profile[p.stream] = p.profile
        /\ \A t \in Timeline!Streams : t # p.stream => new.profile[t] = Timeline!Current.profile[t]
    BY <2>1, <2>5
  <2> QED BY <1>1, <1>2, <1>5, <2>1, <2>3, <2>6, ContinueSegment
<1> QED BY <1>6, <1>7

-----------------------------------------------------------------------------
\* What is held back: one more, the first written or dropped, none.

LEMMA HoldOneMore ==
    ASSUME HeldRight, NEW p \in FrameSet, heldBack' = Append(heldBack, p), ~HeldBack(p.n),
           p.stream = "depth", ~p.idr, ~p.replayed
    PROVE  HeldRight' /\ (\A n : HeldBack(n)' <=> HeldBack(n) \/ n = p.n)
<1>1. heldBack \in Seq(FrameSet) /\ Len(heldBack) \in Nat
  BY LenProperties DEF HeldRight
<1>2. /\ heldBack' \in Seq(FrameSet) /\ Len(heldBack') = Len(heldBack) + 1
             /\ heldBack'[Len(heldBack) + 1] = p
      /\ \A k \in 1..Len(heldBack) : heldBack'[k] = heldBack[k]
  BY <1>1, AppendProperties
<1>3. \A k \in 1..Len(heldBack') :
          (k \in 1..Len(heldBack) /\ heldBack'[k] = heldBack[k])
              \/ (k = Len(heldBack) + 1 /\ heldBack'[k] = p)
  BY <1>1, <1>2
<1>4. (\A k \in 1..Len(heldBack) : k \in 1..Len(heldBack')) /\ Len(heldBack) + 1 \in 1..Len(heldBack')
  BY <1>1, <1>2
<1>5. \A n : HeldBack(n)' <=> HeldBack(n) \/ n = p.n
  BY <1>2, <1>3, <1>4 DEF HeldBack
<1>6. \A k \in 1..Len(heldBack') : heldBack'[k].stream = "depth" /\ ~heldBack'[k].idr
          /\ ~heldBack'[k].replayed
  BY <1>3 DEF HeldRight
<1>7. ASSUME NEW k \in 1..Len(heldBack'), NEW l \in 1..Len(heldBack'), heldBack'[k].n = heldBack'[l].n
      PROVE  k = l
  <2>1. \A m \in 1..Len(heldBack) : heldBack[m].n # p.n
    BY DEF HeldBack
  <2> QED BY <1>3, <1>7, <2>1 DEF HeldRight
<1> QED BY <1>2, <1>5, <1>6, <1>7 DEF HeldRight

LEMMA HoldOneLess ==
    ASSUME HeldRight, heldBack # <<>>, heldBack' = Tail(heldBack)
    PROVE  /\ HeldRight' /\ Head(heldBack) = heldBack[1] /\ heldBack[1] \in FrameSet
           /\ HeldBack(heldBack[1].n)
           /\ heldBack[1].stream = "depth" /\ ~heldBack[1].idr /\ ~heldBack[1].replayed
           /\ \A n : HeldBack(n)' <=> HeldBack(n) /\ n # heldBack[1].n
<1>1. heldBack \in Seq(FrameSet) /\ Len(heldBack) \in Nat /\ Len(heldBack) > 0
  BY LenProperties, EmptySeq DEF HeldRight
<1>2. /\ heldBack' \in Seq(FrameSet) /\ Len(heldBack') = Len(heldBack) - 1
      /\ \A k \in 1..Len(heldBack') : heldBack'[k] = heldBack[k + 1]
      /\ Head(heldBack) = heldBack[1] /\ heldBack[1] \in FrameSet
  BY <1>1, HeadTailProperties
<1>3. \A k \in 1..Len(heldBack') : k + 1 \in 1..Len(heldBack) /\ heldBack'[k] = heldBack[k + 1]
          /\ k + 1 # 1
  BY <1>1, <1>2
<1>4. \A k \in 1..Len(heldBack) : k # 1 => k - 1 \in 1..Len(heldBack') /\ heldBack'[k - 1] = heldBack[k]
  BY <1>1, <1>2
<1>5. 1 \in 1..Len(heldBack)
  BY <1>1
<1>6. ASSUME NEW n PROVE HeldBack(n)' <=> HeldBack(n) /\ n # heldBack[1].n
  <2>1. ASSUME HeldBack(n)' PROVE HeldBack(n) /\ n # heldBack[1].n
    <3>1. PICK k \in 1..Len(heldBack') : heldBack'[k].n = n
      BY <2>1 DEF HeldBack
    <3>2. k + 1 \in 1..Len(heldBack) /\ heldBack[k + 1].n = n /\ k + 1 # 1
      BY <1>3, <3>1
    <3> QED BY <1>5, <3>2 DEF HeldBack, HeldRight
  <2>2. ASSUME HeldBack(n), n # heldBack[1].n PROVE HeldBack(n)'
    <3>1. PICK k \in 1..Len(heldBack) : heldBack[k].n = n
      BY <2>2 DEF HeldBack
    <3>2. k - 1 \in 1..Len(heldBack') /\ heldBack'[k - 1] = heldBack[k]
      BY <1>4, <2>2, <3>1
    <3> QED BY <3>1, <3>2 DEF HeldBack
  <2> QED BY <2>1, <2>2
<1>7. ASSUME NEW k \in 1..Len(heldBack'), NEW l \in 1..Len(heldBack'), heldBack'[k].n = heldBack'[l].n
      PROVE  k = l
  <2>1. k + 1 = l + 1
    BY <1>3, <1>7 DEF HeldRight
  <2> QED BY <2>1
<1>8. HeldRight'
  BY <1>2, <1>3, <1>7 DEF HeldRight
<1> QED BY <1>2, <1>5, <1>6, <1>8 DEF HeldRight, HeldBack

\* A failed write drops the packet and all that is held back.
LEMMA FailDrops ==
    ASSUME HeldRight, NEW p, Timeline!FailWrite(p)
    PROVE  /\ HeldRight' /\ UNCHANGED <<cut, recording>>
           /\ \A n : ~HeldBack(n)'
           /\ \A n : n \in dropped' <=> n \in dropped \/ n = p.n \/ HeldBack(n)
<1>1. heldBack \in Seq(FrameSet) /\ DOMAIN heldBack = 1..Len(heldBack)
  BY LenProperties DEF HeldRight
<1>2. heldBack' = <<>> /\ dropped' = dropped \cup {p.n} \cup {heldBack[i].n : i \in DOMAIN heldBack}
      /\ UNCHANGED <<cut, recording>>
  BY DEF Timeline!FailWrite
<1>3. HeldRight' /\ \A n : ~HeldBack(n)'
  <2>1. Len(heldBack') = 0 /\ heldBack' \in Seq(FrameSet)
    BY <1>2, EmptySeq
  <2> QED BY <2>1 DEF HeldRight, HeldBack
<1>4. \A n : n \in {heldBack[i].n : i \in DOMAIN heldBack} <=> HeldBack(n)
  BY <1>1 DEF HeldBack
<1> QED BY <1>2, <1>3, <1>4

-----------------------------------------------------------------------------
\* A packet's number is the next one, or that of the first packet held back: it goes
\* to the segments, or is dropped with or without what is held back, or is held back.

LEMMA OneMore ==
    ASSUME NEW c \in Nat
    PROVE  /\ c + 1 \in 1..(c + 1) /\ c + 1 \notin 1..c
           /\ \A n : n \in 1..(c + 1) <=> n \in 1..c \/ n = c + 1
OBVIOUS

\* A packet m goes somewhere, and with it, when the write fails, all that is held back.
Goes(m, there) ==
    /\ \A n : Recorded(n)' <=> Recorded(n) \/ (there = "recorded" /\ n = m)
    /\ \A n : n \in dropped' <=> \/ n \in dropped
                                 \/ there \in {"dropped", "all dropped"} /\ n = m
                                 \/ there = "all dropped" /\ HeldBack(n)
    /\ \A n : HeldBack(n)' <=> \/ there # "all dropped" /\ HeldBack(n) /\ n # m
                               \/ there = "held" /\ n = m

LEMMA NumberedStep ==
    ASSUME Numbered, NEW m, numbered' \in Nat,
           \/ numbered' = numbered + 1 /\ m = numbered + 1
           \/ numbered' = numbered /\ HeldBack(m),
           NEW there \in {"recorded", "dropped", "held", "all dropped"}, Goes(m, there)
    PROVE  Numbered'
<1> DEFINE recorded == there = "recorded"
           inDropped == there \in {"dropped", "all dropped"}
           all == there = "all dropped"
<1>1. /\ \A n : Recorded(n)' <=> Recorded(n) \/ (recorded /\ n = m)
      /\ \A n : n \in dropped' <=> n \in dropped \/ (inDropped /\ n = m) \/ (all /\ HeldBack(n))
      /\ \A n : HeldBack(n)' <=> (~all /\ HeldBack(n) /\ n # m) \/ (there = "held" /\ n = m)
  BY DEF Goes
<1>2. /\ recorded \/ inDropped \/ there = "held"
      /\ all => inDropped
      /\ ~(recorded /\ inDropped) /\ ~(recorded /\ there = "held") /\ ~(inDropped /\ there = "held")
  OBVIOUS
<1> HIDE DEF recorded, inDropped, all
<1>3. numbered \in Nat /\ m \in 1..numbered'
          /\ (\A n : n \in 1..numbered' <=> n \in 1..numbered \/ n = m)
      /\ ~Recorded(m) /\ m \notin dropped
  <2>1. numbered \in Nat
    BY DEF Numbered
  <2>2. CASE numbered' = numbered + 1 /\ m = numbered + 1
    <3>1. \A c \in Nat : /\ c + 1 \in 1..(c + 1) /\ c + 1 \notin 1..c
                         /\ \A n : n \in 1..(c + 1) <=> n \in 1..c \/ n = c + 1
      BY OneMore
    <3>2. m \in 1..numbered' /\ m \notin 1..numbered
              /\ (\A n : n \in 1..numbered' <=> n \in 1..numbered \/ n = m)
      BY <2>1, <2>2, <3>1
    <3> QED BY <2>1, <3>2 DEF Numbered
  <2>3. CASE numbered' = numbered /\ HeldBack(m)
    <3>1. m \in 1..numbered /\ ~Recorded(m) /\ m \notin dropped
      BY <2>3 DEF Numbered
    <3> QED BY <2>1, <2>3, <3>1
  <2> QED BY <2>2, <2>3
<1>4. ~Recorded(m) /\ m \notin dropped
  BY <1>3
<1>5. dropped' \subseteq 1..numbered'
  <2> SUFFICES ASSUME NEW n \in dropped' PROVE n \in 1..numbered'
    OBVIOUS
  <2>1. n \in dropped \/ n = m \/ HeldBack(n)
    BY <1>1
  <2> QED BY <1>3, <2>1 DEF Numbered
<1>6. ASSUME NEW n \in 1..numbered' PROVE n \in dropped' \/ Recorded(n)' \/ HeldBack(n)'
  <2>1. CASE n = m
    BY <1>1, <1>2, <2>1
  <2>2. CASE n # m
    <3>1. n \in dropped \/ Recorded(n) \/ HeldBack(n)
      BY <1>3, <2>2 DEF Numbered
    <3> QED BY <1>1, <2>2, <3>1
  <2> QED BY <2>1, <2>2
<1>7. ASSUME NEW n, Recorded(n)' PROVE n \in 1..numbered' /\ n \notin dropped' /\ ~HeldBack(n)'
  <2>1. Recorded(n) \/ (recorded /\ n = m)
    BY <1>1, <1>7
  <2>2. CASE Recorded(n)
    <3>1. n \in 1..numbered /\ n \notin dropped /\ ~HeldBack(n) /\ n # m
      BY <1>4, <2>2 DEF Numbered
    <3> QED BY <1>1, <1>3, <3>1
  <2>3. CASE recorded /\ n = m
    BY <1>1, <1>2, <1>3, <1>4, <2>3
  <2> QED BY <2>1, <2>2, <2>3
<1>8. ASSUME NEW n, HeldBack(n)' PROVE n \in 1..numbered' /\ n \notin dropped'
  <2>1. (~all /\ HeldBack(n) /\ n # m) \/ (there = "held" /\ n = m)
    BY <1>1, <1>8
  <2>2. CASE ~all /\ HeldBack(n) /\ n # m
    <3>1. n \in 1..numbered /\ n \notin dropped
      BY <2>2 DEF Numbered
    <3> QED BY <1>1, <1>3, <2>2, <3>1
  <2>3. CASE there = "held" /\ n = m
    BY <1>1, <1>2, <1>3, <1>4, <2>3
  <2> QED BY <2>1, <2>2, <2>3
<1> QED BY <1>5, <1>6, <1>7, <1>8 DEF Numbered

LEMMA SameSegments ==
    ASSUME SegmentsRight, UNCHANGED <<cut, recording, expectsRgb>>
    PROVE  SegmentsRight' /\ \A n : Recorded(n)' <=> Recorded(n)
BY DEF SegmentsRight, Recorded, RecordedOnce, Timeline!OneProfile, Timeline!BeginsSlice,
     Timeline!InItsSlice,
       SliceRight

LEMMA SameHeld ==
    ASSUME HeldRight, UNCHANGED heldBack
    PROVE  HeldRight' /\ \A n : HeldBack(n)' <=> HeldBack(n)
BY DEF HeldRight, HeldBack

\* A packet that is written, or fails to be, while nothing else moves.
LEMMA Written ==
    ASSUME TimelineConstants, SegmentsRight, NEW p, Recordable(p), NEW next,
           Timeline!WriteOrFail(p, next),
           UNCHANGED expectsRgb
    PROVE  /\ SegmentsRight' /\ (\A n : Recorded(n)' <=> Recorded(n) \/ n = p.n)
           /\ UNCHANGED dropped
<1>1. CASE Timeline!Write(p, FALSE)
  BY <1>1, WriteRight DEF Timeline!WriteOrFail
<1>2. CASE Timeline!Deferrable(p) /\ Timeline!Write(p, TRUE)
  BY <1>2, WriteRight DEF Timeline!WriteOrFail
<1>3. dropped' = dropped
  BY DEF Timeline!WriteOrFail
<1> QED BY <1>1, <1>2, <1>3 DEF Timeline!WriteOrFail

LEMMA RecordJobKeeps ==
    ASSUME TimelineConstants, TimelineInv, Timeline!WriteRecordJob
    PROVE  TimelineInv'
<1>1. PICK s \in Timeline!Streams, stamp \in 0..MaxStamp, idr \in BOOLEAN, changes \in BOOLEAN :
          /\ s = "depth" => ~idr
          /\ LET profile == IF changes THEN 3 - latest[s].profile ELSE latest[s].profile
                 p == [n |-> numbered + 1, stream |-> s, stamp |-> stamp, idr |-> idr,
                       profile |-> profile, deferred |-> FALSE, replayed |-> FALSE]
             IN  /\ IF s = "rgb" THEN Timeline!WriteRgb(p) ELSE Timeline!WriteDepth(p)
                 /\ latest' = [latest EXCEPT ![s] = [stamp |-> stamp, profile |-> profile]]
  BY ZenonT(30) DEF Timeline!WriteRecordJob
<1> DEFINE profile == IF changes THEN 3 - latest[s].profile ELSE latest[s].profile
           p == [n |-> numbered + 1, stream |-> s, stamp |-> stamp, idr |-> idr,
                 profile |-> profile, deferred |-> FALSE, replayed |-> FALSE]
<1>2. numbered' = numbered + 1 /\ numbered \in Nat /\ numbered' \in Nat /\ UNCHANGED expectsRgb
  BY DEF Timeline!WriteRecordJob, TimelineInv, Numbered
<1>3. stamp \in Nat /\ profile \in {1, 2}
  <2>1. latest[s].profile \in {1, 2}
    BY DEF TimelineInv
  <2> QED BY <2>1
<1>4. latest' \in [Timeline!Streams -> [stamp : Nat, profile : {1, 2}]]
  <2>1. latest' = [latest EXCEPT ![s] = [stamp |-> stamp, profile |-> profile]]
    BY <1>1
  <2>2. [stamp |-> stamp, profile |-> profile] \in [stamp : Nat, profile : {1, 2}]
    BY <1>3
  <2> QED BY <2>1, <2>2 DEF TimelineInv
<1>5. p \in FrameSet
  <2> HIDE DEF profile
  <2> QED BY <1>2, <1>3 DEF FrameSet
<1>6. p.n = numbered + 1 /\ p.stream = s /\ p.idr = idr /\ p.replayed = FALSE /\ p.stamp = stamp
  OBVIOUS
<1>7. IF s = "rgb" THEN Timeline!WriteRgb(p) ELSE Timeline!WriteDepth(p)
  BY <1>1
<1>8. s = "depth" => ~idr
  BY <1>1
<1> HIDE DEF p, profile
<1>9. SegmentsRight /\ HeldRight /\ Numbered
  BY DEF TimelineInv
<1>10. ~Recorded(p.n) /\ ~HeldBack(p.n)
  BY <1>2, <1>6 DEF TimelineInv, Numbered
\* The four ways a packet can go.
<1>11. CASE Timeline!Drop(p)
  <2>1. SegmentsRight' /\ (\A n : Recorded(n)' <=> Recorded(n))
    BY <1>2, <1>9, <1>11, SameSegments DEF Timeline!Drop
  <2>2. HeldRight' /\ (\A n : HeldBack(n)' <=> HeldBack(n))
    BY <1>9, <1>11, SameHeld DEF Timeline!Drop
  <2>3. \A n : n \in dropped' <=> n \in dropped \/ n = p.n
    BY <1>11 DEF Timeline!Drop
  <2>4. Numbered'
    <3>1. \A n : HeldBack(n)' <=> HeldBack(n) /\ n # p.n
      BY <1>10, <2>2
    <3>2. Goes(p.n, "dropped")
      BY <2>1, <2>3, <3>1 DEF Goes
    <3> QED BY <1>2, <1>6, <1>9, <3>2, NumberedStep
  <2> QED BY <1>4, <2>1, <2>2, <2>4 DEF TimelineInv
<1>12. CASE heldBack' = Append(heldBack, p) /\ s # "rgb" /\ UNCHANGED <<cut, recording, dropped>>
  <2>1. SegmentsRight' /\ (\A n : Recorded(n)' <=> Recorded(n))
    BY <1>2, <1>9, <1>12, SameSegments
  <2>2. p.stream = "depth" /\ ~p.idr /\ ~p.replayed
    BY <1>6, <1>8, <1>12 DEF Timeline!Streams
  <2>3. HeldRight' /\ (\A n : HeldBack(n)' <=> HeldBack(n) \/ n = p.n)
    BY <1>5, <1>9, <1>10, <1>12, <2>2, HoldOneMore
  <2>4. Numbered'
    <3>1. Goes(p.n, "held")
      BY <1>12, <2>1, <2>3 DEF Goes
    <3> QED BY <1>2, <1>6, <1>9, <3>1, NumberedStep
  <2> QED BY <1>4, <2>1, <2>3, <2>4 DEF TimelineInv
<1>13. ASSUME NEW next, Timeline!WriteOrFail(p, next), UNCHANGED heldBack, Recordable(p)
       PROVE  TimelineInv'
  <2>1. SegmentsRight' /\ (\A n : Recorded(n)' <=> Recorded(n) \/ n = p.n) /\ UNCHANGED dropped
    BY <1>2, <1>9, <1>13, Written
  <2>2. HeldRight' /\ (\A n : HeldBack(n)' <=> HeldBack(n))
    BY <1>9, <1>13, SameHeld
  <2>3. Numbered'
    <3>1. \A n : HeldBack(n)' <=> HeldBack(n) /\ n # p.n
      BY <1>10, <2>2
    <3>2. Goes(p.n, "recorded")
      BY <2>1, <3>1 DEF Goes
    <3> QED BY <1>2, <1>6, <1>9, <3>2, NumberedStep
  <2> QED BY <1>4, <2>1, <2>2, <2>3 DEF TimelineInv
<1>14. CASE Timeline!FailWrite(p)
  <2>1. /\ HeldRight' /\ UNCHANGED <<cut, recording>>
        /\ \A n : ~HeldBack(n)'
        /\ \A n : n \in dropped' <=> n \in dropped \/ n = p.n \/ HeldBack(n)
    BY <1>9, <1>14, FailDrops
  <2>2. SegmentsRight' /\ (\A n : Recorded(n)' <=> Recorded(n))
    BY <1>2, <1>9, <2>1, SameSegments
  <2>3. Numbered'
    <3>1. Goes(p.n, "all dropped")
      BY <2>1, <2>2 DEF Goes
    <3>2. Numbered /\ numbered' \in Nat
      BY <1>2, <1>6, <1>9
    <3>3. \/ numbered' = numbered + 1 /\ p.n = numbered + 1
          \/ numbered' = numbered /\ HeldBack(p.n)
      BY <1>2, <1>6
    <3> QED BY <3>1, <3>2, <3>3, NumberedStep
  <2> QED BY <1>4, <2>1, <2>2, <2>3 DEF TimelineInv
<1>15. p.idr => p.stream = "rgb"
  BY <1>6, <1>8 DEF Timeline!Streams
<1>16. CASE s = "rgb"
  <2>1. CASE Timeline!Waits(p) /\ (p.stamp < WindowStart \/ ~p.idr)
    BY <1>7, <1>11, <1>16, <2>1 DEF Timeline!WriteRgb
  <2>2. CASE ~(Timeline!Waits(p) /\ (p.stamp < WindowStart \/ ~p.idr))
    <3>1. Recordable(p)
      <4>1. ~recording /\ expectsRgb => p.idr /\ p.stamp >= WindowStart
        BY <1>3, <1>6, <2>2 DEF Timeline!Waits, TimelineConstants
      <4> QED BY <1>5, <1>6, <1>10, <1>15, <4>1 DEF Recordable
    <3> QED BY <1>7, <1>13, <1>14, <1>16, <2>2, <3>1 DEF Timeline!WriteRgb
  <2> QED BY <2>1, <2>2
<1>17. CASE s # "rgb"
  <2>1. CASE Timeline!Waits(p)
    BY <1>7, <1>11, <1>12, <1>17, <2>1 DEF Timeline!WriteDepth
  <2>2. CASE ~Timeline!Waits(p)
    <3>1. Recordable(p)
      BY <1>5, <1>6, <1>10, <1>15, <2>2 DEF Recordable, Timeline!Waits
    <3> QED BY <1>7, <1>13, <1>14, <1>17, <2>2, <3>1 DEF Timeline!WriteDepth
  <2> QED BY <2>1, <2>2
<1> QED BY <1>16, <1>17

LEMMA ReplayKeeps ==
    ASSUME TimelineConstants, TimelineInv, Timeline!ReplayDepth \/ Timeline!ReplayFails
    PROVE  TimelineInv'
<1>1. SegmentsRight /\ HeldRight /\ Numbered /\ numbered \in Nat
  BY DEF TimelineInv, Numbered
<1>2. /\ recording /\ heldBack # <<>>
      /\ Timeline!Current.slice.end = 0 \/ Head(heldBack).stamp < Timeline!Current.slice.end
      /\ UNCHANGED <<expectsRgb, latest, numbered>>
  BY DEF Timeline!ReplayDepth, Timeline!ReplayFails, Timeline!Replayable
<1>3. /\ heldBack \in Seq(FrameSet) /\ Head(heldBack) = heldBack[1] /\ heldBack[1] \in FrameSet
             /\ HeldBack(heldBack[1].n)
      /\ heldBack[1].stream = "depth" /\ ~heldBack[1].idr /\ ~heldBack[1].replayed
  <2>1. heldBack \in Seq(FrameSet) /\ Len(heldBack) \in Nat /\ Len(heldBack) > 0
    BY <1>1, <1>2, LenProperties, EmptySeq DEF HeldRight
  <2>2. Head(heldBack) = heldBack[1] /\ heldBack[1] \in FrameSet /\ 1 \in 1..Len(heldBack)
    BY <1>2, <2>1, HeadTailProperties
  <2> QED BY <1>1, <2>1, <2>2 DEF HeldRight, HeldBack
<1>4. latest' \in [Timeline!Streams -> [stamp : Nat, profile : {1, 2}]] /\ numbered' \in Nat
  BY <1>1, <1>2 DEF TimelineInv
<1> DEFINE first == heldBack[1]
           m == first.n
<1>5. CASE Timeline!ReplayFails
  <2>1. Timeline!FailWrite(first)
    BY <1>3, <1>5 DEF Timeline!ReplayFails
  <2>2. /\ HeldRight' /\ UNCHANGED <<cut, recording>>
        /\ \A n : ~HeldBack(n)'
        /\ \A n : n \in dropped' <=> n \in dropped \/ n = m \/ HeldBack(n)
    BY <1>1, <2>1, FailDrops
  <2>3. SegmentsRight' /\ (\A n : Recorded(n)' <=> Recorded(n))
    BY <1>1, <1>2, <2>2, SameSegments
  <2>4. Numbered'
    <3>1. Goes(m, "all dropped")
      BY <2>2, <2>3 DEF Goes
    <3> HIDE DEF m
    <3>2. HeldBack(m)
      BY <1>3 DEF m
    <3>3. \/ numbered' = numbered + 1 /\ m = numbered + 1
          \/ numbered' = numbered /\ HeldBack(m)
      BY <1>2, <3>2
    <3> QED BY <1>1, <1>4, <3>1, <3>3, NumberedStep
  <2> QED BY <1>4, <2>2, <2>3, <2>4 DEF TimelineInv
<1>6. CASE Timeline!ReplayDepth
  <2> DEFINE p == [first EXCEPT !.replayed = TRUE]
  <2>1. /\ heldBack' = Tail(heldBack)
        /\ IF p.stamp < Timeline!Current.slice.start
           THEN dropped' = dropped \cup {p.n} /\ UNCHANGED <<cut, recording, cutter, cutFaults>>
           ELSE Timeline!WriteOrFail(p, "replay")
    BY <1>3, <1>6 DEF Timeline!ReplayDepth
  <2>2. p \in FrameSet /\ p.n = m /\ p.stamp = first.stamp /\ p.stream = "depth" /\ ~p.idr
            /\ p.stamp \in Nat
    BY <1>3 DEF FrameSet
  <2>3. HeldRight' /\ (\A n : HeldBack(n)' <=> HeldBack(n) /\ n # m)
    BY <1>1, <1>2, <2>1, HoldOneLess
  <2>4. ~Recorded(m) /\ HeldBack(m)
    BY <1>1, <1>3 DEF Numbered
  <2> HIDE DEF p, m
  <2>5. CASE p.stamp < Timeline!Current.slice.start
    <3>1. SegmentsRight' /\ (\A n : Recorded(n)' <=> Recorded(n))
      BY <1>1, <1>2, <2>1, <2>5, SameSegments
    <3>2. \A n : n \in dropped' <=> n \in dropped \/ n = m
      BY <2>1, <2>2, <2>5
    <3>3. Numbered'
      <4>1. Goes(m, "dropped")
        BY <2>3, <3>1, <3>2 DEF Goes
      <4>2. \/ numbered' = numbered + 1 /\ m = numbered + 1
            \/ numbered' = numbered /\ HeldBack(m)
        BY <1>2, <2>4
      <4> QED BY <1>1, <1>4, <4>1, <4>2, NumberedStep
    <3> QED BY <1>4, <2>3, <3>1, <3>3 DEF TimelineInv
  <2>6. CASE ~(p.stamp < Timeline!Current.slice.start)
    <3>1. Recordable(p)
      <4>1. Timeline!Current.slice.start \in Nat
        BY <1>1, <1>2, CurrentSegment DEF SegmentSet, SliceSet
      <4>2. Timeline!InSlice(p, Timeline!Current.slice)
        BY <1>2, <1>3, <2>2, <2>6, <4>1 DEF Timeline!InSlice
      <4> QED BY <1>2, <2>2, <2>4, <4>2 DEF Recordable
    <3>2. /\ SegmentsRight' /\ (\A n : Recorded(n)' <=> Recorded(n) \/ n = m)
          /\ UNCHANGED dropped
      BY <1>1, <1>2, <2>1, <2>2, <2>6, <3>1, Written
    <3>3. Numbered'
      <4>1. Goes(m, "recorded")
        BY <2>3, <3>2 DEF Goes
      <4>2. \/ numbered' = numbered + 1 /\ m = numbered + 1
            \/ numbered' = numbered /\ HeldBack(m)
        BY <1>2, <2>4
      <4> QED BY <1>1, <1>4, <4>1, <4>2, NumberedStep
    <3> QED BY <1>4, <2>3, <3>2, <3>3 DEF TimelineInv
  <2> QED BY <2>5, <2>6
<1> QED BY <1>5, <1>6

LEMMA TimelineStep ==
    ASSUME TimelineConstants, TimelineInv, [Timeline!Next]_Timeline!vars
    PROVE  TimelineInv'
<1>1. CASE UNCHANGED <<expectsRgb, cut, recording, heldBack, dropped, latest, numbered>>
  <2>1. SegmentsRight' /\ (\A n : Recorded(n)' <=> Recorded(n))
    BY <1>1, SameSegments DEF TimelineInv
  <2>2. HeldRight' /\ (\A n : HeldBack(n)' <=> HeldBack(n))
    BY <1>1, SameHeld DEF TimelineInv
  <2>3. Numbered'
    BY <1>1, <2>1, <2>2 DEF TimelineInv, Numbered
  <2> QED BY <1>1, <2>1, <2>2, <2>3 DEF TimelineInv
<1>2. CASE UNCHANGED Timeline!vars \/ Timeline!ReplayEnds
  BY <1>1, <1>2 DEF Timeline!vars, Timeline!ReplayEnds
<1>3. CASE Timeline!WriteRecordJob
  BY <1>3, RecordJobKeeps
<1>4. CASE Timeline!ReplayDepth \/ Timeline!ReplayFails
  BY <1>4, ReplayKeeps
<1> QED BY <1>2, <1>3, <1>4 DEF Timeline!Next

\* One number, one place.
LEMMA PlacedOnce ==
    ASSUME TimelineInv
    PROVE  Timeline!AtOnePlace
<1> SUFFICES ASSUME NEW n \in 1..numbered
             PROVE  IF n \in dropped THEN Timeline!Places(n) = {} /\ Timeline!Rooms(n) = {}
                    ELSE (Timeline!Rooms(n) = {}
                        /\ \E x \in Timeline!Places(n) : Timeline!Places(n) = {x})
                         \/ (Timeline!Places(n) = {}
                                /\ \E x \in Timeline!Rooms(n) : Timeline!Rooms(n) = {x})
  BY DEF Timeline!AtOnePlace
<1>1. DOMAIN heldBack = 1..Len(heldBack) /\ DOMAIN cut = 1..Len(cut)
      /\ \A i \in 1..Len(cut) : DOMAIN cut[i].frames = 1..Len(cut[i].frames)
  <2>1. \A i \in 1..Len(cut) : cut[i] \in SegmentSet
    BY ElementOfSeq DEF TimelineInv, SegmentsRight
  <2> QED BY <2>1, LenProperties DEF TimelineInv, SegmentsRight, HeldRight, SegmentSet
<1>2. \A x : x \in Timeline!Places(n) <=>
          \E i \in 1..Len(cut) : \E k \in 1..Len(cut[i].frames) :
              cut[i].frames[k].n = n /\ x = [segment |-> i, frame |-> k]
  BY <1>1 DEF Timeline!Places
<1>3. \A x : x \in Timeline!Rooms(n) <=> x \in 1..Len(heldBack) /\ heldBack[x].n = n
  BY <1>1 DEF Timeline!Rooms
<1>4. \A x, y \in Timeline!Places(n) : x = y
  <2> SUFFICES ASSUME NEW x \in Timeline!Places(n), NEW y \in Timeline!Places(n) PROVE x = y
    OBVIOUS
  <2>1. PICK i \in 1..Len(cut) : \E k \in 1..Len(cut[i].frames) :
              cut[i].frames[k].n = n /\ x = [segment |-> i, frame |-> k]
    BY <1>2
  <2>2. PICK k \in 1..Len(cut[i].frames) :
              cut[i].frames[k].n = n /\ x = [segment |-> i, frame |-> k]
    BY <2>1
  <2>3. PICK j \in 1..Len(cut) : \E l \in 1..Len(cut[j].frames) :
              cut[j].frames[l].n = n /\ y = [segment |-> j, frame |-> l]
    BY <1>2
  <2>4. PICK l \in 1..Len(cut[j].frames) :
              cut[j].frames[l].n = n /\ y = [segment |-> j, frame |-> l]
    BY <2>3
  <2>5. RecordedOnce
    BY DEF TimelineInv, SegmentsRight
  <2>6. i = j /\ k = l
    BY <2>2, <2>4, <2>5 DEF RecordedOnce
  <2> QED BY <2>2, <2>4, <2>6
<1>5. \A x, y \in Timeline!Rooms(n) : x = y
  BY <1>3 DEF TimelineInv, HeldRight
<1>6. Recorded(n) <=> Timeline!Places(n) # {}
  BY <1>2 DEF Recorded
<1>7. HeldBack(n) <=> Timeline!Rooms(n) # {}
  BY <1>3 DEF HeldBack
<1>8. CASE n \in dropped
  BY <1>6, <1>7, <1>8 DEF TimelineInv, Numbered
<1>9. CASE n \notin dropped
  <2>1. CASE Recorded(n)
    <3>1. Timeline!Rooms(n) = {}
      BY <1>7, <2>1 DEF TimelineInv, Numbered
    <3>2. PICK x : x \in Timeline!Places(n)
      BY <1>6, <2>1
    <3>3. Timeline!Places(n) = {x}
      BY <1>4, <3>2
    <3> QED BY <1>9, <3>1, <3>2, <3>3
  <2>2. CASE ~Recorded(n)
    <3>1. Timeline!Places(n) = {} /\ HeldBack(n)
      BY <1>6, <1>9, <2>2 DEF TimelineInv, Numbered
    <3>2. PICK x : x \in Timeline!Rooms(n)
      BY <1>7, <3>1
    <3>3. Timeline!Rooms(n) = {x}
      BY <1>5, <3>2
    <3> QED BY <1>9, <3>1, <3>2, <3>3
  <2> QED BY <2>1, <2>2
<1> QED BY <1>8, <1>9

\* For every window, length of segments and room for depth: a packet is at one place,
\* recorded in one segment, held back or dropped, whatever is put off or fails; a
\* segment has one profile per stream; a slice begins with an IDR of its own and an
\* IDR past it begins the next, unless no finalizer was free; depth held back before
\* the first IDR is replayed into its own slice.
THEOREM WellCut == ASSUME TimelineConstants PROVE Timeline!Spec => []SegmentsWellCut
<1>1. Timeline!Init => TimelineInv
  <2> SUFFICES ASSUME Timeline!Init PROVE TimelineInv
    OBVIOUS
  <2>1. /\ cut = <<>> /\ heldBack = <<>> /\ dropped = {} /\ numbered = 0 /\ recording = FALSE
        /\ expectsRgb \in BOOLEAN
    BY DEF Timeline!Init
  <2>2. cut \in Seq(SegmentSet) /\ heldBack \in Seq(FrameSet) /\ Len(cut) = 0 /\ Len(heldBack) = 0
        /\ DOMAIN cut = {}
    BY <2>1, EmptySeq
  <2>3. SegmentsRight
    <3>1. RecordedOnce
      BY <2>2 DEF RecordedOnce
    <3>2. Timeline!OneProfile /\ Timeline!BeginsSlice /\ Timeline!InItsSlice
      BY <2>2 DEF Timeline!OneProfile, Timeline!BeginsSlice, Timeline!InItsSlice
    <3>3. \A i \in 1..Len(cut) : FALSE
      BY <2>2
    <3> QED BY <2>1, <2>2, <3>1, <3>2, <3>3 DEF SegmentsRight
  <2>4. HeldRight
    BY <2>1, <2>2 DEF HeldRight
  <2>5. Numbered
    BY <2>1, <2>2 DEF Numbered, Recorded, HeldBack
  <2>6. latest \in [Timeline!Streams -> [stamp : Nat, profile : {1, 2}]]
    BY DEF Timeline!Init
  <2> QED BY <2>3, <2>4, <2>5, <2>6 DEF TimelineInv
<1>2. TimelineInv /\ [Timeline!Next]_Timeline!vars => TimelineInv'
  BY TimelineStep
<1>3. TimelineInv => Timeline!SegmentsWellCut
  BY PlacedOnce DEF Timeline!SegmentsWellCut, TimelineInv, SegmentsRight
<1> QED
  BY <1>1, <1>2, <1>3, PTL DEF Timeline!Spec, SegmentsWellCut

-----------------------------------------------------------------------------
\* The media of a segment.  Every loop of the model is a recursive function: its rounds
\* are proved one after the other.

\* Induction over the numbers in a set.
LEMMA SetInduction ==
    ASSUME NEW S, 0 \in S, \A n \in Nat : n \in S => n + 1 \in S
    PROVE  \A n \in Nat : n \in S
<1> DEFINE T == {n \in Nat : n \notin S}
<1> SUFFICES ASSUME T # {} PROVE FALSE
  OBVIOUS
<1>1. PICK x \in T : \A y \in T : x <= y
  BY LeastNumber
<1>2. x \in Nat /\ x # 0 /\ x - 1 \in Nat
  OBVIOUS
<1>3. x - 1 \in S
  BY <1>1, <1>2
<1> QED
  BY <1>2, <1>3

\* The same from all the smaller ones.
LEMMA SetStrongInduction ==
    ASSUME NEW S, \A n \in Nat : (\A m \in 0..(n - 1) : m \in S) => n \in S
    PROVE  \A n \in Nat : n \in S
<1> DEFINE T == {n \in Nat : n \notin S}
<1> SUFFICES ASSUME T # {} PROVE FALSE
  OBVIOUS
<1>1. PICK x \in T : \A y \in T : x <= y
  BY LeastNumber
<1>2. \A m \in 0..(x - 1) : m \in S
  BY <1>1
<1> QED
  BY <1>2

\* ... and up to a bound, for the rounds of a loop.
LEMMA UpTo ==
    ASSUME NEW n \in Nat, NEW S, 0 \in S, \A k \in 0..(n - 1) : k \in S => k + 1 \in S
    PROVE  \A k \in 0..n : k \in S
<1> DEFINE T == {k \in Nat : k <= n => k \in S}
<1>1. 0 \in T
  OBVIOUS
<1>2. \A k \in Nat : k \in T => k + 1 \in T
  OBVIOUS
<1>3. \A k \in Nat : k \in T
  <2> HIDE DEF T
  <2> QED BY <1>1, <1>2, SetInduction
<1> QED
  BY <1>3

-----------------------------------------------------------------------------
\* The loops of a segment's media, round by round

\* One round of each loop: flush_rgb_pending, the merge of the rows, the count of a stream.
FlushStep(st, r, i) ==
    Media!WriteUnit(st, r.infos[i].n, SubSeq(r.pending, Media!Ends(r.infos)[i - 1] + 1, Media!Ends(r.infos)[i]),
                    r.infos[i].vcl)
MergeStep(out, i, recorded) ==
    IF mediaFrames[i].stream = "depth"
    THEN Append(out, [stream |-> "depth", n |-> mediaFrames[i].n, index |-> 0])
    ELSE IF \E j \in DOMAIN recorded : recorded[j] = mediaFrames[i].n
    THEN Append(out, [stream |-> "rgb", n |-> mediaFrames[i].n,
                      index |-> Media!IndexOf(recorded, mediaFrames[i].n)])
    ELSE out
StreamStep(numbers, row, stream) ==
    IF row.stream = stream THEN Append(numbers, row.n) ELSE numbers

\* Each loop of the model is the recursive function its definition means.
LEMMA ScanLoop ==
    ASSUME NEW T, NEW s \in Seq(T)
    PROVE  /\ Media!Scan(s)[0] = Media!NothingSeen
           /\ \A k \in 0..(Len(s) - 1) : Media!Scan(s)[k + 1] =
                 Media!Seen(Media!Scan(s)[k], k + 1, s[k + 1])
<1> DEFINE Op(k, e) == Media!Seen(e, k, s[k])
           Is(f, m) == f = [k \in 0..m |-> IF k = 0 THEN Media!NothingSeen ELSE Op(k, f[k - 1])]
           P(m) == \E f : Is(f, m)
           S == {m \in Nat : P(m)}
<1> HIDE DEF Op, P
<1>1. P(0)
  <2>1. Is([k \in 0..0 |-> Media!NothingSeen], 0)
    OBVIOUS
  <2> QED BY <2>1 DEF P
<1>2. ASSUME NEW m \in Nat, P(m) PROVE P(m + 1)
  <2>1. PICK f : Is(f, m)
    BY <1>2 DEF P
  <2> DEFINE g == [k \in 0..(m + 1) |-> IF k <= m THEN f[k] ELSE Op(m + 1, f[m])]
  <2>2. \A k \in 0..(m + 1) : g[k] = IF k = 0 THEN Media!NothingSeen ELSE Op(k, g[k - 1])
    BY <2>1
  <2>3. Is(g, m + 1)
    BY <2>2
  <2> QED BY <2>3 DEF P
<1>3. 0 \in S /\ \A m \in Nat : m \in S => m + 1 \in S
  BY <1>1, <1>2
<1>4. Len(s) \in S
  <2> HIDE DEF S
  <2> QED BY <1>3, SetInduction
<1> DEFINE R == CHOOSE f : Is(f, Len(s))
<1>5. Is(R, Len(s))
  BY <1>4, Zenon DEF P
<1>6. Media!Scan(s) = R
  BY DEF Media!Scan, Op
<1> HIDE DEF R
<1>7. R[0] = Media!NothingSeen /\ \A k \in 0..(Len(s) - 1) : R[k + 1] = Op(k + 1, R[k])
  BY <1>5
<1>8. R[0] = Media!NothingSeen /\ \A k \in 0..(Len(s) - 1) : R[k + 1] = Media!Seen(R[k], k + 1, s[k + 1])
  BY <1>7, Zenon DEF Op
<1> QED
  BY <1>6, <1>8, Zenon

LEMMA EndsLoop ==
    ASSUME NEW T, NEW infos \in Seq(T)
    PROVE  /\ Media!Ends(infos)[0] = 0
           /\ \A k \in 0..(Len(infos) - 1) : Media!Ends(infos)[k + 1] =
                 Media!Ends(infos)[k] + infos[k + 1].size
<1> DEFINE Op(k, e) == e + infos[k].size
           Is(f, m) == f = [k \in 0..m |-> IF k = 0 THEN 0 ELSE Op(k, f[k - 1])]
           P(m) == \E f : Is(f, m)
           S == {m \in Nat : P(m)}
<1> HIDE DEF Op, P
<1>1. P(0)
  <2>1. Is([k \in 0..0 |-> 0], 0)
    OBVIOUS
  <2> QED BY <2>1 DEF P
<1>2. ASSUME NEW m \in Nat, P(m) PROVE P(m + 1)
  <2>1. PICK f : Is(f, m)
    BY <1>2 DEF P
  <2> DEFINE g == [k \in 0..(m + 1) |-> IF k <= m THEN f[k] ELSE Op(m + 1, f[m])]
  <2>2. \A k \in 0..(m + 1) : g[k] = IF k = 0 THEN 0 ELSE Op(k, g[k - 1])
    BY <2>1
  <2>3. Is(g, m + 1)
    BY <2>2
  <2> QED BY <2>3 DEF P
<1>3. 0 \in S /\ \A m \in Nat : m \in S => m + 1 \in S
  BY <1>1, <1>2
<1>4. Len(infos) \in S
  <2> HIDE DEF S
  <2> QED BY <1>3, SetInduction
<1> DEFINE R == CHOOSE f : Is(f, Len(infos))
<1>5. Is(R, Len(infos))
  BY <1>4, Zenon DEF P
<1>6. Media!Ends(infos) = R
  BY DEF Media!Ends, Op
<1> HIDE DEF R
<1>7. R[0] = 0 /\ \A k \in 0..(Len(infos) - 1) : R[k + 1] = Op(k + 1, R[k])
  BY <1>5
<1>8. R[0] = 0 /\ \A k \in 0..(Len(infos) - 1) : R[k + 1] = R[k] + infos[k + 1].size
  BY <1>7, Zenon DEF Op
<1> QED
  BY <1>6, <1>8, Zenon

LEMMA FlushLoop ==
    ASSUME NEW T, NEW r, r.infos \in Seq(T)
    PROVE  /\ Media!FlushFirst(r)[0] = Media!NothingWritten
           /\ \A k \in 0..(Len(r.infos) - 1) : Media!FlushFirst(r)[k + 1] =
                 FlushStep(Media!FlushFirst(r)[k], r, k + 1)
<1> DEFINE Op(k, e) == FlushStep(e, r, k)
           Is(f, m) == f = [k \in 0..m |-> IF k = 0 THEN Media!NothingWritten ELSE Op(k, f[k - 1])]
           P(m) == \E f : Is(f, m)
           S == {m \in Nat : P(m)}
<1> HIDE DEF Op, P
<1>1. P(0)
  <2>1. Is([k \in 0..0 |-> Media!NothingWritten], 0)
    OBVIOUS
  <2> QED BY <2>1 DEF P
<1>2. ASSUME NEW m \in Nat, P(m) PROVE P(m + 1)
  <2>1. PICK f : Is(f, m)
    BY <1>2 DEF P
  <2> DEFINE g == [k \in 0..(m + 1) |-> IF k <= m THEN f[k] ELSE Op(m + 1, f[m])]
  <2>2. \A k \in 0..(m + 1) : g[k] = IF k = 0 THEN Media!NothingWritten ELSE Op(k, g[k - 1])
    BY <2>1
  <2>3. Is(g, m + 1)
    BY <2>2
  <2> QED BY <2>3 DEF P
<1>3. 0 \in S /\ \A m \in Nat : m \in S => m + 1 \in S
  BY <1>1, <1>2
<1>4. Len(r.infos) \in S
  <2> HIDE DEF S
  <2> QED BY <1>3, SetInduction
<1> DEFINE R == CHOOSE f : Is(f, Len(r.infos))
<1>5. Is(R, Len(r.infos))
  BY <1>4, Zenon DEF P
<1>6. Media!FlushFirst(r) = R
  BY DEF Media!FlushFirst, FlushStep, Op
<1> HIDE DEF R
<1>7. R[0] = Media!NothingWritten /\ \A k \in 0..(Len(r.infos) - 1) : R[k + 1] = Op(k + 1, R[k])
  BY <1>5
<1>8. R[0] = Media!NothingWritten /\ \A k \in 0..(Len(r.infos) - 1) : R[k + 1] = FlushStep(R[k], r, k + 1)
  BY <1>7, Zenon DEF Op
<1> QED
  BY <1>6, <1>8, Zenon

Merging(f, recorded) ==
    /\ f[0] = <<>>
    /\ \A k \in 0..(Len(mediaFrames) - 1) : f[k + 1] = MergeStep(f[k], k + 1, recorded)
    /\ Media!Merged(recorded) = f[Len(mediaFrames)]

LEMMA MergingLoop ==
    ASSUME NEW T, NEW recorded, mediaFrames \in Seq(T)
    PROVE  \E f : Merging(f, recorded)
<1> DEFINE Op(k, e) == MergeStep(e, k, recorded)
           Is(f, m) == f = [k \in 0..m |-> IF k = 0 THEN <<>> ELSE Op(k, f[k - 1])]
           P(m) == \E f : Is(f, m)
           S == {m \in Nat : P(m)}
<1> HIDE DEF Op, P
<1>1. P(0)
  <2>1. Is([k \in 0..0 |-> <<>>], 0)
    OBVIOUS
  <2> QED BY <2>1 DEF P
<1>2. ASSUME NEW m \in Nat, P(m) PROVE P(m + 1)
  <2>1. PICK f : Is(f, m)
    BY <1>2 DEF P
  <2> DEFINE g == [k \in 0..(m + 1) |-> IF k <= m THEN f[k] ELSE Op(m + 1, f[m])]
  <2>2. \A k \in 0..(m + 1) : g[k] = IF k = 0 THEN <<>> ELSE Op(k, g[k - 1])
    BY <2>1
  <2>3. Is(g, m + 1)
    BY <2>2
  <2> QED BY <2>3 DEF P
<1>3. 0 \in S /\ \A m \in Nat : m \in S => m + 1 \in S
  BY <1>1, <1>2
<1>4. Len(mediaFrames) \in S
  <2> HIDE DEF S
  <2> QED BY <1>3, SetInduction
<1> DEFINE R == CHOOSE f : Is(f, Len(mediaFrames))
<1>5. Is(R, Len(mediaFrames))
  BY <1>4, Zenon DEF P
<1>6. Media!Merged(recorded) = R[Len(mediaFrames)]
  BY DEF Media!Merged, MergeStep, Op
<1> HIDE DEF R
<1>7. R[0] = <<>> /\ \A k \in 0..(Len(mediaFrames) - 1) : R[k + 1] = Op(k + 1, R[k])
  BY <1>5
<1>8. Merging(R, recorded)
  BY <1>6, <1>7, Zenon DEF Op, Merging
<1> QED
  BY <1>8

Joining(f, parts) ==
    /\ f[0] = <<>>
    /\ \A k \in 0..(Len(parts) - 1) : f[k + 1] = f[k] \o parts[k + 1]
    /\ Media!Joined(parts) = f[Len(parts)]

LEMMA JoiningLoop ==
    ASSUME NEW T, NEW parts \in Seq(T)
    PROVE  \E f : Joining(f, parts)
<1> DEFINE Op(k, e) == e \o parts[k]
           Is(f, m) == f = [k \in 0..m |-> IF k = 0 THEN <<>> ELSE Op(k, f[k - 1])]
           P(m) == \E f : Is(f, m)
           S == {m \in Nat : P(m)}
<1> HIDE DEF Op, P
<1>1. P(0)
  <2>1. Is([k \in 0..0 |-> <<>>], 0)
    OBVIOUS
  <2> QED BY <2>1 DEF P
<1>2. ASSUME NEW m \in Nat, P(m) PROVE P(m + 1)
  <2>1. PICK f : Is(f, m)
    BY <1>2 DEF P
  <2> DEFINE g == [k \in 0..(m + 1) |-> IF k <= m THEN f[k] ELSE Op(m + 1, f[m])]
  <2>2. \A k \in 0..(m + 1) : g[k] = IF k = 0 THEN <<>> ELSE Op(k, g[k - 1])
    BY <2>1
  <2>3. Is(g, m + 1)
    BY <2>2
  <2> QED BY <2>3 DEF P
<1>3. 0 \in S /\ \A m \in Nat : m \in S => m + 1 \in S
  BY <1>1, <1>2
<1>4. Len(parts) \in S
  <2> HIDE DEF S
  <2> QED BY <1>3, SetInduction
<1> DEFINE R == CHOOSE f : Is(f, Len(parts))
<1>5. Is(R, Len(parts))
  BY <1>4, Zenon DEF P
<1>6. Media!Joined(parts) = R[Len(parts)]
  BY DEF Media!Joined, Op
<1> HIDE DEF R
<1>7. R[0] = <<>> /\ \A k \in 0..(Len(parts) - 1) : R[k + 1] = Op(k + 1, R[k])
  BY <1>5
<1>8. Joining(R, parts)
  BY <1>6, <1>7, Zenon DEF Op, Joining
<1> QED
  BY <1>8

Streaming(f, table, stream) ==
    /\ f[0] = <<>>
    /\ \A k \in 0..(Len(table) - 1) : f[k + 1] = StreamStep(f[k], table[k + 1], stream)
    /\ Media!Streamed(table, stream) = f[Len(table)]

LEMMA StreamingLoop ==
    ASSUME NEW T, NEW table \in Seq(T), NEW stream
    PROVE  \E f : Streaming(f, table, stream)
<1> DEFINE Op(k, e) == StreamStep(e, table[k], stream)
           Is(f, m) == f = [k \in 0..m |-> IF k = 0 THEN <<>> ELSE Op(k, f[k - 1])]
           P(m) == \E f : Is(f, m)
           S == {m \in Nat : P(m)}
<1> HIDE DEF Op, P
<1>1. P(0)
  <2>1. Is([k \in 0..0 |-> <<>>], 0)
    OBVIOUS
  <2> QED BY <2>1 DEF P
<1>2. ASSUME NEW m \in Nat, P(m) PROVE P(m + 1)
  <2>1. PICK f : Is(f, m)
    BY <1>2 DEF P
  <2> DEFINE g == [k \in 0..(m + 1) |-> IF k <= m THEN f[k] ELSE Op(m + 1, f[m])]
  <2>2. \A k \in 0..(m + 1) : g[k] = IF k = 0 THEN <<>> ELSE Op(k, g[k - 1])
    BY <2>1
  <2>3. Is(g, m + 1)
    BY <2>2
  <2> QED BY <2>3 DEF P
<1>3. 0 \in S /\ \A m \in Nat : m \in S => m + 1 \in S
  BY <1>1, <1>2
<1>4. Len(table) \in S
  <2> HIDE DEF S
  <2> QED BY <1>3, SetInduction
<1> DEFINE R == CHOOSE f : Is(f, Len(table))
<1>5. Is(R, Len(table))
  BY <1>4, Zenon DEF P
<1>6. Media!Streamed(table, stream) = R[Len(table)]
  BY DEF Media!Streamed, StreamStep, Op
<1> HIDE DEF R
<1>7. R[0] = <<>> /\ \A k \in 0..(Len(table) - 1) : R[k + 1] = Op(k + 1, R[k])
  BY <1>5
<1>8. Streaming(R, table, stream)
  BY <1>6, <1>7, Zenon DEF Op, Streaming
<1> QED
  BY <1>8
-----------------------------------------------------------------------------
\* Where a stream can be decoded

\* Parameter sets at a, an IDR at j and no picture nor further SPS between them.
Start(s, a, j) ==
    /\ a \in 1..Len(s) /\ j \in (a + 1)..Len(s) /\ s[a] = "sps" /\ s[j] = "idr"
    /\ \A k \in (a + 1)..(j - 1) : s[k] \notin {"sps", "idr", "p"}
    /\ \E k \in (a + 1)..(j - 1) : s[k] = "pps"

\* What the first i NAL units have shown.
ScanRight(s, i, st) ==
    /\ st.at \in Nat /\ st.pps \in BOOLEAN /\ st.found \in Nat
    /\ st.found > 0 => \E j \in 1..i : Start(s, st.found, j)
    /\ st.found = 0 /\ st.at > 0 =>
          /\ st.at <= i /\ s[st.at] = "sps"
          /\ \A k \in (st.at + 1)..i : s[k] \notin {"sps", "idr", "p"}
          /\ st.pps => \E k \in (st.at + 1)..i : s[k] = "pps"
    /\ st.found = 0 /\ st.at = 0 => ~st.pps

\* One NAL unit keeps what the scan knows.
LEMMA ScanStep ==
    ASSUME NEW T, NEW s \in Seq(T), NEW i \in 0..(Len(s) - 1), NEW st, ScanRight(s, i, st)
    PROVE  ScanRight(s, i + 1, Media!Seen(st, i + 1, s[i + 1]))
<1> DEFINE nal == s[i + 1]
           next == Media!Seen(st, i + 1, nal)
           a == st.at
<1> SUFFICES ScanRight(s, i + 1, next)
  OBVIOUS
<1>1. Len(s) \in Nat /\ i \in Nat /\ i + 1 \in 1..Len(s)
  OBVIOUS
<1>2. a \in Nat /\ st.pps \in BOOLEAN /\ st.found \in Nat
  BY DEF ScanRight
<1>3. CASE st.found > 0
  <2>1. next = st
    BY <1>3 DEF Media!Seen
  <2>2. PICK j \in 1..i : Start(s, st.found, j)
    BY <1>3 DEF ScanRight
  <2>3. j \in 1..(i + 1)
    BY <1>1, <2>2
  <2> QED BY <1>3, <2>1, <2>2, <2>3 DEF ScanRight
<1>4. CASE st.found = 0 /\ nal = "sps"
  <2>1. next.at = i + 1 /\ ~next.pps /\ next.pps \in BOOLEAN /\ next.found = 0
    BY <1>4 DEF Media!Seen
  <2> HIDE DEF next
  <2> QED BY <1>1, <1>4, <2>1 DEF ScanRight
<1>5. CASE st.found = 0 /\ nal = "pps" /\ a > 0
  <2>0. next = [at |-> a, pps |-> TRUE, found |-> 0]
    BY <1>5 DEF Media!Seen
  <2> HIDE DEF next
  <2>1. next.at = a /\ next.pps /\ next.pps \in BOOLEAN /\ next.found = 0
    BY <2>0
  <2>2. a <= i /\ s[a] = "sps" /\ \A k \in (a + 1)..i : s[k] \notin {"sps", "idr", "p"}
    BY <1>5 DEF ScanRight
  <2>3. \A k \in (a + 1)..(i + 1) : s[k] \notin {"sps", "idr", "p"}
    BY <1>1, <1>2, <1>5, <2>2
  <2>4. i + 1 \in (a + 1)..(i + 1)
    BY <1>1, <1>2, <2>2
  <2> QED BY <1>1, <1>2, <1>5, <2>1, <2>2, <2>3, <2>4 DEF ScanRight
<1>6. CASE st.found = 0 /\ nal = "idr" /\ st.pps
  <2>1. next.at = a /\ next.pps /\ next.pps \in BOOLEAN /\ next.found = a
    BY <1>6 DEF Media!Seen
  <2> HIDE DEF next
  <2>2. a > 0
    BY <1>2, <1>6 DEF ScanRight
  <2>3. /\ a <= i /\ s[a] = "sps" /\ \A k \in (a + 1)..i : s[k] \notin {"sps", "idr", "p"}
        /\ \E k \in (a + 1)..i : s[k] = "pps"
    BY <1>6, <2>2 DEF ScanRight
  <2>4. a \in 1..Len(s) /\ i + 1 \in (a + 1)..Len(s) /\ (i + 1) - 1 = i
    BY <1>1, <1>2, <2>2, <2>3
  <2>5. Start(s, a, i + 1)
    BY <1>6, <2>3, <2>4 DEF Start
  <2> QED BY <1>1, <1>2, <2>1, <2>2, <2>5 DEF ScanRight
<1>7. CASE st.found = 0 /\ nal # "sps" /\ ~(nal = "pps" /\ a > 0) /\ ~(nal = "idr" /\ st.pps) /\ nal \in Media!Vcl
  <2>1. next = Media!NothingSeen
    BY <1>7 DEF Media!Seen
  <2> HIDE DEF next
  <2>2. next.at = 0 /\ ~next.pps /\ next.pps \in BOOLEAN /\ next.found = 0
    BY <2>1 DEF Media!NothingSeen
  <2> HIDE DEF next
  <2> QED BY <2>2 DEF ScanRight
<1>8. CASE st.found = 0 /\ nal # "sps" /\ ~(nal = "pps" /\ a > 0) /\ nal \notin Media!Vcl
  <2>1. next = st
    BY <1>8 DEF Media!Seen, Media!Vcl
  <2>2. nal \notin {"sps", "idr", "p"}
    BY <1>8 DEF Media!Vcl
  <2>3. CASE a > 0
    <3>1. /\ a <= i /\ s[a] = "sps" /\ \A k \in (a + 1)..i : s[k] \notin {"sps", "idr", "p"}
          /\ st.pps => \E k \in (a + 1)..i : s[k] = "pps"
      BY <1>8, <2>3 DEF ScanRight
    <3>2. \A k \in (a + 1)..(i + 1) : s[k] \notin {"sps", "idr", "p"}
      BY <1>1, <1>2, <2>2, <3>1
    <3>3. st.pps => \E k \in (a + 1)..(i + 1) : s[k] = "pps"
      BY <1>1, <1>2, <3>1
    <3> QED BY <1>1, <1>2, <1>8, <2>1, <2>3, <3>1, <3>2, <3>3 DEF ScanRight
  <2>4. CASE a = 0
    BY <1>8, <2>1, <2>4 DEF ScanRight
  <2> QED BY <1>2, <2>3, <2>4
<1> QED
  BY <1>2, <1>3, <1>4, <1>5, <1>6, <1>7, <1>8 DEF Media!Vcl

\* h264_decodable_start_offset finds parameter sets with an IDR behind them.
LEMMA FoundIsStart ==
    ASSUME NEW T, NEW s \in Seq(T), Media!DecodableStart(s) # 0
    PROVE  \E j \in 1..Len(s) : Start(s, Media!DecodableStart(s), j)
<1> DEFINE S == {i \in 0..Len(s) : ScanRight(s, i, Media!Scan(s)[i])}
<1>1. 0 \in S
  <2>1. ScanRight(s, 0, Media!NothingSeen)
    BY DEF ScanRight, Media!NothingSeen
  <2> QED BY <2>1, ScanLoop
<1>2. ASSUME NEW i \in 0..(Len(s) - 1), i \in S PROVE i + 1 \in S
  <2>1. Media!Scan(s)[i + 1] = Media!Seen(Media!Scan(s)[i], i + 1, s[i + 1])
    BY ScanLoop
  <2>2. ScanRight(s, i + 1, Media!Scan(s)[i + 1])
    BY <1>2, <2>1, ScanStep
  <2> QED BY <2>2
<1>3. Len(s) \in S
  <2> HIDE DEF S
  <2>1. Len(s) \in Nat /\ Len(s) \in 0..Len(s)
    OBVIOUS
  <2> QED BY <1>1, <1>2, <2>1, UpTo
<1>4. ScanRight(s, Len(s), Media!Scan(s)[Len(s)])
  BY <1>3
<1> QED
  BY <1>4 DEF ScanRight, Media!DecodableStart

\* ... and finds them at once where they are the first.
LEMMA StartIsFound ==
    ASSUME NEW T, NEW s \in Seq(T), NEW j, Start(s, 1, j)
    PROVE  Media!DecodableStart(s) = 1
<1> DEFINE F(i) == Media!Scan(s)[i]
           Right(i, st) == /\ i >= j => st.found = 1
                           /\ i \in 1..(j - 1) => st.found = 0 /\ st.at = 1
                                                  /\ ((\E k \in 2..i : s[k] = "pps") => st.pps)
           S == {i \in 0..Len(s) : Right(i, F(i))}
<1>1. Len(s) \in Nat /\ j \in 2..Len(s) /\ s[1] = "sps" /\ s[j] = "idr"
      /\ (\A k \in 2..(j - 1) : s[k] \notin {"sps", "idr", "p"}) /\ (\E k \in 2..(j - 1) : s[k] = "pps")
  BY DEF Start
<1>2. 0 \in S
  BY <1>1
<1>3. ASSUME NEW i \in 0..(Len(s) - 1), i \in S PROVE i + 1 \in S
  <2> DEFINE st == F(i)
             next == Media!Seen(st, i + 1, s[i + 1])
  <2>1. F(i + 1) = next
    BY ScanLoop
  <2>2. Right(i, st)
    BY <1>3
  <2>3. i \in Nat /\ i + 1 \in 0..Len(s)
    BY <1>1
  <2> HIDE DEF F
  <2>4. CASE i = 0
    <3>1. st = Media!NothingSeen
      BY <2>4, ScanLoop DEF F
    <3> HIDE DEF st
    <3>2. next = [at |-> 1, pps |-> FALSE, found |-> 0]
      BY <1>1, <2>4, <3>1 DEF Media!Seen, Media!NothingSeen
    <3>3. Right(i + 1, next)
      BY <1>1, <2>4, <3>2
    <3> QED BY <2>1, <2>3, <3>3
  <2>5. CASE i \in 1..(j - 1) /\ i + 1 # j
    <3>1. i + 1 \in 2..(j - 1) /\ st.found = 0 /\ st.at = 1 /\ ((\E k \in 2..i : s[k] = "pps") => st.pps)
      BY <1>1, <2>2, <2>5
    <3>2. s[i + 1] \notin {"sps", "idr", "p"}
      BY <1>1, <3>1
    <3>3. CASE s[i + 1] = "pps"
      <4>1. st.at > 0
        BY <3>1
      <4>2. next.at = 1 /\ next.pps /\ next.found = 0
        BY <3>1, <3>3, <4>1 DEF Media!Seen
      <4> HIDE DEF next
      <4> QED BY <1>1, <2>1, <2>3, <3>1, <4>2
    <3>4. CASE s[i + 1] # "pps"
      <4>1. next = st
        BY <3>1, <3>2, <3>4 DEF Media!Seen, Media!Vcl
      <4>2. (\E k \in 2..(i + 1) : s[k] = "pps") => \E k \in 2..i : s[k] = "pps"
        BY <2>3, <3>4
      <4>3. Right(i + 1, st)
        <5> HIDE DEF st
        <5> QED BY <1>1, <2>3, <3>1, <4>2
      <4> QED BY <2>1, <2>3, <4>1, <4>3
    <3> QED BY <3>3, <3>4
  <2>6. CASE i \in 1..(j - 1) /\ i + 1 = j
    <3>1. st.found = 0 /\ st.at = 1 /\ st.pps
      BY <1>1, <2>2, <2>6
    <3>2. next = [at |-> 1, pps |-> TRUE, found |-> 1]
      BY <1>1, <2>6, <3>1 DEF Media!Seen
    <3> QED BY <1>1, <2>1, <2>3, <2>6, <3>2
  <2>7. CASE i >= j
    <3>1. st.found = 1
      BY <2>2, <2>7
    <3>2. next = st
      BY <3>1 DEF Media!Seen
    <3>3. Right(i + 1, st)
      <4> HIDE DEF st
      <4> QED BY <1>1, <2>3, <2>7, <3>1
    <3> QED BY <2>1, <2>3, <3>2, <3>3
  <2>8. i = 0 \/ (i \in 1..(j - 1) /\ i + 1 # j) \/ (i \in 1..(j - 1) /\ i + 1 = j) \/ i >= j
    BY <1>1, <2>3
  <2> HIDE DEF S
  <2> QED BY <2>4, <2>5, <2>6, <2>7, <2>8
<1>4. Len(s) \in S
  <2> HIDE DEF S
  <2>1. Len(s) \in 0..Len(s)
    BY <1>1
  <2> QED BY <1>1, <1>2, <1>3, <2>1, UpTo
<1>5. F(Len(s)).found = 1
  BY <1>1, <1>4
<1> QED
  BY <1>5 DEF Media!DecodableStart

-----------------------------------------------------------------------------
\* Packets held back

\* A packet held back.
InfoSet == [n : Nat, size : Nat, vcl : BOOLEAN]

\* The packets held back end one behind the other.
LEMMA EndsGrow ==
    ASSUME NEW infos \in Seq(InfoSet)
    PROVE  /\ Media!Ends(infos)[0] = 0
           /\ \A k \in 0..Len(infos) : Media!Ends(infos)[k] \in Nat
           /\ \A k \in 0..(Len(infos) - 1) : Media!Ends(infos)[k + 1] = Media!Ends(infos)[k] + infos[k + 1].size
           /\ \A k, l \in 0..Len(infos) : k <= l => Media!Ends(infos)[k] <= Media!Ends(infos)[l]
<1> DEFINE E == Media!Ends(infos)
           L == Len(infos)
<1>1. E[0] = 0 /\ \A k \in 0..(L - 1) : E[k + 1] = E[k] + infos[k + 1].size
  BY EndsLoop
<1>2. L \in Nat /\ \A k \in 0..(L - 1) : infos[k + 1].size \in Nat
  <2>1. \A k \in 0..(L - 1) : infos[k + 1] \in InfoSet
    OBVIOUS
  <2> QED BY <2>1 DEF InfoSet
<1> HIDE DEF E, L
<1>3. \A k \in 0..L : E[k] \in Nat
  <2> DEFINE S == {k \in 0..L : E[k] \in Nat}
  <2>1. 0 \in S
    BY <1>1, <1>2
  <2>2. \A k \in 0..(L - 1) : k \in S => k + 1 \in S
    BY <1>1, <1>2
  <2>3. \A k \in 0..L : k \in S
    <3> HIDE DEF S
    <3> QED BY <1>2, <2>1, <2>2, UpTo
  <2> QED BY <2>3
<1>4. ASSUME NEW k \in 0..L PROVE \A l \in 0..L : k <= l => E[k] <= E[l]
  <2> DEFINE S == {l \in 0..L : k <= l => E[k] <= E[l]}
  <2>1. 0 \in S
    BY <1>2, <1>3
  <2>2. ASSUME NEW l \in 0..(L - 1), l \in S PROVE l + 1 \in S
    <3>1. l + 1 \in 0..L /\ E[l] \in Nat /\ E[l + 1] \in Nat /\ E[k] \in Nat /\ E[l] <= E[l + 1]
      BY <1>1, <1>2, <1>3
    <3>2. CASE k <= l
      BY <2>2, <3>1, <3>2
    <3>3. CASE k = l + 1
      BY <3>1, <3>3
    <3>4. CASE k > l + 1
      BY <3>1, <3>4
    <3> QED BY <3>2, <3>3, <3>4
  <2>3. \A l \in 0..L : l \in S
    <3> HIDE DEF S
    <3> QED BY <1>2, <2>1, <2>2, UpTo
  <2> QED BY <2>3
<1> QED
  BY <1>1, <1>3, <1>4 DEF E, L

\* One packet more ends behind the others.
LEMMA EndsOfMore ==
    ASSUME NEW infos \in Seq(InfoSet), NEW info \in InfoSet
    PROVE  LET more == Append(infos, info)
           IN  /\ more \in Seq(InfoSet) /\ Len(more) = Len(infos) + 1
               /\ \A k \in 1..Len(infos) : more[k] = infos[k]
               /\ more[Len(infos) + 1] = info
               /\ \A k \in 0..Len(infos) : Media!Ends(more)[k] = Media!Ends(infos)[k]
               /\ Media!Ends(more)[Len(infos) + 1] = Media!Ends(infos)[Len(infos)] + info.size
<1> DEFINE more == Append(infos, info)
           E == Media!Ends(infos)
           F == Media!Ends(more)
           L == Len(infos)
<1>1. more \in Seq(InfoSet) /\ Len(more) = L + 1 /\ (\A k \in 1..L : more[k] = infos[k]) /\ more[L + 1] = info
      /\ L \in Nat
  OBVIOUS
<1> HIDE DEF more
<1>2. E[0] = 0 /\ \A k \in 0..(L - 1) : E[k + 1] = E[k] + infos[k + 1].size
  BY EndsGrow
<1>3. F[0] = 0 /\ \A k \in 0..L : F[k + 1] = F[k] + more[k + 1].size
  <2>1. Len(more) - 1 = L
    BY <1>1
  <2> QED BY <1>1, <2>1, EndsGrow
<1> HIDE DEF E, F, L
<1>4. \A k \in 0..L : F[k] = E[k]
  <2> DEFINE S == {k \in 0..L : F[k] = E[k]}
  <2>1. 0 \in S
    BY <1>1, <1>2, <1>3
  <2>2. ASSUME NEW k \in 0..(L - 1), k \in S PROVE k + 1 \in S
    <3>1. k \in 0..L /\ k + 1 \in 0..L /\ k + 1 \in 1..L
      BY <1>1
    <3>2. more[k + 1] = infos[k + 1]
      BY <1>1, <3>1
    <3> QED BY <1>2, <1>3, <2>2, <3>1, <3>2
  <2>3. \A k \in 0..L : k \in S
    <3> HIDE DEF S
    <3> QED BY <1>1, <2>1, <2>2, UpTo
  <2> QED BY <2>3
<1>5. F[L + 1] = E[L] + info.size
  BY <1>1, <1>3, <1>4
<1> QED
  BY <1>1, <1>4, <1>5 DEF more, E, F, L

\* The packets before the offset go, the one that contains it is shortened.
LEMMA EndsOfTrimmed ==
    ASSUME NEW infos \in Seq(InfoSet), NEW offset \in Nat, offset < Media!Ends(infos)[Len(infos)]
    PROVE  LET g == Media!Gone(infos, offset)
               rest == Media!Trimmed(infos, offset)
           IN  /\ g \in 0..(Len(infos) - 1)
               /\ Media!Ends(infos)[g] <= offset /\ offset < Media!Ends(infos)[g + 1]
               /\ rest \in Seq(InfoSet) /\ Len(rest) = Len(infos) - g
               /\ \A k \in 1..Len(rest) : /\ rest[k].n = infos[g + k].n /\ rest[k].vcl = infos[g + k].vcl
                                          /\ Media!Ends(rest)[k] = Media!Ends(infos)[g + k] - offset
<1> DEFINE g == Media!Gone(infos, offset)
           rest == Media!Trimmed(infos, offset)
           E == Media!Ends(infos)
           F == Media!Ends(rest)
           L == Len(infos)
<1>1. L \in Nat /\ E[0] = 0 /\ (\A k \in 0..L : E[k] \in Nat)
      /\ (\A k \in 0..(L - 1) : E[k + 1] = E[k] + infos[k + 1].size) /\ offset < E[L]
      /\ (\A k, l \in 0..L : k <= l => E[k] <= E[l])
  BY EndsGrow
<1>2. \A k \in 1..L : infos[k] \in InfoSet
  OBVIOUS
<1> DEFINE Here(k) == E[k] <= offset /\ (k = L \/ E[k + 1] > offset)
<1>3. g = CHOOSE k \in 0..L : Here(k)
  BY DEF Media!Gone
<1> HIDE DEF E, F, L, g
<1>4. \E k \in 0..L : Here(k)
  <2> DEFINE S == {k \in 0..L : E[k] > offset}
  <2>1. S \in SUBSET Nat /\ S # {}
    <3>1. L \in S
      BY <1>1
    <3>2. S \in SUBSET Nat
      BY <1>1
    <3> QED BY <3>1, <3>2
  <2>2. PICK m \in S : \A k \in S : m <= k
    BY <2>1, LeastNumber
  <2>3. m \in 1..L /\ m - 1 \in 0..L /\ m - 1 \notin S /\ E[m] > offset
    BY <1>1, <2>2
  <2>4. E[m - 1] <= offset /\ (m - 1) + 1 = m
    BY <1>1, <2>3
  <2>5. Here(m - 1)
    BY <2>3, <2>4
  <2> QED BY <2>3, <2>5
<1>5. g \in 0..L /\ Here(g)
  BY <1>3, <1>4
<1>6. g \in 0..(L - 1) /\ E[g] <= offset /\ offset < E[g + 1]
  BY <1>1, <1>5
<1> HIDE DEF Here
<1> DEFINE At(k) == [n |-> infos[g + k].n, vcl |-> infos[g + k].vcl,
                     size |-> IF k = 1 THEN E[g + 1] - offset ELSE infos[g + k].size]
<1>7. rest = [k \in 1..(L - g) |-> At(k)]
  BY DEF Media!Trimmed, g, E, L
<1>8. ASSUME NEW k \in 1..(L - g) PROVE At(k) \in InfoSet
  <2>1. g + k \in 1..L /\ g + 1 \in 0..L
    BY <1>1, <1>6
  <2>2. infos[g + k] \in InfoSet
    BY <1>2, <2>1
  <2>3. E[g + 1] - offset \in Nat
    BY <1>1, <1>6, <2>1
  <2> QED BY <2>2, <2>3 DEF InfoSet
<1>9. rest \in Seq(InfoSet) /\ Len(rest) = L - g /\ \A k \in 1..(L - g) : rest[k] = At(k)
  <2> HIDE DEF At
  <2>1. L - g \in Nat
    BY <1>1, <1>6
  <2> QED BY <1>7, <1>8, <2>1
<1>10. \A k \in 1..(L - g) : /\ rest[k].n = infos[g + k].n /\ rest[k].vcl = infos[g + k].vcl
                             /\ rest[k].size = IF k = 1 THEN E[g + 1] - offset ELSE infos[g + k].size
  BY <1>9
<1> HIDE DEF rest, At
<1>11. F[0] = 0 /\ \A k \in 0..(L - g - 1) : F[k + 1] = F[k] + rest[k + 1].size
  <2>1. Len(rest) - 1 = L - g - 1
    BY <1>9
  <2> QED BY <1>9, <2>1, EndsGrow DEF F
<1>12. \A k \in 0..(L - g) : k # 0 => F[k] = E[g + k] - offset
  <2> DEFINE S == {k \in 0..(L - g) : k # 0 => F[k] = E[g + k] - offset}
  <2>1. 0 \in S /\ L - g \in Nat
    BY <1>1, <1>6
  <2>2. ASSUME NEW k \in 0..(L - g - 1), k \in S PROVE k + 1 \in S
    <3>1. F[k + 1] = F[k] + rest[k + 1].size /\ k + 1 \in 1..(L - g) /\ g + (k + 1) = (g + k) + 1
          /\ g + k \in 0..(L - 1)
      BY <1>1, <1>6, <1>11
    <3>2. CASE k = 0
      <4>1. rest[1].size = E[g + 1] - offset
        BY <1>10, <3>1, <3>2
      <4>2. E[g + 1] - offset \in Int
        <5>1. g + 1 \in 0..L
          BY <1>1, <1>6
        <5> QED BY <1>1, <5>1
      <4>3. k + 1 = 1 /\ g + (k + 1) = g + 1 /\ F[k] = 0
        BY <1>6, <1>11, <3>2
      <4>4. F[k + 1] = E[g + (k + 1)] - offset
        BY <3>1, <4>1, <4>2, <4>3
      <4> QED BY <3>1, <4>4
    <3>3. CASE k # 0
      <4>1. rest[k + 1].size = infos[g + (k + 1)].size
        BY <1>10, <3>1, <3>3
      <4>2. E[(g + k) + 1] = E[g + k] + infos[(g + k) + 1].size
        BY <1>1, <3>1
      <4>3. E[g + k] \in Nat /\ infos[(g + k) + 1].size \in Nat
        BY <1>1, <1>2, <3>1 DEF InfoSet
      <4>4. F[k] = E[g + k] - offset
        BY <2>2, <3>3
      <4> QED BY <3>1, <4>1, <4>2, <4>3, <4>4
    <3> QED BY <3>2, <3>3
  <2>3. \A k \in 0..(L - g) : k \in S
    <3> HIDE DEF S
    <3> QED BY <2>1, <2>2, UpTo
  <2> QED BY <2>3
<1>13. \A k \in 1..(L - g) : F[k] = E[g + k] - offset
  <2>1. \A k \in 1..(L - g) : k \in 0..(L - g) /\ k # 0
    BY <1>1, <1>6
  <2> QED BY <1>12, <2>1
<1> QED
  BY <1>6, <1>9, <1>10, <1>13 DEF g, rest, E, F, L

\* The NAL units of all payloads.
NalUnits == UNION {{p[i] : i \in DOMAIN p} : p \in MediaPayloads}

\* A payload: parameter sets and the like first, pictures behind them.
PayloadRight(q) ==
    /\ q \in Seq(NalUnits)
    /\ \A k, l \in 1..Len(q) : k <= l /\ q[k] \in Media!Vcl => q[l] \in Media!Vcl

\* What a packet has left of p behind a and up to b.
Slice(p, a, b, vcl) ==
    IF vcl THEN /\ a < b /\ p[b] \in Media!Vcl
                /\ \A k, l \in (a + 1)..b : k <= l /\ p[k] \in Media!Vcl => p[l] \in Media!Vcl
    ELSE \A k \in (a + 1)..b : p[k] \notin Media!Vcl
\* What is held back, cut at the ends of its packets.
Sliced(p, infos) ==
    /\ Len(p) = Media!Ends(infos)[Len(infos)]
    /\ \A i \in 1..Len(infos) :
          Slice(p, Media!Ends(infos)[i - 1], Media!Ends(infos)[i], infos[i].vcl)

\* A payload is one slice.
LEMMA PayloadIsSlice ==
    ASSUME NEW q, PayloadRight(q)
    PROVE  Slice(q, 0, Len(q), Media!HasVcl(q))
<1>1. Len(q) \in Nat /\ DOMAIN q = 1..Len(q) /\ 0 + 1 = 1
      /\ \A k, l \in 1..Len(q) : k <= l /\ q[k] \in Media!Vcl => q[l] \in Media!Vcl
  BY DEF PayloadRight
<1>2. CASE Media!HasVcl(q)
  <2>1. PICK i \in 1..Len(q) : q[i] \in Media!Vcl
    BY <1>1, <1>2 DEF Media!HasVcl
  <2>2. Len(q) \in 1..Len(q) /\ i <= Len(q)
    BY <1>1, <2>1
  <2>3. q[Len(q)] \in Media!Vcl
    BY <1>1, <2>1, <2>2
  <2> QED BY <1>1, <1>2, <2>2, <2>3 DEF Slice
<1>3. CASE ~Media!HasVcl(q)
  BY <1>1, <1>3 DEF Slice, Media!HasVcl
<1> QED
  BY <1>2, <1>3

\* A slice is the same slice wherever it stands.
LEMMA SliceMoved ==
    ASSUME NEW p, NEW a \in Nat, NEW b \in Nat, NEW vcl, a <= b, Slice(p, a, b, vcl),
           NEW q, NEW c \in Nat, NEW d \in Nat, d - c = b - a,
           \A k \in (c + 1)..d : q[k] = p[k + (a - c)]
    PROVE  Slice(q, c, d, vcl)
<1>1. \A k \in (c + 1)..d : k + (a - c) \in (a + 1)..b
  OBVIOUS
<1>2. CASE vcl
  <2>1. a < b /\ p[b] \in Media!Vcl
        /\ \A k, l \in (a + 1)..b : k <= l /\ p[k] \in Media!Vcl => p[l] \in Media!Vcl
    BY <1>2 DEF Slice
  <2>2. c < d /\ d \in (c + 1)..d /\ d + (a - c) = b
    BY <2>1
  <2>3. q[d] \in Media!Vcl
    BY <2>1, <2>2
  <2>4. ASSUME NEW k \in (c + 1)..d, NEW l \in (c + 1)..d, k <= l, q[k] \in Media!Vcl
        PROVE  q[l] \in Media!Vcl
    <3> DEFINE kk == k + (a - c)
               ll == l + (a - c)
    <3>1. kk \in (a + 1)..b /\ ll \in (a + 1)..b /\ kk <= ll
      BY <1>1, <2>4
    <3>2. q[k] = p[kk] /\ q[l] = p[ll]
      OBVIOUS
    <3> HIDE DEF kk, ll
    <3> QED BY <2>1, <2>4, <3>1, <3>2
  <2> QED BY <1>2, <2>2, <2>3, <2>4 DEF Slice
<1>3. CASE ~vcl
  <2>1. \A k \in (a + 1)..b : p[k] \notin Media!Vcl
    BY <1>3 DEF Slice
  <2> QED BY <1>1, <1>3, <2>1 DEF Slice
<1> QED
  BY <1>2, <1>3

\* What is behind the beginning of a slice is one.
LEMMA SliceBehind ==
    ASSUME NEW p, NEW a \in Nat, NEW b \in Nat, NEW vcl, Slice(p, a, b, vcl),
           NEW c \in Nat, a <= c, c < b
    PROVE  Slice(p, c, b, vcl)
<1>1. \A k \in (c + 1)..b : k \in (a + 1)..b
  OBVIOUS
<1> QED
  BY <1>1 DEF Slice

\* One packet more.
LEMMA SlicedMore ==
    ASSUME NEW p \in Seq(NalUnits), NEW infos \in Seq(InfoSet), Sliced(p, infos),
           NEW q, PayloadRight(q), NEW n \in Nat
    PROVE  Sliced(p \o q, Append(infos, [n |-> n, size |-> Len(q), vcl |-> Media!HasVcl(q)]))
<1> DEFINE info == [n |-> n, size |-> Len(q), vcl |-> Media!HasVcl(q)]
           more == Append(infos, info)
           r == p \o q
           E == Media!Ends(infos)
           F == Media!Ends(more)
           L == Len(infos)
<1>1. q \in Seq(NalUnits) /\ Len(q) \in Nat /\ Len(p) \in Nat /\ L \in Nat
  BY DEF PayloadRight
<1>2. Len(r) = Len(p) + Len(q) /\ (\A k \in 1..Len(p) : r[k] = p[k])
      /\ (\A k \in 1..Len(q) : r[Len(p) + k] = q[k])
  BY <1>1
<1>3. info \in InfoSet /\ info.size = Len(q) /\ info.vcl = Media!HasVcl(q)
  BY <1>1 DEF InfoSet, Media!HasVcl
<1> HIDE DEF info
<1>4. more \in Seq(InfoSet) /\ Len(more) = L + 1 /\ (\A k \in 1..L : more[k] = infos[k]) /\ more[L + 1] = info
      /\ (\A k \in 0..L : F[k] = E[k]) /\ F[L + 1] = E[L] + info.size
  BY <1>3, EndsOfMore
<1>5. (\A k \in 0..L : E[k] \in Nat) /\ (\A k, l \in 0..L : k <= l => E[k] <= E[l])
  BY EndsGrow
<1>6. Len(p) = E[L] /\ \A i \in 1..L : Slice(p, E[i - 1], E[i], infos[i].vcl)
  BY DEF Sliced
<1> HIDE DEF more, r, E, F, L
<1>7. Len(r) = F[L + 1]
  BY <1>2, <1>3, <1>4, <1>6
<1>8. ASSUME NEW i \in 1..L PROVE Slice(r, F[i - 1], F[i], more[i].vcl)
  <2>1. i \in 0..L /\ i - 1 \in 0..L /\ L \in 0..L
    BY <1>1
  <2>2. E[i - 1] \in Nat /\ E[i] \in Nat /\ E[i - 1] <= E[i] /\ E[i] <= Len(p)
    BY <1>1, <1>5, <1>6, <2>1
  <2>3. F[i - 1] = E[i - 1] /\ F[i] = E[i] /\ more[i] = infos[i]
    BY <1>4, <2>1
  <2> DEFINE a == E[i - 1]
             b == E[i]
  <2>4. \A k \in (a + 1)..b : r[k] = p[k + (a - a)]
    <3>1. \A k \in (a + 1)..b : k \in 1..Len(p) /\ k + (a - a) = k
      BY <1>1, <2>2
    <3> QED BY <1>2, <3>1
  <2>5. Slice(p, a, b, infos[i].vcl)
    BY <1>6
  <2>6. Slice(r, a, b, infos[i].vcl)
    <3>1. a \in Nat /\ b \in Nat /\ a <= b
      BY <2>2
    <3> HIDE DEF a, b
    <3> QED BY <2>4, <2>5, <3>1, SliceMoved
  <2> QED BY <2>3, <2>6
<1>9. Slice(r, F[L], F[L + 1], more[L + 1].vcl)
  <2>1. Slice(q, 0, Len(q), Media!HasVcl(q))
    BY PayloadIsSlice
  <2>2. F[L] = Len(p) /\ F[L + 1] = Len(p) + Len(q) /\ more[L + 1].vcl = Media!HasVcl(q)
    BY <1>1, <1>3, <1>4, <1>6
  <2> DEFINE c == Len(p)
             d == Len(p) + Len(q)
  <2>3. \A k \in (c + 1)..d : r[k] = q[k + (0 - c)]
    <3>1. \A k \in (c + 1)..d : k + (0 - c) \in 1..Len(q) /\ c + (k + (0 - c)) = k
      BY <1>1
    <3> QED BY <1>2, <3>1
  <2>4. Slice(r, c, d, Media!HasVcl(q))
    <3>1. c \in Nat /\ d \in Nat /\ d - c = Len(q) - 0 /\ 0 <= Len(q)
      BY <1>1
    <3> HIDE DEF c, d
    <3> QED BY <1>1, <2>1, <2>3, <3>1, SliceMoved
  <2> QED BY <2>2, <2>4
<1>10. \A i \in 1..Len(more) : Slice(r, F[i - 1], F[i], more[i].vcl)
  <2>1. \A i \in 1..Len(more) : i \in 1..L \/ (i = L + 1 /\ i - 1 = L)
    BY <1>1, <1>4
  <2> QED BY <1>8, <1>9, <2>1
<1>11. Sliced(r, more)
  BY <1>4, <1>7, <1>10 DEF Sliced, F
<1> QED
  BY <1>11 DEF r, more, info

\* What comes before the first s - 1 NAL units goes.
LEMMA SlicedTrimmed ==
    ASSUME NEW p \in Seq(NalUnits), NEW infos \in Seq(InfoSet), Sliced(p, infos), NEW s \in 1..Len(p)
    PROVE  Sliced(SubSeq(p, s, Len(p)), Media!Trimmed(infos, s - 1))
<1> DEFINE offset == s - 1
           rest == Media!Trimmed(infos, offset)
           q == SubSeq(p, s, Len(p))
           g == Media!Gone(infos, offset)
           E == Media!Ends(infos)
           F == Media!Ends(rest)
           L == Len(infos)
<1>1. L \in Nat /\ Len(p) \in Nat /\ offset \in Nat /\ offset < Len(p) /\ s = offset + 1
  OBVIOUS
<1>2. Len(q) = Len(p) - offset /\ \A k \in 1..(Len(p) - offset) : q[k] = p[k + offset]
  OBVIOUS
<1>3. Len(p) = E[L] /\ \A i \in 1..L : Slice(p, E[i - 1], E[i], infos[i].vcl)
  BY DEF Sliced
<1>4. (\A k \in 0..L : E[k] \in Nat) /\ (\A k, l \in 0..L : k <= l => E[k] <= E[l])
  BY EndsGrow
<1>5. /\ g \in 0..(L - 1) /\ E[g] <= offset /\ offset < E[g + 1]
      /\ rest \in Seq(InfoSet) /\ Len(rest) = L - g
      /\ \A k \in 1..(L - g) : rest[k].vcl = infos[g + k].vcl /\ F[k] = E[g + k] - offset
  <2>1. offset < E[L]
    BY <1>1, <1>3
  <2> HIDE DEF offset
  <2> QED BY <1>1, <2>1, EndsOfTrimmed
<1>6. F[0] = 0
  BY <1>5, EndsGrow
<1> HIDE DEF offset, rest, q, g, E, F, L
<1>7. Len(q) = F[Len(rest)]
  <2>1. L - g \in 1..(L - g) /\ g + (L - g) = L
    BY <1>1, <1>5
  <2> QED BY <1>2, <1>3, <1>5, <2>1
<1>8. ASSUME NEW i \in 1..(L - g) PROVE Slice(q, F[i - 1], F[i], rest[i].vcl)
  <2>1. g + i \in 0..L /\ g + i \in 1..L /\ g + i - 1 \in 0..L /\ L \in 0..L /\ (g + i) - 1 = g + i - 1
    BY <1>1, <1>5
  <2> DEFINE b == E[g + i]
             a == E[g + i - 1]
             d == F[i]
             v == infos[g + i].vcl
  <2>2. Slice(p, a, b, v)
    BY <1>3, <2>1
  <2>3. a \in Nat /\ b \in Nat /\ a <= b /\ b <= Len(p)
    BY <1>1, <1>3, <1>4, <2>1
  <2>4. d = b - offset /\ rest[i].vcl = v
    BY <1>5
  <2>5. CASE i = 1
    <3>1. a <= offset /\ offset < b /\ F[i - 1] = 0
      <4>1. g + i = g + 1 /\ g + i - 1 = g /\ i - 1 = 0
        BY <1>5, <2>5
      <4> QED BY <1>5, <1>6, <4>1
    <3> HIDE DEF a, b, d, v
    <3>2. Slice(p, offset, b, v)
      BY <1>1, <2>2, <2>3, <3>1, SliceBehind
    <3>3. d \in Nat /\ d - 0 = b - offset /\ offset <= b /\ 0 \in Nat
      BY <1>1, <2>3, <2>4, <3>1
    <3>4. \A k \in (0 + 1)..d : q[k] = p[k + (offset - 0)]
      <4>1. \A k \in (0 + 1)..d : k \in 1..(Len(p) - offset) /\ k + (offset - 0) = k + offset
        BY <1>1, <2>3, <2>4, <3>1
      <4> QED BY <1>2, <4>1
    <3>5. Slice(q, 0, d, v)
      BY <1>1, <2>3, <3>2, <3>3, <3>4, SliceMoved
    <3> QED BY <2>4, <3>1, <3>5 DEF d
  <2>6. CASE i # 1
    <3> DEFINE c == F[i - 1]
    <3>1. c = a - offset
      <4>1. i - 1 \in 1..(L - g) /\ g + (i - 1) = g + i - 1
        BY <1>1, <1>5, <2>6
      <4> QED BY <1>5, <4>1
    <3>2. offset < a
      <4>1. g + 1 \in 0..L /\ g + 1 <= g + i - 1
        BY <1>1, <1>5, <2>6
      <4>2. E[g + 1] <= a /\ E[g + 1] \in Nat
        BY <1>4, <2>1, <4>1
      <4> QED BY <1>1, <1>5, <2>3, <4>2
    <3> HIDE DEF a, b, c, d, v
    <3>3. c \in Nat /\ d \in Nat /\ d - c = b - a
      BY <1>1, <2>3, <2>4, <3>1, <3>2
    <3>4. \A k \in (c + 1)..d : q[k] = p[k + (a - c)]
      <4>1. \A k \in (c + 1)..d : k \in 1..(Len(p) - offset) /\ k + (a - c) = k + offset
        BY <1>1, <2>3, <2>4, <3>1, <3>2
      <4> QED BY <1>2, <4>1
    <3>5. Slice(q, c, d, v)
      BY <2>2, <2>3, <3>3, <3>4, SliceMoved
    <3> QED BY <2>4, <3>5 DEF c, d
  <2> QED BY <2>5, <2>6
<1>9. Sliced(q, rest)
  BY <1>5, <1>7, <1>8 DEF Sliced, F
<1> QED
  BY <1>9 DEF q, rest, offset

-----------------------------------------------------------------------------
\* Access units

\* An access unit; numbers that increase.
UnitSet == [n : Nat, nals : Seq(NalUnits)]
Increasing(s) == \A i, j \in 1..Len(s) : i < j => s[i] < s[j]

\* What has been written: a unit for each row, and what waits for the next picture.
WrittenRight(st) ==
    /\ st.prefix \in Seq(NalUnits) /\ \A i \in 1..Len(st.prefix) : st.prefix[i] \notin Media!Vcl
    /\ st.rows \in Seq(Nat) /\ st.units \in Seq(UnitSet) /\ Len(st.rows) = Len(st.units)
    /\ \A i \in 1..Len(st.rows) : st.units[i].n = st.rows[i] /\ Media!IsUnit(st.units[i].nals)

\* The packets held back are slices of what is held back; once a start is known it is at
\* the beginning.
PendingRight(r) ==
    /\ r.pending \in Seq(NalUnits) /\ r.infos \in Seq(InfoSet) /\ r.hasStart \in BOOLEAN
    /\ Sliced(r.pending, r.infos)
    /\ r.hasStart => \E j \in 1..Len(r.pending) : Start(r.pending, 1, j)
    /\ \A k, l \in 1..Len(r.infos) : k < l => r.infos[k].n < r.infos[l].n

\* Parameter sets ahead of pictures are an access unit.
LEMMA PrefixMakesUnit ==
    ASSUME NEW s \in Seq(NalUnits), \A i \in 1..Len(s) : s[i] \notin Media!Vcl,
           NEW q \in Seq(NalUnits), Slice(q, 0, Len(q), TRUE)
    PROVE  Media!IsUnit(s \o q)
<1> DEFINE u == s \o q
           m == Len(s)
<1>1. m \in Nat /\ Len(q) \in Nat /\ Len(u) = m + Len(q) /\ DOMAIN u = 1..Len(u) /\ u \in Seq(NalUnits)
      /\ (\A k \in 1..m : u[k] = s[k]) /\ (\A k \in 1..Len(q) : u[m + k] = q[k])
  OBVIOUS
<1>2. /\ 0 < Len(q) /\ q[Len(q)] \in Media!Vcl
      /\ \A k, l \in (0 + 1)..Len(q) : k <= l /\ q[k] \in Media!Vcl => q[l] \in Media!Vcl
  BY DEF Slice
<1> HIDE DEF u, m
<1>3. \A k \in 1..Len(u) : u[k] \in Media!Vcl => k - m \in 1..Len(q) /\ u[k] = q[k - m]
  <2> SUFFICES ASSUME NEW k \in 1..Len(u), u[k] \in Media!Vcl
               PROVE  k - m \in 1..Len(q) /\ u[k] = q[k - m]
    OBVIOUS
  <2>1. ~(k <= m)
    <3> SUFFICES ASSUME k <= m PROVE FALSE
      OBVIOUS
    <3>1. k \in 1..m
      BY <1>1
    <3>2. k \in 1..Len(s)
      BY <3>1 DEF m
    <3>3. s[k] \notin Media!Vcl
      BY <3>2
    <3> QED BY <1>1, <3>1, <3>3
  <2>2. k - m \in 1..Len(q) /\ m + (k - m) = k
    BY <1>1, <2>1
  <2> QED BY <1>1, <2>2
<1>4. ASSUME NEW k \in 1..Len(u), NEW l \in 1..Len(u), k <= l, u[k] \in Media!Vcl
      PROVE  u[l] \in Media!Vcl
  <2>1. k - m \in 1..Len(q) /\ q[k - m] \in Media!Vcl
    BY <1>3, <1>4
  <2>2. l - m \in (0 + 1)..Len(q) /\ k - m \in (0 + 1)..Len(q) /\ k - m <= l - m /\ l - m \in 1..Len(q) /\ m + (l - m) = l
    BY <1>1, <1>4, <2>1
  <2>3. q[l - m] \in Media!Vcl
    BY <1>2, <2>1, <2>2
  <2>4. u[m + (l - m)] = q[l - m]
    BY <1>1, <2>2
  <2> QED BY <2>2, <2>3, <2>4
<1>5. u # <<>> /\ u[Len(u)] \in Media!Vcl
  <2>1. Len(q) \in 1..Len(q) /\ Len(u) = m + Len(q) /\ Len(u) # 0
    BY <1>1, <1>2
  <2>2. u[m + Len(q)] = q[Len(q)]
    BY <1>1, <2>1
  <2> QED BY <1>1, <1>2, <2>1, <2>2
<1> QED
  BY <1>1, <1>4, <1>5 DEF Media!IsUnit, u

\* write_timestamped_rgb and its row go together.
LEMMA WriteUnitWritten ==
    ASSUME NEW st, WrittenRight(st), NEW n \in Nat, NEW q \in Seq(NalUnits), NEW vcl \in BOOLEAN,
           Slice(q, 0, Len(q), vcl)
    PROVE  LET next == Media!WriteUnit(st, n, q, vcl)
           IN  /\ WrittenRight(next)
               /\ vcl => /\ next.rows = Append(st.rows, n)
                         /\ next.units = Append(st.units, [n |-> n, nals |-> st.prefix \o q])
               /\ ~vcl => /\ next.rows = st.rows /\ next.units = st.units
                          /\ next.prefix = st.prefix \o q
<1> DEFINE next == Media!WriteUnit(st, n, q, vcl)
           whole == st.prefix \o q
           unit == [n |-> n, nals |-> whole]
<1>1. /\ st.prefix \in Seq(NalUnits) /\ (\A i \in 1..Len(st.prefix) : st.prefix[i] \notin Media!Vcl)
      /\ st.rows \in Seq(Nat) /\ st.units \in Seq(UnitSet) /\ Len(st.rows) = Len(st.units)
      /\ \A i \in 1..Len(st.rows) : st.units[i].n = st.rows[i] /\ Media!IsUnit(st.units[i].nals)
  BY DEF WrittenRight
<1>2. whole \in Seq(NalUnits)
  BY <1>1
<1>3. CASE ~vcl
  <2>1. next.prefix = whole /\ next.rows = st.rows /\ next.units = st.units
    BY <1>3 DEF Media!WriteUnit
  <2>2. \A k \in 1..Len(q) : q[k] \notin Media!Vcl
    BY <1>3 DEF Slice
  <2>3. \A k \in 1..Len(whole) : whole[k] \notin Media!Vcl
    <3>1. \A k \in 1..Len(whole) :
             \/ k \in 1..Len(st.prefix) /\ whole[k] = st.prefix[k]
             \/ k - Len(st.prefix) \in 1..Len(q) /\ whole[k] = q[k - Len(st.prefix)]
      BY <1>1
    <3> HIDE DEF whole
    <3> QED BY <1>1, <2>2, <3>1
  <2> HIDE DEF next, whole
  <2>4. WrittenRight(next)
    BY <1>1, <1>2, <2>1, <2>3 DEF WrittenRight
  <2> QED BY <1>3, <2>1, <2>4 DEF next, whole
<1>4. CASE vcl
  <2>1. next.prefix = <<>> /\ next.rows = Append(st.rows, n) /\ next.units = Append(st.units, unit)
    BY <1>4 DEF Media!WriteUnit
  <2>2. Media!IsUnit(whole)
    BY <1>1, <1>4, PrefixMakesUnit
  <2>3. unit \in UnitSet /\ unit.n = n /\ unit.nals = whole
    BY <1>2 DEF UnitSet
  <2> HIDE DEF next, whole, unit
  <2>4. /\ next.rows \in Seq(Nat) /\ next.units \in Seq(UnitSet)
        /\ Len(next.rows) = Len(st.rows) + 1 /\ Len(next.units) = Len(st.rows) + 1
        /\ \A i \in 1..Len(st.rows) : next.rows[i] = st.rows[i] /\ next.units[i] = st.units[i]
        /\ next.rows[Len(st.rows) + 1] = n /\ next.units[Len(st.rows) + 1] = unit
    BY <1>1, <2>1, <2>3
  <2>5. ASSUME NEW i \in 1..Len(next.rows)
        PROVE  next.units[i].n = next.rows[i] /\ Media!IsUnit(next.units[i].nals)
    <3>1. i \in 1..Len(st.rows) \/ i = Len(st.rows) + 1
      BY <1>1, <2>4
    <3> QED BY <1>1, <2>2, <2>3, <2>4, <3>1
  <2>6. next.prefix \in Seq(NalUnits) /\ \A i \in 1..Len(next.prefix) : next.prefix[i] \notin Media!Vcl
    BY <2>1
  <2>7. WrittenRight(next)
    BY <2>4, <2>5, <2>6 DEF WrittenRight
  <2> QED BY <1>4, <2>1, <2>7 DEF next, whole, unit
<1> QED
  BY <1>3, <1>4

\* A slice of a prefix.
LEMMA SubSeqFurther ==
    ASSUME NEW p \in Seq(NalUnits), NEW a \in Nat, NEW b \in Nat, a <= b, b <= Len(p)
    PROVE  /\ SubSeq(p, a + 1, b) \in Seq(NalUnits) /\ Len(SubSeq(p, a + 1, b)) = b - a
           /\ \A k \in 1..(b - a) : SubSeq(p, a + 1, b)[k] = p[k + a]
           /\ SubSeq(p, 1, a) \o SubSeq(p, a + 1, b) = SubSeq(p, 1, b)
<1> DEFINE s == SubSeq(p, 1, a)
           t == SubSeq(p, a + 1, b)
           u == SubSeq(p, 1, b)
<1>1. s \in Seq(NalUnits) /\ Len(s) = a /\ \A k \in 1..a : s[k] = p[k]
  OBVIOUS
<1>2. t \in Seq(NalUnits) /\ Len(t) = b - a /\ \A k \in 1..(b - a) : t[k] = p[k + a]
  <2>1. \A k \in 1..(b - a) : (a + 1) + k - 1 = k + a
    OBVIOUS
  <2> QED BY <2>1
<1>3. u \in Seq(NalUnits) /\ Len(u) = b /\ \A k \in 1..b : u[k] = p[k]
  OBVIOUS
<1> HIDE DEF s, t, u
<1>4. s \o t \in Seq(NalUnits) /\ Len(s \o t) = b
  <2>1. s \in Seq(NalUnits) /\ t \in Seq(NalUnits)
    BY <1>1, <1>2
  <2>2. s \o t \in Seq(NalUnits) /\ Len(s \o t) = Len(s) + Len(t)
    BY <2>1
  <2>3. Len(s) + Len(t) = b
    BY <1>1, <1>2
  <2> QED BY <2>2, <2>3
<1>5. ASSUME NEW k \in 1..b PROVE (s \o t)[k] = u[k]
  <2>1. CASE k <= a
    BY <1>1, <1>2, <1>3, <2>1
  <2>2. CASE k > a
    <3>1. k - a \in 1..(b - a) /\ (k - a) + a = k
      BY <2>2
    <3>2. (s \o t)[k] = t[k - a]
      BY <1>1, <1>2, <2>2, <3>1
    <3> QED BY <1>2, <1>3, <3>1, <3>2
  <2>3. k <= a \/ k > a
    OBVIOUS
  <2> QED BY <2>1, <2>2, <2>3
<1>6. s \o t = u
  BY <1>3, <1>4, <1>5, SeqEqual
<1> QED
  BY <1>2, <1>6 DEF s, t, u

\* flush_rgb_pending, after k packets: the first unit is the beginning of what was held
\* back, and the rows are packets with pictures in their order.
FlushRight(r, k, st) ==
    /\ WrittenRight(st) /\ Increasing(st.rows)
    /\ st.units = <<>> => st.prefix = SubSeq(r.pending, 1, Media!Ends(r.infos)[k])
    /\ st.units # <<>> => \E x \in 1..Len(r.pending) : st.units[1].nals = SubSeq(r.pending, 1, x)
    /\ \A i \in 1..Len(st.rows) : \E m \in 1..k : r.infos[m].vcl /\ r.infos[m].n = st.rows[i]

\* One packet of those held back.
LEMMA FlushStepRight ==
    ASSUME NEW r, PendingRight(r), NEW k \in 0..(Len(r.infos) - 1), NEW st, FlushRight(r, k, st)
    PROVE  FlushRight(r, k + 1, FlushStep(st, r, k + 1))
<1> DEFINE infos == r.infos
           p == r.pending
           E == Media!Ends(infos)
           L == Len(infos)
           a == E[k]
           b == E[k + 1]
           q == SubSeq(p, a + 1, b)
           info == infos[k + 1]
           next == FlushStep(st, r, k + 1)
<1>1. /\ p \in Seq(NalUnits) /\ infos \in Seq(InfoSet) /\ Sliced(p, infos)
      /\ \A i, l \in 1..L : i < l => infos[i].n < infos[l].n
  BY DEF PendingRight
<1>2. L \in Nat /\ Len(p) \in Nat /\ k \in 0..L /\ k + 1 \in 1..L /\ k + 1 \in 0..L /\ (k + 1) - 1 = k /\ L \in 0..L
      /\ k \in Nat
  BY <1>1
<1>3. info \in InfoSet /\ info.n \in Nat /\ info.vcl \in BOOLEAN
  <2>1. info \in InfoSet
    BY <1>1, <1>2
  <2> QED BY <2>1 DEF InfoSet
<1>4. (\A i \in 0..L : E[i] \in Nat) /\ (\A i, l \in 0..L : i <= l => E[i] <= E[l])
  BY <1>1, EndsGrow
<1>5. Len(p) = E[L] /\ Slice(p, a, b, info.vcl)
  <2>1. Slice(p, E[(k + 1) - 1], E[k + 1], infos[k + 1].vcl)
    BY <1>1, <1>2 DEF Sliced
  <2> QED BY <1>1, <1>2, <2>1 DEF Sliced
<1>6. next = Media!WriteUnit(st, info.n, q, info.vcl)
  BY <1>2 DEF FlushStep
<1> HIDE DEF E, next
<1>7. a \in Nat /\ b \in Nat /\ a <= b /\ b <= Len(p)
  BY <1>2, <1>4, <1>5
<1> HIDE DEF L, a, b, info, p, infos
<1>8. q \in Seq(NalUnits) /\ Len(q) = b - a /\ (\A i \in 1..(b - a) : q[i] = p[i + a])
      /\ SubSeq(p, 1, a) \o q = SubSeq(p, 1, b)
  BY <1>1, <1>7, SubSeqFurther
<1> HIDE DEF q
<1>9. Slice(q, 0, Len(q), info.vcl)
  <2>1. Len(q) \in Nat /\ 0 \in Nat /\ Len(q) - 0 = b - a
        /\ \A i \in (0 + 1)..Len(q) : q[i] = p[i + (a - 0)]
    <3>1. \A i \in (0 + 1)..Len(q) : i \in 1..(b - a) /\ i + (a - 0) = i + a
      BY <1>7, <1>8
    <3> QED BY <1>7, <1>8, <3>1
  <2> QED BY <1>5, <1>7, <2>1, SliceMoved
<1>10. /\ WrittenRight(st) /\ Increasing(st.rows)
       /\ st.units = <<>> => st.prefix = SubSeq(p, 1, a)
       /\ st.units # <<>> => \E x \in 1..Len(p) : st.units[1].nals = SubSeq(p, 1, x)
       /\ \A i \in 1..Len(st.rows) : \E m \in 1..k : infos[m].vcl /\ infos[m].n = st.rows[i]
  BY DEF FlushRight, p, infos, a, E
<1>11. WrittenRight(next)
       /\ (info.vcl => /\ next.rows = Append(st.rows, info.n)
                       /\ next.units = Append(st.units, [n |-> info.n, nals |-> st.prefix \o q]))
       /\ (~info.vcl => next.rows = st.rows /\ next.units = st.units /\ next.prefix = st.prefix \o q)
  <2> DEFINE w == Media!WriteUnit(st, info.n, q, info.vcl)
  <2>1. WrittenRight(w)
        /\ (info.vcl => w.rows = Append(st.rows, info.n)
                         /\ w.units = Append(st.units, [n |-> info.n, nals |-> st.prefix \o q]))
        /\ (~info.vcl => w.rows = st.rows /\ w.units = st.units /\ w.prefix = st.prefix \o q)
    <3>1. info.n \in Nat /\ info.vcl \in BOOLEAN /\ q \in Seq(NalUnits) /\ Slice(q, 0, Len(q), info.vcl)
          /\ WrittenRight(st)
      BY <1>3, <1>8, <1>9, <1>10
    <3> DEFINE n == info.n
               v == info.vcl
    <3> HIDE DEF n, v
    <3>2. n \in Nat /\ v \in BOOLEAN /\ q \in Seq(NalUnits) /\ Slice(q, 0, Len(q), v)
          /\ WrittenRight(st)
      BY <3>1 DEF n, v
    <3>3. LET next0 == Media!WriteUnit(st, n, q, v)
          IN  WrittenRight(next0)
             /\ (v => /\ next0.rows = Append(st.rows, n)
                      /\ next0.units = Append(st.units, [n |-> n, nals |-> st.prefix \o q]))
             /\ (~v => next0.rows = st.rows /\ next0.units = st.units /\ next0.prefix = st.prefix \o q)
      BY <3>2, WriteUnitWritten, Zenon
    <3> QED BY <3>3 DEF n, v
  <2> HIDE DEF w
  <2> QED BY <1>6, <2>1 DEF w
<1>12. st.rows \in Seq(Nat) /\ st.units \in Seq(UnitSet) /\ Len(st.rows) = Len(st.units)
  BY <1>10 DEF WrittenRight
<1>13. CASE ~info.vcl
  <2>1. \A i \in 1..Len(next.rows) : \E m \in 1..(k + 1) : infos[m].vcl /\ infos[m].n = next.rows[i]
    <3>1. \A m \in 1..k : m \in 1..(k + 1)
      BY <1>2
    <3> QED BY <1>10, <1>11, <1>13, <3>1
  <2>2. next.units = <<>> => next.prefix = SubSeq(p, 1, b)
    BY <1>8, <1>10, <1>11, <1>13
  <2>3. next.units # <<>> => \E x \in 1..Len(p) : next.units[1].nals = SubSeq(p, 1, x)
    BY <1>10, <1>11, <1>13
  <2>4. Increasing(next.rows)
    BY <1>10, <1>11, <1>13
  <2> QED BY <1>11, <2>1, <2>2, <2>3, <2>4 DEF FlushRight, p, infos, b, E, next
<1>14. CASE info.vcl
  <2> DEFINE unit == [n |-> info.n, nals |-> st.prefix \o q]
             m == Len(st.rows)
  <2>1. next.rows = Append(st.rows, info.n) /\ next.units = Append(st.units, unit)
        /\ unit.nals = st.prefix \o q
    BY <1>11, <1>14
  <2>2. unit \in UnitSet
    <3>1. st.prefix \in Seq(NalUnits)
      BY <1>10 DEF WrittenRight
    <3>2. st.prefix \o q \in Seq(NalUnits)
      BY <1>8, <3>1
    <3> QED BY <1>3, <3>2 DEF UnitSet
  <2> HIDE DEF unit
  <2>3. m \in Nat /\ Len(next.rows) = m + 1 /\ (\A i \in 1..m : next.rows[i] = st.rows[i])
        /\ next.rows[m + 1] = info.n
    BY <1>3, <1>12, <2>1
  <2>4. Len(next.units) = m + 1 /\ (\A i \in 1..m : next.units[i] = st.units[i]) /\ next.units[m + 1] = unit
    BY <1>12, <2>1, <2>2
  <2>5. \A i \in 1..m : st.rows[i] < info.n
    <3> TAKE i \in 1..m
    <3>1. PICK l \in 1..k : infos[l].n = st.rows[i]
      BY <1>10
    <3>2. l \in 1..L /\ l < k + 1
      BY <1>2, <3>1
    <3> QED BY <1>1, <1>2, <3>1, <3>2 DEF info, infos, L
  <2> HIDE DEF m
  <2>6. Increasing(next.rows)
    <3> SUFFICES ASSUME NEW i \in 1..(m + 1), NEW j \in 1..(m + 1), i < j
                 PROVE  next.rows[i] < next.rows[j]
      BY <2>3 DEF Increasing
    <3>1. i \in 1..m /\ (j \in 1..m \/ j = m + 1)
      BY <2>3
    <3>2. CASE j \in 1..m
      BY <1>10, <2>3, <3>1, <3>2 DEF Increasing, m
    <3>3. CASE j = m + 1
      BY <2>3, <2>5, <3>1, <3>3 DEF m
    <3> QED BY <3>1, <3>2, <3>3
  <2>7. \A i \in 1..Len(next.rows) : \E l \in 1..(k + 1) : infos[l].vcl /\ infos[l].n = next.rows[i]
    <3> SUFFICES ASSUME NEW i \in 1..(m + 1)
                 PROVE  \E l \in 1..(k + 1) : infos[l].vcl /\ infos[l].n = next.rows[i]
      BY <2>3
    <3>1. CASE i \in 1..m
      <4>1. PICK l \in 1..k : infos[l].vcl /\ infos[l].n = st.rows[i]
        BY <1>10, <3>1 DEF m
      <4>2. l \in 1..(k + 1)
        BY <1>2, <4>1
      <4> QED BY <2>3, <3>1, <4>1, <4>2
    <3>2. CASE i = m + 1
      <4>1. k + 1 \in 1..(k + 1)
        BY <1>2
      <4> QED BY <1>14, <2>3, <3>2, <4>1 DEF info
    <3> QED BY <2>3, <3>1, <3>2
  <2>8. \E x \in 1..Len(p) : next.units[1].nals = SubSeq(p, 1, x)
    <3>1. CASE st.units = <<>>
      <4>1. m = 0
        BY <1>12, <3>1 DEF m
      <4>2. next.units[1].nals = SubSeq(p, 1, b)
        <5>1. next.units[1] = unit
          BY <2>4, <4>1
        <5>2. st.prefix = SubSeq(p, 1, a)
          BY <1>10, <3>1
        <5> QED BY <1>8, <2>1, <5>1, <5>2
      <4>3. b \in 1..Len(p)
        BY <1>5, <1>7, <1>14 DEF Slice
      <4> QED BY <4>2, <4>3
    <3>2. CASE st.units # <<>>
      <4>1. 1 \in 1..m
        <5>1. Len(st.units) # 0
          BY <1>12, <3>2
        <5> QED BY <1>12, <2>3, <5>1 DEF m
      <4>2. next.units[1] = st.units[1]
        BY <2>4, <4>1
      <4> QED BY <1>10, <3>2, <4>2
    <3> QED BY <3>1, <3>2
  <2>9. next.units # <<>>
    BY <2>3, <2>4
  <2> QED BY <1>11, <2>6, <2>7, <2>8, <2>9 DEF FlushRight, p, infos, next
<1> QED
  BY <1>3, <1>13, <1>14

\* What the flush of k packets leaves written; when it is all of them there is a unit,
\* and the first one can be decoded.
LEMMA FlushIsRight ==
    ASSUME NEW r, PendingRight(r), r.hasStart, rgb.prefix = <<>>, NEW k \in 0..Len(r.infos)
    PROVE  LET st == Media!FlushFirst(r)[k]
           IN  /\ FlushRight(r, k, st)
               /\ st.units # <<>> => Media!DecodableStart(st.units[1].nals) = 1
               /\ k = Len(r.infos) => st.units # <<>>
<1> DEFINE S == {i \in 0..Len(r.infos) : FlushRight(r, i, Media!FlushFirst(r)[i])}
           p == r.pending
           E == Media!Ends(r.infos)
<1>1. p \in Seq(NalUnits) /\ r.infos \in Seq(InfoSet) /\ Sliced(p, r.infos)
      /\ \E j \in 1..Len(p) : Start(p, 1, j)
  BY DEF PendingRight
<1>2. E[0] = 0 /\ Len(p) = E[Len(r.infos)] /\ Len(r.infos) \in Nat
  BY <1>1, EndsGrow DEF Sliced
<1>3. 0 \in S
  <2> DEFINE st == Media!NothingWritten
  <2>1. Media!FlushFirst(r)[0] = st
    BY <1>1, FlushLoop
  <2>2. st.prefix = <<>> /\ st.rows = <<>> /\ st.units = <<>>
    BY DEF Media!NothingWritten
  <2> HIDE DEF st
  <2>3. WrittenRight(st) /\ Increasing(st.rows)
    BY <2>2 DEF WrittenRight, Increasing
  <2>4. SubSeq(p, 1, E[0]) = <<>>
    BY <1>1, <1>2
  <2>5. FlushRight(r, 0, st)
    <3>1. Len(st.rows) = 0
      BY <2>2
    <3>2. 1..Len(st.rows) = {}
      BY <3>1
    <3>3. st.prefix = SubSeq(r.pending, 1, Media!Ends(r.infos)[0])
      BY <2>2, <2>4, Zenon
    <3> QED BY <2>2, <2>3, <3>2, <3>3 DEF FlushRight
  <2> QED BY <1>2, <2>1, <2>5
<1>4. ASSUME NEW i \in 0..(Len(r.infos) - 1), i \in S PROVE i + 1 \in S
  <2>1. Media!FlushFirst(r)[i + 1] = FlushStep(Media!FlushFirst(r)[i], r, i + 1)
    BY <1>1, FlushLoop
  <2>2. FlushRight(r, i + 1, Media!FlushFirst(r)[i + 1])
    BY <1>4, <2>1, FlushStepRight
  <2> QED BY <1>2, <2>2
<1>5. \A i \in 0..Len(r.infos) : i \in S
  <2> HIDE DEF S
  <2> QED BY <1>2, <1>3, <1>4, UpTo
<1> DEFINE st == Media!FlushFirst(r)[k]
<1>6. FlushRight(r, k, st)
  BY <1>5
<1>7. PICK j \in 1..Len(p) : Start(p, 1, j)
  BY <1>1
<1>8. /\ j \in 2..Len(p) /\ p[1] = "sps" /\ p[j] = "idr" /\ Len(p) \in Nat
      /\ \A i \in 2..(j - 1) : p[i] \notin {"sps", "idr", "p"}
      /\ \E i \in 2..(j - 1) : p[i] = "pps"
  BY <1>1, <1>7 DEF Start
<1>9. \A i \in 1..(j - 1) : p[i] \notin Media!Vcl
  <2>1. \A i \in 1..(j - 1) : i = 1 \/ i \in 2..(j - 1)
    BY <1>8
  <2> QED BY <1>8, <2>1 DEF Media!Vcl
<1> HIDE DEF st, E
<1>10. ASSUME st.units # <<>> PROVE Media!DecodableStart(st.units[1].nals) = 1
  <2>1. PICK x \in 1..Len(p) : st.units[1].nals = SubSeq(p, 1, x)
    BY <1>6, <1>10 DEF FlushRight
  <2> DEFINE u == SubSeq(p, 1, x)
  <2>2. u \in Seq(NalUnits) /\ Len(u) = x /\ (\A i \in 1..x : u[i] = p[i]) /\ x \in Nat
    BY <1>1, <2>1
  <2>3. Media!IsUnit(u)
    <3>1. st.rows \in Seq(Nat) /\ st.units \in Seq(UnitSet) /\ Len(st.rows) = Len(st.units)
          /\ \A i \in 1..Len(st.rows) : Media!IsUnit(st.units[i].nals)
      BY <1>6 DEF FlushRight, WrittenRight
    <3>2. 1 \in 1..Len(st.rows)
      <4>1. Len(st.units) # 0
        BY <1>10, <3>1
      <4> QED BY <3>1, <4>1
    <3> QED BY <2>1, <3>1, <3>2
  <2> HIDE DEF u
  <2>4. u[x] \in Media!Vcl
    BY <2>2, <2>3 DEF Media!IsUnit
  <2>5. x >= j
    <3>1. x \notin 1..(j - 1)
      BY <1>9, <2>1, <2>2, <2>4
    <3> QED BY <1>8, <2>1, <3>1
  <2>6. Start(u, 1, j)
    <3>1. \A i \in 1..j : u[i] = p[i]
      BY <1>8, <2>2, <2>5
    <3>2. 1 \in 1..Len(u) /\ j \in (1 + 1)..Len(u)
      BY <1>8, <2>2, <2>5
    <3>3. 1 + 1 = 2 /\ (\A i \in 2..(j - 1) : i \in 1..j) /\ 1 \in 1..j /\ j \in 1..j
      BY <1>8
    <3> QED BY <1>8, <3>1, <3>2, <3>3 DEF Start
  <2> QED BY <2>1, <2>2, <2>6, StartIsFound DEF u
<1>11. ASSUME k = Len(r.infos), st.units = <<>> PROVE FALSE
  <2>1. st.prefix = SubSeq(p, 1, Len(p))
    BY <1>2, <1>6, <1>11 DEF FlushRight, E
  <2>2. \A i \in 1..Len(st.prefix) : st.prefix[i] \notin Media!Vcl
    BY <1>6 DEF FlushRight, WrittenRight
  <2>3. Len(st.prefix) = Len(p) /\ st.prefix[j] = p[j]
    BY <1>1, <1>8, <2>1
  <2> QED BY <1>8, <2>2, <2>3 DEF Media!Vcl
<1> QED
  BY <1>6, <1>10, <1>11 DEF st

-----------------------------------------------------------------------------
\* What write_rgb_packet makes of the packets held back

\* Packets in the order of their numbers.
Rising(infos) == \A k, l \in 1..Len(infos) : k < l => infos[k].n < infos[l].n

\* Nothing is held back.
LEMMA NothingSliced == Sliced(<<>>, <<>>)
<1>1. <<>> \in Seq(InfoSet) /\ Len(<<>>) = 0
  OBVIOUS
<1>2. Media!Ends(<<>>)[0] = 0
  BY <1>1, EndsGrow
<1>3. 1..Len(<<>>) = {}
  BY <1>1
<1> QED
  BY <1>1, <1>2, <1>3 DEF Sliced

\* What comes behind leaves the start where it is.
LEMMA StartStays ==
    ASSUME NEW p \in Seq(NalUnits), NEW q \in Seq(NalUnits), NEW j \in 1..Len(p), Start(p, 1, j)
    PROVE  j \in 1..Len(p \o q) /\ Start(p \o q, 1, j)
<1> DEFINE r == p \o q
<1>1. Len(r) = Len(p) + Len(q) /\ (\A k \in 1..Len(p) : r[k] = p[k]) /\ Len(p) \in Nat /\ Len(q) \in Nat
  OBVIOUS
<1> HIDE DEF r
<1>2. /\ 1 \in 1..Len(p) /\ j \in (1 + 1)..Len(p) /\ p[1] = "sps" /\ p[j] = "idr"
      /\ \A k \in (1 + 1)..(j - 1) : p[k] \notin {"sps", "idr", "p"}
      /\ \E k \in (1 + 1)..(j - 1) : p[k] = "pps"
  BY DEF Start
<1>3. \A k \in (1 + 1)..(j - 1) : k \in 1..Len(p)
  BY <1>1
<1>4. j \in 1..Len(r) /\ 1 \in 1..Len(r) /\ j \in (1 + 1)..Len(r)
  BY <1>1, <1>2
<1>5. Start(r, 1, j)
  BY <1>1, <1>2, <1>3, <1>4 DEF Start
<1> QED
  BY <1>4, <1>5 DEF r

\* Once a start has been found, what comes before it goes.
LEMMA TrimmedRight ==
    ASSUME NEW p \in Seq(NalUnits), NEW infos \in Seq(InfoSet), Sliced(p, infos), Rising(infos),
           Media!DecodableStart(p) # 0
    PROVE  LET s    == Media!DecodableStart(p)
               q    == SubSeq(p, s, Len(p))
               rest == Media!Trimmed(infos, s - 1)
           IN  /\ q \in Seq(NalUnits) /\ rest \in Seq(InfoSet) /\ Sliced(q, rest) /\ Rising(rest)
               /\ \E j \in 1..Len(q) : Start(q, 1, j)
               /\ \A k \in 1..Len(rest) :
                     \E l \in 1..Len(infos) : rest[k].n = infos[l].n /\ rest[k].vcl = infos[l].vcl
<1> DEFINE s == Media!DecodableStart(p)
           q == SubSeq(p, s, Len(p))
           rest == Media!Trimmed(infos, s - 1)
           g == Media!Gone(infos, s - 1)
           L == Len(infos)
<1>1. PICK j \in 1..Len(p) : Start(p, s, j)
  BY FoundIsStart
<1>2. /\ s \in 1..Len(p) /\ j \in (s + 1)..Len(p) /\ p[s] = "sps" /\ p[j] = "idr"
      /\ \A k \in (s + 1)..(j - 1) : p[k] \notin {"sps", "idr", "p"}
      /\ \E k \in (s + 1)..(j - 1) : p[k] = "pps"
  BY <1>1 DEF Start
<1> HIDE DEF s
<1>3. Len(p) \in Nat /\ s \in Nat /\ s - 1 \in Nat /\ s - 1 < Len(p) /\ L \in Nat
  BY <1>2
<1>4. Sliced(q, rest)
  BY <1>2, SlicedTrimmed
<1>5. /\ g \in 0..(L - 1) /\ rest \in Seq(InfoSet) /\ Len(rest) = L - g
      /\ \A k \in 1..(L - g) : rest[k].n = infos[g + k].n /\ rest[k].vcl = infos[g + k].vcl
  <2>1. s - 1 < Media!Ends(infos)[Len(infos)]
    BY <1>3 DEF Sliced
  <2> DEFINE o == s - 1
  <2>2. o \in Nat /\ o < Media!Ends(infos)[Len(infos)] /\ rest = Media!Trimmed(infos, o) /\ g = Media!Gone(infos, o)
    BY <1>3, <2>1
  <2> HIDE DEF o, rest, g
  <2> QED BY <2>2, EndsOfTrimmed
<1>6. q \in Seq(NalUnits) /\ Len(q) = Len(p) - s + 1 /\ \A k \in 1..(Len(p) - s + 1) : q[k] = p[k + s - 1]
  <2>1. \A k \in 1..(Len(p) - s + 1) : s + k - 1 = k + s - 1
    BY <1>3
  <2> QED BY <1>2, <1>3, <2>1
<1> HIDE DEF q, rest, g
<1>7. Rising(rest)
  <2> SUFFICES ASSUME NEW k \in 1..(L - g), NEW l \in 1..(L - g), k < l PROVE rest[k].n < rest[l].n
    BY <1>5 DEF Rising
  <2>1. g + k \in 1..L /\ g + l \in 1..L /\ g + k < g + l
    BY <1>3, <1>5
  <2>2. infos[g + k].n < infos[g + l].n
    BY <2>1 DEF Rising
  <2> QED BY <1>5, <2>2
<1>8. \A k \in 1..Len(rest) :
         \E l \in 1..Len(infos) : rest[k].n = infos[l].n /\ rest[k].vcl = infos[l].vcl
  <2> TAKE k \in 1..Len(rest)
  <2>1. g + k \in 1..Len(infos) /\ k \in 1..(L - g)
    BY <1>3, <1>5
  <2> QED BY <1>5, <2>1
<1> DEFINE i == j - s + 1
<1>9. i \in 2..Len(q) /\ 1 \in 1..Len(q)
  BY <1>2, <1>3, <1>6
<1>10. q[1] = "sps" /\ q[i] = "idr"
  <2>1. 1 \in 1..(Len(p) - s + 1) /\ 1 + s - 1 = s
    BY <1>2, <1>3
  <2>2. i \in 1..(Len(p) - s + 1) /\ i + s - 1 = j
    BY <1>2, <1>3
  <2> HIDE DEF i
  <2> QED BY <1>2, <1>6, <2>1, <2>2
<1>11. \A k \in (1 + 1)..(i - 1) : q[k] \notin {"sps", "idr", "p"}
  <2> TAKE k \in (1 + 1)..(i - 1)
  <2>1. k + s - 1 \in (s + 1)..(j - 1) /\ k \in 1..(Len(p) - s + 1)
    BY <1>2, <1>3
  <2> HIDE DEF i
  <2> QED BY <1>2, <1>6, <2>1
<1>12. \E k \in (1 + 1)..(i - 1) : q[k] = "pps"
  <2>1. PICK l \in (s + 1)..(j - 1) : p[l] = "pps"
    BY <1>2
  <2> DEFINE k == l - s + 1
  <2>2. k \in (1 + 1)..(i - 1) /\ k \in 1..(Len(p) - s + 1) /\ k + s - 1 = l
    BY <1>2, <1>3
  <2> HIDE DEF k, i
  <2> QED BY <1>6, <2>1, <2>2
<1> HIDE DEF i
<1>13. i \in 1..Len(q) /\ Start(q, 1, i)
  <2>1. i \in (1 + 1)..Len(q) /\ i \in 1..Len(q)
    BY <1>3, <1>6, <1>9
  <2> QED BY <1>9, <1>10, <1>11, <1>12, <2>1 DEF Start
<1> QED
  BY <1>4, <1>5, <1>6, <1>7, <1>8, <1>13 DEF q, rest, s

\* The packet n with payload q, or one of those held back.
Came(info, n, q) ==
    \/ info.n = n /\ (info.vcl => Media!HasVcl(q))
    \/ \E l \in 1..Len(rgb.infos) : info.n = rgb.infos[l].n /\ info.vcl = rgb.infos[l].vcl

\* write_rgb_packet without a writer: what is held back stays right.
LEMMA HeldIsRight ==
    ASSUME PendingRight(rgb), NEW n \in Nat, \A k \in 1..Len(rgb.infos) : rgb.infos[k].n < n,
           NEW q, PayloadRight(q)
    PROVE  LET r == Media!Held(n, q)
           IN  /\ PendingRight(r) /\ r.writer = FALSE /\ r.prefix = rgb.prefix
               /\ \A k \in 1..Len(r.infos) : Came(r.infos[k], n, q)
<1> DEFINE r     == Media!Held(n, q)
           clear == Len(rgb.pending) + Len(q) > HeldBytes
           p0    == IF clear THEN <<>> ELSE rgb.pending
           i0    == IF clear THEN <<>> ELSE rgb.infos
           info  == [n |-> n, size |-> Len(q), vcl |-> Media!HasVcl(q)]
           p     == p0 \o q
           infos == Append(i0, info)
           begun == rgb.hasStart /\ ~clear
           start == Media!DecodableStart(p)
           From(k) == Came(k, n, q)
<1>1. /\ rgb.pending \in Seq(NalUnits) /\ rgb.infos \in Seq(InfoSet) /\ rgb.hasStart \in BOOLEAN
      /\ Sliced(rgb.pending, rgb.infos) /\ Rising(rgb.infos)
      /\ rgb.hasStart => \E j \in 1..Len(rgb.pending) : Start(rgb.pending, 1, j)
  BY DEF PendingRight, Rising
<1>2. q \in Seq(NalUnits)
  BY DEF PayloadRight
<1>3. /\ p0 \in Seq(NalUnits) /\ i0 \in Seq(InfoSet) /\ Sliced(p0, i0) /\ Rising(i0)
      /\ \A k \in 1..Len(i0) : \E l \in 1..Len(rgb.infos) : i0[k] = rgb.infos[l]
  <2>1. CASE clear
    <3>1. p0 = <<>> /\ i0 = <<>> /\ Len(i0) = 0
      BY <2>1
    <3> HIDE DEF p0, i0
    <3>2. 1..Len(i0) = {}
      BY <3>1
    <3>3. p0 \in Seq(NalUnits) /\ i0 \in Seq(InfoSet)
      BY <3>1
    <3> QED BY <3>1, <3>2, <3>3, NothingSliced DEF Rising
  <2>2. CASE ~clear
    BY <1>1, <2>2
  <2> QED BY <2>1, <2>2
<1>4. \A k \in 1..Len(i0) : i0[k].n < n
  BY <1>3
<1>5. info \in InfoSet /\ info.n = n /\ info.vcl = Media!HasVcl(q)
  BY <1>2 DEF InfoSet, Media!HasVcl
<1>6. p \in Seq(NalUnits)
  BY <1>2, <1>3
<1>7. Sliced(p, infos)
  <2> HIDE DEF p0, i0
  <2> QED BY <1>3, SlicedMore
<1>8. r = IF begun \/ start = 0
          THEN [pending |-> p, infos |-> infos, hasStart |-> begun, writer |-> FALSE, prefix |-> rgb.prefix]
          ELSE [pending |-> SubSeq(p, start, Len(p)), infos |-> Media!Trimmed(infos, start - 1),
                hasStart |-> TRUE, writer |-> FALSE, prefix |-> rgb.prefix]
  BY DEF Media!Held
<1>9. begun \in BOOLEAN
  BY <1>1
<1>10. begun => \E j \in 1..Len(p) : Start(p, 1, j)
  <2> SUFFICES ASSUME begun PROVE \E j \in 1..Len(p) : Start(p, 1, j)
    OBVIOUS
  <2>1. p = rgb.pending \o q
    OBVIOUS
  <2>2. PICK j \in 1..Len(rgb.pending) : Start(rgb.pending, 1, j)
    BY <1>1
  <2> HIDE DEF p
  <2> QED BY <1>1, <1>2, <2>1, <2>2, StartStays
<1> HIDE DEF p0, info
<1>11. /\ infos \in Seq(InfoSet) /\ Len(infos) = Len(i0) + 1 /\ (\A k \in 1..Len(i0) : infos[k] = i0[k])
       /\ infos[Len(i0) + 1] = info /\ Len(i0) \in Nat
  <2> HIDE DEF i0
  <2> QED BY <1>3, <1>5
<1> HIDE DEF i0, infos, p, start, r, begun
<1>12. Rising(infos)
  <2> SUFFICES ASSUME NEW k \in 1..Len(infos), NEW l \in 1..Len(infos), k < l
               PROVE  infos[k].n < infos[l].n
    BY DEF Rising
  <2>1. k \in 1..Len(i0) /\ (l \in 1..Len(i0) \/ l = Len(i0) + 1)
    BY <1>11
  <2>2. CASE l \in 1..Len(i0)
    BY <1>3, <1>11, <2>1, <2>2 DEF Rising
  <2>3. CASE l = Len(i0) + 1
    BY <1>4, <1>5, <1>11, <2>1, <2>3
  <2> QED BY <2>1, <2>2, <2>3
<1>13. \A k \in 1..Len(infos) : From(infos[k])
  <2> TAKE k \in 1..Len(infos)
  <2>1. k \in 1..Len(i0) \/ k = Len(i0) + 1
    BY <1>11
  <2>2. CASE k \in 1..Len(i0)
    BY <1>3, <1>11, <2>2 DEF Came
  <2>3. CASE k = Len(i0) + 1
    BY <1>5, <1>11, <2>3 DEF Came
  <2> QED BY <2>1, <2>2, <2>3
<1>14. CASE begun \/ start = 0
  <2>1. r.pending = p /\ r.infos = infos /\ r.hasStart = begun /\ r.writer = FALSE /\ r.prefix = rgb.prefix
    BY <1>8, <1>14, Zenon
  <2>2. PendingRight(r)
    <3>1. \A k, l \in 1..Len(infos) : k < l => infos[k].n < infos[l].n
      BY <1>12 DEF Rising
    <3> QED BY <1>6, <1>7, <1>9, <1>10, <1>11, <2>1, <3>1, Zenon DEF PendingRight
  <2>3. \A k \in 1..Len(r.infos) : From(r.infos[k])
    BY <1>13, <2>1, Zenon
  <2> QED BY <2>1, <2>2, <2>3 DEF r
<1>15. CASE ~(begun \/ start = 0)
  <2> DEFINE u == SubSeq(p, start, Len(p))
             rest == Media!Trimmed(infos, start - 1)
  <2>1. r.pending = u /\ r.infos = rest /\ r.hasStart = TRUE /\ r.writer = FALSE /\ r.prefix = rgb.prefix
    BY <1>8, <1>15, Zenon
  <2>2. /\ u \in Seq(NalUnits) /\ rest \in Seq(InfoSet) /\ Sliced(u, rest) /\ Rising(rest)
        /\ \E j \in 1..Len(u) : Start(u, 1, j)
        /\ \A k \in 1..Len(rest) :
              \E l \in 1..Len(infos) : rest[k].n = infos[l].n /\ rest[k].vcl = infos[l].vcl
    BY <1>6, <1>7, <1>11, <1>12, <1>15, TrimmedRight DEF start
  <2> HIDE DEF u, rest
  <2>3. PendingRight(r)
    <3>1. \A k, l \in 1..Len(rest) : k < l => rest[k].n < rest[l].n
      BY <2>2 DEF Rising
    <3>2. r.hasStart \in BOOLEAN
      BY <2>1
    <3> QED BY <2>1, <2>2, <3>1, <3>2, Zenon DEF PendingRight
  <2>4. \A k \in 1..Len(rest) : From(rest[k])
    <3> TAKE k \in 1..Len(rest)
    <3>1. PICK l \in 1..Len(infos) : rest[k].n = infos[l].n /\ rest[k].vcl = infos[l].vcl
      BY <2>2
    <3>2. From(infos[l])
      BY <1>13
    <3> QED BY <3>1, <3>2 DEF Came
  <2> QED BY <2>1, <2>3, <2>4 DEF r
<1> QED
  BY <1>14, <1>15 DEF r

-----------------------------------------------------------------------------
\* The two tables

Within(s, t) == \A i \in 1..Len(s) : \E j \in 1..Len(t) : t[j] = s[i]

\* Two increasing sequences of the same numbers are the same.
LEMMA SameIncreasing ==
    ASSUME NEW s \in Seq(Nat), NEW t \in Seq(Nat), Increasing(s), Increasing(t),
           Within(s, t), Within(t, s)
    PROVE  s = t
<1> DEFINE P(k) == /\ k \in 1..Len(s) => k \in 1..Len(t) /\ s[k] = t[k]
                   /\ k \in 1..Len(t) => k \in 1..Len(s)
           S == {k \in Nat : P(k)}
<1>1. Len(s) \in Nat /\ Len(t) \in Nat /\ (\A i \in 1..Len(s) : s[i] \in Nat) /\ (\A i \in 1..Len(t) : t[i] \in Nat)
  OBVIOUS
<1>0. (\A i, j \in 1..Len(s) : i < j => s[i] < s[j]) /\ (\A i, j \in 1..Len(t) : i < j => t[i] < t[j])
  BY Zenon DEF Increasing
<1>2. ASSUME NEW k \in Nat, \A m \in 0..(k - 1) : m \in S PROVE P(k)
  <2>0. \A m \in 1..(k - 1) : P(m)
    <3>1. \A m \in 1..(k - 1) : m \in 0..(k - 1)
      OBVIOUS
    <3>2. \A m \in 1..(k - 1) : m \in S
      BY <1>2, <3>1
    <3> QED BY <3>2
  <2>1. ASSUME k \in 1..Len(s), NEW j \in 1..Len(t), t[j] = s[k] PROVE j >= k
    <3> SUFFICES ASSUME j < k PROVE FALSE
      BY <1>1
    <3>1. j \in 1..(k - 1)
      BY <1>1
    <3>2. j \in 1..Len(s) /\ s[j] = t[j]
      BY <2>0, <3>1
    <3>3. s[j] < s[k]
      BY <1>0, <2>1, <3>2, Zenon
    <3>4. s[k] < s[k]
      BY <2>1, <3>2, <3>3, Zenon
    <3>5. s[k] \in Nat
      BY <1>1, <2>1
    <3> QED BY <3>4, <3>5
  <2>2. ASSUME k \in 1..Len(t), NEW i \in 1..Len(s), s[i] = t[k] PROVE i >= k
    <3> SUFFICES ASSUME i < k PROVE FALSE
      BY <1>1
    <3>1. i \in 1..(k - 1)
      BY <1>1
    <3>2. i \in 1..Len(t) /\ s[i] = t[i]
      BY <2>0, <3>1
    <3>3. t[i] < t[k]
      BY <1>0, <2>2, <3>2, Zenon
    <3>4. t[k] < t[k]
      BY <2>2, <3>2, <3>3, Zenon
    <3>5. t[k] \in Nat
      BY <1>1, <2>2
    <3> QED BY <3>4, <3>5
  <2>3. ASSUME k \in 1..Len(s) PROVE k \in 1..Len(t) /\ s[k] = t[k]
    <3>1. PICK j \in 1..Len(t) : t[j] = s[k]
      BY <2>3, Zenon DEF Within
    <3>2. j >= k
      BY <2>1, <2>3, <3>1
    <3>3. k \in 1..Len(t)
      BY <1>1, <2>3, <3>1, <3>2
    <3>4. PICK i \in 1..Len(s) : s[i] = t[k]
      BY <3>3, Zenon DEF Within
    <3>5. i >= k
      BY <2>2, <3>3, <3>4
    <3>6. s[i] >= s[k]
      <4>1. i = k \/ k < i
        BY <1>1, <2>3, <3>4, <3>5
      <4>2. s[k] \in Nat /\ s[i] \in Nat
        BY <1>1, <2>3, <3>4
      <4>3. k < i => s[k] < s[i]
        BY <1>0, <2>3, <3>4, Zenon
      <4> QED BY <4>1, <4>2, <4>3
    <3>7. t[j] >= t[k]
      <4>1. j = k \/ k < j
        BY <1>1, <3>1, <3>2, <3>3
      <4>2. t[k] \in Nat /\ t[j] \in Nat
        BY <1>1, <3>1, <3>3
      <4>3. k < j => t[k] < t[j]
        BY <1>0, <3>1, <3>3, Zenon
      <4> QED BY <4>1, <4>2, <4>3
    <3>8. s[k] \in Nat /\ t[k] \in Nat
      BY <1>1, <2>3, <3>3
    <3>9. t[k] >= s[k] /\ s[k] >= t[k]
      BY <3>1, <3>4, <3>6, <3>7, Zenon
    <3> QED BY <3>3, <3>8, <3>9
  <2>4. ASSUME k \in 1..Len(t) PROVE k \in 1..Len(s)
    <3>1. PICK i \in 1..Len(s) : s[i] = t[k]
      BY <2>4, Zenon DEF Within
    <3>2. i >= k
      BY <2>2, <2>4, <3>1
    <3> QED BY <1>1, <2>4, <3>1, <3>2
  <2> QED BY <2>3, <2>4
<1>3. \A k \in Nat : k \in S
  <2>1. \A k \in Nat : (\A m \in 0..(k - 1) : m \in S) => k \in S
    BY <1>2
  <2> HIDE DEF S
  <2> QED BY <2>1, SetStrongInduction
<1>4. \A k \in Nat : P(k)
  BY <1>3
<1>5. Len(s) = Len(t)
  <2>1. Len(s) # 0 => Len(s) \in 1..Len(t)
    BY <1>1, <1>4
  <2>2. Len(t) # 0 => Len(t) \in 1..Len(s)
    BY <1>1, <1>4
  <2> QED BY <1>1, <2>1, <2>2
<1>6. \A k \in 1..Len(s) : s[k] = t[k]
  BY <1>1, <1>4
<1> HIDE DEF P, S
<1> QED
  BY <1>5, <1>6, SeqEqual

\* The numbers of a table, row by row.
LEMMA StreamedMore ==
    ASSUME NEW T, NEW table \in Seq(T), NEW row \in T, NEW stream
    PROVE  Media!Streamed(Append(table, row), stream)
              = StreamStep(Media!Streamed(table, stream), row, stream)
<1> DEFINE more == Append(table, row)
           L == Len(table)
<1>1. more \in Seq(T) /\ Len(more) = L + 1 /\ (\A k \in 1..L : more[k] = table[k]) /\ more[L + 1] = row
      /\ L \in Nat
  OBVIOUS
<1> HIDE DEF more
<1>2. PICK f : Streaming(f, table, stream)
  BY StreamingLoop
<1>3. PICK g : Streaming(g, more, stream)
  BY <1>1, StreamingLoop
<1>4. f[0] = <<>> /\ (\A k \in 0..(L - 1) : f[k + 1] = StreamStep(f[k], table[k + 1], stream))
      /\ Media!Streamed(table, stream) = f[L]
  BY <1>2 DEF Streaming
<1>5. g[0] = <<>> /\ (\A k \in 0..L : g[k + 1] = StreamStep(g[k], more[k + 1], stream))
      /\ Media!Streamed(more, stream) = g[L + 1]
  <2>1. Len(more) - 1 = L
    BY <1>1
  <2> QED BY <1>1, <1>3, <2>1 DEF Streaming
<1> HIDE DEF L
<1>6. \A k \in 0..L : f[k] = g[k]
  <2> DEFINE S == {k \in 0..L : f[k] = g[k]}
  <2>1. 0 \in S
    BY <1>1, <1>4, <1>5
  <2>2. ASSUME NEW k \in 0..(L - 1), k \in S PROVE k + 1 \in S
    <3>1. k \in 0..L /\ k + 1 \in 0..L /\ k + 1 \in 1..L
      BY <1>1
    <3>2. f[k + 1] = StreamStep(f[k], table[k + 1], stream)
      BY <1>4
    <3>3. g[k + 1] = StreamStep(g[k], more[k + 1], stream)
      BY <1>5, <3>1
    <3>4. more[k + 1] = table[k + 1] /\ f[k] = g[k]
      BY <1>1, <2>2, <3>1
    <3> QED BY <3>1, <3>2, <3>3, <3>4
  <2>3. \A k \in 0..L : k \in S
    <3> HIDE DEF S
    <3> QED BY <1>1, <2>1, <2>2, UpTo
  <2> QED BY <2>3
<1>7. L \in 0..L
  BY <1>1
<1>8. Media!Streamed(more, stream) = StreamStep(Media!Streamed(table, stream), row, stream)
  BY <1>1, <1>4, <1>5, <1>6, <1>7
<1> QED
  BY <1>8 DEF more

LEMMA StreamedNothing ==
    ASSUME NEW stream
    PROVE  Media!Streamed(<<>>, stream) = <<>>
<1>1. <<>> \in Seq(Nat) /\ Len(<<>>) = 0
  OBVIOUS
<1>2. PICK f : Streaming(f, <<>>, stream)
  BY <1>1, StreamingLoop
<1> QED
  BY <1>1, <1>2 DEF Streaming

\* No part and one part.
LEMMA JoinedOne ==
    /\ Media!Joined(<<>>) = <<>>
    /\ \A part \in Seq(Nat) : Media!Joined(<<part>>) = part
<1>1. <<>> \in Seq(Seq(Nat)) /\ Len(<<>>) = 0
  OBVIOUS
<1>2. Media!Joined(<<>>) = <<>>
  <2>1. PICK f : Joining(f, <<>>)
    BY <1>1, JoiningLoop
  <2> QED BY <1>1, <2>1 DEF Joining
<1>3. ASSUME NEW part \in Seq(Nat) PROVE Media!Joined(<<part>>) = part
  <2> DEFINE parts == <<part>>
  <2>1. parts \in Seq(Seq(Nat)) /\ Len(parts) = 1 /\ parts[1] = part
    OBVIOUS
  <2> HIDE DEF parts
  <2>2. PICK f : Joining(f, parts)
    BY <2>1, JoiningLoop
  <2>3. f[0] = <<>> /\ f[0 + 1] = f[0] \o parts[0 + 1] /\ Media!Joined(parts) = f[1]
    <3>1. f[0] = <<>> /\ (\A k \in 0..(Len(parts) - 1) : f[k + 1] = f[k] \o parts[k + 1])
          /\ Media!Joined(parts) = f[Len(parts)]
      BY <2>2, Zenon DEF Joining
    <3>2. 0 \in 0..(Len(parts) - 1)
      BY <2>1
    <3> QED BY <2>1, <3>1, <3>2, Zenon
  <2>4. 0 + 1 = 1
    OBVIOUS
  <2>5. Media!Joined(parts) = <<>> \o part
    BY <2>1, <2>3, <2>4
  <2> QED BY <2>5 DEF parts
<1> QED
  BY <1>2, <1>3

\* Rows of frames.csv, before and after the merge.
FrameRowSet == [stream : {"rgb", "depth"}, n : Nat]
RowSet == [stream : {"rgb", "depth"}, n : Nat, index : Nat]

\* A recorded frame has its place.
LEMMA IndexIsThere ==
    ASSUME NEW recorded \in Seq(Nat), NEW n, \E j \in 1..Len(recorded) : recorded[j] = n
    PROVE  Media!IndexOf(recorded, n) \in 1..Len(recorded) /\ recorded[Media!IndexOf(recorded, n)] = n
<1> DEFINE S == {j \in 1..Len(recorded) : recorded[j] = n}
<1>1. S \in SUBSET Nat /\ S # {}
  OBVIOUS
<1>2. PICK i \in S : \A j \in S : i <= j
  BY <1>1, LeastNumber
<1>3. DOMAIN recorded = 1..Len(recorded)
  OBVIOUS
<1>4. \E k \in DOMAIN recorded : recorded[k] = n /\ \A j \in DOMAIN recorded : recorded[j] = n => k <= j
  BY <1>2, <1>3
<1> QED
  BY <1>3, <1>4 DEF Media!IndexOf

\* Every RGB row has the place its frame has in the record.
IndexRight(out, recorded) ==
    \A k \in 1..Len(out) : out[k].stream = "rgb" =>
        out[k].index \in 1..Len(recorded) /\ recorded[out[k].index] = out[k].n

\* h, the RGB rows among the first i that are in the record.
KeptRows(h, i, recorded) ==
    /\ h \in Seq(Nat) /\ Increasing(h) /\ Within(h, recorded)
    /\ \A k \in 1..Len(h) : \E m \in 1..i : mediaFrames[m].n = h[k]
    /\ \A m \in 1..i :
          mediaFrames[m].stream = "rgb" /\ (\E j \in 1..Len(recorded) : recorded[j] = mediaFrames[m].n)
             => \E k \in 1..Len(h) : h[k] = mediaFrames[m].n

MergedTo(out, i, recorded, d) ==
    /\ out \in Seq(RowSet) /\ IndexRight(out, recorded)
    /\ Media!Streamed(out, "depth") = d[i]
    /\ KeptRows(Media!Streamed(out, "rgb"), i, recorded)

\* One row of frames.csv more.
LEMMA KeptMore ==
    ASSUME NEW recorded \in Seq(Nat), mediaFrames \in Seq(FrameRowSet), Rising(mediaFrames),
           NEW i \in 0..(Len(mediaFrames) - 1), NEW h, KeptRows(h, i, recorded)
    PROVE  /\ /\ mediaFrames[i + 1].stream = "rgb"
              /\ \E j \in 1..Len(recorded) : recorded[j] = mediaFrames[i + 1].n
              => KeptRows(Append(h, mediaFrames[i + 1].n), i + 1, recorded)
           /\ ~(/\ mediaFrames[i + 1].stream = "rgb"
                /\ \E j \in 1..Len(recorded) : recorded[j] = mediaFrames[i + 1].n)
              => KeptRows(h, i + 1, recorded)
<1> DEFINE n == mediaFrames[i + 1].n
           There(x) == \E j \in 1..Len(recorded) : recorded[j] = x
           Rgb(m) == mediaFrames[m].stream = "rgb" /\ There(mediaFrames[m].n)
           more == Append(h, n)
<1>1. i \in Nat /\ i + 1 \in 1..Len(mediaFrames) /\ Len(mediaFrames) \in Nat
      /\ \A m \in 1..(i + 1) : m \in 1..i \/ m = i + 1
  OBVIOUS
<1>2. n \in Nat
  <2>1. mediaFrames[i + 1] \in FrameRowSet
    BY <1>1
  <2> QED BY <2>1 DEF FrameRowSet
<1>3. h \in Seq(Nat) /\ Increasing(h) /\ Within(h, recorded)
  BY DEF KeptRows
<1>4. /\ \A k \in 1..Len(h) : \E m \in 1..i : mediaFrames[m].n = h[k]
      /\ \A m \in 1..i : Rgb(m) => \E k \in 1..Len(h) : h[k] = mediaFrames[m].n
  BY DEF KeptRows
<1>5. \A m \in 1..i : m \in 1..(i + 1)
  BY <1>1
<1>6. ASSUME ~Rgb(i + 1) PROVE KeptRows(h, i + 1, recorded)
  <2>1. \A k \in 1..Len(h) : \E m \in 1..(i + 1) : mediaFrames[m].n = h[k]
    BY <1>4, <1>5, Zenon
  <2>2. \A m \in 1..(i + 1) : Rgb(m) => \E k \in 1..Len(h) : h[k] = mediaFrames[m].n
    BY <1>1, <1>4, <1>6, Zenon
  <2> QED BY <1>3, <2>1, <2>2, Zenon DEF KeptRows
<1>7. ASSUME Rgb(i + 1) PROVE KeptRows(more, i + 1, recorded)
  <2>1. more \in Seq(Nat) /\ Len(more) = Len(h) + 1 /\ (\A k \in 1..Len(h) : more[k] = h[k])
        /\ more[Len(h) + 1] = n /\ Len(h) \in Nat /\ Len(h) + 1 \in 1..Len(more)
        /\ (\A k \in 1..Len(h) : k \in 1..Len(more))
        /\ (\A k \in 1..Len(more) : k \in 1..Len(h) \/ k = Len(h) + 1)
    BY <1>2, <1>3
  <2>2. \A k \in 1..Len(h) : h[k] < n
    <3> TAKE k \in 1..Len(h)
    <3>1. PICK m \in 1..i : mediaFrames[m].n = h[k]
      BY <1>4, Zenon
    <3>2. m \in 1..Len(mediaFrames) /\ m < i + 1
      BY <1>1
    <3>3. mediaFrames[m].n < n
      BY <1>1, <3>2, Zenon DEF Rising
    <3> QED BY <3>1, <3>3, Zenon
  <2>3. Increasing(more)
    <3> SUFFICES ASSUME NEW k \in 1..Len(more), NEW l \in 1..Len(more), k < l PROVE more[k] < more[l]
      BY DEF Increasing
    <3>1. k \in 1..Len(h)
      BY <2>1
    <3>2. CASE l \in 1..Len(h)
      <4>1. h[k] < h[l]
        BY <1>3, <3>1, <3>2, Zenon DEF Increasing
      <4> QED BY <2>1, <3>1, <3>2, <4>1, Zenon
    <3>3. CASE l = Len(h) + 1
      BY <2>1, <2>2, <3>1, <3>3, Zenon
    <3> QED BY <2>1, <3>2, <3>3
  <2> HIDE DEF more, n
  <2>4. Within(more, recorded)
    <3> SUFFICES ASSUME NEW k \in 1..Len(more) PROVE There(more[k])
      BY Zenon DEF Within
    <3>1. CASE k \in 1..Len(h)
      BY <1>3, <2>1, <3>1, Zenon DEF Within
    <3>2. CASE k = Len(h) + 1
      <4>1. There(n)
        BY <1>7, Zenon DEF n
      <4> QED BY <2>1, <3>2, <4>1, Zenon
    <3> QED BY <2>1, <3>1, <3>2, Zenon
  <2>5. ASSUME NEW k \in 1..Len(more) PROVE \E m \in 1..(i + 1) : mediaFrames[m].n = more[k]
    <3>1. CASE k \in 1..Len(h)
      BY <1>4, <1>5, <2>1, <3>1, Zenon
    <3>2. CASE k = Len(h) + 1
      <4>1. i + 1 \in 1..(i + 1)
        BY <1>1
      <4>2. mediaFrames[i + 1].n = more[k]
        BY <2>1, <3>2, Zenon DEF n
      <4> QED BY <4>1, <4>2, Zenon
    <3> QED BY <2>1, <3>1, <3>2, Zenon
  <2>6. ASSUME NEW m \in 1..(i + 1), Rgb(m) PROVE \E k \in 1..Len(more) : more[k] = mediaFrames[m].n
    <3>1. CASE m \in 1..i
      BY <1>4, <2>1, <2>6, <3>1, Zenon
    <3>2. CASE m = i + 1
      <4>1. more[Len(h) + 1] = mediaFrames[m].n
        BY <2>1, <3>2, Zenon DEF n
      <4> QED BY <2>1, <4>1, Zenon
    <3> QED BY <1>1, <3>1, <3>2, Zenon
  <2> QED BY <2>1, <2>3, <2>4, <2>5, <2>6, Zenon DEF KeptRows
<1> QED
  BY <1>6, <1>7, Zenon

\* ... and what the merge makes of it.
LEMMA MergeStepRight ==
    ASSUME NEW recorded \in Seq(Nat), mediaFrames \in Seq(FrameRowSet), Rising(mediaFrames),
           NEW i \in 0..(Len(mediaFrames) - 1), NEW d,
           d[i + 1] = StreamStep(d[i], mediaFrames[i + 1], "depth"),
           NEW out, MergedTo(out, i, recorded, d)
    PROVE  MergedTo(MergeStep(out, i + 1, recorded), i + 1, recorded, d)
<1> DEFINE frame == mediaFrames[i + 1]
           next == MergeStep(out, i + 1, recorded)
           There == \E j \in 1..Len(recorded) : recorded[j] = frame.n
           h == Media!Streamed(out, "rgb")
<1>1. frame \in FrameRowSet /\ frame.n \in Nat /\ (frame.stream = "rgb" \/ frame.stream = "depth")
      /\ "rgb" # "depth"
  <2>1. i + 1 \in 1..Len(mediaFrames)
    OBVIOUS
  <2>2. frame \in FrameRowSet
    BY <2>1
  <2> QED BY <2>2 DEF FrameRowSet
<1>2. out \in Seq(RowSet) /\ IndexRight(out, recorded) /\ Media!Streamed(out, "depth") = d[i]
      /\ KeptRows(h, i, recorded)
  BY Zenon DEF MergedTo
<1>3. DOMAIN recorded = 1..Len(recorded)
  OBVIOUS
<1>4. (frame.stream = "rgb" /\ There => KeptRows(Append(h, frame.n), i + 1, recorded))
      /\ (~(frame.stream = "rgb" /\ There) => KeptRows(h, i + 1, recorded))
  BY <1>2, KeptMore, Zenon
<1>5. d[i + 1] = IF frame.stream = "depth" THEN Append(d[i], frame.n) ELSE d[i]
  BY Zenon DEF StreamStep
<1> HIDE DEF next, frame, h
<1>6. ASSUME NEW row \in RowSet, next = Append(out, row),
             row.stream = "rgb" => row.index \in 1..Len(recorded) /\ recorded[row.index] = row.n
      PROVE  /\ next \in Seq(RowSet) /\ IndexRight(next, recorded)
             /\ Media!Streamed(next, "depth") = IF row.stream = "depth" THEN Append(d[i], row.n) ELSE d[i]
             /\ Media!Streamed(next, "rgb") = IF row.stream = "rgb" THEN Append(h, row.n) ELSE h
  <2>1. next \in Seq(RowSet) /\ Len(next) = Len(out) + 1 /\ (\A k \in 1..Len(out) : next[k] = out[k])
        /\ next[Len(out) + 1] = row /\ (\A k \in 1..Len(next) : k \in 1..Len(out) \/ k = Len(out) + 1)
    BY <1>2, <1>6
  <2>2. IndexRight(next, recorded)
    <3> SUFFICES ASSUME NEW k \in 1..Len(next), next[k].stream = "rgb"
                 PROVE  next[k].index \in 1..Len(recorded) /\ recorded[next[k].index] = next[k].n
      BY Zenon DEF IndexRight
    <3>1. CASE k \in 1..Len(out)
      BY <1>2, <2>1, <3>1, Zenon DEF IndexRight
    <3>2. CASE k = Len(out) + 1
      BY <1>6, <2>1, <3>2, Zenon
    <3> QED BY <2>1, <3>1, <3>2, Zenon
  <2>3. \A s : Media!Streamed(next, s) = StreamStep(Media!Streamed(out, s), row, s)
    BY <1>2, <1>6, StreamedMore, Zenon
  <2> QED BY <1>2, <2>1, <2>2, <2>3, Zenon DEF StreamStep, h
<1>7. CASE frame.stream = "depth"
  <2> DEFINE row == [stream |-> "depth", n |-> frame.n, index |-> 0]
  <2>1. row \in RowSet /\ row.stream = "depth" /\ row.n = frame.n
    BY <1>1 DEF RowSet
  <2>2. next = Append(out, row)
    BY <1>7, Zenon DEF next, frame, MergeStep
  <2> HIDE DEF row
  <2>3. /\ next \in Seq(RowSet) /\ IndexRight(next, recorded)
        /\ Media!Streamed(next, "depth") = Append(d[i], row.n)
        /\ Media!Streamed(next, "rgb") = h
    BY <1>1, <1>6, <2>1, <2>2, Zenon
  <2>4. KeptRows(h, i + 1, recorded)
    BY <1>1, <1>4, <1>7, Zenon
  <2>5. d[i + 1] = Append(d[i], row.n)
    BY <1>5, <1>7, <2>1, Zenon
  <2> QED BY <2>3, <2>4, <2>5, Zenon DEF MergedTo, next
<1>8. CASE frame.stream = "rgb" /\ There
  <2> DEFINE row == [stream |-> "rgb", n |-> frame.n, index |-> Media!IndexOf(recorded, frame.n)]
  <2>1. Media!IndexOf(recorded, frame.n) \in 1..Len(recorded)
        /\ recorded[Media!IndexOf(recorded, frame.n)] = frame.n
    BY <1>8, IndexIsThere
  <2>2. row \in RowSet /\ row.stream = "rgb" /\ row.n = frame.n
        /\ row.index = Media!IndexOf(recorded, frame.n)
    <3>1. Media!IndexOf(recorded, frame.n) \in Nat
      BY <2>1
    <3> QED BY <1>1, <3>1 DEF RowSet
  <2>3. next = Append(out, row)
    BY <1>1, <1>3, <1>8, Zenon DEF next, frame, MergeStep
  <2> HIDE DEF row
  <2>4. /\ next \in Seq(RowSet) /\ IndexRight(next, recorded)
        /\ Media!Streamed(next, "depth") = d[i]
        /\ Media!Streamed(next, "rgb") = Append(h, row.n)
    BY <1>1, <1>6, <2>1, <2>2, <2>3, Zenon
  <2>5. KeptRows(Append(h, row.n), i + 1, recorded)
    BY <1>4, <1>8, <2>2, Zenon
  <2>6. d[i + 1] = d[i]
    BY <1>1, <1>5, <1>8, Zenon
  <2> QED BY <2>4, <2>5, <2>6, Zenon DEF MergedTo, next
<1>9. CASE frame.stream = "rgb" /\ ~There
  <2>1. next = out
    BY <1>1, <1>3, <1>9, Zenon DEF next, frame, MergeStep
  <2>2. d[i + 1] = d[i]
    BY <1>1, <1>5, <1>9, Zenon
  <2>3. KeptRows(h, i + 1, recorded)
    BY <1>4, <1>9, Zenon
  <2> QED BY <1>2, <2>1, <2>2, <2>3, Zenon DEF MergedTo, next, h
<1> QED
  BY <1>1, <1>7, <1>8, <1>9, Zenon

\* merge_rgb_recorded_frames_into_frames: the RGB rows are the record, the depth rows stay.
LEMMA MergedRight ==
    ASSUME NEW recorded \in Seq(Nat), mediaFrames \in Seq(FrameRowSet), Rising(mediaFrames)
    PROVE  LET out == Media!Merged(recorded)
           IN  /\ out \in Seq(RowSet) /\ IndexRight(out, recorded)
               /\ Media!Streamed(out, "depth") = Media!Streamed(mediaFrames, "depth")
               /\ /\ Increasing(recorded)
                  /\ \A j \in 1..Len(recorded) :
                        \E m \in 1..Len(mediaFrames) :
                           mediaFrames[m].stream = "rgb" /\ mediaFrames[m].n = recorded[j]
                  => Media!Streamed(out, "rgb") = recorded
<1> DEFINE L == Len(mediaFrames)
           out == Media!Merged(recorded)
           h == Media!Streamed(out, "rgb")
<1>1. PICK f : Merging(f, recorded)
  BY MergingLoop
<1>2. PICK d : Streaming(d, mediaFrames, "depth")
  BY StreamingLoop
<1>3. f[0] = <<>> /\ (\A k \in 0..(L - 1) : f[k + 1] = MergeStep(f[k], k + 1, recorded)) /\ out = f[L]
  BY <1>1, Zenon DEF Merging
<1>4. d[0] = <<>> /\ (\A k \in 0..(L - 1) : d[k + 1] = StreamStep(d[k], mediaFrames[k + 1], "depth"))
      /\ Media!Streamed(mediaFrames, "depth") = d[L]
  BY <1>2, Zenon DEF Streaming
<1>5. L \in Nat /\ L \in 0..L
  OBVIOUS
<1>6. MergedTo(f[0], 0, recorded, d)
  <2>1. \A s : Media!Streamed(<<>>, s) = <<>>
    BY StreamedNothing
  <2> DEFINE none == <<>>
  <2>2. none \in Seq(RowSet) /\ none \in Seq(Nat) /\ Len(none) = 0 /\ 1..0 = {}
    OBVIOUS
  <2> HIDE DEF none
  <2>3. 1..Len(none) = {}
    BY <2>2
  <2>4. KeptRows(none, 0, recorded)
    BY <2>2, <2>3, Zenon DEF KeptRows, Increasing, Within
  <2>5. IndexRight(none, recorded)
    BY <2>3, Zenon DEF IndexRight
  <2>6. MergedTo(none, 0, recorded, d)
    BY <1>4, <2>1, <2>2, <2>4, <2>5, Zenon DEF MergedTo, none
  <2> QED BY <1>3, <2>6, Zenon DEF none
<1>7. MergedTo(f[L], L, recorded, d)
  <2> DEFINE S == {k \in 0..L : MergedTo(f[k], k, recorded, d)}
  <2>1. 0 \in S
    BY <1>5, <1>6
  <2>2. ASSUME NEW k \in 0..(L - 1), k \in S PROVE k + 1 \in S
    <3>1. MergedTo(MergeStep(f[k], k + 1, recorded), k + 1, recorded, d)
      BY <1>4, <2>2, MergeStepRight
    <3>2. k + 1 \in 0..L
      BY <1>5
    <3> QED BY <1>3, <2>2, <3>1, <3>2, Zenon
  <2>3. \A k \in 0..L : k \in S
    <3> HIDE DEF S, L
    <3> QED BY <1>5, <2>1, <2>2, UpTo
  <2> QED BY <1>5, <2>3, Zenon
<1>8. out \in Seq(RowSet) /\ IndexRight(out, recorded)
      /\ Media!Streamed(out, "depth") = Media!Streamed(mediaFrames, "depth") /\ KeptRows(h, L, recorded)
  BY <1>3, <1>4, <1>7, Zenon DEF MergedTo
<1>9. ASSUME Increasing(recorded),
             \A j \in 1..Len(recorded) :
                \E m \in 1..Len(mediaFrames) :
                   mediaFrames[m].stream = "rgb" /\ mediaFrames[m].n = recorded[j]
      PROVE  h = recorded
  <2>1. h \in Seq(Nat) /\ Increasing(h) /\ Within(h, recorded)
    BY <1>8, Zenon DEF KeptRows
  <2>2. Within(recorded, h)
    <3> SUFFICES ASSUME NEW j \in 1..Len(recorded) PROVE \E k \in 1..Len(h) : h[k] = recorded[j]
      BY Zenon DEF Within
    <3>1. PICK m \in 1..L : mediaFrames[m].stream = "rgb" /\ mediaFrames[m].n = recorded[j]
      BY <1>9, Zenon
    <3> HIDE DEF L
    <3>2. \E k \in 1..Len(h) : h[k] = mediaFrames[m].n
      BY <1>8, <3>1, Zenon DEF KeptRows
    <3> QED BY <3>1, <3>2, Zenon
  <2> HIDE DEF h
  <2> QED BY <1>9, <2>1, <2>2, SameIncreasing
<1> QED
  BY <1>8, <1>9, Zenon

-----------------------------------------------------------------------------
\* What the pipe and the recovery file have taken

\* Parameter sets that wait for a picture.
WaitingRight(prefix) ==
    prefix \in Seq(NalUnits) /\ \A i \in 1..Len(prefix) : prefix[i] \notin Media!Vcl

\* Access units, the first of which can be decoded on its own.
UnitsRight(units) ==
    /\ units \in Seq(UnitSet)
    /\ \A i \in 1..Len(units) : Media!IsUnit(units[i].nals)
    /\ units # <<>> => Media!DecodableStart(units[1].nals) = 1

\* Units and recorded rows have the same numbers.
Aligned(units, recorded) ==
    \A i \in 1..Len(units) : i \in 1..Len(recorded) => units[i].n = recorded[i]

LEMMA NoUnits ==
    /\ UnitsRight(<<>>)
    /\ \A recorded : Aligned(<<>>, recorded)
<1>1. <<>> \in Seq(UnitSet) /\ Len(<<>>) = 0
  OBVIOUS
<1>2. 1..Len(<<>>) = {}
  BY <1>1
<1> QED
  BY <1>1, <1>2, Zenon DEF UnitsRight, Aligned

LEMMA Concat ==
    ASSUME NEW T, NEW s \in Seq(T), NEW t \in Seq(T)
    PROVE  /\ s \o t \in Seq(T) /\ Len(s \o t) = Len(s) + Len(t) /\ Len(s) \in Nat /\ Len(t) \in Nat
           /\ \A i \in 1..Len(s) : (s \o t)[i] = s[i]
           /\ \A i \in 1..Len(t) : (s \o t)[Len(s) + i] = t[i]
OBVIOUS

\* A sink takes what is written.
LEMMA UnitsTaken ==
    ASSUME NEW units, UnitsRight(units), NEW recorded \in Seq(Nat), Aligned(units, recorded),
           Len(units) = Len(recorded), NEW st, WrittenRight(st),
           units # <<>> \/ (st.units # <<>> => Media!DecodableStart(st.units[1].nals) = 1)
    PROVE  /\ UnitsRight(units \o st.units)
           /\ Aligned(units \o st.units, recorded)
           /\ Aligned(units \o st.units, recorded \o st.rows)
           /\ Len(units \o st.units) = Len(recorded \o st.rows)
           /\ units # <<>> \/ st.units # <<>> => units \o st.units # <<>>
<1> DEFINE m == Len(units)
           more == st.units
           nums == st.rows
           new == units \o more
           recs == recorded \o nums
<1>1. /\ units \in Seq(UnitSet) /\ \A i \in 1..m : Media!IsUnit(units[i].nals)
      /\ units # <<>> => Media!DecodableStart(units[1].nals) = 1
  BY Zenon DEF UnitsRight
<1>2. /\ nums \in Seq(Nat) /\ more \in Seq(UnitSet) /\ Len(nums) = Len(more)
      /\ \A i \in 1..Len(nums) : more[i].n = nums[i] /\ Media!IsUnit(more[i].nals)
  BY Zenon DEF WrittenRight
<1>3. units # <<>> \/ (more # <<>> => Media!DecodableStart(more[1].nals) = 1)
  OBVIOUS
<1>4. \A i \in 1..m : i \in 1..Len(recorded) => units[i].n = recorded[i]
  BY Zenon DEF Aligned
<1> HIDE DEF more, nums
<1>5. /\ new \in Seq(UnitSet) /\ Len(new) = m + Len(more) /\ m \in Nat /\ Len(more) \in Nat
      /\ (\A i \in 1..m : new[i] = units[i]) /\ (\A i \in 1..Len(more) : new[m + i] = more[i])
      /\ Len(recs) = m + Len(more) /\ (\A i \in 1..m : recs[i] = recorded[i])
      /\ (\A i \in 1..Len(more) : recs[m + i] = nums[i]) /\ m = Len(recorded)
  <2>1. /\ new \in Seq(UnitSet) /\ Len(new) = m + Len(more) /\ m \in Nat /\ Len(more) \in Nat
        /\ (\A i \in 1..m : new[i] = units[i]) /\ (\A i \in 1..Len(more) : new[m + i] = more[i])
    <3>1. units \in Seq(UnitSet) /\ more \in Seq(UnitSet)
      BY <1>1, <1>2
    <3>2. new \in Seq(UnitSet)
      BY <3>1, Concat
    <3>3. Len(new) = Len(units) + Len(more) /\ Len(units) \in Nat /\ Len(more) \in Nat
      BY <3>1, Concat
    <3>4. \A i \in 1..Len(units) : new[i] = units[i]
      BY <3>1, Concat
    <3>5. \A i \in 1..Len(more) : new[Len(units) + i] = more[i]
      BY <3>1, Concat
    <3> QED BY <3>2, <3>3, <3>4, <3>5, Zenon
  <2>2. Len(recs) = Len(recorded) + Len(nums) /\ (\A i \in 1..Len(recorded) : recs[i] = recorded[i])
        /\ (\A i \in 1..Len(nums) : recs[Len(recorded) + i] = nums[i])
    <3>1. recorded \in Seq(Nat) /\ nums \in Seq(Nat)
      BY <1>2
    <3> QED BY <3>1, Concat
  <2>3. m = Len(recorded)
    OBVIOUS
  <2> HIDE DEF m, new, recs
  <2> QED BY <1>2, <2>1, <2>2, <2>3
<1> HIDE DEF m, new, recs
<1>6. \A i \in 1..Len(new) : i \in 1..m \/ (i - m \in 1..Len(more) /\ m + (i - m) = i)
  BY <1>5
<1>7. \A i \in 1..Len(new) : Media!IsUnit(new[i].nals) /\ new[i].n = recs[i]
  <2> TAKE i \in 1..Len(new)
  <2>1. CASE i \in 1..m
    <3>1. i \in 1..Len(recorded)
      BY <1>5, <2>1
    <3>2. new[i] = units[i] /\ recs[i] = recorded[i]
      BY <1>5, <2>1, Zenon
    <3>3. units[i].n = recorded[i]
      BY <1>4, <2>1, <3>1, Zenon
    <3>4. Media!IsUnit(units[i].nals)
      BY <1>1, <2>1, Zenon
    <3> QED BY <3>2, <3>3, <3>4
  <2>2. CASE i - m \in 1..Len(more) /\ m + (i - m) = i
    <3>1. i - m \in 1..Len(nums)
      BY <1>2, <2>2, Zenon
    <3>2. new[i] = more[i - m] /\ recs[i] = nums[i - m]
      <4>1. new[m + (i - m)] = more[i - m] /\ recs[m + (i - m)] = nums[i - m]
        BY <1>5, <2>2, Zenon
      <4> QED BY <2>2, <4>1, Zenon
    <3>3. more[i - m].n = nums[i - m] /\ Media!IsUnit(more[i - m].nals)
      BY <1>2, <3>1, Zenon
    <3> QED BY <3>2, <3>3
  <2> QED BY <1>6, <2>1, <2>2, Zenon
<1>8. ASSUME new # <<>> PROVE Media!DecodableStart(new[1].nals) = 1
  <2>1. CASE units # <<>>
    <3>1. 1 \in 1..m
      BY <1>1, <2>1 DEF m
    <3> QED BY <1>1, <1>5, <2>1, <3>1, Zenon
  <2>2. CASE units = <<>>
    <3>1. m = 0
      BY <2>2 DEF m
    <3>2. more # <<>> /\ 1 \in 1..Len(more) /\ m + 1 = 1
      BY <1>2, <1>5, <1>8, <2>2, <3>1 DEF new
    <3> QED BY <1>3, <1>5, <2>2, <3>2, Zenon
  <2> QED BY <2>1, <2>2
<1>9. UnitsRight(new)
  BY <1>5, <1>7, <1>8, Zenon DEF UnitsRight
<1>10. Aligned(new, recs)
  BY <1>7, Zenon DEF Aligned
<1>11. Aligned(new, recorded)
  BY <1>5, <1>7, Zenon DEF Aligned
<1>12. units # <<>> \/ more # <<>> => new # <<>>
  <2>1. units # <<>> \/ more # <<>> => Len(new) # 0
    BY <1>1, <1>2, <1>5 DEF m
  <2> QED BY <2>1
<1> QED
  BY <1>5, <1>9, <1>10, <1>11, <1>12, Zenon DEF new, recs, more, nums

\* A sink that takes nothing more.
LEMMA UnitsLeft ==
    ASSUME NEW units, UnitsRight(units), NEW recorded \in Seq(Nat), Aligned(units, recorded),
           Len(units) <= Len(recorded), NEW nums \in Seq(Nat)
    PROVE  Aligned(units, recorded \o nums) /\ Len(units) <= Len(recorded \o nums)
<1>1. Len(units) \in Nat
  BY DEF UnitsRight
<1>2. Len(recorded \o nums) = Len(recorded) + Len(nums) /\ Len(recorded) \in Nat /\ Len(nums) \in Nat
      /\ \A i \in 1..Len(recorded) : (recorded \o nums)[i] = recorded[i]
  OBVIOUS
<1>3. \A i \in 1..Len(units) : i \in 1..Len(recorded)
  BY <1>1, <1>2
<1> QED
  BY <1>1, <1>2, <1>3 DEF Aligned

\* A pipe that breaks loses the last units.
LEMMA UnitsCut ==
    ASSUME NEW units, UnitsRight(units), NEW recorded, Aligned(units, recorded), NEW k \in 0..Len(units)
    PROVE  /\ UnitsRight(SubSeq(units, 1, k)) /\ Aligned(SubSeq(units, 1, k), recorded)
           /\ Len(SubSeq(units, 1, k)) = k
<1> DEFINE left == SubSeq(units, 1, k)
<1>1. /\ units \in Seq(UnitSet) /\ \A i \in 1..Len(units) : Media!IsUnit(units[i].nals)
      /\ units # <<>> => Media!DecodableStart(units[1].nals) = 1
  BY Zenon DEF UnitsRight
<1>2. left \in Seq(UnitSet) /\ Len(left) = k /\ (\A i \in 1..k : left[i] = units[i]) /\ k \in Nat
      /\ (\A i \in 1..k : i \in 1..Len(units))
  BY <1>1
<1> HIDE DEF left
<1>3. left # <<>> => 1 \in 1..k /\ units # <<>>
  <2> SUFFICES ASSUME left # <<>> PROVE 1 \in 1..k /\ units # <<>>
    OBVIOUS
  <2>1. k # 0
    BY <1>2
  <2>2. Len(units) # 0
    BY <1>1, <1>2, <2>1
  <2> QED BY <1>2, <2>1, <2>2
<1>4. UnitsRight(left)
  BY <1>1, <1>2, <1>3, Zenon DEF UnitsRight
<1>5. Aligned(left, recorded)
  BY <1>2, Zenon DEF Aligned
<1> QED
  BY <1>2, <1>4, <1>5, Zenon DEF left

-----------------------------------------------------------------------------
\* What holds of a segment until it is closed

\* The two tables, of packets up to c.
RowsRight(recorded, c) ==
    recorded \in Seq(Nat) /\ Increasing(recorded) /\ \A i \in 1..Len(recorded) : recorded[i] <= c
FramesRight(table, c) ==
    table \in Seq(FrameRowSet) /\ Rising(table) /\ \A m \in 1..Len(table) : table[m].n <= c
RgbRow(table, x) == \E m \in 1..Len(table) : table[m].stream = "rgb" /\ table[m].n = x

\* What the pipe p and the recovery file have taken are the recorded rows; a pipe that broke
\* has lost the last of them.
TakenRight(rec, mp4, nut, recorded, p) ==
    /\ Len(mp4) <= Len(recorded)
    /\ p = "open" => Len(mp4) = Len(recorded)
    /\ rec => Len(nut) = Len(recorded)
StartedRight(rec, mp4, nut, p) ==
    /\ p = "open" => mp4 # <<>>
    /\ rec => nut # <<>>
SinksRight(rec, mp4, nut, recorded) ==
    /\ UnitsRight(mp4) /\ UnitsRight(nut) /\ Aligned(mp4, recorded) /\ Aligned(nut, recorded)
    /\ ~rec => nut = <<>>

\* Before the first write, and once there is a writer.
BeforeWriter ==
    /\ PendingRight(rgb) /\ rgb.prefix = <<>> /\ rows = <<>>
    /\ media.mp4 = <<>> /\ media.nut = <<>> /\ pipe = "none"
    /\ \A k \in 1..Len(rgb.infos) : rgb.infos[k].n <= mediaCount
WithWriter ==
    /\ WaitingRight(rgb.prefix) /\ pipe # "none"
    /\ TakenRight(mediaRecovery, media.mp4, media.nut, rows, pipe) /\ StartedRight(mediaRecovery, media.mp4, media.nut, pipe)

\* The depth frames are all held back, or all in one part.
DepthRight(d, numbers) ==
    /\ numbers \in Seq(Nat)
    /\ \/ d.pipe = "none" /\ d.parts = <<>> /\ d.pending = numbers
       \/ d.pipe = "open" /\ d.pending = <<>> /\ d.parts = <<numbers>>
\* As long as nothing has failed.
FaultFree ==
    /\ mediaPhase = "open"
    /\ IF rgb.writer THEN pipe = "open"
       ELSE \A k \in 1..Len(rgb.infos) : rgb.infos[k].vcl => RgbRow(mediaFrames, rgb.infos[k].n)
    /\ \A j \in 1..Len(rows) : RgbRow(mediaFrames, rows[j])
    /\ DepthRight(depth, Media!Streamed(mediaFrames, "depth"))

\* Until close().
MediaBody ==
    /\ final = Media!NoFinal
    /\ mediaRecovery \in BOOLEAN /\ mediaCount \in Nat /\ mediaFaults \in Nat
    /\ rgb.writer \in BOOLEAN
    /\ SinksRight(mediaRecovery, media.mp4, media.nut, rows)
    /\ RowsRight(rows, mediaCount)
    /\ FramesRight(mediaFrames, mediaCount)
    /\ ~rgb.writer => BeforeWriter
    /\ rgb.writer /\ mediaPhase = "open" => WithWriter
    /\ mediaFaults = 0 => FaultFree

\* The inductive invariant.
MediaInv ==
    /\ Media!IndexMatchesMedia
    /\ mediaPhase \in {"open", "failed", "closed"}
    /\ mediaPhase # "closed" => MediaBody

\* The encoder puts the pictures of a packet behind its parameter sets.
MediaConstants == \A payload \in MediaPayloads : PayloadRight(payload)

\* A write into the sinks.
LEMMA SinksTake ==
    ASSUME NEW rec, NEW mp4, NEW nut, NEW recorded \in Seq(Nat), SinksRight(rec, mp4, nut, recorded),
           rec \in BOOLEAN,
           NEW p, TakenRight(rec, mp4, nut, recorded, p), NEW st, WrittenRight(st),
           \/ StartedRight(rec, mp4, nut, p)
           \/ st.units # <<>> => Media!DecodableStart(st.units[1].nals) = 1
    PROVE  LET mp4n == IF p = "open" THEN mp4 \o st.units ELSE mp4
               nutn == IF rec THEN nut \o st.units ELSE nut
               recs == recorded \o st.rows
           IN  /\ SinksRight(rec, mp4n, nutn, recorded) /\ SinksRight(rec, mp4n, nutn, recs)
               /\ TakenRight(rec, mp4n, nutn, recs, p)
               /\ StartedRight(rec, mp4, nut, p) \/ st.units # <<>> => StartedRight(rec, mp4n, nutn, p)
<1> DEFINE mp4n == IF p = "open" THEN mp4 \o st.units ELSE mp4
           nutn == IF rec THEN nut \o st.units ELSE nut
           recs == recorded \o st.rows
<1>1. UnitsRight(mp4) /\ UnitsRight(nut) /\ Aligned(mp4, recorded) /\ Aligned(nut, recorded)
      /\ (~rec => nut = <<>>)
  BY Zenon DEF SinksRight
<1>2. Len(mp4) <= Len(recorded) /\ (p = "open" => Len(mp4) = Len(recorded))
      /\ (rec => Len(nut) = Len(recorded))
  BY Zenon DEF TakenRight
<1>3. /\ (p = "open" => mp4 # <<>>) \/ (st.units # <<>> => Media!DecodableStart(st.units[1].nals) = 1)
      /\ (rec => nut # <<>>) \/ (st.units # <<>> => Media!DecodableStart(st.units[1].nals) = 1)
  BY Zenon DEF StartedRight
<1>4. st.rows \in Seq(Nat)
  BY Zenon DEF WrittenRight
<1>5. /\ UnitsRight(mp4n) /\ Aligned(mp4n, recorded) /\ Aligned(mp4n, recs) /\ Len(mp4n) <= Len(recs)
      /\ p = "open" => /\ Len(mp4n) = Len(recs)
                       /\ (mp4 # <<>> \/ st.units # <<>> => mp4n # <<>>)
  <2>1. CASE p = "open"
    <3>1. mp4n = mp4 \o st.units
      BY <2>1
    <3>2. /\ UnitsRight(mp4 \o st.units) /\ Aligned(mp4 \o st.units, recorded)
          /\ Aligned(mp4 \o st.units, recs) /\ Len(mp4 \o st.units) = Len(recs)
          /\ (mp4 # <<>> \/ st.units # <<>> => mp4 \o st.units # <<>>)
      BY <1>1, <1>2, <1>3, <2>1, UnitsTaken, Zenon
    <3>3. Len(recs) \in Nat
      BY <1>4
    <3> HIDE DEF mp4n, recs
    <3> QED BY <3>1, <3>2, <3>3
  <2>2. CASE p # "open"
    <3>1. mp4n = mp4
      BY <2>2
    <3> HIDE DEF mp4n
    <3> QED BY <1>1, <1>2, <1>4, <2>2, <3>1, UnitsLeft, Zenon
  <2> QED BY <2>1, <2>2, Zenon
<1>6. /\ UnitsRight(nutn) /\ Aligned(nutn, recorded) /\ Aligned(nutn, recs)
      /\ rec => /\ Len(nutn) = Len(recs)
                          /\ (nut # <<>> \/ st.units # <<>> => nutn # <<>>)
      /\ ~rec => nutn = <<>>
  <2>1. CASE rec
    <3>1. nutn = nut \o st.units
      BY <2>1
    <3> HIDE DEF nutn
    <3> QED BY <1>1, <1>2, <1>3, <2>1, <3>1, UnitsTaken, Zenon
  <2>2. CASE ~rec
    <3>1. nutn = <<>>
      BY <1>1, <2>2, Zenon
    <3> HIDE DEF nutn
    <3> QED BY <2>2, <3>1, NoUnits, Zenon
  <2> QED BY <2>1, <2>2, Zenon
<1> HIDE DEF mp4n, nutn, recs
<1>7. SinksRight(rec, mp4n, nutn, recorded) /\ SinksRight(rec, mp4n, nutn, recs)
  BY <1>5, <1>6, Zenon DEF SinksRight
<1>8. TakenRight(rec, mp4n, nutn, recs, p)
  BY <1>5, <1>6, Zenon DEF TakenRight
<1>9. StartedRight(rec, mp4, nut, p) \/ st.units # <<>> => StartedRight(rec, mp4n, nutn, p)
  BY <1>5, <1>6, Zenon DEF StartedRight
<1> QED
  BY <1>7, <1>8, <1>9, Zenon DEF mp4n, nutn, recs

\* Rows of later packets.
LEMMA RowsMore ==
    ASSUME NEW c \in Nat, NEW e \in Nat, c <= e, NEW recorded, RowsRight(recorded, c),
           NEW nums \in Seq(Nat), Increasing(nums),
           \A j \in 1..Len(nums) : nums[j] <= e /\ (recorded # <<>> => c < nums[j])
    PROVE  RowsRight(recorded \o nums, e)
<1> DEFINE recs == recorded \o nums
           m == Len(recorded)
<1>1. recorded \in Seq(Nat) /\ (\A i, j \in 1..m : i < j => recorded[i] < recorded[j])
      /\ \A i \in 1..m : recorded[i] <= c
  BY Zenon DEF RowsRight, Increasing
<1>2. \A i, j \in 1..Len(nums) : i < j => nums[i] < nums[j]
  BY Zenon DEF Increasing
<1>3. /\ recs \in Seq(Nat) /\ m \in Nat /\ Len(nums) \in Nat /\ Len(recs) = m + Len(nums)
      /\ (\A i \in 1..m : recs[i] = recorded[i]) /\ (\A i \in 1..Len(nums) : recs[m + i] = nums[i])
      /\ (\A i \in 1..m : recorded[i] \in Nat) /\ (\A i \in 1..Len(nums) : nums[i] \in Nat)
  BY <1>1
<1>4. \A i \in 1..m : recorded # <<>>
  BY <1>1
<1> HIDE DEF recs, m
<1>5. \A i \in 1..Len(recs) : i \in 1..m \/ (i - m \in 1..Len(nums) /\ m + (i - m) = i)
  BY <1>3
<1>6. ASSUME NEW i \in 1..Len(recs) PROVE recs[i] <= e
  <2>1. CASE i \in 1..m
    <3>1. recs[i] = recorded[i] /\ recorded[i] <= c /\ recorded[i] \in Nat
      BY <1>1, <1>3, <2>1, Zenon DEF m
    <3> QED BY <3>1
  <2>2. CASE i - m \in 1..Len(nums) /\ m + (i - m) = i
    BY <1>3, <2>2, Zenon
  <2> QED BY <1>5, <2>1, <2>2, Zenon
<1>7. ASSUME NEW i \in 1..Len(recs), NEW j \in 1..Len(recs), i < j PROVE recs[i] < recs[j]
  <2>1. CASE j \in 1..m
    <3>1. i \in 1..m
      BY <1>3, <1>7, <2>1
    <3> QED BY <1>1, <1>3, <1>7, <2>1, <3>1, Zenon DEF m
  <2>2. CASE i \in 1..m /\ j - m \in 1..Len(nums) /\ m + (j - m) = j
    <3>1. recs[i] = recorded[i] /\ recorded[i] <= c /\ recorded[i] \in Nat
      BY <1>1, <1>3, <2>2, Zenon DEF m
    <3>2. recs[j] = nums[j - m] /\ c < nums[j - m] /\ nums[j - m] \in Nat
      BY <1>3, <1>4, <2>2, Zenon
    <3> QED BY <3>1, <3>2
  <2>3. CASE i - m \in 1..Len(nums) /\ m + (i - m) = i /\ j - m \in 1..Len(nums) /\ m + (j - m) = j
    <3>1. i - m < j - m
      BY <1>3, <1>7
    <3>2. recs[i] = nums[i - m] /\ recs[j] = nums[j - m]
      BY <1>3, <2>3, Zenon
    <3> QED BY <1>2, <2>3, <3>1, <3>2, Zenon
  <2> QED BY <1>5, <2>1, <2>2, <2>3, Zenon
<1>8. RowsRight(recs, e)
  BY <1>3, <1>6, <1>7, Zenon DEF RowsRight, Increasing
<1> QED
  BY <1>8 DEF recs

\* The row of a packet, with or without a picture.
LEMMA FrameMore ==
    ASSUME FramesRight(mediaFrames, mediaCount), mediaCount \in Nat, NEW row \in FrameRowSet,
           row.n = mediaCount + 1
    PROVE  LET more == Append(mediaFrames, row)
           IN  /\ FramesRight(more, mediaCount + 1)
               /\ \A x : RgbRow(mediaFrames, x) => RgbRow(more, x)
               /\ row.stream = "rgb" => RgbRow(more, row.n)
               /\ Media!Streamed(more, "depth")
                    = StreamStep(Media!Streamed(mediaFrames, "depth"), row, "depth")
<1> DEFINE more == Append(mediaFrames, row)
           m == Len(mediaFrames)
<1>1. mediaFrames \in Seq(FrameRowSet) /\ (\A k, l \in 1..m : k < l => mediaFrames[k].n < mediaFrames[l].n)
      /\ \A k \in 1..m : mediaFrames[k].n <= mediaCount
  BY Zenon DEF FramesRight, Rising
<1>2. Media!Streamed(more, "depth") = StreamStep(Media!Streamed(mediaFrames, "depth"), row, "depth")
  BY <1>1, StreamedMore, Zenon
<1>3. more \in Seq(FrameRowSet) /\ Len(more) = m + 1 /\ (\A k \in 1..m : more[k] = mediaFrames[k])
      /\ more[m + 1] = row /\ m \in Nat /\ (\A k \in 1..m : k \in 1..Len(more)) /\ m + 1 \in 1..Len(more)
      /\ (\A k \in 1..Len(more) : k \in 1..m \/ k = m + 1)
  BY <1>1
<1>4. \A k \in 1..m : mediaFrames[k].n \in Nat
  <2>1. \A k \in 1..m : mediaFrames[k] \in FrameRowSet
    BY <1>1
  <2> QED BY <2>1 DEF FrameRowSet
<1> HIDE DEF more, m
<1>5. ASSUME NEW k \in 1..Len(more) PROVE more[k].n <= mediaCount + 1
  <2>1. CASE k \in 1..m
    <3>1. more[k].n <= mediaCount /\ more[k].n \in Nat
      BY <1>1, <1>3, <1>4, <2>1, Zenon
    <3> QED BY <3>1
  <2>2. CASE k = m + 1
    <3>1. more[k].n = mediaCount + 1
      BY <1>3, <2>2, Zenon
    <3> QED BY <3>1
  <2> QED BY <1>3, <2>1, <2>2, Zenon
<1>6. ASSUME NEW k \in 1..Len(more), NEW l \in 1..Len(more), k < l PROVE more[k].n < more[l].n
  <2>1. k \in 1..m
    BY <1>3, <1>6
  <2>2. CASE l \in 1..m
    BY <1>1, <1>3, <1>6, <2>1, <2>2, Zenon
  <2>3. CASE l = m + 1
    <3>1. more[k].n <= mediaCount /\ more[k].n \in Nat
      BY <1>1, <1>3, <1>4, <2>1, Zenon
    <3>2. more[l].n = mediaCount + 1
      BY <1>3, <2>3, Zenon
    <3> QED BY <3>1, <3>2
  <2> QED BY <1>3, <2>2, <2>3, Zenon
<1>7. FramesRight(more, mediaCount + 1)
  BY <1>3, <1>5, <1>6, Zenon DEF FramesRight, Rising
<1>8. ASSUME NEW x, RgbRow(mediaFrames, x) PROVE RgbRow(more, x)
  <2>1. PICK k \in 1..m : mediaFrames[k].stream = "rgb" /\ mediaFrames[k].n = x
    BY <1>8, Zenon DEF RgbRow, m
  <2> QED BY <1>3, <2>1, Zenon DEF RgbRow
<1>9. row.stream = "rgb" => RgbRow(more, row.n)
  BY <1>3, Zenon DEF RgbRow
<1> QED
  BY <1>2, <1>7, <1>8, <1>9, Zenon DEF more

\* The tables do not change with the next packet.
LEMMA FramesLater ==
    ASSUME NEW c \in Nat, FramesRight(mediaFrames, c)
    PROVE  FramesRight(mediaFrames, c + 1)
<1>1. mediaFrames \in Seq(FrameRowSet) /\ Rising(mediaFrames)
      /\ \A k \in 1..Len(mediaFrames) : mediaFrames[k].n <= c
  BY Zenon DEF FramesRight
<1>2. \A k \in 1..Len(mediaFrames) : mediaFrames[k] \in FrameRowSet
  BY <1>1
<1>3. \A k \in 1..Len(mediaFrames) : mediaFrames[k].n <= c + 1
  <2> TAKE k \in 1..Len(mediaFrames)
  <2>1. mediaFrames[k].n <= c /\ mediaFrames[k].n \in Nat
    BY <1>1, <1>2 DEF FrameRowSet
  <2> QED BY <2>1
<1> QED
  BY <1>1, <1>3, Zenon DEF FramesRight

LEMMA RowsLater ==
    ASSUME NEW c \in Nat, NEW recs, RowsRight(recs, c)
    PROVE  RowsRight(recs, c + 1)
<1>1. recs \in Seq(Nat) /\ Increasing(recs) /\ \A k \in 1..Len(recs) : recs[k] <= c
  BY Zenon DEF RowsRight
<1>2. \A k \in 1..Len(recs) : recs[k] <= c + 1
  <2> TAKE k \in 1..Len(recs)
  <2>1. recs[k] <= c /\ recs[k] \in Nat
    BY <1>1
  <2> QED BY <2>1
<1> QED
  BY <1>1, <1>2, Zenon DEF RowsRight

\* write_packet adds a row for a packet with pictures.
LEMMA FrameRowRight ==
    ASSUME FramesRight(mediaFrames, mediaCount), mediaCount \in Nat, mediaCount' = mediaCount + 1,
           NEW q, Media!FrameRow(mediaCount', q)
    PROVE  /\ FramesRight(mediaFrames', mediaCount')
           /\ \A x : RgbRow(mediaFrames, x) => RgbRow(mediaFrames', x)
           /\ Media!HasVcl(q) => RgbRow(mediaFrames', mediaCount')
           /\ Media!Streamed(mediaFrames, "depth")' = Media!Streamed(mediaFrames, "depth")
<1>1. CASE Media!HasVcl(q)
  <2> DEFINE row == [stream |-> "rgb", n |-> mediaCount + 1]
             more == Append(mediaFrames, row)
  <2>1. row \in FrameRowSet /\ row.n = mediaCount + 1 /\ row.stream = "rgb" /\ "rgb" # "depth"
    BY DEF FrameRowSet
  <2>2. mediaFrames' = more
    BY <1>1, Zenon DEF Media!FrameRow
  <2> HIDE DEF row
  <2>3. /\ FramesRight(more, mediaCount + 1)
        /\ \A x : RgbRow(mediaFrames, x) => RgbRow(more, x)
        /\ RgbRow(more, row.n)
        /\ Media!Streamed(more, "depth") = Media!Streamed(mediaFrames, "depth")
    BY <2>1, FrameMore, Zenon DEF StreamStep
  <2>4. Media!Streamed(mediaFrames, "depth")' = Media!Streamed(mediaFrames', "depth")
    BY Zenon DEF Media!Streamed
  <2> HIDE DEF more
  <2> QED BY <1>1, <2>1, <2>2, <2>3, <2>4, Zenon
<1>2. CASE ~Media!HasVcl(q)
  <2>1. mediaFrames' = mediaFrames
    BY <1>2, Zenon DEF Media!FrameRow
  <2>2. Media!Streamed(mediaFrames, "depth")' = Media!Streamed(mediaFrames', "depth")
    BY Zenon DEF Media!Streamed
  <2> QED BY <1>2, <2>1, <2>2, FramesLater, Zenon
<1> QED
  BY <1>1, <1>2, Zenon

-----------------------------------------------------------------------------
\* What a write leaves written

\* The packet n with payload q, or a packet that was held back.
Brought(x, n, q) ==
    \/ x = n /\ Media!HasVcl(q)
    \/ \E l \in 1..Len(rgb.infos) : rgb.infos[l].vcl /\ rgb.infos[l].n = x
Brings(st, n, q) ==
    /\ WrittenRight(st) /\ Increasing(st.rows)
    /\ \A i \in 1..Len(st.rows) : st.rows[i] <= n /\ Brought(st.rows[i], n, q)
    /\ st.units # <<>> => Media!DecodableStart(st.units[1].nals) = 1

\* What write_rgb_packet flushes: the packets held back, and with them its own where there
\* is room.
ToFlush(n, q) == IF Media!Full(q) THEN rgb ELSE Media!Held(n, q)

\* What a flush writes has been brought by packets of this segment.
LEMMA FlushBrings ==
    ASSUME BeforeWriter, mediaCount \in Nat, NEW q, PayloadRight(q), NEW n, n = mediaCount + 1,
           ToFlush(n, q).hasStart, NEW k \in 0..Len(ToFlush(n, q).infos)
    PROVE  LET r  == ToFlush(n, q)
               st == Media!FlushFirst(r)[k]
           IN  /\ Brings(st, n, q)
               /\ Media!Full(q) => \A i \in 1..Len(st.rows) : st.rows[i] < n
               /\ k = Len(r.infos) => st.units # <<>>
<1> DEFINE r == ToFlush(n, q)
           st == Media!FlushFirst(r)[k]
<1>1. PendingRight(rgb) /\ rgb.prefix = <<>> /\ \A l \in 1..Len(rgb.infos) : rgb.infos[l].n <= mediaCount
  BY Zenon DEF BeforeWriter
<1>2. rgb.infos \in Seq(InfoSet) /\ \A l \in 1..Len(rgb.infos) : rgb.infos[l].n \in Nat
  <2>1. rgb.infos \in Seq(InfoSet)
    BY <1>1, Zenon DEF PendingRight
  <2>2. \A l \in 1..Len(rgb.infos) : rgb.infos[l] \in InfoSet
    BY <2>1
  <2> QED BY <2>1, <2>2 DEF InfoSet
<1>3. n \in Nat /\ \A l \in 1..Len(rgb.infos) : rgb.infos[l].n < n
  <2>1. n \in Nat
    OBVIOUS
  <2>2. ASSUME NEW l \in 1..Len(rgb.infos) PROVE rgb.infos[l].n < n
    <3>1. rgb.infos[l].n \in Nat /\ rgb.infos[l].n <= mediaCount
      BY <1>1, <1>2, Zenon
    <3> QED BY <3>1
  <2> QED BY <2>1, <2>2
<1>4. /\ PendingRight(r)
      /\ \A m \in 1..Len(r.infos) :
            /\ r.infos[m].n <= n /\ (Media!Full(q) => r.infos[m].n < n)
            /\ r.infos[m].vcl => Brought(r.infos[m].n, n, q)
  <2>1. CASE Media!Full(q)
    <3>1. r = rgb
      BY <2>1, Zenon DEF ToFlush
    <3> HIDE DEF r
    <3>2. ASSUME NEW m \in 1..Len(rgb.infos) PROVE rgb.infos[m].n <= n
      <4>1. rgb.infos[m].n < n /\ rgb.infos[m].n \in Nat
        BY <1>2, <1>3, Zenon
      <4> QED BY <1>3, <4>1
    <3> QED BY <1>1, <1>3, <3>1, <3>2, Zenon DEF Brought
  <2>2. CASE ~Media!Full(q)
    <3> DEFINE held == Media!Held(n, q)
    <3>1. r = held
      BY <2>2, Zenon DEF ToFlush
    <3> HIDE DEF r
    <3>2. PendingRight(held) /\ \A m \in 1..Len(held.infos) : Came(held.infos[m], n, q)
      <4>1. PendingRight(rgb) /\ n \in Nat /\ \A l \in 1..Len(rgb.infos) : rgb.infos[l].n < n
        BY <1>1, <1>3, Zenon
      <4> QED BY <4>1, HeldIsRight, Zenon
    <3> HIDE DEF held
    <3>3. ASSUME NEW m \in 1..Len(held.infos)
          PROVE  held.infos[m].n <= n /\ (held.infos[m].vcl => Brought(held.infos[m].n, n, q))
      <4>1. CASE held.infos[m].n = n /\ (held.infos[m].vcl => Media!HasVcl(q))
        <5>1. held.infos[m].n <= n
          BY <1>3, <4>1
        <5> QED BY <4>1, <5>1, Zenon DEF Brought
      <4>2. ASSUME NEW l \in 1..Len(rgb.infos), held.infos[m].n = rgb.infos[l].n,
                   held.infos[m].vcl = rgb.infos[l].vcl
            PROVE  held.infos[m].n <= n /\ (held.infos[m].vcl => Brought(held.infos[m].n, n, q))
        <5>1. rgb.infos[l].n < n /\ rgb.infos[l].n \in Nat
          BY <1>2, <1>3, Zenon
        <5>2. held.infos[m].n <= n
          BY <1>3, <4>2, <5>1
        <5> QED BY <4>2, <5>2, Zenon DEF Brought
      <4> QED BY <3>2, <4>1, <4>2, Zenon DEF Came
    <3> QED BY <2>2, <3>1, <3>2, <3>3, Zenon
  <2> QED BY <2>1, <2>2, Zenon
<1> HIDE DEF r
<1>5. /\ FlushRight(r, k, st)
      /\ st.units # <<>> => Media!DecodableStart(st.units[1].nals) = 1
      /\ k = Len(r.infos) => st.units # <<>>
  BY <1>1, <1>4, FlushIsRight, Zenon DEF r
<1> HIDE DEF st
<1>6. WrittenRight(st) /\ Increasing(st.rows)
      /\ \A i \in 1..Len(st.rows) : \E m \in 1..k : r.infos[m].vcl /\ r.infos[m].n = st.rows[i]
  BY <1>5, Zenon DEF FlushRight
<1>7. \A m \in 1..k : m \in 1..Len(r.infos)
  <2>1. Len(r.infos) \in Nat
    <3>1. r.infos \in Seq(InfoSet)
      BY <1>4, Zenon DEF PendingRight
    <3> QED BY <3>1
  <2>2. k \in 0..Len(r.infos)
    BY DEF r
  <2> QED BY <2>1, <2>2
<1>8. ASSUME NEW i \in 1..Len(st.rows)
      PROVE  st.rows[i] <= n /\ Brought(st.rows[i], n, q) /\ (Media!Full(q) => st.rows[i] < n)
  <2>1. PICK m \in 1..k : r.infos[m].vcl /\ r.infos[m].n = st.rows[i]
    BY <1>6, Zenon
  <2> QED BY <1>4, <1>7, <2>1, Zenon
<1> QED
  BY <1>5, <1>6, <1>8, Zenon DEF Brings, r, st

\* The packet behind those held back, or one that comes when the writer is there.
LEMMA OneMoreBrings ==
    ASSUME NEW n \in Nat, NEW q, PayloadRight(q), NEW st, Brings(st, n, q), st.units # <<>>,
           \A i \in 1..Len(st.rows) : st.rows[i] < n
    PROVE  LET after == Media!WriteUnit(st, n, q, Media!HasVcl(q))
           IN  Brings(after, n, q) /\ after.units # <<>>
<1> DEFINE after == Media!WriteUnit(st, n, q, Media!HasVcl(q))
<1>1. WrittenRight(st) /\ Increasing(st.rows)
      /\ (\A i \in 1..Len(st.rows) : st.rows[i] <= n /\ Brought(st.rows[i], n, q))
      /\ Media!DecodableStart(st.units[1].nals) = 1
  BY Zenon DEF Brings
<1>2. q \in Seq(NalUnits) /\ Slice(q, 0, Len(q), Media!HasVcl(q)) /\ Media!HasVcl(q) \in BOOLEAN
  BY PayloadIsSlice DEF PayloadRight, Media!HasVcl
<1> DEFINE vcl == Media!HasVcl(q)
           unit == [n |-> n, nals |-> st.prefix \o q]
<1>3. vcl \in BOOLEAN /\ after = Media!WriteUnit(st, n, q, vcl) /\ Slice(q, 0, Len(q), vcl)
  BY <1>2
<1> HIDE DEF vcl, after
<1>4. /\ WrittenRight(after)
      /\ vcl => after.rows = Append(st.rows, n) /\ after.units = Append(st.units, unit)
      /\ ~vcl => after.rows = st.rows /\ after.units = st.units
  BY <1>1, <1>2, <1>3, WriteUnitWritten, Zenon
<1>5. st.rows \in Seq(Nat) /\ st.units \in Seq(UnitSet)
  BY <1>1, Zenon DEF WrittenRight
<1>6. CASE ~vcl
  BY <1>1, <1>4, <1>6, Zenon DEF Brings, after, vcl
<1>7. CASE vcl
  <2> DEFINE nums == Append(st.rows, n)
             units == Append(st.units, unit)
             m == Len(st.rows)
  <2>1. nums \in Seq(Nat) /\ Len(nums) = m + 1 /\ (\A i \in 1..m : nums[i] = st.rows[i]) /\ nums[m + 1] = n
        /\ m \in Nat /\ (\A i \in 1..Len(nums) : i \in 1..m \/ i = m + 1)
    BY <1>5
  <2>2. units # <<>> /\ units[1] = st.units[1]
    <3>1. Len(st.units) # 0
      BY <1>5
    <3>2. Len(units) = Len(st.units) + 1 /\ Len(st.units) \in Nat /\ \A i \in 1..Len(st.units) : units[i] = st.units[i]
      BY <1>5
    <3>3. 1 \in 1..Len(st.units) /\ Len(units) # 0
      BY <3>1, <3>2
    <3> HIDE DEF units
    <3> QED BY <3>2, <3>3
  <2> HIDE DEF nums, units, m
  <2>3. \A i \in 1..Len(nums) : nums[i] <= n /\ Brought(nums[i], n, q)
    <3> TAKE i \in 1..Len(nums)
    <3>1. CASE i \in 1..m
      BY <1>1, <2>1, <3>1, Zenon DEF m
    <3>2. CASE i = m + 1
      <4>1. nums[i] = n
        BY <2>1, <3>2, Zenon
      <4>2. Brought(n, n, q)
        BY <1>7, Zenon DEF Brought, vcl
      <4> QED BY <4>1, <4>2
    <3> QED BY <2>1, <3>1, <3>2, Zenon
  <2>4. Increasing(nums)
    <3> SUFFICES ASSUME NEW i \in 1..Len(nums), NEW j \in 1..Len(nums), i < j PROVE nums[i] < nums[j]
      BY Zenon DEF Increasing
    <3>1. i \in 1..m
      BY <2>1
    <3>2. CASE j \in 1..m
      BY <1>1, <2>1, <3>1, <3>2, Zenon DEF Increasing, m
    <3>3. CASE j = m + 1
      BY <2>1, <3>1, <3>3, Zenon DEF m
    <3> QED BY <2>1, <3>2, <3>3, Zenon
  <2>5. after.rows = nums /\ after.units = units
    BY <1>4, <1>7, Zenon DEF nums, units
  <2> QED BY <1>1, <1>4, <2>2, <2>3, <2>4, <2>5, Zenon DEF Brings, after
<1> QED
  BY <1>3, <1>6, <1>7, Zenon

-----------------------------------------------------------------------------
\* One lemma for each action

\* Nothing is claimed of a segment that is not published.
LEMMA NothingPublished ==
    ASSUME final' = Media!NoFinal
    PROVE  Media!IndexMatchesMedia'
<1>1. final'.published = FALSE
  BY DEF Media!NoFinal
<1> QED
  BY <1>1, Zenon DEF Media!IndexMatchesMedia

\* A packet is held back.
LEMMA HoldKeeps ==
    ASSUME MediaConstants, MediaBody, mediaPhase = "open", mediaCount' = mediaCount + 1,
           NEW q \in MediaPayloads, Media!Hold(mediaCount', q),
           UNCHANGED <<mediaRecovery, depth, final>>
    PROVE  MediaBody' /\ mediaPhase' = "open"
<1>1. PayloadRight(q)
  BY DEF MediaConstants
<1>2. /\ final = Media!NoFinal
      /\ mediaRecovery \in BOOLEAN /\ mediaCount \in Nat /\ mediaFaults \in Nat
      /\ rgb.writer \in BOOLEAN
      /\ SinksRight(mediaRecovery, media.mp4, media.nut, rows)
      /\ RowsRight(rows, mediaCount)
      /\ FramesRight(mediaFrames, mediaCount)
      /\ (~rgb.writer => BeforeWriter) /\ (mediaFaults = 0 => FaultFree)
  BY Zenon DEF MediaBody
<1>3. ~rgb.writer /\ rgb' = Media!Held(mediaCount', q) /\ Media!FrameRow(mediaCount', q)
      /\ media' = media /\ pipe' = pipe /\ rows' = rows /\ mediaPhase' = mediaPhase
      /\ mediaFaults' = mediaFaults /\ mediaRecovery' = mediaRecovery /\ depth' = depth /\ final' = final
  BY Zenon DEF Media!Hold
<1>4. mediaCount' \in Nat
  BY <1>2
<1>5. PendingRight(rgb) /\ rgb.prefix = <<>> /\ rows = <<>>
      /\ media.mp4 = <<>> /\ media.nut = <<>> /\ pipe = "none"
      /\ (\A k \in 1..Len(rgb.infos) : rgb.infos[k].n <= mediaCount)
  BY <1>2, <1>3, Zenon DEF BeforeWriter
<1>6. \A k \in 1..Len(rgb.infos) : rgb.infos[k].n \in Nat /\ rgb.infos[k].n < mediaCount'
  <2>1. \A k \in 1..Len(rgb.infos) : rgb.infos[k] \in InfoSet
    <3>1. rgb.infos \in Seq(InfoSet)
      BY <1>5, Zenon DEF PendingRight
    <3> QED BY <3>1
  <2> TAKE k \in 1..Len(rgb.infos)
  <2>2. rgb.infos[k].n \in Nat /\ rgb.infos[k].n <= mediaCount
    BY <1>5, <2>1 DEF InfoSet
  <2> QED BY <1>2, <2>2
<1>7. PendingRight(rgb') /\ rgb'.writer = FALSE /\ rgb'.prefix = rgb.prefix
      /\ \A k \in 1..Len(rgb'.infos) : Came(rgb'.infos[k], mediaCount', q)
  <2>1. \A k \in 1..Len(rgb.infos) : rgb.infos[k].n < mediaCount'
    BY <1>6, Zenon
  <2> DEFINE n == mediaCount'
             r == Media!Held(n, q)
  <2>2. n \in Nat /\ \A k \in 1..Len(rgb.infos) : rgb.infos[k].n < n
    BY <1>4, <2>1, Zenon
  <2>3. rgb' = r
    BY <1>3, Zenon
  <2> HIDE DEF n
  <2>4. PendingRight(r) /\ r.writer = FALSE /\ r.prefix = rgb.prefix
        /\ \A k \in 1..Len(r.infos) : Came(r.infos[k], n, q)
    BY <1>1, <1>5, <2>2, HeldIsRight, Zenon
  <2> HIDE DEF r
  <2> QED BY <2>3, <2>4, Zenon DEF n
<1>8. /\ FramesRight(mediaFrames', mediaCount')
      /\ \A x : RgbRow(mediaFrames, x) => RgbRow(mediaFrames', x)
      /\ Media!HasVcl(q) => RgbRow(mediaFrames', mediaCount')
      /\ Media!Streamed(mediaFrames, "depth")' = Media!Streamed(mediaFrames, "depth")
  BY <1>2, <1>3, FrameRowRight, Zenon
<1>9. RowsRight(rows', mediaCount')
  BY <1>2, <1>3, RowsLater, Zenon
<1>10. BeforeWriter'
  <2>1. \A k \in 1..Len(rgb'.infos) : rgb'.infos[k].n <= mediaCount'
    <3> TAKE k \in 1..Len(rgb'.infos)
    <3>1. Came(rgb'.infos[k], mediaCount', q)
      BY <1>7, Zenon
    <3>2. rgb'.infos[k].n = mediaCount' \/ \E l \in 1..Len(rgb.infos) : rgb'.infos[k].n = rgb.infos[l].n
      BY <3>1, Zenon DEF Came
    <3> QED BY <1>4, <1>6, <3>2
  <2> QED BY <1>3, <1>5, <1>7, <2>1, Zenon DEF BeforeWriter
<1>11. mediaFaults' = 0 => FaultFree'
  <2> SUFFICES ASSUME mediaFaults' = 0 PROVE FaultFree'
    OBVIOUS
  <2>1. FaultFree
    BY <1>2, <1>3, Zenon
  <2>2. /\ \A k \in 1..Len(rgb.infos) : rgb.infos[k].vcl => RgbRow(mediaFrames, rgb.infos[k].n)
        /\ \A j \in 1..Len(rows) : RgbRow(mediaFrames, rows[j])
        /\ DepthRight(depth, Media!Streamed(mediaFrames, "depth"))
    BY <1>3, <2>1, Zenon DEF FaultFree
  <2>3. \A k \in 1..Len(rgb'.infos) : rgb'.infos[k].vcl => RgbRow(mediaFrames', rgb'.infos[k].n)
    <3> TAKE k \in 1..Len(rgb'.infos)
    <3>1. Came(rgb'.infos[k], mediaCount', q)
      BY <1>7, Zenon
    <3> QED BY <1>8, <2>2, <3>1, Zenon DEF Came
  <2>4. \A j \in 1..Len(rows') : RgbRow(mediaFrames', rows'[j])
    BY <1>3, <1>8, <2>2, Zenon
  <2>5. DepthRight(depth', Media!Streamed(mediaFrames, "depth")')
    BY <1>3, <1>8, <2>2, Zenon
  <2> QED BY <1>3, <1>7, <2>3, <2>4, <2>5, Zenon DEF FaultFree
<1>12. SinksRight(mediaRecovery', media'.mp4, media'.nut, rows')
  BY <1>2, <1>3, Zenon
<1>13. rgb'.writer \in BOOLEAN /\ ~rgb'.writer
  BY <1>7
<1>14. MediaBody'
  BY <1>2, <1>3, <1>4, <1>8, <1>9, <1>10, <1>11, <1>12, <1>13, Zenon DEF MediaBody, Media!NoFinal
<1> QED
  BY <1>3, <1>14, Zenon

\* Whatever the packets held back have left written goes into empty sinks.
LEMMA FlushedIntoSinks ==
    ASSUME MediaBody, ~rgb.writer, NEW n, n = mediaCount + 1, NEW q, NEW st, Brings(st, n, q), NEW p
    PROVE  LET mp4n == IF p = "open" THEN media.mp4 \o st.units ELSE media.mp4
               nutn == IF mediaRecovery THEN media.nut \o st.units ELSE media.nut
               recs == rows \o st.rows
           IN  /\ SinksRight(mediaRecovery, mp4n, nutn, recs)
               /\ TakenRight(mediaRecovery, mp4n, nutn, recs, p)
               /\ st.units # <<>> => StartedRight(mediaRecovery, mp4n, nutn, p)
               /\ RowsRight(recs, n) /\ recs = st.rows
<1> DEFINE mp4n == IF p = "open" THEN media.mp4 \o st.units ELSE media.mp4
           nutn == IF mediaRecovery THEN media.nut \o st.units ELSE media.nut
           recs == rows \o st.rows
<1>1. mediaRecovery \in BOOLEAN /\ mediaCount \in Nat /\ RowsRight(rows, mediaCount)
      /\ SinksRight(mediaRecovery, media.mp4, media.nut, rows) /\ BeforeWriter
  BY Zenon DEF MediaBody
<1>2. rows = <<>> /\ media.mp4 = <<>> /\ media.nut = <<>>
  BY <1>1, Zenon DEF BeforeWriter
<1>3. WrittenRight(st) /\ Increasing(st.rows) /\ (\A i \in 1..Len(st.rows) : st.rows[i] <= n)
      /\ (st.units # <<>> => Media!DecodableStart(st.units[1].nals) = 1)
  BY Zenon DEF Brings
<1>4. rows \in Seq(Nat) /\ st.rows \in Seq(Nat)
  BY <1>1, <1>3, Zenon DEF RowsRight, WrittenRight
<1>5. TakenRight(mediaRecovery, media.mp4, media.nut, rows, p)
  <2>1. Len(<<>>) <= Len(<<>>)
    OBVIOUS
  <2> QED BY <1>2, <2>1, Zenon DEF TakenRight
<1>6. /\ SinksRight(mediaRecovery, mp4n, nutn, recs)
      /\ TakenRight(mediaRecovery, mp4n, nutn, recs, p)
      /\ st.units # <<>> => StartedRight(mediaRecovery, mp4n, nutn, p)
  BY <1>1, <1>3, <1>4, <1>5, SinksTake, Zenon
<1>7. RowsRight(recs, n)
  <2>1. n \in Nat /\ mediaCount <= n
    BY <1>1
  <2> QED BY <1>1, <1>2, <1>3, <1>4, <2>1, RowsMore, Zenon
<1>8. recs = st.rows
  BY <1>2, <1>4
<1> QED
  BY <1>6, <1>7, <1>8, Zenon

\* The pipe a flush meets.
LEMMA PipeOfFlush ==
    ASSUME BeforeWriter, NEW opens \in BOOLEAN
    PROVE  /\ Media!PipeAfter(opens) # "none"
           /\ opens => Media!PipeAfter(opens) = "open"
<1>1. pipe = "none"
  BY Zenon DEF BeforeWriter
<1> QED
  BY <1>1 DEF Media!PipeAfter

\* All that was held back is written.
LEMMA FlushAllKeeps ==
    ASSUME MediaConstants, MediaBody, mediaPhase = "open", mediaCount' = mediaCount + 1,
           NEW q \in MediaPayloads, ~rgb.writer, NEW opens \in BOOLEAN,
           ToFlush(mediaCount', q).hasStart, pipe' = Media!PipeAfter(opens),
           Media!FlushAll(mediaCount', q, ToFlush(mediaCount', q), Media!PipeAfter(opens), opens),
           UNCHANGED <<mediaRecovery, depth, final>>
    PROVE  MediaBody' /\ mediaPhase' = "open"
<1> DEFINE n == mediaCount'
           r == ToFlush(n, q)
           p == Media!PipeAfter(opens)
           flushed == Media!FlushFirst(r)[Len(r.infos)]
           after == IF Media!Full(q) THEN Media!WriteUnit(flushed, n, q, Media!HasVcl(q)) ELSE flushed
<1>1. PayloadRight(q)
  BY DEF MediaConstants
<1>2. /\ final = Media!NoFinal
      /\ mediaRecovery \in BOOLEAN /\ mediaCount \in Nat /\ mediaFaults \in Nat
      /\ FramesRight(mediaFrames, mediaCount)
      /\ BeforeWriter /\ (mediaFaults = 0 => FaultFree)
  BY Zenon DEF MediaBody
<1>3. /\ rgb' = [pending |-> <<>>, infos |-> <<>>, hasStart |-> TRUE, writer |-> TRUE, prefix |-> after.prefix]
      /\ Media!Sent(after.units, p) /\ rows' = rows \o after.rows
      /\ Media!FrameRow(n, q)
      /\ mediaFaults' = (IF opens THEN mediaFaults ELSE mediaFaults + 1)
      /\ mediaPhase' = mediaPhase /\ mediaRecovery' = mediaRecovery /\ depth' = depth /\ final' = final
  BY Zenon DEF Media!FlushAll
<1>4. n \in Nat /\ n = mediaCount + 1
  BY <1>2
<1>5. r.hasStart /\ Len(r.infos) \in 0..Len(r.infos)
  <2>1. PendingRight(r)
    <3>1. PendingRight(rgb) /\ \A k \in 1..Len(rgb.infos) : rgb.infos[k].n <= mediaCount
      BY <1>2, Zenon DEF BeforeWriter
    <3>2. \A k \in 1..Len(rgb.infos) : rgb.infos[k].n < n
      <4>1. \A k \in 1..Len(rgb.infos) : rgb.infos[k] \in InfoSet
        <5>1. rgb.infos \in Seq(InfoSet)
          BY <3>1, Zenon DEF PendingRight
        <5> QED BY <5>1
      <4> TAKE k \in 1..Len(rgb.infos)
      <4>2. rgb.infos[k].n \in Nat /\ rgb.infos[k].n <= mediaCount
        BY <3>1, <4>1 DEF InfoSet
      <4> QED BY <1>2, <4>2
    <3> HIDE DEF n
    <3>3. PendingRight(Media!Held(n, q))
      BY <1>1, <1>4, <3>1, <3>2, HeldIsRight, Zenon
    <3> QED BY <3>1, <3>3, Zenon DEF ToFlush
  <2> HIDE DEF r
  <2>2. r.infos \in Seq(InfoSet)
    BY <2>1, Zenon DEF PendingRight
  <2>3. Len(r.infos) \in 0..Len(r.infos)
    BY <2>2
  <2> QED BY <2>3 DEF r
<1> HIDE DEF n
<1>6. /\ Brings(flushed, n, q) /\ flushed.units # <<>>
      /\ Media!Full(q) => \A i \in 1..Len(flushed.rows) : flushed.rows[i] < n
  <2> DEFINE k == Len(r.infos)
  <2>1. k \in 0..Len(r.infos) /\ r.hasStart
    BY <1>5
  <2> HIDE DEF k
  <2>2. LET st == Media!FlushFirst(r)[k]
        IN  /\ Brings(st, n, q)
            /\ Media!Full(q) => \A i \in 1..Len(st.rows) : st.rows[i] < n
            /\ k = Len(r.infos) => st.units # <<>>
    BY <1>1, <1>2, <1>4, <2>1, FlushBrings, Zenon
  <2> QED BY <2>2, Zenon DEF k
<1> HIDE DEF r, flushed
<1>7. Brings(after, n, q) /\ after.units # <<>>
  <2>1. CASE Media!Full(q)
    <3>1. LET x == Media!WriteUnit(flushed, n, q, Media!HasVcl(q))
          IN  Brings(x, n, q) /\ x.units # <<>>
      BY <1>1, <1>4, <1>6, <2>1, OneMoreBrings, Zenon
    <3> QED BY <2>1, <3>1, Zenon
  <2>2. CASE ~Media!Full(q)
    BY <1>6, <2>2, Zenon
  <2> QED BY <2>1, <2>2, Zenon
<1> HIDE DEF after
<1>8. p # "none" /\ (opens => p = "open") /\ pipe' = p
  BY <1>2, PipeOfFlush, Zenon
<1> HIDE DEF p
<1>9. /\ SinksRight(mediaRecovery, media'.mp4, media'.nut, rows')
      /\ TakenRight(mediaRecovery, media'.mp4, media'.nut, rows', p)
      /\ StartedRight(mediaRecovery, media'.mp4, media'.nut, p)
      /\ RowsRight(rows', n) /\ rows' = after.rows
  <2> DEFINE mp4n == IF p = "open" THEN media.mp4 \o after.units ELSE media.mp4
             nutn == IF mediaRecovery THEN media.nut \o after.units ELSE media.nut
  <2>1. media' = [mp4 |-> mp4n, nut |-> nutn]
    BY <1>3, Zenon DEF Media!Sent
  <2>2. /\ SinksRight(mediaRecovery, mp4n, nutn, rows \o after.rows)
        /\ TakenRight(mediaRecovery, mp4n, nutn, rows \o after.rows, p)
        /\ StartedRight(mediaRecovery, mp4n, nutn, p)
        /\ RowsRight(rows \o after.rows, n) /\ rows \o after.rows = after.rows
    BY <1>4, <1>7, FlushedIntoSinks, Zenon
  <2> HIDE DEF mp4n, nutn
  <2>3. media'.mp4 = mp4n /\ media'.nut = nutn
    BY <2>1
  <2> QED BY <1>3, <2>2, <2>3, Zenon
<1>10. /\ FramesRight(mediaFrames', mediaCount')
       /\ \A x : RgbRow(mediaFrames, x) => RgbRow(mediaFrames', x)
       /\ Media!HasVcl(q) => RgbRow(mediaFrames', n)
       /\ Media!Streamed(mediaFrames, "depth")' = Media!Streamed(mediaFrames, "depth")
  BY <1>2, <1>3, FrameRowRight, Zenon DEF n
<1>11. rgb'.writer = TRUE /\ rgb'.prefix = after.prefix /\ WaitingRight(after.prefix)
  <2>1. WrittenRight(after)
    BY <1>7, Zenon DEF Brings
  <2>2. WaitingRight(after.prefix)
    BY <2>1, Zenon DEF WrittenRight, WaitingRight
  <2> QED BY <1>3, <2>2
<1>12. WithWriter'
  BY <1>3, <1>8, <1>9, <1>11, Zenon DEF WithWriter
<1>13. mediaFaults' \in Nat /\ (mediaFaults' = 0 => mediaFaults = 0 /\ opens)
  BY <1>2, <1>3
<1>14. mediaFaults' = 0 => FaultFree'
  <2> SUFFICES ASSUME mediaFaults' = 0 PROVE FaultFree'
    OBVIOUS
  <2>1. FaultFree
    BY <1>2, <1>13, Zenon
  <2>2. /\ \A k \in 1..Len(rgb.infos) : rgb.infos[k].vcl => RgbRow(mediaFrames, rgb.infos[k].n)
        /\ DepthRight(depth, Media!Streamed(mediaFrames, "depth"))
    BY <2>1, Zenon DEF FaultFree
  <2>3. \A j \in 1..Len(rows') : RgbRow(mediaFrames', rows'[j])
    <3>1. \A j \in 1..Len(after.rows) : Brought(after.rows[j], n, q)
      BY <1>7, Zenon DEF Brings
    <3>2. \A j \in 1..Len(after.rows) : RgbRow(mediaFrames', after.rows[j])
      BY <1>10, <2>2, <3>1, Zenon DEF Brought
    <3> QED BY <1>9, <3>2, Zenon
  <2>4. DepthRight(depth', Media!Streamed(mediaFrames, "depth")')
    BY <1>3, <1>10, <2>2, Zenon
  <2>5. pipe' = "open"
    BY <1>8, <1>13, Zenon
  <2> QED BY <1>3, <1>11, <2>3, <2>4, <2>5, Zenon DEF FaultFree
<1>15. rgb'.writer \in BOOLEAN /\ rgb'.writer
  BY <1>11
<1>16. MediaBody'
  BY <1>2, <1>3, <1>4, <1>9, <1>10, <1>12, <1>13, <1>14, <1>15, Zenon DEF MediaBody, Media!NoFinal, n
<1> QED
  BY <1>3, <1>16, Zenon

\* What is left when a write has thrown.
LEMMA ThrownKeeps ==
    ASSUME MediaBody, mediaCount' = mediaCount + 1, Media!Throw, rgb'.writer = TRUE \/ BeforeWriter',
           rgb'.writer \in BOOLEAN, UNCHANGED <<mediaRecovery, final>>,
           SinksRight(mediaRecovery, media'.mp4, media'.nut, rows'), RowsRight(rows', mediaCount')
    PROVE  MediaBody' /\ mediaPhase' = "failed"
<1>1. /\ final = Media!NoFinal
      /\ mediaRecovery \in BOOLEAN /\ mediaCount \in Nat /\ mediaFaults \in Nat
      /\ FramesRight(mediaFrames, mediaCount)
  BY Zenon DEF MediaBody
<1>2. mediaFaults' = mediaFaults + 1 /\ mediaPhase' = "failed" /\ mediaFrames' = mediaFrames
      /\ mediaRecovery' = mediaRecovery /\ final' = final
  BY Zenon DEF Media!Throw
<1>3. mediaFaults' \in Nat /\ mediaFaults' # 0 /\ mediaCount' \in Nat
  BY <1>1, <1>2
<1>4. FramesRight(mediaFrames', mediaCount')
  BY <1>1, <1>2, FramesLater, Zenon
<1>5. mediaPhase' # "open"
  BY <1>2
<1>6. MediaBody'
  BY <1>1, <1>2, <1>3, <1>4, <1>5, Zenon DEF MediaBody, Media!NoFinal
<1> QED
  BY <1>2, <1>6

\* A write throws after some of it.
LEMMA FlushThrowsKeeps ==
    ASSUME MediaConstants, MediaBody, mediaPhase = "open", mediaCount' = mediaCount + 1,
           NEW q \in MediaPayloads, ~rgb.writer, NEW p,
           ToFlush(mediaCount', q).hasStart,
           Media!FlushThrows(ToFlush(mediaCount', q), p),
           UNCHANGED <<mediaRecovery, depth, final>>
    PROVE  MediaBody' /\ mediaPhase' = "failed"
<1> DEFINE n == mediaCount'
           r == ToFlush(n, q)
<1>1. PayloadRight(q)
  BY DEF MediaConstants
<1>2. /\ mediaRecovery \in BOOLEAN /\ mediaCount \in Nat /\ BeforeWriter
      /\ SinksRight(mediaRecovery, media.mp4, media.nut, rows) /\ RowsRight(rows, mediaCount)
  BY Zenon DEF MediaBody
<1>3. PICK k \in 0..Len(r.infos) :
         /\ Media!Throw
         /\ rgb' = Media!Writing(r, Media!FlushFirst(r)[k].prefix)
         /\ IF Media!SinkTakes(p)
            THEN Media!Sent(Media!FlushFirst(r)[k].units, p) /\ rows' = rows \o Media!FlushFirst(r)[k].rows
            ELSE media' = media /\ rows' = rows
  BY Zenon DEF Media!FlushThrows
<1> DEFINE flushed == Media!FlushFirst(r)[k]
<1>4. n \in Nat /\ n = mediaCount + 1
  BY <1>2
<1>5. r.hasStart
  OBVIOUS
<1> HIDE DEF n
<1>6. Brings(flushed, n, q)
  BY <1>1, <1>2, <1>4, <1>5, FlushBrings, Zenon
<1> HIDE DEF r, flushed
<1>7. rgb'.writer = TRUE
  BY <1>3 DEF Media!Writing
<1>8. /\ SinksRight(mediaRecovery, media'.mp4, media'.nut, rows')
      /\ RowsRight(rows', n)
  <2>1. CASE Media!SinkTakes(p)
    <3> DEFINE mp4n == IF p = "open" THEN media.mp4 \o flushed.units ELSE media.mp4
               nutn == IF mediaRecovery THEN media.nut \o flushed.units ELSE media.nut
    <3>1. media' = [mp4 |-> mp4n, nut |-> nutn] /\ rows' = rows \o flushed.rows
      BY <1>3, <2>1, Zenon DEF Media!Sent, flushed
    <3>2. /\ SinksRight(mediaRecovery, mp4n, nutn, rows \o flushed.rows)
          /\ RowsRight(rows \o flushed.rows, n)
      BY <1>4, <1>6, FlushedIntoSinks, Zenon
    <3> HIDE DEF mp4n, nutn
    <3>3. media'.mp4 = mp4n /\ media'.nut = nutn
      BY <3>1
    <3> QED BY <3>1, <3>2, <3>3, Zenon
  <2>2. CASE ~Media!SinkTakes(p)
    BY <1>2, <1>3, <1>4, <2>2, RowsLater, Zenon
  <2> QED BY <2>1, <2>2
<1>9. rgb'.writer \in BOOLEAN
  BY <1>7
<1> QED
  BY <1>3, <1>7, <1>8, <1>9, ThrownKeeps, Zenon DEF n

\* A flush, whether it throws or not.
LEMMA FlushKeeps ==
    ASSUME MediaConstants, MediaBody, mediaPhase = "open", mediaCount' = mediaCount + 1,
           NEW q \in MediaPayloads, Media!Flush(mediaCount', q),
           UNCHANGED <<mediaRecovery, depth, final>>
    PROVE  MediaBody' /\ mediaPhase' \in {"open", "failed"}
<1> DEFINE r == ToFlush(mediaCount', q)
<1>1. ~rgb.writer /\ r.hasStart
      /\ \E opens \in BOOLEAN :
            /\ pipe' = Media!PipeAfter(opens)
            /\ \/ Media!FlushAll(mediaCount', q, r, Media!PipeAfter(opens), opens)
               \/ Media!FlushThrows(r, Media!PipeAfter(opens))
  BY Zenon DEF Media!Flush, ToFlush
<1>2. PICK opens \in BOOLEAN :
         /\ pipe' = Media!PipeAfter(opens)
         /\ \/ Media!FlushAll(mediaCount', q, r, Media!PipeAfter(opens), opens)
            \/ Media!FlushThrows(r, Media!PipeAfter(opens))
  BY <1>1
<1>3. CASE Media!FlushAll(mediaCount', q, r, Media!PipeAfter(opens), opens)
  <2>1. MediaBody' /\ mediaPhase' = "open"
    BY <1>1, <1>2, <1>3, FlushAllKeeps, Zenon
  <2> QED BY <2>1
<1>4. CASE Media!FlushThrows(r, Media!PipeAfter(opens))
  <2>1. MediaBody' /\ mediaPhase' = "failed"
    BY <1>1, <1>4, FlushThrowsKeeps, Zenon
  <2> QED BY <2>1
<1> QED
  BY <1>2, <1>3, <1>4

\* A packet is written.
LEMMA WriteKeeps ==
    ASSUME MediaConstants, MediaBody, mediaPhase = "open", mediaCount' = mediaCount + 1,
           NEW q \in MediaPayloads, Media!Write(mediaCount', q),
           UNCHANGED <<mediaRecovery, depth, final>>
    PROVE  MediaBody' /\ mediaPhase' \in {"open", "failed"}
<1> DEFINE n == mediaCount'
           vcl == Media!HasVcl(q)
           st == Media!WriteUnit(Media!NothingWritten, n, q, vcl)
           p == IF vcl THEN Media!PipeAfter(TRUE) ELSE pipe
           mp4n == IF p = "open" THEN media.mp4 \o st.units ELSE media.mp4
           nutn == IF mediaRecovery THEN media.nut \o st.units ELSE media.nut
<1>1. PayloadRight(q)
  BY DEF MediaConstants
<1>2. /\ final = Media!NoFinal
      /\ mediaRecovery \in BOOLEAN /\ mediaCount \in Nat /\ mediaFaults \in Nat
      /\ SinksRight(mediaRecovery, media.mp4, media.nut, rows)
      /\ RowsRight(rows, mediaCount)
      /\ FramesRight(mediaFrames, mediaCount)
      /\ (rgb.writer => WithWriter) /\ (mediaFaults = 0 => FaultFree)
  BY Zenon DEF MediaBody
<1>3. /\ rgb.writer /\ pipe' = p
      /\ \/ /\ Media!Sent(st.units, p) /\ rows' = rows \o st.rows
            /\ rgb' = Media!Writing(rgb, st.prefix)
            /\ Media!FrameRow(n, q)
            /\ mediaPhase' = mediaPhase /\ mediaFaults' = mediaFaults
         \/ Media!Throw /\ rgb' = rgb /\ media' = media /\ rows' = rows
         \/ Media!Throw /\ Media!Sent(st.units, p) /\ rgb' = rgb /\ rows' = rows
  BY Zenon DEF Media!Write
<1>4. /\ WaitingRight(rgb.prefix) /\ pipe # "none"
      /\ TakenRight(mediaRecovery, media.mp4, media.nut, rows, pipe)
      /\ StartedRight(mediaRecovery, media.mp4, media.nut, pipe)
  BY <1>2, <1>3, Zenon DEF WithWriter
<1>5. n \in Nat /\ n = mediaCount + 1 /\ rows \in Seq(Nat)
  BY <1>2 DEF RowsRight
<1> HIDE DEF n
<1>6. p # "none" /\ (p = "open" => pipe = "open") /\ (pipe = "open" => p = "open")
  BY <1>4 DEF Media!PipeAfter
<1> HIDE DEF p
<1>7. /\ WrittenRight(st)
      /\ vcl => st.rows = <<n>>
      /\ ~vcl => st.rows = <<>>
  <2> DEFINE none == Media!NothingWritten
  <2>1. none.prefix = rgb.prefix /\ none.rows = <<>> /\ none.units = <<>>
    BY DEF Media!NothingWritten
  <2>2. WrittenRight(none)
    <3>1. Len(<<>>) = 0 /\ <<>> \in Seq(Nat) /\ <<>> \in Seq(UnitSet)
      OBVIOUS
    <3>2. 1..Len(<<>>) = {}
      BY <3>1
    <3> HIDE DEF none
    <3> QED BY <1>4, <2>1, <3>1, <3>2, Zenon DEF WrittenRight, WaitingRight
  <2>3. q \in Seq(NalUnits) /\ Slice(q, 0, Len(q), vcl) /\ vcl \in BOOLEAN
    BY <1>1, PayloadIsSlice DEF PayloadRight, Media!HasVcl
  <2> HIDE DEF none, vcl
  <2>4. LET next == Media!WriteUnit(none, n, q, vcl)
        IN  /\ WrittenRight(next)
            /\ vcl => /\ next.rows = Append(none.rows, n)
                      /\ next.units = Append(none.units, [n |-> n, nals |-> none.prefix \o q])
            /\ ~vcl => /\ next.rows = none.rows /\ next.units = none.units
                       /\ next.prefix = none.prefix \o q
    <3>1. n \in Nat /\ vcl \in BOOLEAN /\ q \in Seq(NalUnits) /\ Slice(q, 0, Len(q), vcl)
          /\ WrittenRight(none)
      BY <1>5, <2>2, <2>3, Zenon
    <3> QED BY <3>1, WriteUnitWritten, Zenon
  <2>5. st = Media!WriteUnit(none, n, q, vcl)
    BY DEF none
  <2> HIDE DEF st
  <2>6. WrittenRight(st) /\ (vcl => st.rows = Append(<<>>, n)) /\ (~vcl => st.rows = <<>>)
    BY <2>1, <2>4, <2>5, Zenon
  <2>7. Append(<<>>, n) = <<n>>
    OBVIOUS
  <2> QED BY <2>6, <2>7, Zenon
<1> HIDE DEF st
<1>8. TakenRight(mediaRecovery, media.mp4, media.nut, rows, p)
      /\ StartedRight(mediaRecovery, media.mp4, media.nut, p)
  BY <1>4, <1>6, Zenon DEF TakenRight, StartedRight
<1>9. /\ SinksRight(mediaRecovery, mp4n, nutn, rows)
      /\ SinksRight(mediaRecovery, mp4n, nutn, rows \o st.rows)
      /\ TakenRight(mediaRecovery, mp4n, nutn, rows \o st.rows, p)
      /\ StartedRight(mediaRecovery, mp4n, nutn, p)
  BY <1>2, <1>5, <1>7, <1>8, SinksTake, Zenon
<1>10. Media!Sent(st.units, p) => media'.mp4 = mp4n /\ media'.nut = nutn
  <2> HIDE DEF mp4n, nutn
  <2>1. Media!Sent(st.units, p) => media' = [mp4 |-> mp4n, nut |-> nutn]
    BY Zenon DEF Media!Sent, mp4n, nutn
  <2> QED BY <2>1
<1> HIDE DEF mp4n, nutn
<1>11. RowsRight(rows \o st.rows, n) /\ (\A j \in 1..Len(rows \o st.rows) :
          (j \in 1..Len(rows) /\ (rows \o st.rows)[j] = rows[j]) \/ (vcl /\ (rows \o st.rows)[j] = n))
  <2>1. st.rows \in Seq(Nat) /\ (\A j \in 1..Len(st.rows) : vcl /\ st.rows[j] = n /\ Len(st.rows) = 1)
    <3>1. CASE vcl
      <4>1. st.rows = <<n>>
        BY <1>7, <3>1
      <4> HIDE DEF vcl
      <4> QED BY <1>5, <3>1, <4>1
    <3>2. CASE ~vcl
      <4>1. st.rows = <<>>
        BY <1>7, <3>2
      <4> HIDE DEF vcl
      <4> QED BY <4>1
    <3> QED BY <3>1, <3>2
  <2>2. Increasing(st.rows)
    BY <2>1 DEF Increasing
  <2>3. \A j \in 1..Len(st.rows) : st.rows[j] <= n /\ (rows # <<>> => mediaCount < st.rows[j])
    BY <1>2, <1>5, <2>1
  <2>4. mediaCount <= n
    BY <1>2, <1>5
  <2>5. RowsRight(rows \o st.rows, n)
    BY <1>2, <1>5, <2>1, <2>2, <2>3, <2>4, RowsMore, Zenon
  <2> HIDE DEF vcl
  <2>6. \A j \in 1..Len(rows \o st.rows) :
          (j \in 1..Len(rows) /\ (rows \o st.rows)[j] = rows[j]) \/ (vcl /\ (rows \o st.rows)[j] = n)
    BY <1>5, <2>1
  <2> QED BY <2>5, <2>6
<1>12. CASE /\ Media!Sent(st.units, p) /\ rows' = rows \o st.rows
            /\ rgb' = Media!Writing(rgb, st.prefix)
            /\ Media!FrameRow(n, q)
            /\ mediaPhase' = mediaPhase /\ mediaFaults' = mediaFaults
  <2>1. rgb'.writer = TRUE /\ rgb'.prefix = st.prefix
    BY <1>12 DEF Media!Writing
  <2>2. WaitingRight(st.prefix)
    BY <1>7, Zenon DEF WrittenRight, WaitingRight
  <2>3. /\ FramesRight(mediaFrames', mediaCount')
        /\ \A x : RgbRow(mediaFrames, x) => RgbRow(mediaFrames', x)
        /\ vcl => RgbRow(mediaFrames', n)
        /\ Media!Streamed(mediaFrames, "depth")' = Media!Streamed(mediaFrames, "depth")
    BY <1>2, <1>12, FrameRowRight, Zenon DEF n
  <2>4. mediaFaults' = 0 => FaultFree'
    <3> SUFFICES ASSUME mediaFaults' = 0 PROVE FaultFree'
      OBVIOUS
    <3>1. FaultFree
      BY <1>2, <1>12, Zenon
    <3>2. /\ pipe = "open" /\ \A j \in 1..Len(rows) : RgbRow(mediaFrames, rows[j])
          /\ DepthRight(depth, Media!Streamed(mediaFrames, "depth"))
      BY <1>3, <3>1, Zenon DEF FaultFree
    <3>3. \A j \in 1..Len(rows') : RgbRow(mediaFrames', rows'[j])
      BY <1>11, <1>12, <2>3, <3>2, Zenon
    <3>4. DepthRight(depth', Media!Streamed(mediaFrames, "depth")')
      BY <2>3, <3>2, Zenon
    <3>5. pipe' = "open" /\ mediaPhase' = "open"
      BY <1>3, <1>6, <1>12, <3>2
    <3> QED BY <2>1, <3>3, <3>4, <3>5, Zenon DEF FaultFree
  <2>5. WithWriter'
    BY <1>3, <1>6, <1>9, <1>10, <1>12, <2>1, <2>2, Zenon DEF WithWriter
  <2>6. rgb'.writer \in BOOLEAN /\ rgb'.writer
    BY <2>1
  <2>7. RowsRight(rows', mediaCount') /\ SinksRight(mediaRecovery', media'.mp4, media'.nut, rows')
        /\ mediaCount' \in Nat /\ mediaFaults' \in Nat
    BY <1>2, <1>5, <1>9, <1>10, <1>11, <1>12, Zenon DEF n
  <2>8. MediaBody'
    BY <1>2, <2>3, <2>4, <2>5, <2>6, <2>7, Zenon DEF MediaBody, Media!NoFinal
  <2> QED BY <1>12, <2>8
<1>13. CASE Media!Throw /\ rgb' = rgb /\ media' = media /\ rows' = rows
  <2>1. RowsRight(rows', mediaCount') /\ SinksRight(mediaRecovery, media'.mp4, media'.nut, rows')
    BY <1>2, <1>13, RowsLater, Zenon
  <2>2. rgb'.writer = TRUE /\ rgb'.writer \in BOOLEAN
    <3>1. rgb.writer \in BOOLEAN
      BY Zenon DEF MediaBody
    <3> QED BY <1>3, <1>13, <3>1
  <2>3. MediaBody' /\ mediaPhase' = "failed"
    BY <1>13, <2>1, <2>2, ThrownKeeps, Zenon
  <2> QED BY <2>3
<1>14. CASE Media!Throw /\ Media!Sent(st.units, p) /\ rgb' = rgb /\ rows' = rows
  <2>1. RowsRight(rows', mediaCount') /\ SinksRight(mediaRecovery, media'.mp4, media'.nut, rows')
    BY <1>2, <1>9, <1>10, <1>14, RowsLater, Zenon
  <2>2. rgb'.writer = TRUE /\ rgb'.writer \in BOOLEAN
    <3>1. rgb.writer \in BOOLEAN
      BY Zenon DEF MediaBody
    <3> QED BY <1>3, <1>14, <3>1
  <2>3. MediaBody' /\ mediaPhase' = "failed"
    BY <1>14, <2>1, <2>2, ThrownKeeps, Zenon
  <2> QED BY <2>3
<1> QED
  BY <1>3, <1>12, <1>13, <1>14, Zenon

\* The last part when there is one.
LEMMA OnlyPart ==
    ASSUME NEW d, NEW x, d.parts = <<x>>, NEW part, NEW state
    PROVE  /\ Media!LastPart(d, part, state).parts = <<part>>
           /\ Media!LastPart(d, part, state).pending = d.pending
           /\ Media!LastPart(d, part, state).pipe = state
           /\ d.parts[Len(d.parts)] = x
<1> DEFINE f == [i \in DOMAIN d.parts |-> IF i = Len(d.parts) THEN part ELSE d.parts[i]]
<1>1. DOMAIN d.parts = 1..1 /\ Len(d.parts) = 1 /\ d.parts[1] = x
  OBVIOUS
<1>2. f = [i \in 1..1 |-> part]
  <2>1. DOMAIN f = 1..1 /\ \A i \in 1..1 : f[i] = part
    BY <1>1
  <2> QED BY <1>1, <2>1
<1>3. [i \in 1..1 |-> part] = <<part>>
  OBVIOUS
<1>4. Media!LastPart(d, part, state).parts = f /\ Media!LastPart(d, part, state).pending = d.pending
      /\ Media!LastPart(d, part, state).pipe = state
  BY DEF Media!LastPart
<1> QED
  BY <1>1, <1>2, <1>3, <1>4, Zenon

\* What every depth write leaves as it was.
LEMMA DepthWritten ==
    ASSUME MediaBody, mediaPhase = "open", mediaCount' = mediaCount + 1,
           Media!DepthRow(mediaCount'),
           UNCHANGED <<mediaRecovery, rgb, media, pipe, rows, final, mediaPhase>>,
           mediaFaults' \in Nat,
           mediaFaults' = 0 =>
              /\ mediaFaults = 0
              /\ DepthRight(depth', Append(Media!Streamed(mediaFrames, "depth"), mediaCount'))
    PROVE  MediaBody' /\ mediaPhase' = "open"
<1> DEFINE row == [stream |-> "depth", n |-> mediaCount + 1]
           more == Append(mediaFrames, row)
           s == Media!Streamed(mediaFrames, "depth")
<1>1. /\ final = Media!NoFinal
      /\ mediaRecovery \in BOOLEAN /\ mediaCount \in Nat /\ mediaFaults \in Nat
      /\ rgb.writer \in BOOLEAN
      /\ SinksRight(mediaRecovery, media.mp4, media.nut, rows)
      /\ RowsRight(rows, mediaCount)
      /\ FramesRight(mediaFrames, mediaCount)
      /\ (~rgb.writer => BeforeWriter) /\ (rgb.writer => WithWriter) /\ (mediaFaults = 0 => FaultFree)
  BY Zenon DEF MediaBody
<1>2. mediaRecovery' = mediaRecovery /\ rgb' = rgb /\ media' = media /\ pipe' = pipe /\ rows' = rows
      /\ final' = final /\ mediaPhase' = mediaPhase
  OBVIOUS
<1>3. mediaCount' \in Nat
  BY <1>1
<1>4. row \in FrameRowSet /\ row.n = mediaCount + 1 /\ row.stream = "depth"
  BY <1>1 DEF FrameRowSet
<1>5. mediaFrames' = more
  BY Zenon DEF Media!DepthRow
<1> HIDE DEF row
<1>6. /\ FramesRight(more, mediaCount + 1)
      /\ \A x : RgbRow(mediaFrames, x) => RgbRow(more, x)
      /\ Media!Streamed(more, "depth") = Append(s, mediaCount')
  BY <1>1, <1>4, FrameMore, Zenon DEF StreamStep
<1>7. Media!Streamed(mediaFrames, "depth")' = Append(s, mediaCount')
  <2>1. Media!Streamed(mediaFrames, "depth")' = Media!Streamed(mediaFrames', "depth")
    BY Zenon DEF Media!Streamed
  <2> QED BY <1>5, <1>6, <2>1, Zenon
<1> HIDE DEF more, s
<1>8. RowsRight(rows', mediaCount') /\ FramesRight(mediaFrames', mediaCount')
  BY <1>1, <1>2, <1>5, <1>6, RowsLater, Zenon
<1>9. ~rgb'.writer => BeforeWriter'
  <2> SUFFICES ASSUME ~rgb'.writer PROVE BeforeWriter'
    OBVIOUS
  <2>1. BeforeWriter
    BY <1>1, <1>2, Zenon
  <2>2. PendingRight(rgb) /\ \A k \in 1..Len(rgb.infos) : rgb.infos[k].n <= mediaCount
    BY <2>1, Zenon DEF BeforeWriter
  <2>3. \A k \in 1..Len(rgb.infos) : rgb.infos[k].n <= mediaCount'
    <3>1. rgb.infos \in Seq(InfoSet)
      BY <2>2, Zenon DEF PendingRight
    <3>2. \A k \in 1..Len(rgb.infos) : rgb.infos[k] \in InfoSet
      BY <3>1
    <3> TAKE k \in 1..Len(rgb.infos)
    <3>3. rgb.infos[k].n \in Nat /\ rgb.infos[k].n <= mediaCount
      BY <2>2, <3>2 DEF InfoSet
    <3> QED BY <1>1, <3>3
  <2> QED BY <1>2, <2>1, <2>3, Zenon DEF BeforeWriter
<1>10. rgb'.writer => WithWriter'
  BY <1>1, <1>2, Zenon DEF WithWriter
<1>11. mediaFaults' = 0 => FaultFree'
  <2> SUFFICES ASSUME mediaFaults' = 0 PROVE FaultFree'
    OBVIOUS
  <2>1. mediaFaults = 0 /\ DepthRight(depth', Append(Media!Streamed(mediaFrames, "depth"), mediaCount'))
    OBVIOUS
  <2>2. FaultFree /\ DepthRight(depth', Media!Streamed(mediaFrames, "depth")')
    BY <1>1, <1>7, <2>1, Zenon DEF s
  <2> QED BY <1>2, <1>5, <1>6, <2>2, Zenon DEF FaultFree
<1>12. MediaBody'
  BY <1>1, <1>2, <1>3, <1>8, <1>9, <1>10, <1>11, Zenon DEF MediaBody, Media!NoFinal
<1> QED
  BY <1>2, <1>12, Zenon

\* A depth frame is written or held back.
LEMMA DepthKeeps ==
    ASSUME MediaBody, Media!WriteDepthPacket
    PROVE  MediaBody' /\ mediaPhase' \in {"open", "failed"}
<1> DEFINE n == mediaCount'
           held == Media!Waiting(Append(depth.pending, n))
           s == Media!Streamed(mediaFrames, "depth")
<1>1. /\ mediaRecovery \in BOOLEAN /\ mediaCount \in Nat /\ mediaFaults \in Nat
      /\ rgb.writer \in BOOLEAN
      /\ SinksRight(mediaRecovery, media.mp4, media.nut, rows)
      /\ RowsRight(rows, mediaCount)
      /\ (~rgb.writer => BeforeWriter) /\ (mediaFaults = 0 => FaultFree)
  BY Zenon DEF MediaBody
<1>2. /\ mediaPhase = "open" /\ mediaCount' = mediaCount + 1
      /\ mediaRecovery' = mediaRecovery /\ rgb' = rgb /\ media' = media /\ pipe' = pipe /\ rows' = rows
      /\ final' = final
      /\ \/ /\ depth.pipe # "none" /\ depth' = Media!DepthInto(depth, n)
            /\ Media!DepthRow(n) /\ mediaPhase' = mediaPhase /\ mediaFaults' = mediaFaults
         \/ Media!Throw
         \/ /\ depth.pipe = "none"
            /\ depth' \in {held, Media!FlushDepth(held)}
            /\ Media!DepthRow(n) /\ mediaPhase' = mediaPhase /\ mediaFaults' = mediaFaults
         \/ /\ depth.pipe = "none"
            /\ depth' = Media!DepthInto(Media!FlushDepth(depth), n)
            /\ Media!DepthRow(n) /\ mediaPhase' = mediaPhase /\ mediaFaults' = mediaFaults
         \/ Media!DepthRow(n) /\ mediaPhase' = mediaPhase /\ mediaFaults' = mediaFaults + 1
  BY Zenon DEF Media!WriteDepthPacket, Media!DepthFails
<1>3. mediaFaults = 0 =>
         /\ s \in Seq(Nat)
         /\ \/ depth.pipe = "none" /\ depth.parts = <<>> /\ depth.pending = s
            \/ depth.pipe = "open" /\ depth.pending = <<>> /\ depth.parts = <<s>>
  BY <1>1, Zenon DEF FaultFree, DepthRight
<1>4. n \in Nat
  BY <1>1, <1>2
<1> HIDE DEF n, s
<1>5. s \in Seq(Nat) => Append(s, n) \in Seq(Nat)
  BY <1>4
<1>6. CASE Media!Throw
  <2>1. RowsRight(rows', mediaCount') /\ SinksRight(mediaRecovery, media'.mp4, media'.nut, rows')
    BY <1>1, <1>2, RowsLater, Zenon
  <2>2. rgb'.writer = TRUE \/ BeforeWriter'
    <3>1. CASE rgb.writer
      <4>1. rgb.writer = TRUE
        BY <1>1, <3>1
      <4> QED BY <1>2, <4>1
    <3>2. CASE ~rgb.writer
      <4>1. BeforeWriter
        BY <1>1, <3>2
      <4>2. PendingRight(rgb) /\ \A k \in 1..Len(rgb.infos) : rgb.infos[k].n <= mediaCount
        BY <4>1, Zenon DEF BeforeWriter
      <4>3. \A k \in 1..Len(rgb.infos) : rgb.infos[k].n <= mediaCount'
        <5>1. rgb.infos \in Seq(InfoSet)
          BY <4>2, Zenon DEF PendingRight
        <5>2. \A k \in 1..Len(rgb.infos) : rgb.infos[k] \in InfoSet
          BY <5>1
        <5> TAKE k \in 1..Len(rgb.infos)
        <5>3. rgb.infos[k].n \in Nat /\ rgb.infos[k].n <= mediaCount
          BY <4>2, <5>2 DEF InfoSet
        <5> QED BY <1>1, <1>2, <5>3
      <4>4. BeforeWriter'
        BY <1>2, <4>1, <4>3, Zenon DEF BeforeWriter
      <4> QED BY <4>4
    <3> QED BY <3>1, <3>2
  <2>3. rgb'.writer \in BOOLEAN
    BY <1>1, <1>2
  <2>4. MediaBody' /\ mediaPhase' = "failed"
    BY <1>2, <1>6, <2>1, <2>2, <2>3, ThrownKeeps, Zenon
  <2> QED BY <2>4
<1>7. ASSUME Media!DepthRow(n), mediaPhase' = mediaPhase, mediaFaults' = mediaFaults,
             mediaFaults = 0 => DepthRight(depth', Append(s, n))
      PROVE  MediaBody' /\ mediaPhase' = "open"
  <2>1. mediaFaults' \in Nat /\ (mediaFaults' = 0 => mediaFaults = 0 /\ DepthRight(depth', Append(s, n)))
    BY <1>1, <1>7, Zenon
  <2> QED BY <1>2, <1>7, <2>1, DepthWritten, Zenon DEF n, s
<1>8. CASE /\ depth.pipe # "none" /\ depth' = Media!DepthInto(depth, n)
           /\ Media!DepthRow(n) /\ mediaPhase' = mediaPhase /\ mediaFaults' = mediaFaults
  <2>1. ASSUME mediaFaults = 0 PROVE DepthRight(depth', Append(s, n))
    <3>1. depth.pipe = "open" /\ depth.pending = <<>> /\ depth.parts = <<s>> /\ s \in Seq(Nat)
      BY <1>3, <1>8, <2>1, Zenon
    <3>2. depth.parts[Len(depth.parts)] = s
      BY <3>1, OnlyPart, Zenon
    <3>3. depth' = Media!LastPart(depth, Append(s, n), "open")
      BY <1>8, <3>1, <3>2 DEF Media!DepthInto
    <3>4. depth'.parts = <<Append(s, n)>> /\ depth'.pending = <<>> /\ depth'.pipe = "open"
      <4> DEFINE new == Media!LastPart(depth, Append(s, n), "open")
      <4>1. new.parts = <<Append(s, n)>> /\ new.pending = depth.pending /\ new.pipe = "open"
        <5> DEFINE y == Append(s, n)
        <5> HIDE DEF y
        <5>1. depth.parts = <<s>>
          BY <3>1
        <5>2. Media!LastPart(depth, y, "open").parts = <<y>>
          BY <5>1, OnlyPart
        <5>3. Media!LastPart(depth, y, "open").pending = depth.pending /\ Media!LastPart(depth, y, "open").pipe = "open"
          BY DEF Media!LastPart
        <5> QED BY <5>2, <5>3, Zenon DEF y
      <4>2. depth' = new
        BY <3>3
      <4> HIDE DEF new
      <4> QED BY <3>1, <4>1, <4>2, Zenon
    <3> QED BY <1>5, <3>1, <3>4, Zenon DEF DepthRight
  <2> QED BY <1>7, <1>8, <2>1, Zenon
<1>9. CASE /\ depth.pipe = "none"
           /\ depth' \in {held, Media!FlushDepth(held)}
           /\ Media!DepthRow(n) /\ mediaPhase' = mediaPhase /\ mediaFaults' = mediaFaults
  <2>1. ASSUME mediaFaults = 0 PROVE DepthRight(depth', Append(s, n))
    <3>1. depth.parts = <<>> /\ depth.pending = s /\ s \in Seq(Nat)
      BY <1>3, <1>9, <2>1, Zenon
    <3>2. held.pending = Append(s, n) /\ held.parts = <<>> /\ held.pipe = "none"
      BY <3>1 DEF Media!Waiting
    <3> HIDE DEF held
    <3>3. /\ Media!FlushDepth(held).pending = <<>> /\ Media!FlushDepth(held).pipe = "open"
          /\ Media!FlushDepth(held).parts = Append(<<>>, Append(s, n))
      BY <3>2 DEF Media!FlushDepth, Media!NextPart
    <3>4. Append(<<>>, Append(s, n)) = <<Append(s, n)>>
      OBVIOUS
    <3>5. DepthRight(held, Append(s, n)) /\ DepthRight(Media!FlushDepth(held), Append(s, n))
      BY <1>5, <3>1, <3>2, <3>3, <3>4, Zenon DEF DepthRight
    <3> QED BY <1>9, <3>5, Zenon
  <2> QED BY <1>7, <1>9, <2>1, Zenon
<1>10. CASE /\ depth.pipe = "none"
            /\ depth' = Media!DepthInto(Media!FlushDepth(depth), n)
            /\ Media!DepthRow(n) /\ mediaPhase' = mediaPhase /\ mediaFaults' = mediaFaults
  <2>1. ASSUME mediaFaults = 0 PROVE DepthRight(depth', Append(s, n))
    <3> DEFINE d == Media!FlushDepth(depth)
    <3>1. depth.parts = <<>> /\ depth.pending = s /\ s \in Seq(Nat)
      BY <1>3, <1>10, <2>1, Zenon
    <3>2. d.pending = <<>> /\ d.pipe = "open" /\ d.parts = <<s>>
      <4>1. d.pending = <<>> /\ d.pipe = "open" /\ d.parts = Append(<<>>, s)
        BY <3>1 DEF Media!FlushDepth, Media!NextPart
      <4>2. Append(<<>>, s) = <<s>>
        OBVIOUS
      <4> QED BY <4>1, <4>2, Zenon
    <3>3. depth' = Media!DepthInto(d, n)
      BY <1>10
    <3> HIDE DEF d
    <3>4. d.parts[Len(d.parts)] = s
      BY <3>2, OnlyPart, Zenon
    <3>5. depth' = Media!LastPart(d, Append(s, n), "open")
      BY <3>2, <3>3, <3>4 DEF Media!DepthInto
    <3>6. depth'.parts = <<Append(s, n)>> /\ depth'.pending = <<>> /\ depth'.pipe = "open"
      <4> DEFINE new == Media!LastPart(d, Append(s, n), "open")
      <4>1. new.parts = <<Append(s, n)>> /\ new.pending = d.pending /\ new.pipe = "open"
        <5> DEFINE y == Append(s, n)
        <5> HIDE DEF y
        <5>1. d.parts = <<s>>
          BY <3>2
        <5>2. Media!LastPart(d, y, "open").parts = <<y>>
          BY <5>1, OnlyPart
        <5>3. Media!LastPart(d, y, "open").pending = d.pending /\ Media!LastPart(d, y, "open").pipe = "open"
          BY DEF Media!LastPart
        <5> QED BY <5>2, <5>3, Zenon DEF y
      <4>2. depth' = new
        BY <3>5
      <4> HIDE DEF new
      <4> QED BY <3>2, <4>1, <4>2, Zenon
    <3> QED BY <1>5, <3>1, <3>6, Zenon DEF DepthRight
  <2> QED BY <1>7, <1>10, <2>1, Zenon
<1>11. CASE Media!DepthRow(n) /\ mediaPhase' = mediaPhase /\ mediaFaults' = mediaFaults + 1
  <2>1. mediaFaults' \in Nat /\ mediaFaults' # 0
    BY <1>1, <1>11
  <2>2. mediaFaults' = 0 => mediaFaults = 0 /\ DepthRight(depth', Append(s, n))
    BY <2>1, Zenon
  <2> QED BY <1>2, <1>11, <2>1, <2>2, DepthWritten, Zenon DEF n, s
<1> QED
  BY <1>2, <1>6, <1>8, <1>9, <1>10, <1>11, Zenon

\* ffmpeg dies.
LEMMA BreaksKeeps ==
    ASSUME MediaBody, Media!PipeBreaks
    PROVE  MediaBody' /\ mediaPhase' = "open"
<1>1. /\ final = Media!NoFinal
      /\ mediaRecovery \in BOOLEAN /\ mediaCount \in Nat /\ mediaFaults \in Nat
      /\ rgb.writer \in BOOLEAN
      /\ SinksRight(mediaRecovery, media.mp4, media.nut, rows)
      /\ RowsRight(rows, mediaCount)
      /\ FramesRight(mediaFrames, mediaCount)
      /\ (~rgb.writer => BeforeWriter) /\ (rgb.writer /\ mediaPhase = "open" => WithWriter)
  BY Zenon DEF MediaBody
<1>2. /\ mediaPhase = "open" /\ mediaFaults' = mediaFaults + 1
      /\ mediaRecovery' = mediaRecovery /\ rgb' = rgb /\ rows' = rows /\ mediaFrames' = mediaFrames
      /\ mediaPhase' = mediaPhase /\ final' = final /\ mediaCount' = mediaCount
      /\ \/ /\ pipe = "open" /\ pipe' = "broken"
            /\ \E k \in 0..Len(media.mp4) : media' = [mp4 |-> SubSeq(media.mp4, 1, k), nut |-> media.nut]
         \/ pipe' = pipe /\ media' = media
  BY Zenon DEF Media!PipeBreaks
<1>3. mediaFaults' \in Nat /\ mediaFaults' # 0
  BY <1>1, <1>2
<1>4. CASE pipe' = pipe /\ media' = media
  <2>1. ~rgb'.writer => BeforeWriter'
    BY <1>1, <1>2, <1>4, Zenon DEF BeforeWriter
  <2>2. rgb'.writer => WithWriter'
    BY <1>1, <1>2, <1>4, Zenon DEF WithWriter
  <2>3. MediaBody'
    BY <1>1, <1>2, <1>3, <1>4, <2>1, <2>2, Zenon DEF MediaBody, Media!NoFinal
  <2> QED BY <1>2, <2>3
<1>5. CASE /\ pipe = "open" /\ pipe' = "broken"
           /\ \E k \in 0..Len(media.mp4) : media' = [mp4 |-> SubSeq(media.mp4, 1, k), nut |-> media.nut]
  <2>1. PICK k \in 0..Len(media.mp4) : media' = [mp4 |-> SubSeq(media.mp4, 1, k), nut |-> media.nut]
    BY <1>5
  <2> DEFINE left == SubSeq(media.mp4, 1, k)
  <2>2. media'.mp4 = left /\ media'.nut = media.nut
    BY <2>1
  <2>3. rgb.writer
    <3>1. ~BeforeWriter
      BY <1>5 DEF BeforeWriter
    <3> QED BY <1>1, <3>1
  <2>4. WithWriter
    BY <1>1, <1>2, <2>3
  <2>5. UnitsRight(media.mp4) /\ UnitsRight(media.nut) /\ Aligned(media.mp4, rows) /\ Aligned(media.nut, rows)
        /\ (~mediaRecovery => media.nut = <<>>)
    BY <1>1, Zenon DEF SinksRight
  <2>6. UnitsRight(left) /\ Aligned(left, rows) /\ Len(left) = k
    BY <2>5, UnitsCut, Zenon
  <2> HIDE DEF left
  <2>7. Len(left) <= Len(rows)
    <3>1. Len(media.mp4) <= Len(rows)
      BY <2>4, Zenon DEF WithWriter, TakenRight
    <3>2. Len(media.mp4) \in Nat /\ Len(rows) \in Nat
      BY <1>1, <2>5 DEF UnitsRight, RowsRight
    <3> QED BY <2>6, <3>1, <3>2
  <2>8. SinksRight(mediaRecovery', media'.mp4, media'.nut, rows')
    BY <1>2, <2>2, <2>5, <2>6, Zenon DEF SinksRight
  <2>9. WithWriter'
    <3>1. pipe' # "none" /\ pipe' # "open"
      BY <1>5
    <3>2. /\ WaitingRight(rgb.prefix)
          /\ (mediaRecovery => Len(media.nut) = Len(rows)) /\ (mediaRecovery => media.nut # <<>>)
      BY <2>4, Zenon DEF WithWriter, TakenRight, StartedRight
    <3> QED BY <1>2, <2>2, <2>7, <3>1, <3>2, Zenon DEF WithWriter, TakenRight, StartedRight
  <2>10. MediaBody'
    BY <1>1, <1>2, <1>3, <2>3, <2>8, <2>9, Zenon DEF MediaBody, Media!NoFinal
  <2> QED BY <1>2, <2>10
<1> QED
  BY <1>2, <1>4, <1>5

\* A unit and an RGB row of frames.csv for each recorded row.
Listed(units, recorded) ==
    Len(units) = Len(recorded) /\ \A j \in 1..Len(recorded) : RgbRow(mediaFrames, recorded[j])

\* What close() merges and seals.
Sealable(opens, p, mp4, nut, recorded) ==
    /\ SinksRight(mediaRecovery, mp4, nut, recorded)
    /\ recorded \in Seq(Nat) /\ Increasing(recorded)
    /\ mediaFaults = 0 /\ opens => p \in {"open", "none"} /\ Listed(mp4, recorded)

\* What close() still writes is as right as what had been written before.
LEMMA CloseSinks ==
    ASSUME MediaBody, NEW opens \in BOOLEAN, NEW k \in 0..Len(rgb.infos),
           NEW p, p = (IF ~rgb.writer /\ rgb.hasStart THEN Media!PipeAfter(opens) ELSE pipe),
           NEW st, st = (IF (~rgb.writer /\ rgb.hasStart) /\ Media!SinkTakes(p)
                         THEN Media!FlushFirst(rgb)[k] ELSE Media!NothingWritten),
           NEW mp4n, mp4n = (IF p = "open" THEN media.mp4 \o st.units ELSE media.mp4),
           NEW nutn, nutn = (IF mediaRecovery THEN media.nut \o st.units ELSE media.nut),
           NEW recs, recs = rows \o st.rows
    PROVE  Sealable(opens, p, mp4n, nutn, recs)
<1> DEFINE flush == ~rgb.writer /\ rgb.hasStart
           mp4s == IF p = "open" THEN media.mp4 \o st.units ELSE media.mp4
           nuts == IF mediaRecovery THEN media.nut \o st.units ELSE media.nut
           all == rows \o st.rows
<1>0. mp4n = mp4s /\ nutn = nuts /\ recs = all
  OBVIOUS
<1>1. /\ mediaRecovery \in BOOLEAN /\ mediaCount \in Nat /\ rgb.writer \in BOOLEAN
      /\ SinksRight(mediaRecovery, media.mp4, media.nut, rows)
      /\ RowsRight(rows, mediaCount)
      /\ (~rgb.writer => BeforeWriter) /\ (rgb.writer /\ mediaPhase = "open" => WithWriter)
      /\ (mediaFaults = 0 => FaultFree)
  BY Zenon DEF MediaBody
<1>2. rows \in Seq(Nat) /\ Increasing(rows)
  BY <1>1, Zenon DEF RowsRight
<1>3. CASE flush /\ Media!SinkTakes(p)
  <2>1. st = Media!FlushFirst(rgb)[k] /\ ~rgb.writer /\ rgb.hasStart
    BY <1>3
  <2>2. BeforeWriter
    BY <1>1, <2>1
  <2>3. PendingRight(rgb) /\ rgb.prefix = <<>> /\ rows = <<>> /\ media.mp4 = <<>> /\ media.nut = <<>>
    BY <2>2, Zenon DEF BeforeWriter
  <2>4. FlushRight(rgb, k, st) /\ (st.units # <<>> => Media!DecodableStart(st.units[1].nals) = 1)
    BY <2>1, <2>3, FlushIsRight, Zenon
  <2>5. /\ WrittenRight(st) /\ Increasing(st.rows)
        /\ \A i \in 1..Len(st.rows) : \E m \in 1..k : rgb.infos[m].vcl /\ rgb.infos[m].n = st.rows[i]
    BY <2>4, Zenon DEF FlushRight
  <2>6. st.rows \in Seq(Nat)
    BY <2>5, Zenon DEF WrittenRight
  <2>7. TakenRight(mediaRecovery, media.mp4, media.nut, rows, p)
    <3>1. Len(<<>>) <= Len(<<>>)
      OBVIOUS
    <3> QED BY <2>3, <3>1, Zenon DEF TakenRight
  <2>8. SinksRight(mediaRecovery, mp4s, nuts, all) /\ TakenRight(mediaRecovery, mp4s, nuts, all, p)
    <3>1. /\ SinksRight(mediaRecovery, media.mp4, media.nut, rows) /\ mediaRecovery \in BOOLEAN
          /\ rows \in Seq(Nat) /\ TakenRight(mediaRecovery, media.mp4, media.nut, rows, p)
          /\ WrittenRight(st) /\ (st.units # <<>> => Media!DecodableStart(st.units[1].nals) = 1)
      BY <1>1, <1>2, <2>4, <2>5, <2>7, Zenon
    <3>2. SinksRight(mediaRecovery, mp4s, nuts, all)
      BY <3>1, SinksTake, Zenon
    <3>3. TakenRight(mediaRecovery, mp4s, nuts, all, p)
      BY <3>1, SinksTake, Zenon
    <3> QED BY <3>2, <3>3
  <2>9. all = st.rows
    BY <2>3, <2>6
  <2> HIDE DEF mp4s, nuts, all
  <2>10. ASSUME mediaFaults = 0, opens
         PROVE  /\ p \in {"open", "none"} /\ Len(mp4s) = Len(all)
                /\ \A j \in 1..Len(all) : RgbRow(mediaFrames, all[j])
    <3>1. p = "open"
      BY <1>3, <2>2, <2>10, PipeOfFlush
    <3>2. Len(mp4s) = Len(all)
      BY <2>8, <3>1, Zenon DEF TakenRight
    <3>3. \A l \in 1..Len(rgb.infos) : rgb.infos[l].vcl => RgbRow(mediaFrames, rgb.infos[l].n)
      BY <1>1, <2>1, <2>10, Zenon DEF FaultFree
    <3>4. \A m \in 1..k : m \in 1..Len(rgb.infos)
      <4>1. rgb.infos \in Seq(InfoSet)
        BY <2>3, Zenon DEF PendingRight
      <4>2. Len(rgb.infos) \in Nat
        BY <4>1
      <4> QED BY <4>2
    <3>5. \A j \in 1..Len(all) : RgbRow(mediaFrames, all[j])
      BY <2>5, <2>9, <3>3, <3>4, Zenon
    <3> QED BY <3>1, <3>2, <3>5
  <2>11. all \in Seq(Nat) /\ Increasing(all)
    BY <2>5, <2>6, <2>9, Zenon
  <2> QED BY <1>0, <2>8, <2>10, <2>11, Zenon DEF Listed, Sealable
<1>4. CASE ~(flush /\ Media!SinkTakes(p))
  <2>1. st.units = <<>> /\ st.rows = <<>>
    BY <1>4 DEF Media!NothingWritten
  <2>2. UnitsRight(media.mp4) /\ UnitsRight(media.nut)
    BY <1>1, Zenon DEF SinksRight
  <2>3. media.mp4 \o <<>> = media.mp4 /\ media.nut \o <<>> = media.nut /\ rows \o <<>> = rows
    <3>1. media.mp4 \in Seq(UnitSet) /\ media.nut \in Seq(UnitSet)
      BY <2>2, Zenon DEF UnitsRight
    <3> QED BY <1>2, <3>1
  <2>4. mp4s = media.mp4 /\ nuts = media.nut /\ all = rows
    BY <2>1, <2>3, Zenon
  <2> HIDE DEF mp4s, nuts, all
  <2>5. ASSUME mediaFaults = 0, opens
        PROVE  /\ p \in {"open", "none"} /\ Len(mp4s) = Len(all)
               /\ \A j \in 1..Len(all) : RgbRow(mediaFrames, all[j])
    <3>1. /\ mediaPhase = "open" /\ (rgb.writer => pipe = "open")
          /\ \A j \in 1..Len(rows) : RgbRow(mediaFrames, rows[j])
      BY <1>1, <2>5, Zenon DEF FaultFree
    <3>2. p \in {"open", "none"}
      <4>1. CASE flush
        <5>1. BeforeWriter
          BY <1>1, <4>1
        <5> QED BY <2>5, <4>1, <5>1, PipeOfFlush
      <4>2. CASE ~flush
        <5>1. p = pipe
          BY <4>2
        <5>2. pipe \in {"open", "none"}
          <6>1. CASE rgb.writer
            BY <3>1, <6>1
          <6>2. CASE ~rgb.writer
            <7>1. BeforeWriter
              BY <1>1, <6>2
            <7> QED BY <7>1 DEF BeforeWriter
          <6> QED BY <6>1, <6>2
        <5> QED BY <5>1, <5>2
      <4> QED BY <4>1, <4>2
    <3>3. Len(media.mp4) = Len(rows)
      <4>1. CASE rgb.writer
        <5>1. WithWriter
          BY <1>1, <3>1, <4>1
        <5> QED BY <3>1, <4>1, <5>1, Zenon DEF WithWriter, TakenRight
      <4>2. CASE ~rgb.writer
        <5>1. BeforeWriter
          BY <1>1, <4>2
        <5> QED BY <5>1, Zenon DEF BeforeWriter
      <4> QED BY <4>1, <4>2
    <3> QED BY <2>4, <3>1, <3>2, <3>3, Zenon
  <2>6. SinksRight(mediaRecovery, mp4s, nuts, all) /\ all \in Seq(Nat) /\ Increasing(all)
    BY <1>1, <1>2, <2>4, Zenon
  <2> QED BY <1>0, <2>5, <2>6, Zenon DEF Listed, Sealable
<1> QED
  BY <1>3, <1>4, Zenon

\* The depth frames of a segment without faults are those of its parts.
LEMMA CloseDepth ==
    ASSUME NEW s, DepthRight(depth, s),
           NEW d, d = (IF depth.pipe = "none" /\ depth.pending # <<>> THEN Media!FlushDepth(depth) ELSE depth)
    PROVE  Media!Joined(d.parts) = s
<1>1. s \in Seq(Nat)
  BY Zenon DEF DepthRight
<1>2. CASE depth.pipe = "none" /\ depth.parts = <<>> /\ depth.pending = s
  <2>1. CASE s # <<>>
    <3>1. d = Media!FlushDepth(depth)
      BY <1>2, <2>1
    <3>2. d.parts = Append(<<>>, s)
      BY <1>2, <3>1 DEF Media!FlushDepth, Media!NextPart
    <3>3. Append(<<>>, s) = <<s>>
      OBVIOUS
    <3> QED BY <1>1, <3>2, <3>3, JoinedOne, Zenon
  <2>2. CASE s = <<>>
    <3>1. d.parts = <<>>
      BY <1>2, <2>2
    <3> QED BY <2>2, <3>1, JoinedOne, Zenon
  <2> QED BY <2>1, <2>2
<1>3. CASE depth.pipe = "open" /\ depth.parts = <<s>>
  <2>1. d.parts = <<s>>
    <3>1. d = depth
      BY <1>3
    <3> QED BY <1>3, <3>1, Zenon
  <2> QED BY <1>1, <2>1, JoinedOne, Zenon
<1> QED
  BY <1>2, <1>3, Zenon DEF DepthRight

\* A container with right units under a record that matches it matches the merged table.
LEMMA PublishedRight ==
    ASSUME NEW recs \in Seq(Nat), mediaFrames \in Seq(FrameRowSet), Rising(mediaFrames),
           NEW units, UnitsRight(units), Aligned(units, recs)
    PROVE  LET out == Media!Merged(recs)
           IN  /\ \A i \in DOMAIN out :
                     out[i].stream = "rgb" /\ out[i].index \in DOMAIN units => units[out[i].index].n = out[i].n
               /\ \A i \in DOMAIN units : Media!IsUnit(units[i].nals)
               /\ units # <<>> => Media!DecodableStart(units[1].nals) = 1
               /\ Media!Streamed(out, "depth") = Media!Streamed(mediaFrames, "depth")
               /\ /\ Increasing(recs) /\ Len(units) = Len(recs)
                  /\ \A j \in 1..Len(recs) : RgbRow(mediaFrames, recs[j])
                  => Media!Streamed(out, "rgb") = [i \in DOMAIN units |-> units[i].n]
<1> DEFINE out == Media!Merged(recs)
<1>1. /\ units \in Seq(UnitSet) /\ \A i \in 1..Len(units) : Media!IsUnit(units[i].nals)
      /\ units # <<>> => Media!DecodableStart(units[1].nals) = 1
  BY Zenon DEF UnitsRight
<1>2. DOMAIN units = 1..Len(units)
  BY <1>1
<1>3. /\ out \in Seq(RowSet) /\ IndexRight(out, recs)
      /\ Media!Streamed(out, "depth") = Media!Streamed(mediaFrames, "depth")
      /\ /\ Increasing(recs)
         /\ \A j \in 1..Len(recs) :
               \E m \in 1..Len(mediaFrames) : mediaFrames[m].stream = "rgb" /\ mediaFrames[m].n = recs[j]
         => Media!Streamed(out, "rgb") = recs
  BY MergedRight, Zenon
<1> HIDE DEF out
<1>4. DOMAIN out = 1..Len(out)
  BY <1>3
<1>5. ASSUME NEW i \in DOMAIN out, out[i].stream = "rgb", out[i].index \in DOMAIN units
      PROVE  units[out[i].index].n = out[i].n
  <2>1. out[i].index \in 1..Len(recs) /\ recs[out[i].index] = out[i].n
    BY <1>3, <1>4, <1>5, Zenon DEF IndexRight
  <2>2. units[out[i].index].n = recs[out[i].index]
    BY <1>2, <1>5, <2>1, Zenon DEF Aligned
  <2> QED BY <2>1, <2>2, Zenon
<1>6. ASSUME Increasing(recs), Len(units) = Len(recs), \A j \in 1..Len(recs) : RgbRow(mediaFrames, recs[j])
      PROVE  Media!Streamed(out, "rgb") = [i \in DOMAIN units |-> units[i].n]
  <2>1. Media!Streamed(out, "rgb") = recs
    BY <1>3, <1>6, Zenon DEF RgbRow
  <2>2. recs = [i \in 1..Len(recs) |-> recs[i]]
    OBVIOUS
  <2>3. \A i \in 1..Len(recs) : units[i].n = recs[i]
    BY <1>6, Zenon DEF Aligned
  <2>4. [i \in 1..Len(recs) |-> recs[i]] = [i \in DOMAIN units |-> units[i].n]
    BY <1>2, <1>6, <2>3
  <2> QED BY <2>1, <2>2, <2>4, Zenon
<1> QED
  BY <1>1, <1>2, <1>3, <1>5, <1>6, Zenon DEF out

\* close() publishes what matches, or nothing.
LEMMA CloseSeals ==
    ASSUME MediaBody, Media!Close
    PROVE  Media!IndexMatchesMedia' /\ mediaPhase' = "closed"
<1>1. PICK opens \in BOOLEAN, k \in 0..Len(rgb.infos), readable, rebuilt, whole \in BOOLEAN :
       LET flush  == ~rgb.writer /\ rgb.hasStart
           p      == IF flush THEN Media!PipeAfter(opens) ELSE pipe
           throws == flush /\ (k < Len(rgb.infos) \/ ~Media!SinkTakes(p))
           st     == IF flush /\ Media!SinkTakes(p) THEN Media!FlushFirst(rgb)[k] ELSE Media!NothingWritten
           mp4    == IF p = "open" THEN media.mp4 \o st.units ELSE media.mp4
           nut    == IF mediaRecovery THEN media.nut \o st.units ELSE media.nut
           left   == ~throws /\ depth.pipe = "none" /\ depth.pending # <<>>
           broke  == p \in {"broken", "failed"}
           usable == ~broke \/ readable
           again  == broke /\ rebuilt /\ nut # <<>>
       IN  /\ (flush \/ (opens /\ k = 0)) /\ (left \/ whole)
           /\ IF throws \/ ~opens \/ ~whole THEN mediaFaults < MaxMediaFaults /\ mediaFaults' = mediaFaults + 1
              ELSE UNCHANGED mediaFaults
           /\ rows' = rows \o st.rows
           /\ media' = [mp4 |-> mp4, nut |-> nut]
           /\ depth' \in IF left THEN Media!DepthClosed(whole) ELSE {depth}
           /\ final' = IF again \/ usable \/ mp4 = <<>>
                       THEN [frames |-> Media!Merged(rows \o st.rows), published |-> TRUE,
                             rgb |-> IF again THEN nut ELSE IF usable THEN mp4 ELSE <<>>,
                             depth |-> Media!Joined(depth'.parts)]
                       ELSE Media!NoFinal
  BY Zenon DEF Media!Close
<1> DEFINE flush  == ~rgb.writer /\ rgb.hasStart
           p      == IF flush THEN Media!PipeAfter(opens) ELSE pipe
           throws == flush /\ (k < Len(rgb.infos) \/ ~Media!SinkTakes(p))
           st     == IF flush /\ Media!SinkTakes(p) THEN Media!FlushFirst(rgb)[k] ELSE Media!NothingWritten
           mp4    == IF p = "open" THEN media.mp4 \o st.units ELSE media.mp4
           nut    == IF mediaRecovery THEN media.nut \o st.units ELSE media.nut
           left   == ~throws /\ depth.pipe = "none" /\ depth.pending # <<>>
           broke  == p \in {"broken", "failed"}
           usable == ~broke \/ readable
           again  == broke /\ rebuilt /\ nut # <<>>
           recs   == rows \o st.rows
           units  == IF again THEN nut ELSE IF usable THEN mp4 ELSE <<>>
           s      == Media!Streamed(mediaFrames, "depth")
<1>2. /\ IF throws \/ ~opens \/ ~whole THEN mediaFaults < MaxMediaFaults /\ mediaFaults' = mediaFaults + 1
         ELSE mediaFaults' = mediaFaults
      /\ \/ final' = Media!NoFinal
         \/ final' = [frames |-> Media!Merged(recs), published |-> TRUE, rgb |-> units,
                      depth |-> Media!Joined(depth'.parts)]
  BY <1>1, Zenon
<1>3. /\ mediaFaults \in Nat /\ FramesRight(mediaFrames, mediaCount) /\ (mediaFaults = 0 => FaultFree)
      /\ mediaPhase' = "closed"
  BY Zenon DEF MediaBody, Media!Close
<1>4. mediaFrames \in Seq(FrameRowSet) /\ Rising(mediaFrames)
  BY <1>3, Zenon DEF FramesRight
<1>5. /\ SinksRight(mediaRecovery, mp4, nut, recs)
      /\ recs \in Seq(Nat) /\ Increasing(recs)
      /\ mediaFaults = 0 /\ opens =>
            /\ p \in {"open", "none"} /\ Len(mp4) = Len(recs)
            /\ \A j \in 1..Len(recs) : RgbRow(mediaFrames, recs[j])
  <2>2. p = (IF ~rgb.writer /\ rgb.hasStart THEN Media!PipeAfter(opens) ELSE pipe)
    OBVIOUS
  <2>3. st = (IF (~rgb.writer /\ rgb.hasStart) /\ Media!SinkTakes(p) THEN Media!FlushFirst(rgb)[k] ELSE Media!NothingWritten)
    OBVIOUS
  <2> HIDE DEF flush, p, st
  <2>4. opens \in BOOLEAN /\ k \in 0..Len(rgb.infos)
    OBVIOUS
  <2>5. mp4 = (IF p = "open" THEN media.mp4 \o st.units ELSE media.mp4)
        /\ nut = (IF mediaRecovery THEN media.nut \o st.units ELSE media.nut) /\ recs = rows \o st.rows
    OBVIOUS
  <2> HIDE DEF mp4, nut, recs
  <2>6. Sealable(opens, p, mp4, nut, recs)
    BY <2>2, <2>3, <2>4, <2>5, CloseSinks, Zenon
  <2> QED BY <2>6, Zenon DEF Sealable, Listed
<1>6. mediaFaults' = 0 => mediaFaults = 0 /\ opens /\ ~throws /\ whole
  <2> HIDE DEF throws
  <2> QED BY <1>2, <1>3
<1>7. ASSUME mediaFaults = 0, ~throws, whole PROVE Media!Joined(depth'.parts) = s
  <2>1. DepthRight(depth, s)
    BY <1>3, <1>7, Zenon DEF FaultFree
  <2>2. depth' \in IF left THEN Media!DepthClosed(whole) ELSE {depth}
    BY <1>1, Zenon
  <2>3. left = (depth.pipe = "none" /\ depth.pending # <<>>)
    BY <1>7
  <2> HIDE DEF left, s
  <2>4. depth' = (IF depth.pipe = "none" /\ depth.pending # <<>> THEN Media!FlushDepth(depth) ELSE depth)
    BY <1>7, <2>2, <2>3 DEF Media!DepthClosed
  <2> QED BY <2>1, <2>4, CloseDepth, Zenon
<1>8. mediaFaults = 0 /\ opens => units = mp4
  <2> SUFFICES ASSUME mediaFaults = 0, opens PROVE units = mp4
    OBVIOUS
  <2>1. p \in {"open", "none"}
    BY <1>5, Zenon
  <2>2. ~broke
    <3> HIDE DEF p
    <3> QED BY <2>1
  <2> HIDE DEF broke, mp4, nut
  <2> QED BY <2>2
<1>9. UnitsRight(units) /\ Aligned(units, recs)
  <2>1. units = nut \/ units = mp4 \/ units = <<>>
    <3> HIDE DEF again, usable, nut, mp4
    <3> QED OBVIOUS
  <2> HIDE DEF units, nut, mp4, recs
  <2>2. UnitsRight(mp4) /\ Aligned(mp4, recs) /\ UnitsRight(nut) /\ Aligned(nut, recs)
    BY <1>5, Zenon DEF SinksRight
  <2> QED BY <2>1, <2>2, NoUnits, Zenon
<1> HIDE DEF recs, units, mp4, nut, p, throws, st, left, s
<1>10. CASE final' = Media!NoFinal
  BY <1>3, <1>10, NothingPublished, Zenon
<1>11. CASE final' = [frames |-> Media!Merged(recs), published |-> TRUE, rgb |-> units,
                      depth |-> Media!Joined(depth'.parts)]
  <2> DEFINE out == Media!Merged(recs)
  <2>1. final'.frames = out /\ final'.rgb = units /\ final'.depth = Media!Joined(depth'.parts)
    BY <1>11
  <2>2. /\ \A i \in DOMAIN out :
              out[i].stream = "rgb" /\ out[i].index \in DOMAIN units => units[out[i].index].n = out[i].n
        /\ \A i \in DOMAIN units : Media!IsUnit(units[i].nals)
        /\ units # <<>> => Media!DecodableStart(units[1].nals) = 1
        /\ Media!Streamed(out, "depth") = s
        /\ /\ Increasing(recs) /\ Len(units) = Len(recs)
           /\ \A j \in 1..Len(recs) : RgbRow(mediaFrames, recs[j])
           => Media!Streamed(out, "rgb") = [i \in DOMAIN units |-> units[i].n]
    BY <1>4, <1>5, <1>9, PublishedRight, Zenon DEF s
  <2> HIDE DEF out
  <2>3. ASSUME mediaFaults' = 0
        PROVE  /\ Media!Streamed(out, "rgb") = [i \in DOMAIN units |-> units[i].n]
               /\ Media!Streamed(out, "depth") = Media!Joined(depth'.parts)
    <3>1. mediaFaults = 0 /\ opens /\ ~throws /\ whole
      BY <1>6, <2>3
    <3>2. Increasing(recs) /\ Len(units) = Len(recs) /\ \A j \in 1..Len(recs) : RgbRow(mediaFrames, recs[j])
      BY <1>5, <1>8, <3>1, Zenon
    <3>3. Media!Joined(depth'.parts) = s
      BY <1>7, <3>1, Zenon
    <3> QED BY <2>2, <3>2, <3>3, Zenon
  <2>4. Media!IndexMatchesMedia'
    BY <2>1, <2>2, <2>3, Zenon DEF Media!IndexMatchesMedia
  <2> QED BY <1>3, <2>4
<1> QED
  BY <1>2, <1>10, <1>11, Zenon

\* A new segment.
LEMMA MediaStarts ==
    ASSUME Media!Init
    PROVE  MediaInv
<1>1. /\ mediaRecovery \in BOOLEAN
      /\ rgb = [pending |-> <<>>, infos |-> <<>>, hasStart |-> FALSE, writer |-> FALSE, prefix |-> <<>>]
      /\ media = [mp4 |-> <<>>, nut |-> <<>>] /\ pipe = "none"
      /\ depth = [pending |-> <<>>, parts |-> <<>>, pipe |-> "none"]
      /\ rows = <<>> /\ mediaFrames = <<>>
      /\ mediaPhase = "open" /\ final = Media!NoFinal
      /\ mediaCount = 0 /\ mediaFaults = 0
  BY Zenon DEF Media!Init
<1>2. /\ rgb.pending = <<>> /\ rgb.infos = <<>> /\ rgb.prefix = <<>> /\ rgb.hasStart = FALSE
      /\ rgb.writer = FALSE /\ media.mp4 = <<>> /\ media.nut = <<>>
  BY <1>1
<1>3. depth.pending = <<>> /\ depth.parts = <<>> /\ depth.pipe = "none"
  BY <1>1
<1>4. <<>> \in Seq(Nat) /\ <<>> \in Seq(NalUnits) /\ <<>> \in Seq(InfoSet) /\ <<>> \in Seq(FrameRowSet)
      /\ 1..Len(<<>>) = {}
  OBVIOUS
<1>5. mediaCount \in Nat /\ mediaFaults \in Nat /\ mediaPhase = "open"
  BY <1>1
<1>6. SinksRight(mediaRecovery, media.mp4, media.nut, rows)
  BY <1>2, NoUnits, Zenon DEF SinksRight
<1>7. RowsRight(rows, mediaCount)
  BY <1>1, <1>4, Zenon DEF RowsRight, Increasing
<1>8. FramesRight(mediaFrames, mediaCount)
  BY <1>1, <1>4, Zenon DEF FramesRight, Rising
<1>9. PendingRight(rgb)
  <2>1. rgb.hasStart \in BOOLEAN
    BY <1>2
  <2>2. ~rgb.hasStart
    BY <1>2
  <2> QED BY <1>2, <1>4, <2>1, <2>2, NothingSliced, Zenon DEF PendingRight
<1>10. BeforeWriter
  BY <1>1, <1>2, <1>4, <1>9, Zenon DEF BeforeWriter
<1>11. ~rgb.writer /\ rgb.writer \in BOOLEAN
  BY <1>2
<1>12. FaultFree
  <2>1. DepthRight(depth, Media!Streamed(mediaFrames, "depth"))
    <3>1. Media!Streamed(mediaFrames, "depth") = <<>>
      BY <1>1, StreamedNothing, Zenon
    <3> QED BY <1>3, <1>4, <3>1, Zenon DEF DepthRight
  <2> QED BY <1>1, <1>2, <1>4, <1>11, <2>1, Zenon DEF FaultFree
<1>13. MediaBody
  BY <1>1, <1>5, <1>6, <1>7, <1>8, <1>10, <1>11, <1>12, Zenon DEF MediaBody
<1>14. Media!IndexMatchesMedia
  <2>1. ~final.published
    BY <1>1 DEF Media!NoFinal
  <2> QED BY <2>1, Zenon DEF Media!IndexMatchesMedia
<1> QED
  BY <1>5, <1>13, <1>14 DEF MediaInv

\* Every step keeps the invariant.
LEMMA MediaStep ==
    ASSUME MediaConstants, MediaInv, [Media!Next]_Media!vars
    PROVE  MediaInv'
<1>1. ASSUME MediaBody', mediaPhase' \in {"open", "failed"}
      PROVE  MediaInv'
  <2>1. final' = Media!NoFinal
    BY <1>1, Zenon DEF MediaBody, Media!NoFinal
  <2>2. Media!IndexMatchesMedia'
    BY <2>1, NothingPublished, Zenon
  <2> QED BY <1>1, <2>2 DEF MediaInv
<1>2. mediaPhase \in {"open", "failed"} => MediaBody
  BY DEF MediaInv
<1>3. CASE Media!WriteRgbPacket
  <2>1. /\ mediaPhase = "open" /\ mediaCount' = mediaCount + 1
        /\ mediaRecovery' = mediaRecovery /\ depth' = depth /\ final' = final
    BY <1>3, Zenon DEF Media!WriteRgbPacket
  <2>2. PICK q \in MediaPayloads :
            \/ Media!Hold(mediaCount', q) \/ Media!Flush(mediaCount', q) \/ Media!Write(mediaCount', q)
    BY <1>3, Zenon DEF Media!WriteRgbPacket
  <2>3. MediaBody
    BY <1>2, <2>1
  <2>4. CASE Media!Hold(mediaCount', q)
    <3>1. MediaBody' /\ mediaPhase' = "open"
      BY <2>1, <2>3, <2>4, HoldKeeps, Zenon
    <3> QED BY <1>1, <3>1
  <2>5. CASE Media!Flush(mediaCount', q)
    BY <1>1, <2>1, <2>3, <2>5, FlushKeeps, Zenon
  <2>6. CASE Media!Write(mediaCount', q)
    BY <1>1, <2>1, <2>3, <2>6, WriteKeeps, Zenon
  <2> QED BY <2>2, <2>4, <2>5, <2>6
<1>4. CASE Media!WriteDepthPacket
  <2>1. mediaPhase = "open"
    BY <1>4, Zenon DEF Media!WriteDepthPacket
  <2>2. MediaBody
    BY <1>2, <2>1
  <2> QED BY <1>1, <1>4, <2>2, DepthKeeps, Zenon
<1>5. CASE Media!PipeBreaks
  <2>1. mediaPhase = "open"
    BY <1>5, Zenon DEF Media!PipeBreaks
  <2>2. MediaBody
    BY <1>2, <2>1
  <2>3. MediaBody' /\ mediaPhase' = "open"
    BY <1>5, <2>2, BreaksKeeps, Zenon
  <2> QED BY <1>1, <2>3
<1>6. CASE Media!Close
  <2>1. mediaPhase \in {"open", "failed"}
    BY <1>6, Zenon DEF Media!Close
  <2>2. MediaBody
    BY <1>2, <2>1
  <2>3. Media!IndexMatchesMedia' /\ mediaPhase' = "closed"
    BY <1>6, <2>2, CloseSeals, Zenon
  <2> QED BY <2>3 DEF MediaInv
<1>7. CASE UNCHANGED Media!vars
  <2>1. /\ mediaRecovery' = mediaRecovery /\ rgb' = rgb /\ media' = media /\ pipe' = pipe
        /\ depth' = depth /\ rows' = rows /\ mediaFrames' = mediaFrames /\ mediaPhase' = mediaPhase
        /\ final' = final /\ mediaCount' = mediaCount /\ mediaFaults' = mediaFaults
    BY <1>7 DEF Media!vars
  <2>2. Media!IndexMatchesMedia'
    BY <2>1, Zenon DEF MediaInv, Media!IndexMatchesMedia
  <2>3. mediaPhase' # "closed" => MediaBody'
    BY <2>1, Zenon DEF MediaInv, MediaBody, BeforeWriter, WithWriter, FaultFree
  <2>4. mediaPhase' \in {"open", "failed", "closed"}
    BY <2>1 DEF MediaInv
  <2> QED BY <2>2, <2>3, <2>4 DEF MediaInv
<1> QED
  BY <1>3, <1>4, <1>5, <1>6, <1>7 DEF Media!Next

\* For every set of payloads that have their pictures last, whatever is held back, whichever
\* pipe breaks and whichever write throws: in a published segment an RGB row of frames.csv
\* names its frame in the container, the first frame can be decoded on its own and each is
\* what one packet brought; without faults the rows are the frames.
THEOREM IndexMatches == ASSUME MediaConstants PROVE Media!Spec => []IndexMatchesMedia
<1>1. Media!Init => MediaInv
  BY MediaStarts
<1>2. MediaInv /\ [Media!Next]_Media!vars => MediaInv'
  BY MediaStep
<1>3. MediaInv => Media!IndexMatchesMedia
  BY DEF MediaInv
<1> QED
  BY <1>1, <1>2, <1>3, PTL DEF Media!Spec, IndexMatchesMedia
=============================================================================
